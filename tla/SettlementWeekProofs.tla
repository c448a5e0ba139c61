------------------------ MODULE SettlementWeekProofs ------------------------
(***************************************************************************)
(* Proofs about SettlementWeek, for any number of weeks, ledger rows,      *)
(* generators and outside events.                                          *)
(*                                                                         *)
(* Inv, the inductive invariant: the types; and, as long as nothing worse  *)
(* than crashes has happened (Calm), what a generator knows where it       *)
(* stands (Knows), what the lock of a week says (Locked) and that two      *)
(* generators never carry with the same rows (Apart).  A generator at work *)
(* holds its week's lock, which keeps everybody else from that week's rows *)
(* and status, so the rows it read are still the week's when it saves; and *)
(* without a crash a week not locked is a week whose totals are right.     *)
(* Inv never looks at the sum of a set of rows, so amounts have no type in *)
(* it: what a generator carries is some value d (TaskWith).                *)
(*                                                                         *)
(* Books, on top of Inv: the amounts balance.  It is inductive as long as  *)
(* nothing at all has gone wrong, and rests on what the sum of a finite    *)
(* set is (SumAdd and the lemmas about it), proved from the definition of  *)
(* the fold in FiniteSetsExt.                                              *)
(***************************************************************************)
EXTENDS SettlementWeek, FiniteSetTheorems, TLAPS

TaskWith(d) ==
    [pc : Pcs, w : Weeks, delta : {d}, held : BOOLEAN, cand : SUBSET Rows, left : SUBSET Rows,
     claimed : SUBSET Rows, made : SUBSET Rows, rows : SUBSET Rows, pair : SUBSET Rows,
     half : SUBSET Rows]
Loose(v) == \E d : v \in TaskWith(d)

Types ==
    /\ sid \in [Rows -> {Free, Unwritten, Gone} \union Weeks]
    /\ status \in [Weeks -> Statuses]
    /\ manual \in [Weeks -> BOOLEAN]
    /\ lock \in [Weeks -> Tasks \union {None, Dead}]
    /\ late \in [Weeks -> BOOLEAN]
    /\ summed \in [Weeks -> SUBSET Rows]
    /\ task = [t \in Tasks |-> task[t]]
    /\ \A t \in Tasks : Loose(task[t])

\* Nothing but crashes so far.
Calm == mishaps \subseteq {"crash"}

Working == {"candidates", "claim", "claimed", "read", "drop", "carry", "reread", "save"}
Resting == {"idle", "find", "lock", "release"}

\* What generator t knows.
Knows(t) ==
    /\ task[t].pc \in Working \union Resting
    /\ task[t].pc \in Working =>
        lock[task[t].w] = t /\ ~late[task[t].w] /\ status[task[t].w] \in Open
    /\ task[t].pc = "save" => task[t].rows = Attached(task[t].w)
    /\ task[t].pc = "drop" => Attached(task[t].w) = {}
    /\ task[t].pc = "carry" =>
        task[t].half \subseteq task[t].pair /\ \A r \in task[t].half : sid[r] = Unwritten

\* What the lock of week w says of it.
Locked(w) ==
    /\ late[w] => lock[w] = Dead
    /\ lock[w] \in Tasks => task[lock[w]].pc \in Working /\ task[lock[w]].w = w
    /\ summed[w] \subseteq Attached(w)
    /\ mishaps = {} =>
        /\ lock[w] # Dead
        /\ lock[w] = None => summed[w] = Attached(w)
        /\ Frozen(w) => lock[w] = None

Apart == \A t, u \in Tasks : t # u => task[t].pair \intersect task[u].pair = {}

Inv ==
    /\ Types
    /\ Calm => /\ \A t \in Tasks : Knows(t)
               /\ \A w \in Weeks : Locked(w)
               /\ Apart

USE WeeksAssumption, TokensAssumption

-----------------------------------------------------------------------------
LEMMA WeeksOK == 1 \in Weeks /\ \A w \in Weeks : w \notin {Free, Unwritten, Gone}
BY DEF Weeks, Free, Unwritten, Gone

LEMMA IdleOK == Idle \in TaskWith(0) /\ Loose(Idle) /\ Idle.pc = "idle" /\ Idle.pair = {}
<1>1. Idle \in TaskWith(0)
  BY WeeksOK DEF Idle, TaskWith, Pcs
<1> QED
  BY <1>1 DEF Loose, Idle

LEMMA BecomeOK ==
    ASSUME Types, NEW t \in Tasks, NEW v, Loose(v), Become(t, v)
    PROVE  /\ task' = [u \in Tasks |-> task'[u]] /\ \A u \in Tasks : Loose(task'[u])
           /\ task'[t] = v
           /\ \A u \in Tasks : u # t => task'[u] = task[u]
BY DEF Types, Become

\* New rows are rows nobody has written or is about to write.
LEMMA FreshOK ==
    ASSUME NEW n, NEW S \in Fresh(n)
    PROVE  /\ S \subseteq Rows
           /\ \A r \in S : sid[r] = Unwritten /\ \A u \in Tasks : r \notin task[u].pair
BY DEF Fresh, Unused

\* The initial states satisfy the invariant.
THEOREM InitInv == Init => Inv
<1> SUFFICES ASSUME Init PROVE Inv
  OBVIOUS
<1>1. Types
  BY IdleOK DEF Init, Types, Statuses
<1>2. \A t \in Tasks : Knows(t)
  BY IdleOK DEF Init, Knows, Working, Resting
<1>3. ASSUME NEW w \in Weeks PROVE Locked(w)
  <2>1. Attached(w) = {}
    BY WeeksOK DEF Init, Attached
  <2>2. ~Frozen(w) /\ summed[w] = {} /\ lock[w] = None /\ ~late[w]
    BY DEF Init, Frozen
  <2> QED
    BY <2>1, <2>2 DEF Locked
<1>4. Apart
  BY IdleOK DEF Init, Apart
<1> QED
  BY <1>1, <1>2, <1>3, <1>4 DEF Inv

-----------------------------------------------------------------------------
(* What a step leaves alone.                                               *)

\* Week w looks the same to the generator that holds its lock.
Kept(w) ==
    /\ lock'[w] = lock[w] /\ late'[w] = late[w]
    /\ status[w] \in Open => status'[w] \in Open
    /\ Attached(w)' = Attached(w)

\* A row nobody has written, which generator u may be about to, stays so.
Spared(u) == \A r \in task[u].pair : sid[r] = Unwritten => sid'[r] = Unwritten

LEMMA KnowsStays ==
    ASSUME Types, NEW u \in Tasks, Knows(u), task'[u] = task[u], Spared(u),
           \A w \in Weeks : lock[w] = u => Kept(w)
    PROVE  Knows(u)'
<1>1. task[u].w \in Weeks
  BY DEF Types, Loose, TaskWith
<1>2. CASE task[u].pc \in Working
  <2>1. Kept(task[u].w)
    BY <1>1, <1>2 DEF Knows
  <2> QED
    BY <1>2, <2>1 DEF Knows, Kept, Spared, Working
<1>3. CASE task[u].pc \notin Working
  BY <1>3 DEF Knows, Working
<1> QED
  BY <1>2, <1>3

\* A step of the outside: rows nobody waits for, and weeks nobody holds.
LEMMA OutsideOK ==
    ASSUME Inv, Types', UNCHANGED task, mishaps \subseteq mishaps',
           Calm => \A u \in Tasks : Spared(u),
           Calm => \A w \in Weeks : lock[w] \in Tasks => Kept(w),
           Calm' => \A w \in Weeks : Locked(w)'
    PROVE  Inv'
<1> SUFFICES ASSUME Calm' PROVE (\A t \in Tasks : Knows(t)') /\ Apart'
  BY DEF Inv
<1>1. Calm
  BY DEF Calm
<1>2. \A t \in Tasks : Knows(t)'
  BY <1>1, KnowsStays DEF Inv
<1>3. Apart'
  BY <1>1 DEF Inv, Apart
<1> QED
  BY <1>2, <1>3

\* A step of generator t.
LEMMA HandlerOK ==
    ASSUME Inv, Types', NEW t \in Tasks, NEW v, Loose(v), Become(t, v), UNCHANGED mishaps,
           Calm => \A u \in Tasks : u # t => Spared(u),
           Calm => \A w \in Weeks : lock[w] \in Tasks \ {t} => Kept(w),
           Calm => Knows(t)' /\ \A w \in Weeks : Locked(w)',
           \/ v.pair \subseteq task[t].pair
           \/ \A u \in Tasks : v.pair \intersect task[u].pair = {}
    PROVE  Inv'
<1>1. task'[t] = v /\ \A u \in Tasks : u # t => task'[u] = task[u]
  BY BecomeOK DEF Inv
<1> SUFFICES ASSUME Calm PROVE (\A u \in Tasks : Knows(u)') /\ Apart'
  BY DEF Inv, Calm
<1>2. ASSUME NEW u \in Tasks PROVE Knows(u)'
  <2>1. CASE u = t
    BY <2>1
  <2>2. CASE u # t
    BY <1>1, <2>2, KnowsStays DEF Inv
  <2> QED
    BY <2>1, <2>2
<1>3. Apart'
  <2> SUFFICES ASSUME NEW x \in Tasks, NEW y \in Tasks, x # y
               PROVE  task'[x].pair \intersect task'[y].pair = {}
    BY DEF Apart
  <2>1. task[x].pair \intersect task[y].pair = {}
    BY DEF Inv, Apart
  <2>2. CASE x = t
    BY <1>1, <2>1, <2>2
  <2>3. CASE y = t
    BY <1>1, <2>1, <2>3
  <2>4. CASE x # t /\ y # t
    BY <1>1, <2>1, <2>4
  <2> QED
    BY <2>2, <2>3, <2>4
<1> QED
  BY <1>2, <1>3

\* A step of t that only moves t.
LEMMA MoveOK ==
    ASSUME Inv, NEW t \in Tasks, NEW v, Loose(v), Become(t, v),
           UNCHANGED <<sid, status, manual, lockVars, summed, mishaps>>,
           Calm => /\ task[t].pc \in Working => v.pc \in Working /\ v.w = task[t].w
                   /\ Knows(t)',
           \/ v.pair \subseteq task[t].pair
           \/ \A u \in Tasks : v.pair \intersect task[u].pair = {}
    PROVE  Inv'
<1>1. task'[t] = v /\ \A u \in Tasks : u # t => task'[u] = task[u]
  BY BecomeOK DEF Inv
<1>2. Types'
  BY BecomeOK DEF Inv, Types, lockVars
<1>3. \A w \in Weeks : Attached(w)' = Attached(w) /\ Frozen(w)' = Frozen(w)
  BY DEF Attached, Frozen
<1>4. \A u \in Tasks : Spared(u)
  BY DEF Spared
<1>5. \A w \in Weeks : Kept(w)
  BY <1>3 DEF Kept, lockVars
<1>6. ASSUME Calm, NEW w \in Weeks PROVE Locked(w)'
  <2>1. Locked(w)
    BY <1>6 DEF Inv
  <2>2. lock[w] = t => v.pc \in Working /\ v.w = w
    BY <1>6, <2>1 DEF Locked
  <2> QED
    BY <1>1, <1>3, <2>1, <2>2 DEF Locked, lockVars
<1> QED
  BY <1>2, <1>4, <1>5, <1>6, HandlerOK

-----------------------------------------------------------------------------
(* The ledger and the administrators.                                      *)

\* A step that only writes rows nobody had written, and puts them in no week.
LEMMA NewRowsOK ==
    ASSUME Inv, NEW n, NEW S \in Fresh(n), NEW r \in S, sid' = [sid EXCEPT ![r] = Free],
           UNCHANGED <<status, manual, lockVars, summed, task, mishaps>>
    PROVE  Inv'
<1>1. r \in Rows /\ sid[r] = Unwritten /\ \A u \in Tasks : r \notin task[u].pair
  BY FreshOK
<1>2. Types'
  BY <1>1 DEF Inv, Types, lockVars
<1>3. \A w \in Weeks : Attached(w)' = Attached(w)
  BY <1>1, WeeksOK DEF Inv, Types, Attached
<1>4. \A u \in Tasks : Spared(u)
  BY <1>1 DEF Inv, Types, Spared
<1>5. \A w \in Weeks : Kept(w)
  BY <1>3 DEF Kept, lockVars
<1>6. Calm => \A w \in Weeks : Locked(w)'
  BY <1>3 DEF Inv, Locked, Frozen, lockVars
<1> QED
  BY <1>2, <1>4, <1>5, <1>6, OutsideOK DEF Calm

LEMMA EarnOK == ASSUME Inv, Earn PROVE Inv'
<1>1. PICK S \in Fresh(1) : \E r \in S : sid' = [sid EXCEPT ![r] = Free]
  BY DEF Earn
<1> QED
  BY <1>1, NewRowsOK DEF Earn

LEMMA CreditFailedOK == ASSUME Inv, NEW w \in Weeks, CreditFailed(w) PROVE Inv'
<1>1. PICK S \in Fresh(1) : \E r \in S : sid' = [sid EXCEPT ![r] = Free]
  BY DEF CreditFailed
<1> QED
  BY <1>1, NewRowsOK DEF CreditFailed

\* A step that only writes the status of a week: never of one that a generator holds, unless it
\* stays open; and once approved only when not locked.
LEMMA StatusOK ==
    ASSUME Inv, NEW w \in Weeks, NEW x \in Statuses, status' = [status EXCEPT ![w] = x],
           manual' \in [Weeks -> BOOLEAN],
           UNCHANGED <<rowVars, lockVars, summed, task, mishaps>>,
           status[w] \in Open => x \in Open \/ LockFree(w),
           Frozen(w)' => Frozen(w) \/ LockFree(w)
    PROVE  Inv'
<1>1. Types'
  BY DEF Inv, Types, lockVars, rowVars
<1>2. \A y \in Weeks : Attached(y)' = Attached(y)
  BY DEF Attached, rowVars
<1>3. \A u \in Tasks : Spared(u)
  BY DEF Spared, rowVars
<1>4. ASSUME Calm, NEW y \in Weeks, lock[y] \in Tasks PROVE Kept(y)
  <2>1. y = w => ~LockFree(y)
    BY <1>4 DEF Inv, Locked, LockFree
  <2> QED
    BY <1>2, <2>1 DEF Kept, lockVars, Inv, Types
<1>5. ASSUME Calm, NEW y \in Weeks PROVE Locked(y)'
  <2>1. Locked(y)
    BY <1>5 DEF Inv
  <2>2. y # w => Frozen(y)' = Frozen(y)
    BY DEF Frozen, Inv, Types
  <2>3. mishaps = {} /\ Frozen(y)' => lock[y] = None
    <3>1. CASE y = w
      BY <2>1, <3>1 DEF Locked, LockFree
    <3>2. CASE y # w
      BY <2>1, <2>2, <3>2 DEF Locked
    <3> QED
      BY <3>1, <3>2
  <2> QED
    BY <1>2, <2>1, <2>3 DEF Locked, lockVars
<1> QED
  BY <1>1, <1>3, <1>4, <1>5, OutsideOK DEF Calm

LEMMA ScheduleOK == ASSUME Inv, NEW w \in Weeks, Schedule(w) PROVE Inv'
<1>1. LockFree(w) /\ status' = [status EXCEPT ![w] = "approved"] /\ "approved" \in Statuses
  BY DEF Schedule, Schedule_Busy, Statuses
<1> QED
  BY <1>1, StatusOK DEF Schedule, Schedule_Busy, rowVars, lockVars, Inv, Types

LEMMA PayoutOK == ASSUME Inv, NEW w \in Weeks, Payout(w) PROVE Inv'
<1>1. PICK x \in {"approved", "processing", "paid", "failed"} : status' = [status EXCEPT ![w] = x]
  BY DEF Payout
<1>2. status[w] \in {"approved", "processing", "failed"} /\ x \in Statuses
  BY DEF Payout, Statuses
<1>3. Frozen(w) /\ status[w] \notin Open
  BY <1>2 DEF Frozen, Open
<1> QED
  BY <1>1, <1>2, <1>3, StatusOK DEF Payout, Inv, Types

LEMMA HoldOK == ASSUME Inv, NEW w \in Weeks, Hold(w) PROVE Inv'
<1>1. /\ LockFree(w) /\ status' = [status EXCEPT ![w] = "on_hold"] /\ "on_hold" \in Statuses
      /\ manual' \in [Weeks -> BOOLEAN]
  BY DEF Hold, Statuses, Inv, Types
<1> QED
  BY <1>1, StatusOK DEF Hold

LEMMA CloseFailedOK == ASSUME Inv, NEW w \in Weeks, CloseFailed(w) PROVE Inv'
<1>1. /\ status' = [status EXCEPT ![w] = "carried_forward"] /\ "carried_forward" \in Statuses
      /\ Frozen(w) /\ status[w] \notin Open
  BY DEF CloseFailed, Statuses, Frozen, Open
<1> QED
  BY <1>1, StatusOK DEF CloseFailed, Inv, Types

\* A dead generator's lock runs out; a slow one's is beyond calm.
LEMMA ExpireOK == ASSUME Inv, NEW w \in Weeks, Expire(w) PROVE Inv'
<1>1. Types' /\ mishaps \subseteq mishaps'
  BY DEF Expire, Mishap, Inv, Types, rowVars
<1>2. Calm' => lock[w] = Dead
  BY DEF Expire, Mishap, Calm
<1>3. \A y \in Weeks : Attached(y)' = Attached(y) /\ Frozen(y)' = Frozen(y)
  BY DEF Expire, Attached, Frozen, rowVars
<1>4. \A u \in Tasks : Spared(u)
  BY DEF Expire, Spared, rowVars
<1>5. CASE Calm'
  <2>1. Calm
    BY <1>1, <1>5 DEF Calm
  <2>2. ASSUME NEW y \in Weeks, lock[y] \in Tasks PROVE Kept(y)
    <3>1. y # w
      BY <1>2, <1>5, <2>2
    <3> QED
      BY <1>3, <3>1 DEF Expire, Kept, Inv, Types
  <2>3. ASSUME NEW y \in Weeks PROVE Locked(y)'
    <3>1. Locked(y)
      BY <2>1 DEF Inv
    <3>2. y # w => late'[y] = late[y]
      BY DEF Expire, Inv, Types
    <3>3. lock' = lock /\ summed' = summed /\ task' = task
      BY DEF Expire
    <3>4. mishaps' = {} => mishaps = {}
      BY <1>1
    <3> QED
      BY <1>2, <1>3, <1>5, <3>1, <3>2, <3>3, <3>4 DEF Locked
  <2> QED
    BY <1>1, <1>4, <2>2, <2>3, OutsideOK DEF Expire
<1>6. CASE ~Calm'
  BY <1>1, <1>6 DEF Inv
<1> QED
  BY <1>5, <1>6

-----------------------------------------------------------------------------
(* Starting and dying.                                                     *)

\* A handler of week w starts from Idle.
LEMMA StartOK ==
    ASSUME Inv, NEW t \in Tasks, NEW w \in Weeks, At(t, "idle"), manual' \in [Weeks -> BOOLEAN],
           Become(t, [Idle EXCEPT !.pc = "find", !.w = w]),
           UNCHANGED <<rowVars, status, lockVars, summed, mishaps>>
    PROVE  Inv'
<1> DEFINE v == [Idle EXCEPT !.pc = "find", !.w = w]
<1>1. Loose(v) /\ v.pc = "find" /\ v.pair = {}
  <2>1. v \in TaskWith(0)
    BY IdleOK DEF TaskWith, Pcs
  <2> QED
    BY <2>1, IdleOK DEF Loose, TaskWith
<1>2. task'[t] = v /\ \A u \in Tasks : u # t => task'[u] = task[u]
  BY <1>1, BecomeOK DEF Inv
<1>3. Types'
  BY <1>1, BecomeOK DEF Inv, Types, lockVars, rowVars
<1>4. \A y \in Weeks : Attached(y)' = Attached(y) /\ Frozen(y)' = Frozen(y)
  BY DEF Attached, Frozen, rowVars
<1>5. (\A u \in Tasks : Spared(u)) /\ \A y \in Weeks : Kept(y)
  BY <1>4 DEF Spared, Kept, rowVars, lockVars
<1>6. Knows(t)'
  BY <1>1, <1>2 DEF Knows, Working, Resting
<1>7. ASSUME Calm, NEW y \in Weeks PROVE Locked(y)'
  <2>1. Locked(y) /\ lock[y] # t
    BY <1>7 DEF Inv, Locked, At, Working
  <2> QED
    BY <1>2, <1>4, <2>1 DEF Locked, lockVars
<1> HIDE DEF v
<1> QED
  BY <1>1, <1>3, <1>5, <1>6, <1>7, HandlerOK DEF v

LEMMA GenerateOK == ASSUME Inv, NEW t \in Tasks, NEW w \in Weeks, Generate(t, w) PROVE Inv'
BY StartOK DEF Generate, rowVars, lockVars, Inv, Types

LEMMA UnholdOK == ASSUME Inv, NEW t \in Tasks, NEW w \in Weeks, Unhold(t, w) PROVE Inv'
<1>1. manual' \in [Weeks -> BOOLEAN]
  BY DEF Unhold, Inv, Types
<1> QED
  BY <1>1, StartOK DEF Unhold

\* A generator that dies leaves its lock behind.
LEMMA CrashOK == ASSUME Inv, NEW t \in Tasks, Crash(t) PROVE Inv'
<1>1. /\ task'[t] = Idle /\ \A u \in Tasks : u # t => task'[u] = task[u]
      /\ task' = [u \in Tasks |-> task'[u]] /\ \A u \in Tasks : Loose(task'[u])
  BY BecomeOK, IdleOK DEF Crash, Finish, Inv
<1>2. lock' = [w \in Weeks |-> IF lock[w] = t THEN Dead ELSE lock[w]]
  BY DEF Crash
<1>3. Types'
  BY <1>1, <1>2 DEF Crash, Inv, Types, rowVars
<1> SUFFICES ASSUME Calm' PROVE (\A u \in Tasks : Knows(u)') /\ (\A w \in Weeks : Locked(w)') /\ Apart'
  BY <1>3 DEF Inv
<1>4. Calm /\ mishaps' # {}
  BY DEF Crash, Mishap, Calm
<1>5. \A w \in Weeks : Attached(w)' = Attached(w)
  BY DEF Crash, Attached, rowVars
<1>6. ASSUME NEW u \in Tasks PROVE Knows(u)'
  <2>1. CASE u = t
    BY <1>1, <2>1, IdleOK DEF Knows, Working, Resting
  <2>2. CASE u # t
    <3>1. \A w \in Weeks : lock[w] = u => Kept(w)
      BY <1>2, <1>5, <2>2 DEF Crash, Kept
    <3>2. Spared(u)
      BY DEF Crash, Spared, rowVars
    <3> QED
      BY <1>1, <1>4, <2>2, <3>1, <3>2, KnowsStays DEF Inv
  <2> QED
    BY <2>1, <2>2
<1>7. ASSUME NEW w \in Weeks PROVE Locked(w)'
  <2>1. Locked(w) /\ UNCHANGED <<late, summed>>
    BY <1>4 DEF Inv, Crash
  <2>2. CASE lock[w] = t
    BY <1>2, <1>4, <1>5, <2>1, <2>2 DEF Locked
  <2>3. CASE lock[w] # t
    <3>1. lock'[w] = lock[w] /\ (lock[w] \in Tasks => task'[lock[w]] = task[lock[w]])
      BY <1>1, <1>2, <2>3
    <3> QED
      BY <1>4, <1>5, <2>1, <3>1 DEF Locked
  <2> QED
    BY <2>2, <2>3
<1>8. Apart'
  BY <1>1, <1>4, IdleOK DEF Inv, Apart
<1> QED
  BY <1>6, <1>7, <1>8

\* An error is beyond calm.
LEMMA ErrorOK == ASSUME Inv, NEW t \in Tasks, Error(t) PROVE Inv'
<1>1. ~Calm'
  BY DEF Error, Mishap, Calm
<1> DEFINE v == [task[t] EXCEPT !.pc = "undo"]
<1>2. Loose(v)
  BY DEF Inv, Types, Loose, TaskWith, Pcs
<1>3. Types'
  BY <1>2, BecomeOK DEF Error, Goto, Inv, Types, rowVars, lockVars
<1> QED
  BY <1>1, <1>3 DEF Inv

-----------------------------------------------------------------------------
(* Generating a week.                                                      *)

\* The registers of a generator, moved on.
LEMMA RegistersOK ==
    ASSUME Inv, NEW t \in Tasks
    PROVE  /\ task[t].w \in Weeks
           /\ \A pc \in Pcs : LET v == [task[t] EXCEPT !.pc = pc] IN
                /\ Loose(v) /\ v.pc = pc /\ v.w = task[t].w /\ v.pair = task[t].pair
                /\ v.rows = task[t].rows /\ v.half = task[t].half
           /\ task[t].rows \subseteq Rows /\ task[t].pair \subseteq Rows
           /\ task[t].held \in BOOLEAN
<1>1. PICK d : task[t] \in TaskWith(d)
  BY DEF Inv, Types, Loose
<1>2. ASSUME NEW pc \in Pcs
      PROVE  LET v == [task[t] EXCEPT !.pc = pc] IN
             /\ v \in TaskWith(d) /\ v.pc = pc /\ v.w = task[t].w /\ v.pair = task[t].pair
             /\ v.rows = task[t].rows /\ v.half = task[t].half
  BY <1>1 DEF TaskWith
<1> QED
  BY <1>1, <1>2 DEF Loose, TaskWith

\* A step of t in its week: t holds the lock or nobody does, before and after.  The rows of other
\* weeks, and what other generators are about to write, are as they were.
LEMMA OwnWeekOK ==
    ASSUME Inv, Types', NEW t \in Tasks, NEW w0 \in Weeks, w0 = task[t].w,
           NEW v, Loose(v), Become(t, v), UNCHANGED mishaps,
           v.pair \subseteq task[t].pair,
           Calm => \A u \in Tasks : u # t => Spared(u),
           Calm => \A w \in Weeks : w # w0 =>
                        /\ Kept(w) /\ lock[w] # t
                        /\ status'[w] = status[w] /\ summed'[w] = summed[w],
           Calm => (lock[w0] \in Tasks \ {t} => Kept(w0)),
           Calm => Knows(t)' /\ Locked(w0)'
    PROVE  Inv'
<1>1. \A w \in Weeks : Calm /\ lock[w] \in Tasks \ {t} => Kept(w)
  OBVIOUS
<1>2. task'[t] = v /\ \A u \in Tasks : u # t => task'[u] = task[u]
  BY BecomeOK DEF Inv
<1>3. ASSUME Calm, NEW w \in Weeks PROVE Locked(w)'
  <2>1. CASE w = w0
    BY <1>3, <2>1
  <2>2. CASE w # w0
    <3>1. Locked(w) /\ lock[w] # t /\ Kept(w) /\ status'[w] = status[w] /\ summed'[w] = summed[w]
      BY <1>3, <2>2 DEF Inv
    <3>2. lock[w] \in Tasks => task'[lock[w]] = task[lock[w]]
      BY <1>2, <3>1
    <3> QED
      BY <3>1, <3>2 DEF Locked, Kept, Frozen
  <2> QED
    BY <2>1, <2>2
<1> QED
  BY <1>1, <1>3, HandlerOK

\* A generator at rest holds no lock, one at work holds its own.
LEMMA HoldsOK ==
    ASSUME Inv, Calm, NEW t \in Tasks
    PROVE  /\ Knows(t)
           /\ task[t].pc \in Working => \A w \in Weeks : lock[w] = t <=> w = task[t].w
           /\ task[t].pc \notin Working => \A w \in Weeks : lock[w] # t
BY RegistersOK DEF Inv, Knows, Locked

LEMMA FindOrCreateOK == ASSUME Inv, NEW t \in Tasks, FindOrCreate(t) PROVE Inv'
<1> PICK w0 \in Weeks : w0 = task[t].w
  BY RegistersOK
<1>1. /\ task[t].pc = "find"
      /\ status' = [status EXCEPT ![w0] = IF @ = "none" THEN "draft" ELSE @]
      /\ UNCHANGED <<rowVars, manual, lockVars, summed, mishaps>>
  BY DEF FindOrCreate, At
<1>2. PICK v : /\ Become(t, v) /\ Loose(v) /\ v.pair \subseteq task[t].pair
               /\ v.pc \in Resting
  <2>1. CASE Goto(t, "lock")
    <3> DEFINE v == [task[t] EXCEPT !.pc = "lock"]
    <3>1. "lock" \in Pcs
      BY DEF Pcs
    <3>2. Loose(v) /\ v.pair = task[t].pair /\ v.pc = "lock"
      BY <3>1, RegistersOK
    <3>3. Become(t, v)
      BY <2>1 DEF Goto
    <3> HIDE DEF v
    <3> QED
      BY <3>2, <3>3 DEF Resting
  <2>2. CASE Finish(t)
    BY <2>2, IdleOK DEF Finish, Resting
  <2> QED
    BY <2>1, <2>2 DEF FindOrCreate
<1>3. Types'
  BY <1>1, <1>2, BecomeOK DEF Inv, Types, Statuses, rowVars, lockVars
<1>4. \A w \in Weeks : Attached(w)' = Attached(w)
  BY <1>1 DEF Attached, rowVars
<1>5. \A u \in Tasks : Spared(u)
  BY <1>1 DEF Spared, rowVars
<1>6. \A w \in Weeks : Kept(w) /\ (Frozen(w)' <=> Frozen(w))
  BY <1>1, <1>4 DEF Kept, Frozen, Open, lockVars, Inv, Types
<1>7. task'[t] = v /\ \A u \in Tasks : u # t => task'[u] = task[u]
  BY <1>2, BecomeOK DEF Inv
<1>8. Knows(t)'
  BY <1>2, <1>7 DEF Knows, Working, Resting
<1>9. ASSUME Calm, NEW w \in Weeks PROVE Locked(w)'
  <2>1. Locked(w) /\ lock[w] # t
    BY <1>1, <1>9, HoldsOK DEF Inv, Working
  <2> QED
    BY <1>1, <1>4, <1>6, <1>7, <2>1 DEF Locked, lockVars
<1> QED
  BY <1>1, <1>2, <1>3, <1>5, <1>6, <1>8, <1>9, HandlerOK

LEMMA LockOK == ASSUME Inv, NEW t \in Tasks, Lock(t) PROVE Inv'
<1> PICK w0 \in Weeks : w0 = task[t].w
  BY RegistersOK
<1> DEFINE v == [task[t] EXCEPT !.pc = "candidates", !.held = manual[w0]]
<1>1. task[t].pc = "lock"
  BY DEF Lock, At
<1>2. CASE status[w0] \in Open /\ LockFree(w0)
  <2>1. /\ lock' = [lock EXCEPT ![w0] = t] /\ late' = [late EXCEPT ![w0] = FALSE] /\ Become(t, v)
        /\ UNCHANGED <<rowVars, status, manual, summed, mishaps>>
    BY <1>2 DEF Lock
  <2>2. /\ Loose(v) /\ v.pair = task[t].pair /\ v.w = w0 /\ v.pc = "candidates"
    <3>1. PICK d : task[t] \in TaskWith(d)
      BY DEF Inv, Types, Loose
    <3>2. v \in TaskWith(d)
      BY <1>1, <3>1 DEF TaskWith, Pcs, Inv, Types
    <3> QED
      BY <3>1, <3>2 DEF Loose, TaskWith
  <2> HIDE DEF v
  <2>3. Types'
    BY <1>1, <2>1, <2>2, BecomeOK DEF Inv, Types, rowVars
  <2>4. \A w \in Weeks : Attached(w)' = Attached(w)
    BY <2>1 DEF Attached, rowVars
  <2>5. \A u \in Tasks : Spared(u)
    BY <2>1 DEF Spared, rowVars
  <2>6. \A w \in Weeks : w # w0 => Kept(w) /\ status'[w] = status[w] /\ summed'[w] = summed[w]
    BY <2>1, <2>4 DEF Kept, Inv, Types
  <2>7. lock'[w0] = t /\ ~late'[w0] /\ status'[w0] \in Open /\ task'[t] = v
    BY <1>1, <1>2, <2>1, <2>2, BecomeOK DEF Inv, Types
  <2>8. Calm => lock[w0] \notin Tasks
    BY <1>1, <1>2 DEF Inv, Locked, LockFree
  <2>9. Knows(t)'
    BY <2>2, <2>7 DEF Knows, Working
  <2>10. ASSUME Calm PROVE Locked(w0)'
    <3>1. Locked(w0) /\ t # None /\ t # Dead
      BY <1>1, <2>10 DEF Inv
    <3>2. ~Frozen(w0)'
      BY <2>7 DEF Frozen
    <3> QED
      BY <1>1, <2>1, <2>2, <2>4, <2>7, <3>1, <3>2 DEF Locked, Working
  <2>11. Calm => \A w \in Weeks : lock[w] # t
    BY <1>1, HoldsOK DEF Working
  <2> QED
    BY <1>1, <2>1, <2>2, <2>3, <2>5, <2>6, <2>8, <2>9, <2>10, <2>11, OwnWeekOK
<1>3. CASE ~(status[w0] \in Open /\ LockFree(w0))
  <2>1. Become(t, Idle) /\ UNCHANGED <<sid, status, manual, lockVars, summed, mishaps>>
    BY <1>3 DEF Lock, Finish, rowVars
  <2>2. Knows(t)'
    BY <2>1, BecomeOK, IdleOK DEF Inv, Knows, Working, Resting
  <2> QED
    BY <1>1, <2>1, <2>2, IdleOK, MoveOK DEF Working
<1> QED
  BY <1>2, <1>3

LEMMA CandidatesOK == ASSUME Inv, NEW t \in Tasks, Candidates(t) PROVE Inv'
<1> DEFINE cand == {r \in Rows : sid[r] = Free /\ info[r].week <= task[t].w}
           v == [task[t] EXCEPT !.pc = IF cand = {} THEN "read" ELSE "claim",
                                !.cand = cand, !.left = cand]
<1>1. Become(t, v) /\ task[t].pc = "candidates"
  BY DEF Candidates, At
<1>2. Loose(v) /\ v.pair = task[t].pair /\ v.w = task[t].w /\ v.pc \in {"read", "claim"}
  <2>1. PICK d : task[t] \in TaskWith(d)
    BY DEF Inv, Types, Loose
  <2>2. cand \in SUBSET Rows
    OBVIOUS
  <2> HIDE DEF cand
  <2>3. v \in TaskWith(d)
    BY <2>1, <2>2 DEF TaskWith, Pcs
  <2> QED
    BY <2>1, <2>3 DEF Loose, TaskWith
<1> HIDE DEF v
<1>3. Calm => Knows(t)'
  BY <1>1, <1>2, BecomeOK, HoldsOK DEF Inv, Knows, Working, Candidates, lockVars
<1> QED
  BY <1>1, <1>2, <1>3, MoveOK DEF Candidates, Working, rowVars

\* The rows the handler v works for are added to its week, which only its lock's holder may do.
LEMMA ClaimRowOK == ASSUME Inv, NEW t \in Tasks, ClaimRow(t) PROVE Inv'
<1> PICK w0 \in Weeks : w0 = task[t].w
  BY RegistersOK
<1>1. PICK r \in task[t].left :
        /\ sid' = [sid EXCEPT ![r] = IF @ = Free THEN w0 ELSE @]
        /\ Become(t, [task[t] EXCEPT !.left = @ \ {r},
                                     !.pc = IF task[t].left = {r} THEN "claimed" ELSE "claim"])
  BY DEF ClaimRow
<1> DEFINE v == [task[t] EXCEPT !.left = @ \ {r},
                                !.pc = IF task[t].left = {r} THEN "claimed" ELSE "claim"]
<1>2. task[t].pc = "claim" /\ UNCHANGED <<info, status, manual, lock, late, summed, mishaps>>
  BY DEF ClaimRow, At, lockVars
<1>3. /\ Loose(v) /\ v.pair = task[t].pair /\ v.w = w0 /\ v.pc \in {"claim", "claimed"}
      /\ r \in Rows
  <2>1. PICK d : task[t] \in TaskWith(d)
    BY DEF Inv, Types, Loose
  <2>2. v \in TaskWith(d) /\ r \in Rows
    BY <2>1 DEF TaskWith, Pcs
  <2> QED
    BY <2>1, <2>2 DEF Loose, TaskWith
<1>4. Become(t, v)
  BY <1>1
<1> HIDE DEF v
<1>5. Types'
  BY <1>1, <1>2, <1>3, <1>4, BecomeOK DEF Inv, Types
<1>6. /\ \A w \in Weeks : w # w0 => Attached(w)' = Attached(w)
      /\ Attached(w0) \subseteq Attached(w0)'
  BY <1>1, <1>3, WeeksOK DEF Inv, Types, Attached
<1>7. \A u \in Tasks : Spared(u)
  BY <1>1, <1>3, WeeksOK DEF Inv, Types, Spared, Free, Unwritten
<1>8. Calm => \A w \in Weeks : w # w0 => /\ Kept(w) /\ lock[w] # t
                                         /\ status'[w] = status[w] /\ summed'[w] = summed[w]
  BY <1>2, <1>6, HoldsOK DEF Kept, Working
<1>9. Calm => lock[w0] = t /\ ~late[w0] /\ status[w0] \in Open
  BY <1>2, HoldsOK DEF Knows, Working
<1>10. task'[t] = v
  BY <1>3, <1>4, BecomeOK DEF Inv
<1>11. Calm => Knows(t)'
  BY <1>2, <1>3, <1>9, <1>10 DEF Knows, Working
<1>12. ASSUME Calm PROVE Locked(w0)'
  <2>1. Locked(w0) /\ lock'[w0] = t /\ t # None /\ ~Frozen(w0)' /\ t # Dead
    BY <1>2, <1>9, <1>12 DEF Inv, Frozen
  <2> QED
    BY <1>2, <1>3, <1>6, <1>9, <1>10, <2>1 DEF Locked, Working
<1> QED
  BY <1>2, <1>3, <1>4, <1>5, <1>7, <1>8, <1>9, <1>11, <1>12, OwnWeekOK

LEMMA ClaimedOK == ASSUME Inv, NEW t \in Tasks, Claimed(t) PROVE Inv'
<1> DEFINE v == [task[t] EXCEPT !.pc = "read", !.cand = {},
                                !.claimed = task[t].cand \intersect Attached(task[t].w)]
<1>1. Become(t, v) /\ task[t].pc = "claimed"
  BY DEF Claimed, At
<1>2. Loose(v) /\ v.pair = task[t].pair /\ v.w = task[t].w /\ v.pc = "read"
  <2>1. PICK d : task[t] \in TaskWith(d)
    BY DEF Inv, Types, Loose
  <2>2. task[t].cand \intersect Attached(task[t].w) \in SUBSET Rows
    BY DEF Attached
  <2>3. v \in TaskWith(d)
    BY <2>1, <2>2 DEF TaskWith, Pcs
  <2> QED
    BY <2>1, <2>3 DEF Loose, TaskWith
<1> HIDE DEF v
<1>3. Calm => Knows(t)'
  BY <1>1, <1>2, BecomeOK, HoldsOK DEF Inv, Knows, Working, Claimed, lockVars
<1> QED
  BY <1>1, <1>2, <1>3, MoveOK DEF Claimed, Working, rowVars

\* What is read of a week is what the week has, since nobody else may change it.
LEMMA ReadRowsOK == ASSUME Inv, NEW t \in Tasks, ReadRows(t) PROVE Inv'
<1> DEFINE rows == Attached(task[t].w)
<1>1. task[t].pc = "read" /\ UNCHANGED <<sid, status, manual, lockVars, summed, mishaps>>
  BY DEF ReadRows, At, rowVars
<1>2. rows \in SUBSET Rows
  BY DEF Attached
<1>3. \A w \in Weeks : Attached(w)' = Attached(w)
  BY <1>1 DEF Attached
<1>4. Calm => /\ lock[task[t].w] = t /\ ~late[task[t].w] /\ status[task[t].w] \in Open
  BY <1>1, HoldsOK DEF Knows, Working
<1>5. PICK d : task[t] \in TaskWith(d)
  BY DEF Inv, Types, Loose
<1>6. CASE rows = {} /\ Goto(t, "drop")
  <2> DEFINE v == [task[t] EXCEPT !.pc = "drop"]
  <2>1. Loose(v) /\ v.pair = task[t].pair /\ v.w = task[t].w /\ v.pc = "drop"
    <3>1. "drop" \in Pcs
      BY DEF Pcs
    <3> QED
      BY <3>1, RegistersOK
  <2>2. Become(t, v)
    BY <1>6 DEF Goto
  <2> HIDE DEF v
  <2>3. task'[t] = v
    BY <2>1, <2>2, BecomeOK DEF Inv
  <2>4. Calm => Knows(t)'
    BY <1>1, <1>3, <1>4, <1>6, <2>1, <2>3, RegistersOK DEF Knows, Working, lockVars
  <2> QED
    BY <1>1, <2>1, <2>2, <2>4, MoveOK DEF Working
<1>7. CASE Become(t, [task[t] EXCEPT !.pc = "save", !.rows = rows])
  <2> DEFINE v == [task[t] EXCEPT !.pc = "save", !.rows = rows]
  <2>1. v \in TaskWith(d)
    BY <1>2, <1>5 DEF TaskWith, Pcs
  <2>2. Loose(v) /\ v.pair = task[t].pair /\ v.w = task[t].w /\ v.pc = "save" /\ v.rows = rows
    BY <1>5, <2>1 DEF Loose, TaskWith
  <2> HIDE DEF v
  <2>3. task'[t] = v
    BY <1>7, <2>2, BecomeOK DEF Inv, v
  <2>4. Calm => Knows(t)'
    BY <1>1, <1>3, <1>4, <2>2, <2>3, RegistersOK DEF Knows, Working, lockVars
  <2> QED
    BY <1>1, <1>7, <2>2, <2>4, MoveOK DEF Working, v
<1>8. ASSUME NEW delta, NEW pair \in Fresh(2),
             Become(t, [task[t] EXCEPT !.pc = "carry", !.delta = delta, !.pair = pair, !.half = pair])
      PROVE  Inv'
  <2> DEFINE v == [task[t] EXCEPT !.pc = "carry", !.delta = delta, !.pair = pair, !.half = pair]
  <2>1. /\ pair \in SUBSET Rows
        /\ \A r \in pair : sid[r] = Unwritten /\ \A u \in Tasks : r \notin task[u].pair
    BY FreshOK
  <2>2. v \in TaskWith(delta)
    BY <1>5, <2>1 DEF TaskWith, Pcs
  <2>3. Loose(v) /\ v.pair = pair /\ v.half = pair /\ v.w = task[t].w /\ v.pc = "carry"
    BY <1>5, <2>2 DEF Loose, TaskWith
  <2> HIDE DEF v
  <2>4. Become(t, v) /\ task'[t] = v
    BY <1>8, <2>3, BecomeOK DEF Inv, v
  <2>5. Calm => Knows(t)'
    BY <1>1, <1>4, <2>1, <2>3, <2>4 DEF Knows, Working, lockVars
  <2> QED
    BY <1>1, <2>1, <2>3, <2>4, <2>5, MoveOK DEF Working
<1>9. \/ rows = {} /\ Goto(t, "drop")
      \/ Become(t, [task[t] EXCEPT !.pc = "save", !.rows = rows])
      \/ \E delta, pair : pair \in Fresh(2) /\
            Become(t, [task[t] EXCEPT !.pc = "carry", !.delta = delta, !.pair = pair, !.half = pair])
  BY DEF ReadRows
<1> QED
  BY <1>6, <1>7, <1>8, <1>9

\* Under Calm the settlement of a week without rows has never had totals, and the lock goes with it.
LEMMA DropEmptyWeekOK == ASSUME Inv, NEW t \in Tasks, DropEmptyWeek(t) PROVE Inv'
<1> PICK w0 \in Weeks : w0 = task[t].w
  BY RegistersOK
<1> DEFINE v == [task[t] EXCEPT !.pc = "release"]
<1>1. task[t].pc = "drop" /\ UNCHANGED <<rowVars, manual, summed, mishaps>> /\ Become(t, v)
  BY DEF DropEmptyWeek, At, Goto
<1>2. Loose(v) /\ v.pair = task[t].pair /\ v.pc = "release"
  BY RegistersOK DEF Pcs
<1> HIDE DEF v
<1>3. task'[t] = v
  BY <1>1, <1>2, BecomeOK DEF Inv
<1>4. \A w \in Weeks : Attached(w)' = Attached(w)
  BY <1>1 DEF Attached, rowVars
<1>5. \A u \in Tasks : Spared(u)
  BY <1>1 DEF Spared, rowVars
<1>6. CASE summed[w0] = {} /\ lock[w0] = t
  <2>1. /\ status' = [status EXCEPT ![w0] = "none"]
        /\ lock' = [lock EXCEPT ![w0] = None] /\ late' = [late EXCEPT ![w0] = FALSE]
    BY <1>6 DEF DropEmptyWeek, Remove, Unlock, Owns
  <2>2. Types'
    BY <1>1, <1>2, <2>1, BecomeOK DEF Inv, Types, Statuses, rowVars
  <2>3. Calm => \A w \in Weeks : w # w0 => /\ Kept(w) /\ lock[w] # t
                                           /\ status'[w] = status[w] /\ summed'[w] = summed[w]
    BY <1>1, <1>4, <2>1, HoldsOK DEF Kept, Working, Inv, Types
  <2>4. Knows(t)'
    BY <1>2, <1>3 DEF Knows, Working, Resting
  <2>5. ASSUME Calm PROVE Locked(w0)'
    <3>1. Attached(w0) = {} /\ Locked(w0)
      BY <1>1, <2>5, HoldsOK DEF Inv, Knows
    <3>2. lock'[w0] = None /\ ~late'[w0] /\ summed'[w0] = {} /\ ~Frozen(w0)' /\ None # Dead
      BY <1>1, <1>6, <2>1 DEF Inv, Types, Frozen
    <3> QED
      BY <1>4, <3>1, <3>2 DEF Locked
  <2> QED
    BY <1>1, <1>2, <1>5, <1>6, <2>2, <2>3, <2>4, <2>5, OwnWeekOK
<1>7. CASE ~(summed[w0] = {} /\ lock[w0] = t)
  <2>1. UNCHANGED <<status, lock, late>>
    BY <1>7 DEF DropEmptyWeek, Owns, lockVars
  <2>2. ~Calm
    <3> SUFFICES ASSUME Calm PROVE FALSE
      OBVIOUS
    <3>1. Attached(w0) = {} /\ lock[w0] = t
      BY <1>1, HoldsOK DEF Knows, Working
    <3>2. summed[w0] \subseteq Attached(w0)
      BY DEF Inv, Locked
    <3> QED
      BY <1>7, <3>1, <3>2
  <2>3. Types'
    BY <1>1, <1>2, <2>1, BecomeOK DEF Inv, Types, rowVars
  <2> QED
    BY <1>1, <2>2, <2>3 DEF Inv, Calm
<1> QED
  BY <1>6, <1>7

\* Half a carry pair is written: into this week, whose lock is held, or free.
LEMMA CarryHalfOK == ASSUME Inv, NEW t \in Tasks, CarryHalf(t) PROVE Inv'
<1> PICK w0 \in Weeks : w0 = task[t].w
  BY RegistersOK
<1>1. /\ task[t].pc = "carry"
      /\ UNCHANGED <<status, manual, lock, late, summed, mishaps>>
  BY DEF CarryHalf, At, lockVars
<1>2. PICK r \in task[t].half, x \in {w0, Free} :
        /\ sid' = [sid EXCEPT ![r] = x]
        /\ \/ Become(t, [task[t] EXCEPT !.pc = "reread", !.half = {}, !.pair = {},
                                        !.delta = 0, !.made = task[t].pair])
           \/ Become(t, [task[t] EXCEPT !.half = @ \ {r}])
  BY DEF CarryHalf
<1>3. PICK d : task[t] \in TaskWith(d)
  BY DEF Inv, Types, Loose
<1>4. r \in Rows
  BY <1>3 DEF TaskWith
<1>5. PICK v : /\ Become(t, v) /\ Loose(v) /\ v.pair \subseteq task[t].pair /\ v.w = w0
               /\ \/ v.pc = "reread"
                  \/ v.pc = "carry" /\ v.pair = task[t].pair /\ v.half = task[t].half \ {r}
  <2>1. CASE Become(t, [task[t] EXCEPT !.pc = "reread", !.half = {}, !.pair = {},
                                       !.delta = 0, !.made = task[t].pair])
    <3> DEFINE v == [task[t] EXCEPT !.pc = "reread", !.half = {}, !.pair = {},
                                    !.delta = 0, !.made = task[t].pair]
    <3>1. v \in TaskWith(0)
      BY <1>3 DEF TaskWith, Pcs
    <3>2. Loose(v) /\ v.pair = {} /\ v.w = w0 /\ v.pc = "reread"
      BY <1>3, <3>1 DEF Loose, TaskWith
    <3> QED
      BY <2>1, <3>2
  <2>2. CASE Become(t, [task[t] EXCEPT !.half = @ \ {r}])
    <3> DEFINE v == [task[t] EXCEPT !.half = @ \ {r}]
    <3>1. v \in TaskWith(d)
      BY <1>3 DEF TaskWith
    <3>2. /\ Loose(v) /\ v.pair = task[t].pair /\ v.w = w0 /\ v.pc = "carry"
          /\ v.half = task[t].half \ {r}
      BY <1>1, <1>3, <3>1 DEF Loose, TaskWith
    <3> QED
      BY <2>2, <3>2
  <2> QED
    BY <1>2, <2>1, <2>2
<1>6. task'[t] = v
  BY <1>5, BecomeOK DEF Inv
<1>7. Types'
  BY <1>1, <1>2, <1>4, <1>5, BecomeOK DEF Inv, Types
<1>8. CASE ~Calm
  BY <1>1, <1>7, <1>8 DEF Inv, Calm
<1>9. CASE Calm
  <2>1. /\ task[t].half \subseteq task[t].pair /\ \A q \in task[t].half : sid[q] = Unwritten
        /\ lock[w0] = t /\ ~late[w0] /\ status[w0] \in Open
    BY <1>1, <1>9, HoldsOK DEF Knows, Working
  <2>2. \A w \in Weeks : w # w0 => Attached(w)' = Attached(w)
    BY <1>2, <1>4, <2>1, WeeksOK DEF Inv, Types, Attached
  <2>3. Attached(w0) \subseteq Attached(w0)'
    BY <1>2, <1>4, <2>1, WeeksOK DEF Inv, Types, Attached
  <2>4. ASSUME NEW u \in Tasks, u # t PROVE Spared(u)
    <3>1. r \notin task[u].pair
      BY <1>9, <2>1, <2>4 DEF Inv, Apart
    <3> QED
      BY <1>2, <1>4, <3>1, RegistersOK DEF Spared, Inv, Types
  <2>5. \A w \in Weeks : w # w0 => /\ Kept(w) /\ lock[w] # t
                                   /\ status'[w] = status[w] /\ summed'[w] = summed[w]
    BY <1>1, <1>9, <2>2, HoldsOK DEF Kept, Working
  <2>6. \A q \in task[t].half \ {r} : sid'[q] = Unwritten
    BY <1>2, <1>4, <1>3, <2>1 DEF Inv, Types, TaskWith
  <2>7. Knows(t)'
    BY <1>1, <1>5, <1>6, <2>1, <2>6 DEF Knows, Working
  <2>8. Locked(w0)'
    <3>1. Locked(w0) /\ lock'[w0] = t /\ t # None /\ t # Dead /\ ~Frozen(w0)'
      BY <1>1, <1>9, <2>1 DEF Inv, Frozen
    <3> QED
      BY <1>1, <1>5, <1>6, <2>1, <2>3, <3>1 DEF Locked, Working
  <2> QED
    BY <1>1, <1>5, <1>7, <2>1, <2>4, <2>5, <2>7, <2>8, OwnWeekOK
<1> QED
  BY <1>8, <1>9

LEMMA RereadOK == ASSUME Inv, NEW t \in Tasks, Reread(t) PROVE Inv'
<1> DEFINE rows == Attached(task[t].w)
           v == [task[t] EXCEPT !.pc = "save", !.rows = rows]
<1>1. /\ Become(t, v) /\ task[t].pc = "reread"
      /\ UNCHANGED <<sid, status, manual, lockVars, summed, mishaps>>
  BY DEF Reread, At, rowVars
<1>2. Loose(v) /\ v.pair = task[t].pair /\ v.w = task[t].w /\ v.pc = "save" /\ v.rows = rows
  <2>1. PICK d : task[t] \in TaskWith(d)
    BY DEF Inv, Types, Loose
  <2>2. rows \in SUBSET Rows
    BY DEF Attached
  <2>3. v \in TaskWith(d)
    BY <2>1, <2>2 DEF TaskWith, Pcs
  <2> QED
    BY <2>1, <2>3 DEF Loose, TaskWith
<1> HIDE DEF v
<1>3. task'[t] = v /\ \A w \in Weeks : Attached(w)' = Attached(w)
  BY <1>1, <1>2, BecomeOK DEF Inv, Attached
<1>4. Calm => Knows(t)'
  BY <1>1, <1>2, <1>3, HoldsOK, RegistersOK DEF Knows, Working, lockVars
<1> QED
  BY <1>1, <1>2, <1>4, MoveOK DEF Working

\* What the final write does, when it lands.
LEMMA SaveLands ==
    ASSUME Inv, Calm, NEW t \in Tasks, Save(t), NEW w0 \in Weeks, w0 = task[t].w
    PROVE  /\ summed' = [summed EXCEPT ![w0] = Attached(w0)]
           /\ lock' = [lock EXCEPT ![w0] = None] /\ late' = [late EXCEPT ![w0] = FALSE]
           /\ \E x \in {"draft", "on_hold"} : status' = [status EXCEPT ![w0] = x]
           /\ manual' = [manual EXCEPT ![w0] = task[t].held]
           /\ Become(t, Idle)
<1>1. task[t].rows = Attached(w0) /\ lock[w0] = t /\ status[w0] \in Open
  BY HoldsOK DEF Save, At, Knows, Working
<1>2. ASSUME NEW net, NEW carried, NEW verified, NEW held
      PROVE  Decided(net, carried, verified, held) \in {"draft", "on_hold"}
  BY DEF Decided
<1> QED
  BY <1>1, <1>2 DEF Save, Owns, Unlock, Finish

LEMMA SaveOK == ASSUME Inv, NEW t \in Tasks, Save(t) PROVE Inv'
<1> PICK w0 \in Weeks : w0 = task[t].w
  BY RegistersOK
<1>1. task[t].pc = "save" /\ UNCHANGED <<sid, mishaps>>
  BY DEF Save, At, rowVars
<1>2. CASE Calm
  <2>1. PICK x \in {"draft", "on_hold"} : status' = [status EXCEPT ![w0] = x]
    BY <1>2, SaveLands
  <2>2. /\ summed' = [summed EXCEPT ![w0] = Attached(w0)]
        /\ lock' = [lock EXCEPT ![w0] = None] /\ late' = [late EXCEPT ![w0] = FALSE]
        /\ manual' = [manual EXCEPT ![w0] = task[t].held]
        /\ Become(t, Idle)
    BY <1>2, SaveLands
  <2>3. task'[t] = Idle
    BY <2>2, BecomeOK, IdleOK DEF Inv
  <2>4. Types'
    <3>1. Attached(w0) \in SUBSET Rows /\ x \in Statuses
      BY DEF Attached, Statuses
    <3> QED
      BY <1>1, <2>1, <2>2, <3>1, BecomeOK, IdleOK, RegistersOK DEF Inv, Types
  <2>5. \A w \in Weeks : Attached(w)' = Attached(w)
    BY <1>1 DEF Attached
  <2>6. \A u \in Tasks : Spared(u)
    BY <1>1 DEF Spared
  <2>7. \A w \in Weeks : w # w0 => /\ Kept(w) /\ lock[w] # t
                                   /\ status'[w] = status[w] /\ summed'[w] = summed[w]
    BY <1>1, <1>2, <2>1, <2>2, <2>5, HoldsOK DEF Kept, Working, Inv, Types
  <2>8. Knows(t)'
    BY <2>3, IdleOK DEF Knows, Working, Resting
  <2>9. Locked(w0)'
    <3>1. lock'[w0] = None /\ ~late'[w0] /\ summed'[w0] = Attached(w0) /\ None # Dead /\ None \notin Tasks
      BY <2>2 DEF Inv, Types
    <3> QED
      BY <2>5, <3>1 DEF Locked
  <2>10. lock[w0] = t
    BY <1>1, <1>2, HoldsOK DEF Working
  <2> QED
    BY <1>1, <2>2, <2>4, <2>6, <2>7, <2>8, <2>9, <2>10, IdleOK, OwnWeekOK
<1>3. CASE ~Calm
  <2>1. CASE status[w0] \in Open /\ lock[w0] = t
    <3>1. Become(t, Idle) /\ manual' = [manual EXCEPT ![w0] = task[t].held]
      BY <2>1 DEF Save, Owns, Finish
    <3>2. summed' = [summed EXCEPT ![w0] = task[t].rows]
      BY <2>1 DEF Save, Owns
    <3>3. PICK x \in {"draft", "on_hold"} : status' = [status EXCEPT ![w0] = x]
      <4>1. ASSUME NEW net, NEW carried, NEW verified, NEW held
            PROVE  Decided(net, carried, verified, held) \in {"draft", "on_hold"}
        BY DEF Decided
      <4> QED
        BY <2>1, <4>1 DEF Save, Owns
    <3>4. lock' = [lock EXCEPT ![w0] = None] /\ late' = [late EXCEPT ![w0] = FALSE]
      BY <2>1 DEF Save, Owns, Unlock
    <3>5. Types'
      BY <1>1, <3>1, <3>2, <3>3, <3>4, BecomeOK, IdleOK, RegistersOK DEF Inv, Types, Statuses
    <3> QED
      BY <1>1, <1>3, <3>5 DEF Inv, Calm
  <2>2. CASE ~(status[w0] \in Open /\ lock[w0] = t)
    <3>1. Goto(t, "undo") /\ UNCHANGED <<status, manual, summed, lockVars>>
      BY <2>2 DEF Save, Owns
    <3>2. Types'
      <4> DEFINE v == [task[t] EXCEPT !.pc = "undo"]
      <4>1. Loose(v) /\ Become(t, v)
        BY <3>1, RegistersOK DEF Goto, Pcs
      <4> HIDE DEF v
      <4> QED
        BY <1>1, <3>1, <4>1, BecomeOK DEF Inv, Types, lockVars
    <3> QED
      BY <1>1, <1>3, <3>2 DEF Inv, Calm
  <2> QED
    BY <2>1, <2>2
<1> QED
  BY <1>2, <1>3

\* Nothing is taken back while things are calm.
Undoing(t) == Undo(t) \/ Unmake(t) \/ Delete(t) \/ Unclaim(t) \/ DropIfEmpty(t)

LEMMA UndoingOK == ASSUME Inv, NEW t \in Tasks, Undoing(t) PROVE Inv'
<1>1. ~Calm /\ UNCHANGED mishaps
  <2>1. task[t].pc \in {"undo", "unmake", "delete", "unclaim", "dropEmpty"}
    BY DEF Undoing, Undo, Unmake, Delete, Unclaim, DropIfEmpty, At
  <2>2. ~Calm
    BY <2>1 DEF Inv, Knows, Working, Resting
  <2> QED
    BY <2>2 DEF Undoing, Undo, Unmake, Delete, Unclaim, DropIfEmpty
<1>2. PICK d : task[t] \in TaskWith(d)
  BY DEF Inv, Types, Loose
<1>3. \A pc \in Pcs : Loose([task[t] EXCEPT !.pc = pc])
  BY RegistersOK
<1>4. CASE Undo(t)
  <2>1. \E pc \in {"unmake", "dropEmpty"} : Goto(t, pc)
    BY <1>4 DEF Undo
  <2>2. late' \in [Weeks -> BOOLEAN]
    BY <1>4 DEF Undo, Inv, Types
  <2> QED
    BY <1>1, <1>3, <1>4, <2>1, <2>2, BecomeOK DEF Undo, Goto, Pcs, Inv, Types, Calm, rowVars
<1>5. CASE Unmake(t)
  <2>1. PICK v : Loose(v) /\ Become(t, v)
    <3>1. CASE Goto(t, "delete")
      BY <1>3, <3>1 DEF Goto, Pcs
    <3>2. CASE Become(t, [task[t] EXCEPT !.pc = "unclaim", !.claimed = @ \union task[t].made])
      <4>1. [task[t] EXCEPT !.pc = "unclaim", !.claimed = @ \union task[t].made] \in TaskWith(d)
        BY <1>2 DEF TaskWith, Pcs
      <4> QED
        BY <3>2, <4>1 DEF Loose
    <3> QED
      BY <1>5, <3>1, <3>2 DEF Unmake
  <2> QED
    BY <1>1, <1>5, <2>1, BecomeOK DEF Unmake, Inv, Types, Calm, rowVars, lockVars
<1>6. CASE Delete(t)
  <2>1. sid' \in [Rows -> {Free, Unwritten, Gone} \union Weeks]
    BY <1>6 DEF Delete, Inv, Types
  <2>2. Goto(t, "unclaim")
    BY <1>6 DEF Delete
  <2> QED
    BY <1>1, <1>3, <1>6, <2>1, <2>2, BecomeOK DEF Delete, Goto, Pcs, Inv, Types, Calm, lockVars
<1>7. CASE Unclaim(t)
  <2>1. sid' \in [Rows -> {Free, Unwritten, Gone} \union Weeks]
    BY <1>7 DEF Unclaim, Inv, Types
  <2>2. Goto(t, "dropEmpty")
    BY <1>7 DEF Unclaim
  <2> QED
    BY <1>1, <1>3, <1>7, <2>1, <2>2, BecomeOK DEF Unclaim, Goto, Pcs, Inv, Types, Calm, lockVars
<1>8. CASE DropIfEmpty(t)
  <2>1. Goto(t, "release")
    BY <1>8 DEF DropIfEmpty
  <2>2. /\ status' \in [Weeks -> Statuses] /\ lock' \in [Weeks -> Tasks \union {None, Dead}]
        /\ late' \in [Weeks -> BOOLEAN]
    BY <1>8 DEF DropIfEmpty, Remove, Unlock, lockVars, Inv, Types, Statuses
  <2> QED
    BY <1>1, <1>3, <1>8, <2>1, <2>2, BecomeOK DEF DropIfEmpty, Goto, Pcs, Inv, Types, Calm, rowVars
<1> QED
  BY <1>4, <1>5, <1>6, <1>7, <1>8 DEF Undoing

\* Under Calm there is nothing left to release.
LEMMA ReleaseOK == ASSUME Inv, NEW t \in Tasks, Release(t) PROVE Inv'
<1>1. /\ task[t].pc = "release" /\ Become(t, Idle)
      /\ UNCHANGED <<rowVars, status, manual, summed, mishaps>>
  BY DEF Release, At, Finish
<1>2. CASE lock[task[t].w] = t
  <2>1. ~Calm
    BY <1>1, <1>2, HoldsOK, RegistersOK DEF Working
  <2>2. lock' \in [Weeks -> Tasks \union {None, Dead}] /\ late' \in [Weeks -> BOOLEAN]
    BY <1>2 DEF Release, Owns, Unlock, Inv, Types
  <2>3. Types'
    BY <1>1, <2>2, BecomeOK, IdleOK DEF Inv, Types, rowVars
  <2> QED
    BY <1>1, <2>1, <2>3 DEF Inv, Calm
<1>3. CASE lock[task[t].w] # t
  <2>1. UNCHANGED <<sid, status, manual, lockVars, summed, mishaps>>
    BY <1>1, <1>3 DEF Release, Owns, rowVars
  <2>2. Knows(t)'
    BY <1>1, BecomeOK, IdleOK DEF Inv, Knows, Working, Resting
  <2> QED
    BY <1>1, <2>1, <2>2, IdleOK, MoveOK DEF Working
<1> QED
  BY <1>2, <1>3

-----------------------------------------------------------------------------
\* Every step keeps the invariant.
THEOREM StepInv == Inv /\ [Next]_vars => Inv'
<1> SUFFICES ASSUME Inv, [Next]_vars PROVE Inv'
  OBVIOUS
<1>1. CASE UNCHANGED vars
  BY <1>1 DEF vars, rowVars, lockVars, Inv, Types, Calm, Knows, Locked, Apart, Attached, Frozen
<1>2. CASE Earn
  BY <1>2, EarnOK
<1>3. ASSUME NEW w \in Weeks,
             Schedule(w) \/ Payout(w) \/ Hold(w) \/ CloseFailed(w) \/ CreditFailed(w) \/ Expire(w)
      PROVE  Inv'
  BY <1>3, ScheduleOK, PayoutOK, HoldOK, CloseFailedOK, CreditFailedOK, ExpireOK
<1>4. ASSUME NEW t \in Tasks, Handler(t) PROVE Inv'
  BY <1>4, FindOrCreateOK, LockOK, CandidatesOK, ClaimRowOK, ClaimedOK, ReadRowsOK, DropEmptyWeekOK,
     CarryHalfOK, RereadOK, SaveOK, UndoingOK, ReleaseOK DEF Handler, Undoing
<1>5. ASSUME NEW t \in Tasks, Crash(t) \/ Error(t) PROVE Inv'
  BY <1>5, CrashOK, ErrorOK
<1>6. ASSUME NEW t \in Tasks, NEW w \in Weeks, Generate(t, w) \/ Unhold(t, w) PROVE Inv'
  BY <1>6, GenerateOK, UnholdOK
<1> QED
  BY <1>1, <1>2, <1>3, <1>4, <1>5, <1>6 DEF Next

\* What a restaurant is paid for is what names its settlement, while no generator fails: nobody
\* adds a row to a week that an administrator approved, whatever the generators' timing.
THEOREM ApprovalHolds == Spec => []ApprovedIsSummed
<1>1. Inv => ApprovedIsSummed
  <2> SUFFICES ASSUME Inv, mishaps = {}, NEW w \in Weeks, Frozen(w) PROVE summed[w] = Attached(w)
    BY DEF ApprovedIsSummed, FrozenIsSummed
  <2>1. Locked(w)
    BY DEF Inv, Calm
  <2> QED
    BY <2>1 DEF Locked
<1> QED
  BY InitInv, StepInv, <1>1, PTL DEF Spec

\* Totals written are those of the rows in the settlement, crashed generators or not.
THEOREM TotalsAreOfTheWeek == Spec => SavedIsSummed
<1>1. Inv /\ [Next]_vars =>
        [mishaps \subseteq {"crash"} =>
            \A w \in Weeks : summed'[w] # summed[w] => summed'[w] = Attached(w)]_vars
  <2> SUFFICES ASSUME Inv, Next, Calm, NEW w \in Weeks, summed'[w] # summed[w]
               PROVE  summed'[w] = Attached(w)
    BY DEF Calm
  <2>1. PICK t \in Tasks : Save(t)
    <3>1. \/ \E t \in Tasks : Save(t)
          \/ UNCHANGED summed
      BY DEF Next, Handler, Earn, Schedule, Schedule_Busy, Payout, Hold, CloseFailed, CreditFailed, Expire,
             FindOrCreate, Lock, Candidates, ClaimRow, Claimed, ReadRows, DropEmptyWeek, CarryHalf, Reread,
             Undo, Unmake, Delete, Unclaim, DropIfEmpty, Release, Crash, Error, Generate, Unhold
    <3> QED
      BY <3>1
  <2>2. PICK w0 \in Weeks : w0 = task[t].w
    BY RegistersOK
  <2>3. summed' = [summed EXCEPT ![w0] = Attached(w0)]
    BY <2>1, <2>2, SaveLands
  <2> QED
    BY <2>3 DEF Inv, Types
<1> QED
  BY InitInv, StepInv, <1>1, PTL DEF Spec, SavedIsSummed

-----------------------------------------------------------------------------
(* Sums over finite sets.  SumFunctionOnSet is defined by a fold that takes *)
(* the elements in an order of its own; these lemmas make it a sum.         *)

First(S) == CHOOSE x \in S : TRUE

\* g is the fold of f over the subsets of X.
IsFold(f, X, g) ==
    g = [S \in SUBSET X |-> IF S = {} THEN 0 ELSE f[First(S)] + g[S \ {First(S)}]]

LEMMA SumIs ==
    ASSUME NEW f, NEW S
    PROVE  SumFunctionOnSet(f, S) = (CHOOSE g : IsFold(f, S, g))[S]
BY DEF SumFunctionOnSet, FoldFunctionOnSet, MapThenFoldSet, IsFold, First

LEMMA LeastOf == ASSUME NEW S \in SUBSET Nat, S # {} PROVE \E w \in S : \A v \in S : w <= v
<1>1. PICK w \in S : \A v \in S : ~(<<v, w>> \in OpToRel(<, Nat))
  BY WFMin, NatLessThanWellFounded
<1>2. ASSUME NEW v \in S PROVE ~(v < w)
  <2>1. <<v, w>> \in Nat \X Nat
    OBVIOUS
  <2>2. <<v, w>>[1] = v /\ <<v, w>>[2] = w
    OBVIOUS
  <2>3. <<v, w>> \in OpToRel(<, Nat) <=> <<v, w>>[1] < <<v, w>>[2]
    BY <2>1, Zenon DEF OpToRel
  <2> QED
    BY <1>1, <2>2, <2>3, Zenon
<1>3. \A v \in S : w <= v
  BY <1>2
<1> QED
  BY <1>3

\* A set of subsets of X with a member has one of least size.
LEMMA SmallestOf ==
    ASSUME NEW X, IsFiniteSet(X), NEW G \in SUBSET (SUBSET X), G # {}
    PROVE  \E S \in G : \A T \in SUBSET X : Cardinality(T) < Cardinality(S) => T \notin G
<1> DEFINE N == {Cardinality(S) : S \in G}
<1>1. \A S \in SUBSET X : Cardinality(S) \in Nat
  BY FS_Subset, FS_CardinalityType
<1>2. N \in SUBSET Nat /\ N # {}
  BY <1>1
<1>3. PICK n \in N : \A m \in N : n <= m
  <2> HIDE DEF N
  <2> QED
    BY <1>2, LeastOf
<1>4. PICK S \in G : n = Cardinality(S)
  BY <1>3
<1>5. ASSUME NEW T \in SUBSET X, Cardinality(T) < Cardinality(S) PROVE T \notin G
  BY <1>1, <1>3, <1>4, <1>5
<1> QED
  BY <1>5

LEMMA FirstOK == ASSUME NEW S, S # {} PROVE First(S) \in S
BY DEF First

LEMMA SmallerOK ==
    ASSUME NEW X, IsFiniteSet(X), NEW S \in SUBSET X, NEW x \in S
    PROVE  /\ S \ {x} \in SUBSET X
           /\ Cardinality(S) \in Nat /\ Cardinality(S \ {x}) = Cardinality(S) - 1
           /\ Cardinality(S \ {x}) < Cardinality(S)
<1>1. IsFiniteSet(S)
  BY FS_Subset
<1>2. Cardinality(S) \in Nat /\ Cardinality(S \ {x}) = Cardinality(S) - 1
  BY <1>1, FS_CardinalityType, FS_RemoveElement
<1> QED
  BY <1>2

Follows(f, X, g) ==
    /\ g[{}] = 0
    /\ \A S \in SUBSET X : S # {} => g[S] = f[First(S)] + g[S \ {First(S)}]

LEMMA FoldAt == ASSUME NEW f, NEW X, NEW g, IsFold(f, X, g) PROVE Follows(f, X, g)
<1>1. \A S \in SUBSET X : g[S] = IF S = {} THEN 0 ELSE f[First(S)] + g[S \ {First(S)}]
  BY Zenon DEF IsFold
<1>2. {} \in SUBSET X
  OBVIOUS
<1> QED
  BY <1>1, <1>2, Zenon DEF Follows

\* A finite set has a fold.
LEMMA FoldExists ==
    ASSUME NEW f, NEW X, IsFiniteSet(X)
    PROVE  \E g : IsFold(f, X, g)
<1> DEFINE Sub(n) == {S \in SUBSET X : Cardinality(S) <= n}
           Step(h, S) == IF S = {} THEN 0 ELSE f[First(S)] + h[S \ {First(S)}]
           Upto(n, h) == h = [S \in Sub(n) |-> Step(h, S)]
           Bad == {n \in Nat : \A h : ~Upto(n, h)}
<1>1. \A S \in SUBSET X : Cardinality(S) \in Nat /\ (Cardinality(S) = 0 => S = {})
  BY FS_Subset, FS_CardinalityType, FS_EmptySet
<1>2. Bad = {}
  <2> SUFFICES ASSUME Bad # {} PROVE FALSE
    OBVIOUS
  <2>1. PICK n \in Bad : \A m \in Bad : n <= m
    <3>1. Bad \in SUBSET Nat
      OBVIOUS
    <3> HIDE DEF Bad
    <3> QED
      BY <3>1, LeastOf
  <2>2. CASE n = 0
    <3> DEFINE h == [S \in Sub(0) |-> 0]
    <3>1. \A S \in Sub(0) : S = {}
      BY <1>1
    <3>2. \A S \in Sub(0) : Step(h, S) = 0
      BY <3>1
    <3>3. h = [S \in Sub(0) |-> Step(h, S)]
      <4> HIDE DEF Sub, Step
      <4> QED
        BY <3>2
    <3>4. Upto(n, h)
      BY <2>2, <3>3
    <3> HIDE DEF h, Upto
    <3> QED
      BY <2>1, <3>4
  <2>3. CASE n # 0
    <3>1. n - 1 \in Nat /\ n - 1 \notin Bad
      <4>1. n \in Nat
        OBVIOUS
      <4> HIDE DEF Bad
      <4> QED
        BY <2>1, <2>3, <4>1
    <3>2. PICK h : Upto(n - 1, h)
      BY <3>1
    <3> DEFINE k == [S \in Sub(n) |-> Step(h, S)]
    <3>3. ASSUME NEW S \in Sub(n - 1) PROVE k[S] = h[S]
      <4>1. S \in Sub(n)
        BY <1>1, <2>1, <3>1
      <4>2. k[S] = Step(h, S)
        BY <4>1
      <4>3. h[S] = Step(h, S)
        <5> HIDE DEF Sub, Step
        <5> QED
          BY <3>2
      <4> QED
        BY <4>2, <4>3
    <3>4. ASSUME NEW S \in Sub(n) PROVE Step(h, S) = Step(k, S)
      <4>1. CASE S = {}
        BY <4>1
      <4>2. CASE S # {}
        <5>1. S \in SUBSET X /\ Cardinality(S) <= n /\ n \in Nat /\ First(S) \in S
          BY <2>1, <4>2, FirstOK
        <5>2. S \ {First(S)} \in SUBSET X /\ Cardinality(S \ {First(S)}) <= n - 1
          <6> HIDE DEF Sub, Step, Bad
          <6> QED
            BY <5>1, SmallerOK
        <5>3. S \ {First(S)} \in Sub(n - 1)
          BY <5>2
        <5> QED
          BY <3>3, <4>2, <5>3
      <4> QED
        BY <4>1, <4>2
    <3>5. k = [S \in Sub(n) |-> Step(k, S)]
      <4> HIDE DEF Sub, Step
      <4> QED
        BY <3>4
    <3>6. Upto(n, k)
      BY <3>5
    <3> HIDE DEF k, Upto
    <3> QED
      BY <2>1, <3>6
  <2> QED
    BY <2>2, <2>3
<1>3. Cardinality(X) \in Nat /\ Sub(Cardinality(X)) = SUBSET X
  BY FS_Subset, FS_CardinalityType
<1>4. PICK g : Upto(Cardinality(X), g)
  <2>1. Cardinality(X) \notin Bad
    BY <1>2
  <2> HIDE DEF Upto
  <2> QED
    BY <1>3, <2>1
<1> QED
  <2>1. g = [S \in SUBSET X |-> Step(g, S)]
    <3> HIDE DEF Sub, Step
    <3> QED
      BY <1>3, <1>4
  <2> QED
    BY <2>1 DEF IsFold

\* The folds of two sets agree where both are defined.
LEMMA FoldUnique ==
    ASSUME NEW f, NEW X, IsFiniteSet(X), NEW S \in SUBSET X,
           NEW g, IsFold(f, X, g), NEW h, IsFold(f, S, h)
    PROVE  g[S] = h[S]
<1>0. Follows(f, X, g) /\ Follows(f, S, h)
  BY FoldAt
<1> DEFINE Bad == {T \in SUBSET S : g[T] # h[T]}
<1> SUFFICES ASSUME Bad # {} PROVE FALSE
  OBVIOUS
<1>1. IsFiniteSet(S)
  BY FS_Subset
<1>2. PICK T \in Bad : \A U \in SUBSET S : Cardinality(U) < Cardinality(T) => U \notin Bad
  <2>1. Bad \in SUBSET (SUBSET S)
    OBVIOUS
  <2> HIDE DEF Bad
  <2> QED
    BY <1>1, <2>1, SmallestOf
<1>3. T \in SUBSET S /\ T \in SUBSET X /\ g[T] # h[T]
  OBVIOUS
<1>4. /\ g[{}] = 0 /\ h[{}] = 0
      /\ T # {} => /\ g[T] = f[First(T)] + g[T \ {First(T)}]
                   /\ h[T] = f[First(T)] + h[T \ {First(T)}]
  <2> HIDE DEF Bad
  <2> QED
    BY <1>3, <1>0, Zenon DEF Follows
<1>5. T # {}
  BY <1>3, <1>4
<1>6. T \ {First(T)} \in SUBSET S /\ Cardinality(T \ {First(T)}) < Cardinality(T)
  <2> HIDE DEF Bad
  <2> QED
    BY <1>1, <1>3, <1>5, FirstOK, SmallerOK
<1>7. g[T \ {First(T)}] = h[T \ {First(T)}]
  BY <1>2, <1>6
<1> QED
  BY <1>3, <1>4, <1>5, <1>7

\* A sum is what the fold of any larger set says of it.
LEMMA SumFold ==
    ASSUME NEW f, NEW X, IsFiniteSet(X), NEW g, IsFold(f, X, g), NEW S \in SUBSET X
    PROVE  SumFunctionOnSet(f, S) = g[S]
<1> DEFINE h == CHOOSE k : IsFold(f, S, k)
<1>1. IsFiniteSet(S)
  BY FS_Subset
<1>2. IsFold(f, S, h)
  BY <1>1, FoldExists
<1>3. g[S] = h[S]
  <2> HIDE DEF h
  <2> QED
    BY <1>2, FoldUnique
<1> QED
  BY <1>3, SumIs

LEMMA SumEmpty == ASSUME NEW f PROVE SumFunctionOnSet(f, {}) = 0
<1>1. PICK g : IsFold(f, {}, g)
  BY FoldExists, FS_EmptySet
<1> QED
  BY <1>1, SumFold, FoldAt, FS_EmptySet DEF Follows

\* One more element, whichever the fold takes first.
LEMMA SumAdd ==
    ASSUME NEW f, NEW X, IsFiniteSet(X), \A x \in X : f[x] \in Int, NEW x \in X
    PROVE  /\ SumFunctionOnSet(f, X) \in Int
           /\ SumFunctionOnSet(f, X) = f[x] + SumFunctionOnSet(f, X \ {x})
           /\ SumFunctionOnSet(f, X \ {x}) \in Int
<1>1. PICK g : IsFold(f, X, g)
  BY FoldExists
<1>2. \A S \in SUBSET X : SumFunctionOnSet(f, S) = g[S]
  BY <1>1, SumFold
<1>0. Follows(f, X, g)
  BY <1>1, FoldAt
<1>3. \A S \in SUBSET X : g[S] \in Int
  <2> DEFINE Bad == {S \in SUBSET X : g[S] \notin Int}
  <2> SUFFICES ASSUME Bad # {} PROVE FALSE
    OBVIOUS
  <2>1. PICK S \in Bad : \A T \in SUBSET X : Cardinality(T) < Cardinality(S) => T \notin Bad
    <3>1. Bad \in SUBSET (SUBSET X)
      OBVIOUS
    <3> HIDE DEF Bad
    <3> QED
      BY <3>1, SmallestOf
  <2>2. S \in SUBSET X /\ g[S] \notin Int
    BY <2>1
  <2> HIDE DEF Bad
  <2>3. g[{}] = 0 /\ (S # {} => g[S] = f[First(S)] + g[S \ {First(S)}])
    BY <1>0, <2>2, Zenon DEF Follows
  <2>4. S # {} /\ First(S) \in S
    <3>1. S # {}
      BY <2>2, <2>3
    <3> QED
      BY <3>1, FirstOK, Zenon
  <2>5. S \ {First(S)} \in SUBSET X /\ Cardinality(S \ {First(S)}) < Cardinality(S)
    BY <2>2, <2>4, SmallerOK
  <2>6. g[S \ {First(S)}] \in Int
    <3>1. S \ {First(S)} \notin Bad
      BY <2>1, <2>5
    <3> QED
      BY <2>5, <3>1 DEF Bad
  <2>7. f[First(S)] \in Int
    BY <2>2, <2>4
  <2> QED
    BY <2>2, <2>3, <2>4, <2>6, <2>7
<1>4. \A S \in SUBSET X : \A y \in S : g[S] = f[y] + g[S \ {y}]
  <2> DEFINE Bad == {S \in SUBSET X : \E y \in S : g[S] # f[y] + g[S \ {y}]}
  <2> SUFFICES ASSUME Bad # {} PROVE FALSE
    OBVIOUS
  <2>1. PICK S \in Bad : \A T \in SUBSET X : Cardinality(T) < Cardinality(S) => T \notin Bad
    <3>1. Bad \in SUBSET (SUBSET X)
      OBVIOUS
    <3> HIDE DEF Bad
    <3> QED
      BY <3>1, SmallestOf
  <2>2. S \in SUBSET X /\ \E y \in S : g[S] # f[y] + g[S \ {y}]
    BY <2>1
  <2>3. PICK y \in S : g[S] # f[y] + g[S \ {y}]
    BY <2>2
  <2>4. \A T \in SUBSET X : Cardinality(T) < Cardinality(S) => \A z \in T : g[T] = f[z] + g[T \ {z}]
    BY <2>1
  <2> HIDE DEF Bad
  <2> DEFINE c == First(S)
  <2>5. c \in S /\ g[S] = f[c] + g[S \ {c}]
    <3>1. S # {}
      BY <2>3
    <3> QED
      BY <1>0, <2>2, <3>1, FirstOK, Zenon DEF Follows
  <2> HIDE DEF c
  <2>6. c # y
    BY <2>3, <2>5
  <2>7. /\ S \ {c} \in SUBSET X /\ Cardinality(S \ {c}) < Cardinality(S)
        /\ S \ {y} \in SUBSET X /\ Cardinality(S \ {y}) < Cardinality(S)
    BY <2>2, <2>3, <2>5, SmallerOK
  <2>8. y \in S \ {c} /\ c \in S \ {y}
    BY <2>3, <2>5, <2>6
  <2>9. g[S \ {c}] = f[y] + g[(S \ {c}) \ {y}] /\ g[S \ {y}] = f[c] + g[(S \ {y}) \ {c}]
    BY <2>4, <2>7, <2>8, Zenon
  <2>10. (S \ {c}) \ {y} = (S \ {y}) \ {c}
    OBVIOUS
  <2>11. f[c] \in Int /\ f[y] \in Int
    BY <2>2, <2>3, <2>5
  <2>12. (S \ {c}) \ {y} \in SUBSET X
    BY <2>2
  <2>13. g[(S \ {c}) \ {y}] \in Int
    BY <1>3, <2>12
  <2> DEFINE rest == g[(S \ {c}) \ {y}]
  <2>14. g[S \ {c}] = f[y] + rest /\ g[S \ {y}] = f[c] + rest /\ rest \in Int
    BY <2>9, <2>10, <2>13, Zenon
  <2> HIDE DEF rest
  <2> QED
    BY <2>3, <2>5, <2>11, <2>14
<1>5. SumFunctionOnSet(f, X) = g[X] /\ SumFunctionOnSet(f, X \ {x}) = g[X \ {x}]
  BY <1>2
<1>6. g[X] \in Int /\ g[X \ {x}] \in Int /\ g[X] = f[x] + g[X \ {x}]
  BY <1>3, <1>4
<1> QED
  BY <1>5, <1>6

LEMMA SumInt ==
    ASSUME NEW f, NEW X, IsFiniteSet(X), \A x \in X : f[x] \in Int
    PROVE  SumFunctionOnSet(f, X) \in Int
<1>1. CASE X = {}
  BY <1>1, SumEmpty
<1>2. CASE X # {}
  BY <1>2, SumAdd
<1> QED
  BY <1>1, <1>2

LEMMA SumPlus ==
    ASSUME NEW f, NEW X, IsFiniteSet(X), \A y \in X : f[y] \in Int, NEW x, x \notin X, f[x] \in Int
    PROVE  SumFunctionOnSet(f, X \union {x}) = f[x] + SumFunctionOnSet(f, X)
<1> DEFINE Y == X \union {x}
<1>1. IsFiniteSet(Y) /\ (\A y \in Y : f[y] \in Int) /\ x \in Y /\ Y \ {x} = X
  BY FS_AddElement
<1> HIDE DEF Y
<1>2. SumFunctionOnSet(f, Y) = f[x] + SumFunctionOnSet(f, Y \ {x})
  BY <1>1, SumAdd
<1> QED
  BY <1>1, <1>2 DEF Y

\* A sum taken apart.
LEMMA SumMinus ==
    ASSUME NEW f, NEW X, IsFiniteSet(X), \A x \in X : f[x] \in Int, NEW S \in SUBSET X
    PROVE  /\ SumFunctionOnSet(f, X) = SumFunctionOnSet(f, X \ S) + SumFunctionOnSet(f, S)
           /\ SumFunctionOnSet(f, X \ S) \in Int /\ SumFunctionOnSet(f, S) \in Int
<1> DEFINE Sum1(T) == SumFunctionOnSet(f, T)
           Bad == {T \in SUBSET X : Sum1(X) # Sum1(X \ T) + Sum1(T)}
<1>1. \A T \in SUBSET X : IsFiniteSet(T) /\ \A x \in T : f[x] \in Int
  BY FS_Subset
<1>2. \A T \in SUBSET X : Sum1(T) \in Int
  BY <1>1, SumInt
<1>3. ASSUME NEW T \in SUBSET X, NEW x \in T PROVE Sum1(T) = f[x] + Sum1(T \ {x})
  BY <1>1, SumAdd
<1>4. Sum1({}) = 0
  BY SumEmpty
<1> HIDE DEF Sum1
<1>5. Bad = {}
  <2> SUFFICES ASSUME Bad # {} PROVE FALSE
    OBVIOUS
  <2>1. PICK T \in Bad : \A U \in SUBSET X : Cardinality(U) < Cardinality(T) => U \notin Bad
    <3>1. Bad \in SUBSET (SUBSET X)
      OBVIOUS
    <3> HIDE DEF Bad
    <3> QED
      BY <3>1, SmallestOf
  <2>2. T \in SUBSET X /\ Sum1(X) # Sum1(X \ T) + Sum1(T)
    BY <2>1
  <2>3. \A U \in SUBSET X : Cardinality(U) < Cardinality(T) => Sum1(X) = Sum1(X \ U) + Sum1(U)
    BY <2>1
  <2> HIDE DEF Bad
  <2>4. T # {}
    <3>1. X \ {} = X /\ X \in SUBSET X
      OBVIOUS
    <3>2. Sum1(X) = Sum1(X) + 0
      BY <1>2, <3>1
    <3> QED
      BY <1>4, <2>2, <3>1, <3>2
  <2>5. PICK x \in T : TRUE
    BY <2>4
  <2>6. T \ {x} \in SUBSET X /\ Cardinality(T \ {x}) < Cardinality(T)
    BY <2>2, SmallerOK
  <2>7. Sum1(X) = Sum1(X \ (T \ {x})) + Sum1(T \ {x})
    BY <2>3, <2>6
  <2>8. Sum1(T) = f[x] + Sum1(T \ {x})
    BY <1>3, <2>2
  <2>9. Sum1(X \ (T \ {x})) = f[x] + Sum1((X \ (T \ {x})) \ {x})
    <3>1. X \ (T \ {x}) \in SUBSET X /\ x \in X \ (T \ {x})
      BY <2>2
    <3> QED
      BY <1>3, <3>1
  <2>10. (X \ (T \ {x})) \ {x} = X \ T
    BY <2>2
  <2>11. Sum1(X \ T) \in Int /\ Sum1(T \ {x}) \in Int /\ f[x] \in Int
    <3>1. X \ T \in SUBSET X
      OBVIOUS
    <3> QED
      BY <1>1, <1>2, <2>2, <2>6, <3>1
  <2>12. Sum1(X \ (T \ {x})) = f[x] + Sum1(X \ T)
    BY <2>9, <2>10
  <2> QED
    BY <2>2, <2>7, <2>8, <2>11, <2>12
<1>6. X \ S \in SUBSET X
  OBVIOUS
<1>7. Sum1(X) = Sum1(X \ S) + Sum1(S)
  BY <1>5
<1> QED
  BY <1>2, <1>6, <1>7 DEF Sum1

\* A sum depends on nothing but the values it adds up.
LEMMA SumSame ==
    ASSUME NEW f, NEW h, NEW X, IsFiniteSet(X), \A x \in X : f[x] \in Int /\ h[x] = f[x]
    PROVE  SumFunctionOnSet(h, X) = SumFunctionOnSet(f, X)
<1> DEFINE Bad == {T \in SUBSET X : SumFunctionOnSet(h, T) # SumFunctionOnSet(f, T)}
<1> SUFFICES ASSUME Bad # {} PROVE FALSE
  OBVIOUS
<1>1. PICK T \in Bad : \A U \in SUBSET X : Cardinality(U) < Cardinality(T) => U \notin Bad
  <2>1. Bad \in SUBSET (SUBSET X)
    OBVIOUS
  <2> HIDE DEF Bad
  <2> QED
    BY <2>1, SmallestOf
<1>2. T \in SUBSET X /\ SumFunctionOnSet(h, T) # SumFunctionOnSet(f, T)
  BY <1>1
<1>3. \A U \in SUBSET X : Cardinality(U) < Cardinality(T) =>
        SumFunctionOnSet(h, U) = SumFunctionOnSet(f, U)
  BY <1>1
<1> HIDE DEF Bad
<1>4. T # {}
  BY <1>2, SumEmpty
<1>5. PICK x \in T : TRUE
  BY <1>4
<1>6. IsFiniteSet(T) /\ \A y \in T : f[y] \in Int /\ h[y] \in Int /\ h[y] = f[y]
  BY <1>2, FS_Subset
<1>7. T \ {x} \in SUBSET X /\ Cardinality(T \ {x}) < Cardinality(T)
  BY <1>2, SmallerOK
<1>8. SumFunctionOnSet(h, T) = h[x] + SumFunctionOnSet(h, T \ {x})
  BY <1>6, SumAdd
<1>9. SumFunctionOnSet(f, T) = f[x] + SumFunctionOnSet(f, T \ {x})
  BY <1>6, SumAdd
<1> QED
  BY <1>2, <1>3, <1>5, <1>6, <1>7, <1>8, <1>9

USE RowsAssumption

-----------------------------------------------------------------------------
(* Money.  While nothing goes wrong the books balance (Balanced), a pair   *)
(* half written belongs to a generator that will write the rest (Carries,  *)
(* HalvesHeld), and a week still to be credited is closed.                 *)

Worth == [r \in Rows |-> info[r].amount]
Credit == [w \in Weeks |-> Net(w)]
Earned == OfKind(Present, "earning")

Typed ==
    /\ info \in [Rows -> Info]
    /\ \A t \in Tasks : task[t].delta \in Int
    /\ closing \subseteq Weeks
    /\ mishaps \subseteq {"crash", "error", "slow"}

\* Row r is written as one half of a pair.
IsHalf(r, amount, kind, twin) ==
    /\ r \in Present
    /\ info[r].amount = amount /\ info[r].kind = kind /\ info[r].twin = twin

\* The rows generator t carries with.
Carries(t) ==
    /\ task[t].pc # "carry" => task[t].pair = {}
    /\ task[t].pc = "carry" =>
        \E r, q \in Rows :
            /\ r < q /\ task[t].pair = {r, q} /\ task[t].half # {}
            /\ r \in task[t].half \/ IsHalf(r, task[t].delta, "out", q)
            /\ q \in task[t].half \/ IsHalf(q, -task[t].delta, "in", r)

HalvesHeld ==
    \A r \in Halves : \E t \in Tasks :
        task[t].pc = "carry" /\ r \in task[t].pair /\ info[r].twin \in task[t].half

CreditsDue == \A w \in closing : status[w] = "carried_forward"

Balanced ==
    SumFunctionOnSet(Worth, Outside) + SumFunctionOnSet(Credit, closing)
    = SumFunctionOnSet(Worth, Earned) + SumFunctionOnSet(Worth, Halves)

Books ==
    mishaps = {} => (\A t \in Tasks : Carries(t)) /\ HalvesHeld /\ CreditsDue /\ Balanced

LEMMA SumOK == \A S : Sum(S) = SumFunctionOnSet(Worth, S)
BY DEF Sum, Worth

LEMMA PresentOK ==
    /\ Present \in SUBSET Rows /\ Outside \in SUBSET Present /\ Earned \in SUBSET Present
    /\ Halves \in SUBSET Present
    /\ Outside \in SUBSET Rows /\ Earned \in SUBSET Rows /\ Halves \in SUBSET Rows
BY DEF Present, Outside, Earned, OfKind, Halves

LEMMA WorthOK ==
    ASSUME Typed
    PROVE  /\ \A r \in Rows : Worth[r] \in Int /\ Worth[r] = info[r].amount
           /\ \A S \in SUBSET Rows : /\ IsFiniteSet(S)
                                     /\ \A r \in S : Worth[r] \in Int
                                     /\ SumFunctionOnSet(Worth, S) \in Int
                                     /\ Sum(S) \in Int
<1>1. \A r \in Rows : Worth[r] \in Int /\ Worth[r] = info[r].amount
  BY DEF Typed, Worth, Info
<1>2. ASSUME NEW S \in SUBSET Rows PROVE IsFiniteSet(S) /\ \A r \in S : Worth[r] \in Int
  BY <1>1, FS_Subset
<1>3. ASSUME NEW S \in SUBSET Rows PROVE SumFunctionOnSet(Worth, S) \in Int
  BY <1>2, SumInt
<1> QED
  BY <1>1, <1>2, <1>3, SumOK

LEMMA CreditOK ==
    ASSUME Types, Typed
    PROVE  /\ \A w \in Weeks : Credit[w] \in Int /\ Credit[w] = SumFunctionOnSet(Worth, summed[w])
           /\ \A S \in SUBSET Weeks : /\ IsFiniteSet(S)
                                      /\ \A w \in S : Credit[w] \in Int
                                      /\ SumFunctionOnSet(Credit, S) \in Int
<1>1. \A w \in Weeks : summed[w] \in SUBSET Rows
  BY DEF Types
<1>2. \A w \in Weeks : Credit[w] = SumFunctionOnSet(Worth, summed[w])
  BY SumOK DEF Credit, Net
<1>3. \A w \in Weeks : Credit[w] \in Int
  BY <1>1, <1>2, WorthOK
<1>4. IsFiniteSet(Weeks)
  <2>1. 1 \in Int /\ NWeeks \in Int
    OBVIOUS
  <2> QED
    BY <2>1, FS_Interval DEF Weeks
<1>5. ASSUME NEW S \in SUBSET Weeks PROVE IsFiniteSet(S) /\ \A w \in S : Credit[w] \in Int
  BY <1>3, <1>4, FS_Subset
<1>6. ASSUME NEW S \in SUBSET Weeks PROVE SumFunctionOnSet(Credit, S) \in Int
  BY <1>5, SumInt
<1> QED
  BY <1>2, <1>3, <1>5, <1>6

\* The initial books are empty.
LEMMA BooksInit == Init => Typed /\ Books
<1> SUFFICES ASSUME Init PROVE Typed /\ Books
  OBVIOUS
<1>1. Typed
  <2>1. \A t \in Tasks : task[t].delta \in Int
    BY DEF Init, Idle
  <2>2. 1 \in 1..NWeeks + 1 /\ "earning" \in Kinds /\ 0 \in Int
    BY DEF Kinds
  <2>3. \A r \in Rows : [week |-> 1, amount |-> 0, kind |-> "earning", twin |-> r] \in Info
    BY <2>2 DEF Info
  <2>4. info \in [Rows -> Info]
    BY <2>3 DEF Init
  <2> QED
    BY <2>1, <2>4 DEF Init, Typed
<1>2. Present = {} /\ closing = {}
  BY DEF Init, Present
<1>3. Outside = {} /\ Earned = {} /\ Halves = {}
  BY <1>2 DEF Outside, Earned, OfKind, Halves
<1>4. \A t \in Tasks : Carries(t)
  BY DEF Init, Carries, Idle
<1>5. Balanced
  BY <1>2, <1>3, SumEmpty DEF Balanced
<1> QED
  BY <1>1, <1>2, <1>3, <1>4, <1>5 DEF Books, HalvesHeld, CreditsDue

-----------------------------------------------------------------------------
\* What the summed rows of a week come to depends on their amounts only.
LEMMA NetsSame ==
    ASSUME Types, Typed, NEW S \in SUBSET Weeks,
           \A w \in S : summed'[w] = summed[w] /\ \A r \in summed[w] : info'[r] = info[r]
    PROVE  SumFunctionOnSet(Credit', S) = SumFunctionOnSet(Credit, S)
<1>1. ASSUME NEW w \in S PROVE Credit'[w] = Credit[w]
  <2>1. summed[w] \in SUBSET Rows
    BY DEF Types
  <2>2. \A r \in summed[w] : Worth'[r] = Worth[r]
    BY <1>1, <2>1 DEF Worth
  <2>3. SumFunctionOnSet(Worth', summed[w]) = SumFunctionOnSet(Worth, summed[w])
    <3>1. IsFiniteSet(summed[w]) /\ \A r \in summed[w] : Worth[r] \in Int /\ Worth'[r] = Worth[r]
      BY <2>1, <2>2, WorthOK
    <3> QED
      BY <3>1, SumSame
  <2>4. Credit'[w] = SumFunctionOnSet(Worth', summed'[w])
    BY DEF Credit, Net, Sum, Worth
  <2> QED
    BY <1>1, <2>3, <2>4, CreditOK
<1>2. IsFiniteSet(S) /\ \A w \in S : Credit[w] \in Int /\ Credit'[w] = Credit[w]
  BY <1>1, CreditOK
<1> QED
  BY <1>2, SumSame

\* Rows already written stay as they are.
LEMMA CarriesStays ==
    ASSUME NEW t \in Tasks, Carries(t), task'[t] = task[t],
           \A r \in Rows : r \in Present => r \in Present' /\ info'[r] = info[r]
    PROVE  Carries(t)'
<1>1. CASE task[t].pc = "carry"
  <2>1. PICK r, q \in Rows :
            /\ r < q /\ task[t].pair = {r, q} /\ task[t].half # {}
            /\ r \in task[t].half \/ IsHalf(r, task[t].delta, "out", q)
            /\ q \in task[t].half \/ IsHalf(q, -task[t].delta, "in", r)
    BY <1>1 DEF Carries
  <2>2. r \in task'[t].half \/ (/\ r \in Present' /\ info'[r].amount = task'[t].delta
                                /\ info'[r].kind = "out" /\ info'[r].twin = q)
    BY <2>1 DEF IsHalf
  <2>3. q \in task'[t].half \/ (/\ q \in Present' /\ info'[q].amount = -task'[t].delta
                                /\ info'[q].kind = "in" /\ info'[q].twin = r)
    BY <2>1 DEF IsHalf
  <2>4. /\ task'[t].pc = "carry"
        /\ r < q /\ task'[t].pair = {r, q} /\ task'[t].half # {}
    BY <1>1, <2>1
  <2> QED
    BY <2>2, <2>3, <2>4 DEF Carries, IsHalf
<1>2. CASE task[t].pc # "carry"
  BY <1>2 DEF Carries
<1> QED
  BY <1>1, <1>2

\* A step that neither writes a row nor closes a week or reopens one.
SameClosed ==
    \A w \in Weeks : status'[w] = "carried_forward" <=> status[w] = "carried_forward"

LEMMA QuietOK ==
    ASSUME Types, Typed, Books, mishaps = {}, UNCHANGED <<info, closing>>, SameClosed,
           Present' = Present, Outside' = Outside,
           \A w \in closing : summed'[w] = summed[w],
           \A u \in Tasks : \/ task'[u] = task[u]
                            \/ task[u].pc # "carry" /\ Carries(u)'
    PROVE  Books'
<1>1. Worth' = Worth
  BY DEF Worth
<1>2. Earned' = Earned /\ Halves' = Halves
  BY DEF Earned, OfKind, Halves
<1>3. SumFunctionOnSet(Credit', closing) = SumFunctionOnSet(Credit, closing)
  BY NetsSame DEF Typed
<1>4. Balanced'
  BY <1>1, <1>2, <1>3 DEF Books, Balanced
<1>5. CreditsDue'
  BY DEF Books, Typed, CreditsDue, SameClosed
<1>6. HalvesHeld'
  BY <1>2 DEF Books, HalvesHeld
<1>7. ASSUME NEW u \in Tasks, task'[u] = task[u] PROVE Carries(u)'
  BY <1>7, CarriesStays DEF Books
<1> QED
  BY <1>4, <1>5, <1>6, <1>7 DEF Books

\* The rows stay where they are.
LEMMA SameRowsOK ==
    ASSUME UNCHANGED sid, SameClosed
    PROVE  Present' = Present /\ Outside' = Outside
<1>1. Present' = Present
  BY DEF Present
<1>2. \A r : r \in Outside' <=> r \in Outside
  BY <1>1 DEF Outside, SameClosed
<1> QED
  BY <1>1, <1>2

LEMMA StandstillOK == Typed /\ Books /\ UNCHANGED vars => Typed' /\ Books'
BY DEF vars, rowVars, lockVars, Typed, Books, Carries, IsHalf, HalvesHeld, CreditsDue, Balanced, Worth,
       Credit, Net, Sum, Earned, OfKind, Present, Outside, Halves

\* The administrators' steps, and time.
LEMMA OutsideStepOK ==
    ASSUME Inv, Typed, Books, NEW w \in Weeks,
           Schedule(w) \/ Payout(w) \/ Hold(w) \/ Expire(w)
    PROVE  Typed' /\ Books'
<1>1. UNCHANGED <<sid, info, summed, task, closing>> /\ mishaps \subseteq mishaps'
  BY DEF Schedule, Schedule_Busy, Payout, Hold, Expire, Mishap, rowVars
<1>2. mishaps' \subseteq {"crash", "error", "slow"}
  BY DEF Typed, Schedule, Schedule_Busy, Payout, Hold, Expire, Mishap
<1>3. Typed'
  BY <1>1, <1>2 DEF Typed
<1>4. SameClosed
  BY DEF Inv, Types, Schedule, Schedule_Busy, Payout, Hold, Expire, SameClosed
<1>5. Present' = Present /\ Outside' = Outside
  BY <1>1, <1>4, SameRowsOK
<1>6. CASE mishaps = {}
  BY <1>1, <1>3, <1>4, <1>5, <1>6, QuietOK DEF Inv
<1>7. CASE mishaps # {}
  BY <1>1, <1>3, <1>7 DEF Books
<1> QED
  BY <1>3, <1>6, <1>7

-----------------------------------------------------------------------------
(* The generators' steps.                                                  *)

\* A generator that moves on without carrying.
Plain(t, v) ==
    /\ v.delta \in {task[t].delta, 0}
    /\ v.pair \in {task[t].pair, {}}
    /\ v.pc # "carry"

LEMMA MovedOK ==
    ASSUME Types, NEW t \in Tasks, NEW v, Become(t, v)
    PROVE  task'[t] = v /\ \A u \in Tasks : u # t => task'[u] = task[u]
BY DEF Types, Become

LEMMA PlainOK ==
    ASSUME Types, Typed, NEW t \in Tasks, NEW v, Become(t, v), Plain(t, v),
           UNCHANGED <<info, closing>>, mishaps' \subseteq {"crash", "error", "slow"}
    PROVE  /\ Typed'
           /\ Books /\ mishaps = {} /\ task[t].pc # "carry" =>
                \A u \in Tasks : \/ task'[u] = task[u]
                                 \/ task[u].pc # "carry" /\ Carries(u)'
<1>1. task'[t] = v /\ \A u \in Tasks : u # t => task'[u] = task[u]
  BY MovedOK
<1>2. Typed'
  <2>1. task'[t].delta \in Int
    BY <1>1 DEF Plain, Typed
  <2> QED
    BY <1>1, <2>1 DEF Typed
<1>3. ASSUME Books, mishaps = {}, task[t].pc # "carry" PROVE Carries(t)'
  BY <1>1, <1>3 DEF Books, Carries, Plain
<1> QED
  BY <1>1, <1>2, <1>3

\* A generator's fields, written.
LEMMA FieldsOK ==
    ASSUME Types, NEW t \in Tasks
    PROVE  /\ \A pc : LET v == [task[t] EXCEPT !.pc = pc] IN
                v.pc = pc /\ v.pair = task[t].pair /\ v.delta = task[t].delta
           /\ \A pc, h : LET v == [task[t] EXCEPT !.pc = pc, !.held = h] IN
                v.pc = pc /\ v.pair = task[t].pair /\ v.delta = task[t].delta
           /\ \A pc, a, b : LET v == [task[t] EXCEPT !.pc = pc, !.cand = a, !.left = b] IN
                v.pc = pc /\ v.pair = task[t].pair /\ v.delta = task[t].delta
           /\ \A pc, a : LET v == [task[t] EXCEPT !.left = a, !.pc = pc] IN
                v.pc = pc /\ v.pair = task[t].pair /\ v.delta = task[t].delta
           /\ \A pc, a, b : LET v == [task[t] EXCEPT !.pc = pc, !.cand = a, !.claimed = b] IN
                v.pc = pc /\ v.pair = task[t].pair /\ v.delta = task[t].delta
           /\ \A pc, a : LET v == [task[t] EXCEPT !.pc = pc, !.rows = a] IN
                v.pc = pc /\ v.pair = task[t].pair /\ v.delta = task[t].delta
           /\ \A pc, a : LET v == [task[t] EXCEPT !.pc = pc, !.claimed = a] IN
                v.pc = pc /\ v.pair = task[t].pair /\ v.delta = task[t].delta
<1>1. PICK d : task[t] \in TaskWith(d)
  BY DEF Types, Loose
<1> QED
  BY <1>1 DEF TaskWith

LEMMA IdlePlain ==
    ASSUME NEW t \in Tasks
    PROVE  Plain(t, Idle) /\ \A w : Plain(t, [Idle EXCEPT !.pc = "find", !.w = w])
BY DEF Plain, Idle

LEMMA PlainStepOK ==
    ASSUME Inv, Typed, Books, NEW t \in Tasks, NEW v, Become(t, v), Plain(t, v),
           UNCHANGED <<sid, info, closing, mishaps>>,
           mishaps = {} => /\ task[t].pc # "carry" /\ SameClosed
                           /\ \A w \in closing : summed'[w] = summed[w]
    PROVE  Typed' /\ Books'
<1>1. mishaps' \subseteq {"crash", "error", "slow"}
  BY DEF Typed
<1>2. /\ Typed'
      /\ mishaps = {} => \A u \in Tasks : \/ task'[u] = task[u]
                                          \/ task[u].pc # "carry" /\ Carries(u)'
  BY <1>1, PlainOK DEF Inv
<1>3. ASSUME mishaps = {} PROVE Books'
  <2>1. Present' = Present /\ Outside' = Outside
    BY <1>3, SameRowsOK
  <2> QED
    BY <1>2, <1>3, <2>1, QuietOK DEF Inv
<1> QED
  BY <1>2, <1>3 DEF Books

\* A generator's steps after something went wrong, or that only move it.
LEMMA GenerateBooks ==
    ASSUME Inv, Typed, Books, NEW t \in Tasks, NEW w \in Weeks, Generate(t, w) \/ Unhold(t, w)
    PROVE  Typed' /\ Books'
<1> DEFINE v == [Idle EXCEPT !.pc = "find", !.w = w]
<1>1. Become(t, v) /\ task[t].pc = "idle"
  BY DEF Generate, Unhold, At
<1>2. Plain(t, v)
  BY IdlePlain
<1>3. UNCHANGED <<sid, info, status, summed, closing, mishaps>>
  BY DEF Generate, Unhold, rowVars
<1> HIDE DEF v
<1> QED
  BY <1>1, <1>2, <1>3, PlainStepOK DEF SameClosed

LEMMA MovePlain ==
    ASSUME Inv, NEW t \in Tasks, NEW pc, pc # "carry", Goto(t, pc)
    PROVE  \E v : Become(t, v) /\ Plain(t, v)
<1>1. Plain(t, [task[t] EXCEPT !.pc = pc])
  BY FieldsOK DEF Inv, Plain
<1> QED
  BY <1>1 DEF Goto

LEMMA FinishPlain ==
    ASSUME NEW t \in Tasks, Finish(t)
    PROVE  \E v : Become(t, v) /\ Plain(t, v)
BY IdlePlain DEF Finish

LEMMA MovingBooks ==
    ASSUME Inv, Typed, Books, NEW t \in Tasks,
           \/ FindOrCreate(t) \/ Lock(t) \/ Candidates(t) \/ Claimed(t) \/ DropEmptyWeek(t)
           \/ Reread(t) \/ Release(t) \/ Undo(t) \/ Unmake(t) \/ DropIfEmpty(t)
    PROVE  Typed' /\ Books'
<1>1. PICK w0 \in Weeks : w0 = task[t].w
  BY RegistersOK
<1>2. /\ UNCHANGED <<sid, info, summed, closing, mishaps>>
      /\ task[t].pc \in {"find", "lock", "candidates", "claimed", "drop", "reread", "release",
                         "undo", "unmake", "dropEmpty"}
  BY DEF FindOrCreate, Lock, Candidates, Claimed, DropEmptyWeek, Reread, Release, Undo, Unmake,
         DropIfEmpty, At, rowVars
<1>3. \E v : Become(t, v) /\ Plain(t, v)
  <2>1. ASSUME \E pc \in {"lock", "release", "unmake", "dropEmpty", "delete"} : Goto(t, pc)
        PROVE  \E v : Become(t, v) /\ Plain(t, v)
    BY <2>1, MovePlain
  <2>2. CASE FindOrCreate(t)
    BY <2>1, <2>2, FinishPlain DEF FindOrCreate
  <2>3. CASE Lock(t)
    <3>1. CASE Finish(t)
      BY <3>1, FinishPlain
    <3>2. CASE Become(t, [task[t] EXCEPT !.pc = "candidates", !.held = manual[w0]])
      <4>1. Plain(t, [task[t] EXCEPT !.pc = "candidates", !.held = manual[w0]])
        BY FieldsOK DEF Inv, Plain
      <4> QED
        BY <3>2, <4>1
    <3> QED
      BY <1>1, <2>3, <3>1, <3>2 DEF Lock
  <2>4. CASE Candidates(t)
    <3>1. PICK pc, a, b : /\ Become(t, [task[t] EXCEPT !.pc = pc, !.cand = a, !.left = b])
                          /\ pc # "carry"
      <4> DEFINE a == {r \in Rows : sid[r] = Free /\ info[r].week <= task[t].w}
                 pc == IF a = {} THEN "read" ELSE "claim"
      <4>1. Become(t, [task[t] EXCEPT !.pc = pc, !.cand = a, !.left = a])
        BY <2>4 DEF Candidates
      <4>2. pc # "carry"
        OBVIOUS
      <4> HIDE DEF a, pc
      <4> QED
        BY <4>1, <4>2
    <3>2. Plain(t, [task[t] EXCEPT !.pc = pc, !.cand = a, !.left = b])
      BY <3>1, FieldsOK DEF Inv, Plain
    <3> QED
      BY <3>1, <3>2
  <2>5. CASE Claimed(t)
    <3>1. PICK b : Become(t, [task[t] EXCEPT !.pc = "read", !.cand = {}, !.claimed = b])
      BY <2>5 DEF Claimed
    <3>2. Plain(t, [task[t] EXCEPT !.pc = "read", !.cand = {}, !.claimed = b])
      BY FieldsOK DEF Inv, Plain
    <3> QED
      BY <3>1, <3>2
  <2>6. CASE DropEmptyWeek(t) \/ DropIfEmpty(t)
    BY <2>1, <2>6 DEF DropEmptyWeek, DropIfEmpty
  <2>7. CASE Reread(t)
    <3>1. PICK a : Become(t, [task[t] EXCEPT !.pc = "save", !.rows = a])
      BY <2>7 DEF Reread
    <3>2. Plain(t, [task[t] EXCEPT !.pc = "save", !.rows = a])
      BY FieldsOK DEF Inv, Plain
    <3> QED
      BY <3>1, <3>2
  <2>8. CASE Release(t)
    BY <2>8, FinishPlain DEF Release
  <2>9. CASE Undo(t)
    BY <2>1, <2>9 DEF Undo
  <2>10. CASE Unmake(t)
    <3>1. CASE Goto(t, "delete")
      BY <2>1, <3>1
    <3>2. CASE \E a : Become(t, [task[t] EXCEPT !.pc = "unclaim", !.claimed = a])
      <4>1. PICK a : Become(t, [task[t] EXCEPT !.pc = "unclaim", !.claimed = a])
        BY <3>2
      <4>2. Plain(t, [task[t] EXCEPT !.pc = "unclaim", !.claimed = a])
        BY FieldsOK DEF Inv, Plain
      <4> QED
        BY <4>1, <4>2
    <3> QED
      BY <2>10, <3>1, <3>2 DEF Unmake
  <2> QED
    BY <2>2, <2>3, <2>4, <2>5, <2>6, <2>7, <2>8, <2>9, <2>10
<1>4. PICK v : Become(t, v) /\ Plain(t, v)
  BY <1>3
<1>5. ASSUME mishaps = {} PROVE task[t].pc # "carry" /\ SameClosed
  <2>1. Knows(t)
    BY <1>5 DEF Inv, Calm
  <2>2. task[t].pc \in Working => status[w0] \in Open
    BY <1>1, <2>1 DEF Knows
  <2>3. CASE FindOrCreate(t)
    <3>1. status' = [status EXCEPT ![w0] = IF @ = "none" THEN "draft" ELSE @]
      BY <1>1, <2>3 DEF FindOrCreate
    <3> QED
      BY <1>2, <3>1 DEF SameClosed, Inv, Types
  <2>4. CASE DropEmptyWeek(t)
    <3>1. status[w0] \in Open
      BY <2>2, <2>4 DEF DropEmptyWeek, At, Working
    <3>2. status' = [status EXCEPT ![w0] = "none"] \/ status' = status
      BY <1>1, <2>4 DEF DropEmptyWeek, Remove
    <3> QED
      BY <1>2, <3>1, <3>2 DEF SameClosed, Inv, Types, Open
  <2>5. CASE DropIfEmpty(t)
    BY <2>1, <2>5 DEF DropIfEmpty, At, Knows, Working, Resting
  <2>6. CASE ~FindOrCreate(t) /\ ~DropEmptyWeek(t) /\ ~DropIfEmpty(t)
    <3>1. UNCHANGED status
      BY <2>6 DEF Lock, Candidates, Claimed, Reread, Release, Undo, Unmake
    <3> QED
      BY <1>2, <3>1 DEF SameClosed
  <2> QED
    BY <2>3, <2>4, <2>5, <2>6
<1> QED
  BY <1>2, <1>4, <1>5, PlainStepOK

\* Totals are written for a week that is open, so none of those to be credited.
LEMMA SaveBooks ==
    ASSUME Inv, Typed, Books, NEW t \in Tasks, Save(t)
    PROVE  Typed' /\ Books'
<1>1. PICK w0 \in Weeks : w0 = task[t].w
  BY RegistersOK
<1>2. task[t].pc = "save" /\ UNCHANGED <<sid, info, closing, mishaps>>
  BY DEF Save, At, rowVars
<1>3. CASE UNCHANGED <<status, summed>> /\ Goto(t, "undo")
  <2>1. PICK v : Become(t, v) /\ Plain(t, v)
    BY <1>3, MovePlain
  <2> QED
    BY <1>2, <1>3, <2>1, PlainStepOK DEF SameClosed
<1>4. CASE /\ status[w0] \in Open /\ Finish(t)
           /\ summed' = [summed EXCEPT ![w0] = task[t].rows]
           /\ \E s \in Open : status' = [status EXCEPT ![w0] = s]
  <2>1. PICK v : Become(t, v) /\ Plain(t, v)
    BY <1>4, FinishPlain
  <2>2. SameClosed
    BY <1>4 DEF SameClosed, Inv, Types, Open
  <2>3. ASSUME mishaps = {}, NEW w \in closing PROVE summed'[w] = summed[w]
    <3>1. w \in Weeks /\ status[w] = "carried_forward"
      BY <2>3 DEF Typed, Books, CreditsDue
    <3> QED
      BY <1>4, <3>1 DEF Inv, Types, Open
  <2> QED
    BY <1>2, <2>1, <2>2, <2>3, PlainStepOK
<1>5. \A a, b, c, d : Decided(a, b, c, d) \in Open
  BY DEF Decided, Open
<1> QED
  BY <1>1, <1>3, <1>4, <1>5 DEF Save

\* What takes a failed run back is not reached while nothing goes wrong.
LEMMA FailingBooks ==
    ASSUME Inv, Typed, Books, NEW t \in Tasks, Delete(t) \/ Unclaim(t) \/ Crash(t) \/ Error(t)
    PROVE  Typed' /\ Books'
<1>1. UNCHANGED <<info, closing>>
  BY DEF Delete, Unclaim, Crash, Error, rowVars
<1>2. mishaps' \subseteq {"crash", "error", "slow"}
  BY DEF Typed, Delete, Unclaim, Crash, Error, Mishap
<1>3. mishaps' # {}
  <2>1. CASE Delete(t) \/ Unclaim(t)
    <3>1. ~Knows(t)
      BY <2>1 DEF Delete, Unclaim, At, Knows, Working, Resting
    <3> QED
      BY <2>1, <3>1 DEF Inv, Calm, Delete, Unclaim
  <2>2. CASE Crash(t) \/ Error(t)
    BY <2>2 DEF Crash, Error, Mishap
  <2> QED
    BY <2>1, <2>2
<1>4. PICK v : Become(t, v) /\ Plain(t, v)
  BY MovePlain, FinishPlain DEF Delete, Unclaim, Crash, Error
<1> QED
  BY <1>1, <1>2, <1>3, <1>4, PlainOK DEF Inv, Books

\* A claimed row was in no week and goes to one that is open.
LEMMA ClaimRowBooks ==
    ASSUME Inv, Typed, Books, NEW t \in Tasks, ClaimRow(t)
    PROVE  Typed' /\ Books'
<1>1. PICK w0 \in Weeks : w0 = task[t].w
  BY RegistersOK
<1>2. task[t].pc = "claim" /\ UNCHANGED <<info, status, summed, closing, mishaps>>
  BY DEF ClaimRow, At
<1>3. PICK r \in task[t].left, pc \in {"claim", "claimed"} :
        /\ sid' = [sid EXCEPT ![r] = IF @ = Free THEN w0 ELSE @]
        /\ Become(t, [task[t] EXCEPT !.left = @ \ {r}, !.pc = pc])
  BY <1>1 DEF ClaimRow
<1>4. PICK v : Become(t, v) /\ Plain(t, v)
  <2>1. Plain(t, [task[t] EXCEPT !.left = @ \ {r}, !.pc = pc])
    BY <1>3, FieldsOK DEF Inv, Plain
  <2> QED
    BY <1>3, <2>1
<1>5. r \in Rows
  BY <1>3 DEF Inv, Types, Loose, TaskWith
<1>6. /\ Typed'
      /\ mishaps = {} => \A u \in Tasks : \/ task'[u] = task[u]
                                          \/ task[u].pc # "carry" /\ Carries(u)'
  BY <1>2, <1>4, PlainOK DEF Inv, Typed
<1>7. ASSUME mishaps = {} PROVE Books'
  <2>1. status[w0] \in Open
    BY <1>1, <1>2, <1>7 DEF Inv, Calm, Knows, Working
  <2>2. \A x \in Rows : \/ sid'[x] = sid[x]
                        \/ sid[x] = Free /\ sid'[x] = w0
    BY <1>3, <1>5 DEF Inv, Types
  <2>3. Present' = Present
    <3>1. Free \notin {Unwritten, Gone} /\ w0 \notin {Unwritten, Gone}
      BY WeeksOK DEF Free, Unwritten, Gone
    <3>2. \A x \in Rows : sid'[x] \in {Unwritten, Gone} <=> sid[x] \in {Unwritten, Gone}
      BY <2>2, <3>1
    <3> QED
      BY <3>2 DEF Present
  <2>4. \A x \in Rows : (\A w \in Weeks : status'[w] = "carried_forward" => sid'[x] # w)
                        <=> (\A w \in Weeks : status[w] = "carried_forward" => sid[x] # w)
    BY <1>2, <2>1, <2>2, WeeksOK DEF Open
  <2>5. Outside' = Outside
    <3>1. \A x : x \in Outside' <=> x \in Outside
      BY <2>3, <2>4, PresentOK DEF Outside
    <3> QED
      BY <3>1
  <2> QED
    BY <1>2, <1>6, <1>7, <2>3, <2>5, QuietOK DEF Inv, SameClosed
<1> QED
  BY <1>6, <1>7, <1>2 DEF Books

\* Two new rows.
LEMMA PairOK == ASSUME NEW pair \in Fresh(2) PROVE \E r, q \in Rows : r < q /\ pair = {r, q}
<1>1. pair \in SUBSET Rows /\ Cardinality(pair) = 2
  BY DEF Fresh, Unused
<1>2. IsFiniteSet(pair)
  BY <1>1, FS_Subset
<1>3. PICK a \in pair : TRUE
  <2>1. Cardinality(pair) # 0
    BY <1>1
  <2>2. pair # {}
    BY <2>1, FS_EmptySet
  <2> QED
    BY <2>2
<1>4. IsFiniteSet(pair \ {a}) /\ Cardinality(pair \ {a}) = 1
  <2>1. IsFiniteSet(pair \ {a}) /\ Cardinality(pair \ {a}) = Cardinality(pair) - 1
    BY <1>2, <1>3, FS_RemoveElement
  <2> QED
    BY <1>1, <2>1
<1>5. PICK b : pair \ {a} = {b}
  BY <1>4, FS_Singleton
<1>6. pair = {a, b} /\ a # b /\ a \in Rows /\ b \in Rows /\ pair = {b, a}
  <2>1. b \in pair \ {a} /\ \A x \in pair : x # a => x = b
    BY <1>5
  <2> QED
    BY <1>1, <2>1
<1>7. a \in Nat /\ b \in Nat
  BY <1>6
<1>8. a < b \/ b < a
  BY <1>6, <1>7
<1> QED
  BY <1>6, <1>8

LEMMA DeltaOK ==
    ASSUME Typed, NEW S \in SUBSET Rows, NEW carrying \in BOOLEAN
    PROVE  Delta(S, carrying) \in Int
<1> DEFINE carried == Sum(OfKind(S, "out"))
           total == Sum(S)
           shortfall == Shortfall(total - carried)
<1>1. OfKind(S, "out") \in SUBSET Rows
  BY DEF OfKind
<1>2. carried \in Int /\ total \in Int
  BY <1>1, WorthOK
<1> HIDE DEF carried, total
<1>3. shortfall \in Int
  BY <1>2 DEF Shortfall
<1> HIDE DEF shortfall
<1>4. Lesser(carried, shortfall) \in Int
  BY <1>2, <1>3 DEF Lesser
<1>5. Delta(S, carrying) = (IF carrying THEN shortfall ELSE Lesser(carried, shortfall)) - carried
  BY DEF Delta, carried, total, shortfall
<1> QED
  BY <1>2, <1>3, <1>4, <1>5

LEMMA ReadRowsBooks ==
    ASSUME Inv, Typed, Books, NEW t \in Tasks, ReadRows(t)
    PROVE  Typed' /\ Books'
<1> DEFINE rows == Attached(task[t].w)
<1>1. task[t].pc = "read" /\ UNCHANGED <<sid, info, status, summed, closing, mishaps>>
  BY DEF ReadRows, At, rowVars
<1>2. ASSUME NEW v, Become(t, v), Plain(t, v) PROVE Typed' /\ Books'
  BY <1>1, <1>2, PlainStepOK DEF SameClosed
<1>3. CASE Goto(t, "drop")
  BY <1>2, <1>3, MovePlain
<1>4. CASE Become(t, [task[t] EXCEPT !.pc = "save", !.rows = rows])
  <2>1. Plain(t, [task[t] EXCEPT !.pc = "save", !.rows = rows])
    BY FieldsOK DEF Inv, Plain
  <2> QED
    BY <1>2, <1>4, <2>1
<1>5. ASSUME NEW delta \in Int, NEW pair \in Fresh(2),
             Become(t, [task[t] EXCEPT !.pc = "carry", !.delta = delta, !.pair = pair, !.half = pair])
      PROVE  Typed' /\ Books'
  <2> DEFINE v == [task[t] EXCEPT !.pc = "carry", !.delta = delta, !.pair = pair, !.half = pair]
  <2>1. v.pc = "carry" /\ v.delta = delta /\ v.pair = pair /\ v.half = pair
    <3>1. PICK d : task[t] \in TaskWith(d)
      BY DEF Inv, Types, Loose
    <3> QED
      BY <3>1 DEF TaskWith
  <2>2. Become(t, v)
    BY <1>5
  <2> HIDE DEF v
  <2>3. task'[t] = v /\ \A u \in Tasks : u # t => task'[u] = task[u]
    BY <2>2, MovedOK DEF Inv
  <2>4. Typed'
    <3>1. \A u \in Tasks : task'[u].delta \in Int
      BY <2>1, <2>3 DEF Typed
    <3> QED
      BY <1>1, <3>1 DEF Typed
  <2>5. Carries(t)'
    BY <2>1, <2>3, PairOK DEF Carries
  <2>6. ASSUME mishaps = {} PROVE Books'
    <3>1. Present' = Present /\ Outside' = Outside
      BY <1>1, SameRowsOK DEF SameClosed
    <3> QED
      BY <1>1, <2>3, <2>5, <2>6, <3>1, QuietOK DEF Inv, SameClosed
  <2> QED
    BY <1>1, <2>4, <2>6 DEF Books
<1>6. \/ Goto(t, "drop")
      \/ Become(t, [task[t] EXCEPT !.pc = "save", !.rows = rows])
      \/ \E delta \in Int, pair \in Fresh(2) :
            Become(t, [task[t] EXCEPT !.pc = "carry", !.delta = delta, !.pair = pair, !.half = pair])
  <2>1. rows \in SUBSET Rows
    BY DEF Attached
  <2>2. \A carrying \in BOOLEAN : Delta(rows, carrying) \in Int
    BY <2>1, DeltaOK
  <2> QED
    BY <2>2 DEF ReadRows
<1> QED
  BY <1>3, <1>4, <1>5, <1>6

-----------------------------------------------------------------------------
(* The steps that write a row or close a week.                             *)

\* Row r is written, in no week or in one that is open.
Writes(r, x, week, amount, kind, twin) ==
    /\ r \in Rows /\ sid[r] = Unwritten
    /\ sid' = [sid EXCEPT ![r] = x]
    /\ x = Free \/ (x \in Weeks /\ status[x] \in Open)
    /\ info' = Written(r, week, amount, kind, twin)
    /\ week \in 1..NWeeks + 1 /\ amount \in Int /\ kind \in Kinds /\ twin \in Rows
    /\ UNCHANGED <<status, summed, mishaps>>

LEMMA WritesOK ==
    ASSUME Inv, Typed, mishaps = {},
           NEW r, NEW x, NEW week, NEW amount, NEW kind, NEW twin,
           Writes(r, x, week, amount, kind, twin)
    PROVE  /\ r \notin Present /\ Present' = Present \union {r} /\ Outside' = Outside \union {r}
           /\ info' \in [Rows -> Info]
           /\ info'[r].amount = amount /\ info'[r].kind = kind /\ info'[r].twin = twin
           /\ Worth'[r] = amount
           /\ \A q \in Rows : q # r => info'[q] = info[q]
           /\ \A S \in SUBSET Present : SumFunctionOnSet(Worth', S) = SumFunctionOnSet(Worth, S)
           /\ \A S \in SUBSET Present :
                SumFunctionOnSet(Worth', S \union {r}) = amount + SumFunctionOnSet(Worth, S)
           /\ \A S \in SUBSET Weeks : SumFunctionOnSet(Credit', S) = SumFunctionOnSet(Credit, S)
<1>1. r \in Rows /\ sid[r] = Unwritten /\ UNCHANGED <<status, summed>>
  BY DEF Writes
<1>2. r \notin Present
  BY <1>1 DEF Present
<1>3. x \notin {Unwritten, Gone} /\ (x \in Weeks => status[x] # "carried_forward")
  BY WeeksOK DEF Writes, Free, Unwritten, Gone, Open
<1>4. \A q \in Rows : sid'[q] = IF q = r THEN x ELSE sid[q]
  BY DEF Writes, Inv, Types
<1>5. \A q \in Rows : q \in Present' <=> q \in Present \/ q = r
  BY <1>1, <1>3, <1>4 DEF Present
<1>6. Present' = Present \union {r}
  <2>1. Present' \subseteq Rows /\ Present \subseteq Rows
    BY DEF Present
  <2> QED
    BY <1>1, <1>5, <2>1
<1>7. Outside' = Outside \union {r}
  <2>1. \A q \in Present' : q \in Outside' <=> q \in Outside \/ q = r
    BY <1>1, <1>3, <1>4, <1>6, <1>2, PresentOK DEF Outside
  <2>2. Outside' \subseteq Present' /\ Outside \subseteq Present'
    BY <1>6 DEF Outside
  <2> QED
    BY <1>6, <2>1, <2>2
<1>8. /\ info' = [info EXCEPT ![r] = [week |-> week, amount |-> amount, kind |-> kind, twin |-> twin]]
      /\ [week |-> week, amount |-> amount, kind |-> kind, twin |-> twin] \in Info
  BY DEF Writes, Written, Info
<1>9. /\ info' \in [Rows -> Info]
      /\ info'[r] = [week |-> week, amount |-> amount, kind |-> kind, twin |-> twin]
      /\ \A q \in Rows : q # r => info'[q] = info[q]
  BY <1>1, <1>8 DEF Typed
<1>10. /\ info'[r].amount = amount /\ info'[r].kind = kind /\ info'[r].twin = twin
       /\ amount \in Int
  BY <1>9 DEF Writes
<1>11. Worth'[r] = amount /\ \A q \in Rows : q # r => Worth'[q] = Worth[q]
  BY <1>1, <1>9, <1>10 DEF Worth
<1>12. ASSUME NEW S \in SUBSET Present
       PROVE  /\ IsFiniteSet(S) /\ \A q \in S : Worth[q] \in Int /\ Worth'[q] = Worth[q]
              /\ r \notin S
  BY <1>2, <1>11, WorthOK, PresentOK
<1>13. ASSUME NEW S \in SUBSET Present
       PROVE  SumFunctionOnSet(Worth', S) = SumFunctionOnSet(Worth, S)
  BY <1>12, SumSame
<1>14. ASSUME NEW S \in SUBSET Present
       PROVE  SumFunctionOnSet(Worth', S \union {r}) = amount + SumFunctionOnSet(Worth, S)
  <2>1. \A q \in S : Worth'[q] \in Int
    BY <1>12
  <2>2. SumFunctionOnSet(Worth', S \union {r}) = Worth'[r] + SumFunctionOnSet(Worth', S)
    BY <1>10, <1>11, <1>12, <2>1, SumPlus
  <2> QED
    BY <1>11, <1>13, <2>2
<1>15. ASSUME NEW S \in SUBSET Weeks
       PROVE  SumFunctionOnSet(Credit', S) = SumFunctionOnSet(Credit, S)
  <2>1. ASSUME NEW w \in Weeks, NEW q \in summed[w] PROVE info'[q] = info[q]
    <3>1. q \in Attached(w)
      BY <2>1 DEF Inv, Calm, Locked
    <3>2. q \in Present
      BY <3>1, WeeksOK DEF Attached, Present, Unwritten, Gone
    <3> QED
      BY <1>2, <1>9, <3>2, PresentOK
  <2> QED
    BY <1>1, <2>1, NetsSame DEF Inv
<1> QED
  BY <1>2, <1>6, <1>7, <1>9, <1>10, <1>11, <1>13, <1>14, <1>15

LEMMA WrittenOK ==
    ASSUME Typed, NEW r \in Rows, NEW week \in 1..NWeeks + 1, NEW amount \in Int, NEW kind \in Kinds,
           NEW twin \in Rows
    PROVE  Written(r, week, amount, kind, twin) \in [Rows -> Info]
<1>1. [week |-> week, amount |-> amount, kind |-> kind, twin |-> twin] \in Info
  BY DEF Info
<1> QED
  BY <1>1 DEF Written, Typed

\* A row of its own: no pair gains or loses a half.
LEMMA LoneRowOK ==
    ASSUME Inv, Typed, Books, mishaps = {}, NEW r \in Unused, NEW week, NEW amount,
           NEW kind \in {"earning", "failed_payout"}, Writes(r, Free, week, amount, kind, r),
           UNCHANGED task
    PROVE  /\ Halves' = Halves
           /\ kind = "earning" => Earned' = Earned \union {r}
           /\ kind # "earning" => Earned' = Earned
           /\ \A t \in Tasks : Carries(t)'
           /\ HalvesHeld'
<1>1. /\ r \in Rows /\ r \notin Present /\ Present' = Present \union {r}
      /\ info'[r].kind = kind /\ info'[r].twin = r
      /\ \A q \in Rows : q # r => info'[q] = info[q]
  BY WritesOK DEF Writes
<1>2. /\ \A q \in Present : q \in Rows /\ q # r /\ info'[q] = info[q] /\ info[q].twin # r
  BY <1>1, PresentOK DEF Unused
<1>3. Halves' = Halves
  <2>1. ASSUME NEW q \in Present PROVE q \in Halves' <=> q \in Halves
    BY <1>1, <1>2, <2>1 DEF Halves
  <2>2. r \notin Halves'
    BY <1>1 DEF Halves
  <2>3. Halves' \subseteq Present' /\ Halves \subseteq Present
    BY DEF Halves
  <2> QED
    BY <1>1, <2>1, <2>2, <2>3
<1>4. ASSUME NEW q \in Present PROVE q \in Earned' <=> q \in Earned
  BY <1>1, <1>2, <1>4 DEF Earned, OfKind
<1>5. r \in Earned' <=> kind = "earning"
  BY <1>1 DEF Earned, OfKind
<1>6. Earned' \subseteq Present' /\ Earned \subseteq Present
  BY DEF Earned, OfKind
<1>7. kind = "earning" => Earned' = Earned \union {r}
  BY <1>1, <1>4, <1>5, <1>6
<1>8. kind # "earning" => Earned' = Earned
  BY <1>1, <1>4, <1>5, <1>6
<1>9. ASSUME NEW t \in Tasks PROVE Carries(t)'
  BY <1>1, <1>2, CarriesStays DEF Books
<1>10. HalvesHeld'
  <2>1. \A q \in Halves : info'[q] = info[q]
    BY <1>2 DEF Halves
  <2> QED
    BY <1>3, <2>1 DEF Books, HalvesHeld
<1> QED
  BY <1>3, <1>7, <1>8, <1>9, <1>10

LEMMA EarnBooks == ASSUME Inv, Typed, Books, Earn PROVE Typed' /\ Books'
<1>1. PICK r \in Unused, week \in Weeks, a \in Amounts :
        /\ sid' = [sid EXCEPT ![r] = Free]
        /\ info' = Written(r, week, a, "earning", r)
  BY DEF Earn, Fresh
<1>2. UNCHANGED <<status, summed, task, closing, mishaps>>
  BY DEF Earn
<1>3. r \in Unused /\ r \in Rows /\ sid[r] = Unwritten
  BY DEF Unused
<1>4. week \in 1..NWeeks + 1 /\ a \in Int /\ "earning" \in Kinds
  BY DEF Weeks, Kinds
<1>5. Typed'
  <2>1. info' \in [Rows -> Info]
    BY <1>1, <1>3, <1>4, WrittenOK
  <2> QED
    BY <1>2, <2>1 DEF Typed
<1>6. ASSUME mishaps = {} PROVE Books'
  <2>1. Writes(r, Free, week, a, "earning", r)
    BY <1>1, <1>2, <1>3, <1>4 DEF Writes
  <2>2. /\ Halves' = Halves /\ Earned' = Earned \union {r} /\ HalvesHeld'
        /\ \A t \in Tasks : Carries(t)'
    BY <1>2, <1>3, <1>6, <2>1, LoneRowOK
  <2>3. /\ Outside' = Outside \union {r}
        /\ SumFunctionOnSet(Worth', Outside \union {r}) = a + SumFunctionOnSet(Worth, Outside)
        /\ SumFunctionOnSet(Worth', Earned \union {r}) = a + SumFunctionOnSet(Worth, Earned)
        /\ SumFunctionOnSet(Worth', Halves) = SumFunctionOnSet(Worth, Halves)
        /\ SumFunctionOnSet(Credit', closing) = SumFunctionOnSet(Credit, closing)
    BY <1>6, <2>1, WritesOK, PresentOK DEF Typed
  <2>4. /\ SumFunctionOnSet(Worth, Outside) \in Int /\ SumFunctionOnSet(Worth, Earned) \in Int
        /\ SumFunctionOnSet(Worth, Halves) \in Int /\ SumFunctionOnSet(Credit, closing) \in Int
    BY WorthOK, CreditOK, PresentOK DEF Inv, Typed
  <2>5. Balanced
    BY <1>6 DEF Books
  <2>6. Balanced'
    BY <1>2, <1>4, <2>2, <2>3, <2>4, <2>5 DEF Balanced
  <2>7. CreditsDue'
    BY <1>2, <1>6 DEF Books, CreditsDue
  <2> QED
    BY <2>2, <2>6, <2>7 DEF Books
<1> QED
  BY <1>2, <1>5, <1>6 DEF Books

\* The credit replaces what was due.
LEMMA CreditFailedBooks ==
    ASSUME Inv, Typed, Books, NEW w \in Weeks, CreditFailed(w)
    PROVE  Typed' /\ Books'
<1> DEFINE a == Net(w)
<1>1. PICK r \in Unused, week \in w + 1 .. NWeeks + 1 :
        /\ sid' = [sid EXCEPT ![r] = Free]
        /\ info' = Written(r, week, a, "failed_payout", r)
  BY DEF CreditFailed, Fresh
<1>2. /\ UNCHANGED <<status, summed, task, mishaps>>
      /\ w \in closing /\ closing' = closing \ {w}
  BY DEF CreditFailed
<1>3. r \in Unused /\ r \in Rows /\ sid[r] = Unwritten
  BY DEF Unused
<1>4. week \in 1..NWeeks + 1 /\ a \in Int /\ a = Credit[w] /\ "failed_payout" \in Kinds
  <2>1. a = Credit[w]
    BY DEF Credit
  <2> HIDE DEF a
  <2> QED
    BY <2>1, CreditOK DEF Inv, Weeks, Kinds
<1> HIDE DEF a
<1>5. Typed'
  <2>1. info' \in [Rows -> Info]
    BY <1>1, <1>3, <1>4, WrittenOK
  <2> QED
    BY <1>2, <2>1 DEF Typed
<1>6. ASSUME mishaps = {} PROVE Books'
  <2>1. Writes(r, Free, week, a, "failed_payout", r)
    BY <1>1, <1>2, <1>3, <1>4 DEF Writes
  <2>2. /\ Halves' = Halves /\ Earned' = Earned /\ HalvesHeld'
        /\ \A t \in Tasks : Carries(t)'
    BY <1>2, <1>3, <1>6, <2>1, LoneRowOK
  <2>3. /\ Outside' = Outside \union {r}
        /\ SumFunctionOnSet(Worth', Outside \union {r}) = a + SumFunctionOnSet(Worth, Outside)
        /\ SumFunctionOnSet(Worth', Earned) = SumFunctionOnSet(Worth, Earned)
        /\ SumFunctionOnSet(Worth', Halves) = SumFunctionOnSet(Worth, Halves)
    BY <1>6, <2>1, WritesOK, PresentOK
  <2>4. SumFunctionOnSet(Credit', closing') = SumFunctionOnSet(Credit, closing \ {w})
    <3>1. closing' \in SUBSET Weeks /\ closing' = closing \ {w}
      BY <1>2 DEF Typed
    <3> QED
      BY <1>6, <2>1, <3>1, WritesOK
  <2>5. /\ SumFunctionOnSet(Credit, closing) = a + SumFunctionOnSet(Credit, closing \ {w})
        /\ SumFunctionOnSet(Credit, closing \ {w}) \in Int
    BY <1>2, <1>4, CreditOK, SumAdd DEF Inv, Typed
  <2>6. /\ SumFunctionOnSet(Worth, Outside) \in Int /\ SumFunctionOnSet(Worth, Earned) \in Int
        /\ SumFunctionOnSet(Worth, Halves) \in Int
    BY WorthOK, PresentOK
  <2>7. Balanced
    BY <1>6 DEF Books
  <2>8. Balanced'
    BY <1>4, <2>2, <2>3, <2>4, <2>5, <2>6, <2>7 DEF Balanced
  <2>9. CreditsDue'
    BY <1>2, <1>6 DEF Books, CreditsDue
  <2> QED
    BY <2>2, <2>8, <2>9 DEF Books
<1> QED
  BY <1>2, <1>5, <1>6 DEF Books

\* The rows of a settlement closed leave, and come back as its credit.
LEMMA CloseFailedBooks ==
    ASSUME Inv, Typed, Books, NEW w \in Weeks, CloseFailed(w)
    PROVE  Typed' /\ Books'
<1>1. /\ status[w] = "failed" /\ status' = [status EXCEPT ![w] = "carried_forward"]
      /\ closing' = closing \union {w}
      /\ UNCHANGED <<sid, info, summed, task, mishaps>>
  BY DEF CloseFailed, rowVars
<1>2. Typed'
  BY <1>1 DEF Typed
<1>3. ASSUME mishaps = {} PROVE Books'
  <2>1. w \notin closing
    BY <1>1, <1>3 DEF Books, CreditsDue
  <2>2. \A v \in Weeks : status'[v] = IF v = w THEN "carried_forward" ELSE status[v]
    BY <1>1 DEF Inv, Types
  <2>3. CreditsDue'
    BY <1>1, <1>3, <2>2 DEF Books, CreditsDue, Typed
  <2>4. Present' = Present /\ Halves' = Halves /\ Earned' = Earned /\ Worth' = Worth
    BY <1>1 DEF Present, Halves, Earned, OfKind, Worth
  <2>5. Attached(w) \in SUBSET Outside
    BY <1>1, WeeksOK DEF Attached, Outside, Present, Unwritten, Gone
  <2>6. Outside' = Outside \ Attached(w)
    <3>1. \A r \in Present : r \in Outside' <=> r \in Outside /\ r \notin Attached(w)
      BY <1>1, <2>2, <2>4, PresentOK DEF Outside, Attached
    <3>2. Outside' \subseteq Present
      BY <2>4, PresentOK DEF Outside
    <3> QED
      BY <3>1, <3>2, PresentOK
  <2>7. /\ SumFunctionOnSet(Worth, Outside) =
             SumFunctionOnSet(Worth, Outside') + SumFunctionOnSet(Worth, Attached(w))
        /\ SumFunctionOnSet(Worth, Outside') \in Int
        /\ SumFunctionOnSet(Worth, Attached(w)) \in Int
    <3>1. IsFiniteSet(Outside) /\ \A r \in Outside : Worth[r] \in Int
      BY WorthOK, PresentOK
    <3> QED
      BY <2>5, <2>6, <3>1, SumMinus
  <2>8. Credit[w] = SumFunctionOnSet(Worth, Attached(w))
    <3>1. summed[w] = Attached(w)
      BY <1>1, <1>3 DEF Inv, Calm, Locked, Frozen, Open
    <3> QED
      BY <3>1, CreditOK DEF Inv
  <2>9. /\ SumFunctionOnSet(Credit, closing') = Credit[w] + SumFunctionOnSet(Credit, closing)
        /\ SumFunctionOnSet(Credit, closing) \in Int
    <3>1. /\ IsFiniteSet(closing) /\ \A v \in closing : Credit[v] \in Int
          /\ Credit[w] \in Int
      BY CreditOK DEF Inv, Typed
    <3>2. SumFunctionOnSet(Credit, closing \union {w}) = Credit[w] + SumFunctionOnSet(Credit, closing)
      BY <2>1, <3>1, SumPlus
    <3>3. SumFunctionOnSet(Credit, closing) \in Int
      BY CreditOK DEF Inv, Typed
    <3> QED
      BY <1>1, <3>2, <3>3
  <2>10. SumFunctionOnSet(Credit', closing') = SumFunctionOnSet(Credit, closing')
    <3>1. closing' \in SUBSET Weeks
      BY <1>2 DEF Typed
    <3> QED
      BY <1>1, <3>1, NetsSame DEF Inv
  <2>11. Balanced
    BY <1>3 DEF Books
  <2>12. SumFunctionOnSet(Worth, Earned) \in Int /\ SumFunctionOnSet(Worth, Halves) \in Int
    BY WorthOK, PresentOK
  <2>13. Balanced'
    BY <2>4, <2>7, <2>8, <2>9, <2>10, <2>11, <2>12 DEF Balanced
  <2>14. (\A t \in Tasks : Carries(t)') /\ HalvesHeld'
    <3>1. \A t \in Tasks : Carries(t)'
      BY <1>1, <1>3, <2>4, CarriesStays DEF Books
    <3>2. HalvesHeld'
      BY <1>1, <1>3, <2>4 DEF Books, HalvesHeld
    <3> QED
      BY <3>1, <3>2
  <2> QED
    BY <2>3, <2>13, <2>14 DEF Books
<1> QED
  BY <1>1, <1>2, <1>3 DEF Books

\* A half of a pair is written: the first stands out until the second takes it back.
LEMMA CarryHalfBooks ==
    ASSUME Inv, Typed, Books, NEW t \in Tasks, CarryHalf(t)
    PROVE  Typed' /\ Books'
<1>1. PICK w0 \in Weeks : w0 = task[t].w
  BY RegistersOK
<1>2. PICK delta \in Int : delta = task[t].delta
  BY DEF Typed
<1>3. task[t].pc = "carry" /\ UNCHANGED <<status, summed, closing, mishaps>>
  BY DEF CarryHalf, At
<1>4. PICK d : task[t] \in TaskWith(d)
  BY DEF Inv, Types, Loose
<1>5. PICK r, q, x, week, amount, kind :
        /\ r \in task[t].half /\ q \in task[t].pair
        /\ r # q /\ sid' = [sid EXCEPT ![r] = x] /\ info' = Written(r, week, amount, kind, q)
        /\ \/ r < q /\ x = w0 /\ week = w0 /\ amount = delta /\ kind = "out"
           \/ q < r /\ x = Free /\ week = w0 + 1 /\ amount = -delta /\ kind = "in"
        /\ \/ /\ task[t].half = {r}
              /\ Become(t, [task[t] EXCEPT !.pc = "reread", !.half = {}, !.pair = {}, !.delta = 0,
                                           !.made = task[t].pair])
           \/ /\ task[t].half # {r}
              /\ Become(t, [task[t] EXCEPT !.half = @ \ {r}])
  BY <1>1, <1>2 DEF CarryHalf
<1>6. /\ r \in Rows /\ q \in Rows /\ week \in 1..NWeeks + 1 /\ amount \in Int /\ kind \in Kinds
      /\ kind # "earning" /\ kind \in {"out", "in"}
  <2>1. r \in Rows /\ q \in Rows
    BY <1>4, <1>5 DEF TaskWith
  <2>2. week \in 1..NWeeks + 1 /\ amount \in Int
    BY <1>5 DEF Weeks
  <2> QED
    BY <1>5, <2>1, <2>2 DEF Kinds
<1>7. PICK v : /\ Become(t, v) /\ v.delta \in Int
               /\ \/ task[t].half = {r} /\ v.pc = "reread" /\ v.pair = {}
                  \/ /\ task[t].half # {r} /\ v.pc = "carry" /\ v.delta = delta
                     /\ v.pair = task[t].pair /\ v.half = task[t].half \ {r}
  <2>1. CASE task[t].half = {r}
    <3> DEFINE v == [task[t] EXCEPT !.pc = "reread", !.half = {}, !.pair = {}, !.delta = 0,
                                    !.made = task[t].pair]
    <3>1. v.pc = "reread" /\ v.pair = {} /\ v.delta = 0
      BY <1>4 DEF TaskWith
    <3>2. Become(t, v)
      BY <1>5, <2>1
    <3>3. v.delta \in Int
      BY <3>1
    <3> HIDE DEF v
    <3> QED
      BY <2>1, <3>1, <3>2, <3>3
  <2>2. CASE task[t].half # {r}
    <3> DEFINE v == [task[t] EXCEPT !.half = @ \ {r}]
    <3>1. v.pc = "carry" /\ v.pair = task[t].pair /\ v.delta = delta /\ v.half = task[t].half \ {r}
      BY <1>2, <1>3, <1>4 DEF TaskWith
    <3> QED
      BY <1>2, <1>5, <2>2, <3>1
  <2> QED
    BY <2>1, <2>2
<1>8. task'[t] = v /\ \A u \in Tasks : u # t => task'[u] = task[u]
  BY <1>7, MovedOK DEF Inv
<1>9. Typed'
  <2>1. info' \in [Rows -> Info]
    BY <1>5, <1>6, WrittenOK
  <2>2. \A u \in Tasks : task'[u].delta \in Int
    BY <1>7, <1>8 DEF Typed
  <2> QED
    BY <1>3, <2>1, <2>2 DEF Typed
<1>10. ASSUME mishaps = {} PROVE Books'
  <2>1. /\ task[t].half \subseteq task[t].pair /\ \A y \in task[t].half : sid[y] = Unwritten
        /\ status[w0] \in Open
    BY <1>1, <1>3, <1>10 DEF Inv, Calm, Knows, Working
  <2>2. Writes(r, x, week, amount, kind, q)
    BY <1>3, <1>5, <1>6, <2>1 DEF Writes
  <2>3. /\ r \notin Present /\ Present' = Present \union {r} /\ Outside' = Outside \union {r}
        /\ info'[r].amount = amount /\ info'[r].kind = kind /\ info'[r].twin = q
        /\ Worth'[r] = amount
        /\ \A y \in Rows : y # r => info'[y] = info[y]
    BY <1>10, <2>2, WritesOK
  <2>4. /\ \A S \in SUBSET Present : SumFunctionOnSet(Worth', S) = SumFunctionOnSet(Worth, S)
        /\ \A S \in SUBSET Present :
                SumFunctionOnSet(Worth', S \union {r}) = amount + SumFunctionOnSet(Worth, S)
        /\ \A S \in SUBSET Weeks : SumFunctionOnSet(Credit', S) = SumFunctionOnSet(Credit, S)
    BY <1>10, <2>2, WritesOK
  <2>5. \A y \in Present : y \in Rows /\ y # r /\ info'[y] = info[y]
    BY <2>3, PresentOK
  <2>6. /\ task[t].pair = {r, q}
        /\ q \in task[t].half \/ /\ q \in Present /\ info[q].amount = -amount
                                 /\ info[q].kind = IF r < q THEN "in" ELSE "out"
                                 /\ info[q].twin = r
    <3>1. PICK a, b \in Rows :
            /\ a < b /\ task[t].pair = {a, b}
            /\ a \in task[t].half \/ IsHalf(a, task[t].delta, "out", b)
            /\ b \in task[t].half \/ IsHalf(b, -task[t].delta, "in", a)
      BY <1>3, <1>10 DEF Books, Carries
    <3>2. r \in Nat /\ q \in Nat /\ a \in Nat /\ b \in Nat
      BY <1>6
    <3>3. r \in {a, b} /\ q \in {a, b} /\ r # q
      BY <1>5, <2>1, <3>1
    <3>4. task[t].pair = {r, q}
      BY <3>1, <3>3
    <3>5. CASE r = a /\ q = b
      <4>1. r < q /\ amount = delta
        BY <1>5, <3>1, <3>2, <3>5
      <4> QED
        BY <1>2, <3>1, <3>4, <3>5, <4>1 DEF IsHalf
    <3>6. CASE r = b /\ q = a
      <4>1. q < r /\ ~(r < q) /\ amount = -delta
        BY <1>5, <3>1, <3>2, <3>6
      <4>2. -amount = delta
        BY <1>2, <4>1
      <4> QED
        BY <1>2, <3>1, <3>4, <3>6, <4>1, <4>2 DEF IsHalf
    <3> QED
      BY <3>3, <3>5, <3>6
  <2>7. Earned' = Earned
    <3>1. \A y \in Present : y \in Earned' <=> y \in Earned
      BY <2>3, <2>5 DEF Earned, OfKind
    <3>2. r \notin Earned'
      BY <1>6, <2>3 DEF Earned, OfKind
    <3>3. Earned' \subseteq Present' /\ Earned \subseteq Present
      BY DEF Earned, OfKind
    <3> QED
      BY <2>3, <3>1, <3>2, <3>3
  <2>8. \A y \in Halves : \E u \in Tasks :
            task[u].pc = "carry" /\ y \in task[u].pair /\ info[y].twin \in task[u].half
    BY <1>10 DEF Books, HalvesHeld
  <2>9. ASSUME NEW y \in Halves, info[y].twin = r PROVE y = q
    <3>1. PICK u \in Tasks : task[u].pc = "carry" /\ y \in task[u].pair /\ r \in task[u].half
      BY <2>8, <2>9
    <3>2. r \in task[u].pair
      BY <1>5, <1>10, <3>1 DEF Inv, Calm, Knows
    <3>3. u = t
      BY <1>5, <1>10, <2>1, <3>2 DEF Inv, Calm, Apart
    <3>4. y \in Present
      BY DEF Halves
    <3> QED
      BY <2>3, <2>6, <3>1, <3>3, <3>4
  <2>10. ASSUME NEW y \in Present PROVE y \in Halves' <=> y \in Halves /\ info[y].twin # r
    BY <2>3, <2>5, <2>10 DEF Halves
  <2>11. r \in Halves' <=> q \notin Present
    BY <1>5, <1>6, <2>3 DEF Halves
  <2>12. Halves' \subseteq Present' /\ Halves \subseteq Present
    BY DEF Halves
  <2>13. /\ SumFunctionOnSet(Worth, Outside) \in Int /\ SumFunctionOnSet(Worth, Earned) \in Int
         /\ SumFunctionOnSet(Worth, Halves) \in Int /\ SumFunctionOnSet(Credit, closing) \in Int
    BY WorthOK, CreditOK, PresentOK DEF Inv, Typed
  <2>14. /\ SumFunctionOnSet(Worth', Outside') = amount + SumFunctionOnSet(Worth, Outside)
         /\ SumFunctionOnSet(Worth', Earned') = SumFunctionOnSet(Worth, Earned)
         /\ SumFunctionOnSet(Credit', closing') = SumFunctionOnSet(Credit, closing)
    BY <1>3, <2>3, <2>4, <2>7, PresentOK DEF Typed
  <2>15. Balanced
    BY <1>10 DEF Books
  <2>16. CreditsDue'
    BY <1>3, <1>10 DEF Books, CreditsDue
  <2>17. ASSUME NEW u \in Tasks, u # t PROVE Carries(u)'
    BY <1>8, <1>10, <2>3, <2>5, <2>17, CarriesStays DEF Books
  <2>18. CASE task[t].half = {r}
    <3>1. q \notin task[t].half /\ q \in Present /\ info[q].amount = -amount /\ info[q].twin = r
          /\ info[q].kind \in {"out", "in"}
      BY <1>5, <2>6, <2>18
    <3>2. q \in Halves
      BY <2>3, <3>1 DEF Halves
    <3>3. Halves' = Halves \ {q}
      BY <2>3, <2>9, <2>10, <2>11, <2>12, <3>1
    <3>4. SumFunctionOnSet(Worth', Halves') = SumFunctionOnSet(Worth, Halves \ {q})
      BY <2>4, <2>12, <3>3
    <3>5. /\ SumFunctionOnSet(Worth, Halves) = Worth[q] + SumFunctionOnSet(Worth, Halves \ {q})
          /\ SumFunctionOnSet(Worth, Halves \ {q}) \in Int
      <4>1. IsFiniteSet(Halves) /\ \A y \in Halves : Worth[y] \in Int
        BY WorthOK, PresentOK
      <4> QED
        BY <3>2, <4>1, SumAdd
    <3>6. Worth[q] = -amount
      BY <1>6, <3>1, WorthOK
    <3>7. Balanced'
      <4>1. PICK o, e, h, c, k \in Int :
              /\ o = SumFunctionOnSet(Worth, Outside) /\ e = SumFunctionOnSet(Worth, Earned)
              /\ h = SumFunctionOnSet(Worth, Halves) /\ c = SumFunctionOnSet(Credit, closing)
              /\ k = SumFunctionOnSet(Worth, Halves \ {q})
        BY <2>13, <3>5
      <4>2. o + c = e + h /\ h = -amount + k
        BY <2>15, <3>5, <3>6, <4>1 DEF Balanced
      <4>3. (amount + o) + c = e + k
        BY <1>6, <4>2
      <4> QED
        BY <2>14, <3>4, <4>1, <4>3 DEF Balanced
    <3>8. Carries(t)'
      BY <1>7, <1>8, <2>18 DEF Carries
    <3>9. HalvesHeld'
      <4> SUFFICES ASSUME NEW y \in Halves'
                   PROVE  \E u \in Tasks : task'[u].pc = "carry" /\ y \in task'[u].pair
                                           /\ info'[y].twin \in task'[u].half
        BY DEF HalvesHeld
      <4>1. y \in Halves /\ y # q /\ y # r /\ info'[y] = info[y]
        BY <2>3, <2>5, <2>12, <3>3
      <4>2. PICK u \in Tasks :
                task[u].pc = "carry" /\ y \in task[u].pair /\ info[y].twin \in task[u].half
        BY <2>8, <4>1
      <4>3. u # t
        BY <2>6, <4>1, <4>2
      <4> QED
        BY <1>8, <4>1, <4>2, <4>3
    <3> QED
      BY <2>16, <2>17, <3>7, <3>8, <3>9 DEF Books
  <2>19. CASE task[t].half # {r}
    <3>1. q \in task[t].half /\ q \notin Present
      <4>1. q \in task[t].half
        BY <1>5, <2>1, <2>6, <2>19
      <4> QED
        BY <2>1, <4>1 DEF Present
    <3>2. Halves' = Halves \union {r}
      <4>1. \A y \in Halves : info[y].twin # r
        BY <2>9, <2>12, <3>1
      <4> QED
        BY <2>3, <2>10, <2>11, <2>12, <3>1, <4>1
    <3>3. SumFunctionOnSet(Worth', Halves') = amount + SumFunctionOnSet(Worth, Halves)
      BY <2>4, <2>12, <3>2
    <3>4. Balanced'
      BY <1>6, <2>13, <2>14, <2>15, <3>3 DEF Balanced
    <3>5. /\ task'[t].pc = "carry" /\ task'[t].delta = delta /\ task'[t].pair = {r, q}
          /\ task'[t].half = task[t].half \ {r} /\ q \in task'[t].half /\ r \in Present'
      BY <1>5, <1>7, <1>8, <2>3, <2>6, <2>19, <3>1
    <3>6. Carries(t)'
      <4>1. CASE r < q
        <5>1. amount = delta /\ kind = "out"
          <6>1. ~(q < r)
            BY <1>6, <4>1
          <6> QED
            BY <1>5, <6>1
        <5>2. IsHalf(r, delta, "out", q)'
          BY <2>3, <3>5, <5>1 DEF IsHalf
        <5> QED
          BY <1>6, <3>5, <4>1, <5>2 DEF Carries
      <4>2. CASE q < r
        <5>1. amount = -delta /\ kind = "in"
          <6>1. ~(r < q)
            BY <1>6, <4>2
          <6> QED
            BY <1>5, <6>1
        <5>2. IsHalf(r, -delta, "in", q)'
          BY <2>3, <3>5, <5>1 DEF IsHalf
        <5>3. task'[t].pair = {q, r}
          BY <3>5
        <5> QED
          BY <1>6, <3>5, <4>2, <5>2, <5>3 DEF Carries
      <4> QED
        BY <1>5, <4>1, <4>2
    <3>7. HalvesHeld'
      <4> SUFFICES ASSUME NEW y \in Halves'
                   PROVE  \E u \in Tasks : task'[u].pc = "carry" /\ y \in task'[u].pair
                                           /\ info'[y].twin \in task'[u].half
        BY DEF HalvesHeld
      <4>1. CASE y = r
        BY <2>3, <3>5, <4>1
      <4>2. CASE y # r
        <5>1. y \in Halves /\ y # q /\ info'[y] = info[y]
          BY <2>3, <2>5, <2>12, <3>1, <3>2, <4>2
        <5>2. PICK u \in Tasks :
                task[u].pc = "carry" /\ y \in task[u].pair /\ info[y].twin \in task[u].half
          BY <2>8, <5>1
        <5>3. u # t
          BY <2>6, <4>2, <5>1, <5>2
        <5> QED
          BY <1>8, <5>1, <5>2, <5>3
      <4> QED
        BY <4>1, <4>2
    <3> QED
      BY <2>16, <2>17, <3>4, <3>6, <3>7 DEF Books
  <2> QED
    BY <2>18, <2>19
<1> QED
  BY <1>3, <1>9, <1>10 DEF Books

-----------------------------------------------------------------------------
\* Every step keeps the books.
THEOREM StepBooks == Inv /\ Typed /\ Books /\ [Next]_vars => Typed' /\ Books'
<1> SUFFICES ASSUME Inv, Typed, Books, [Next]_vars PROVE Typed' /\ Books'
  OBVIOUS
<1>1. CASE UNCHANGED vars
  BY <1>1, StandstillOK
<1>2. CASE Earn
  BY <1>2, EarnBooks
<1>3. ASSUME NEW w \in Weeks,
             Schedule(w) \/ Payout(w) \/ Hold(w) \/ CloseFailed(w) \/ CreditFailed(w) \/ Expire(w)
      PROVE  Typed' /\ Books'
  BY <1>3, OutsideStepOK, CloseFailedBooks, CreditFailedBooks
<1>4. ASSUME NEW t \in Tasks, Handler(t) PROVE Typed' /\ Books'
  BY <1>4, MovingBooks, ClaimRowBooks, ReadRowsBooks, CarryHalfBooks, SaveBooks, FailingBooks DEF Handler
<1>5. ASSUME NEW t \in Tasks, Crash(t) \/ Error(t) PROVE Typed' /\ Books'
  BY <1>5, FailingBooks
<1>6. ASSUME NEW t \in Tasks, NEW w \in Weeks, Generate(t, w) \/ Unhold(t, w) PROVE Typed' /\ Books'
  BY <1>6, GenerateBooks
<1> QED
  BY <1>1, <1>2, <1>3, <1>4, <1>5, <1>6 DEF Next

\* The variables keep their types.
THEOREM TypeCorrect == Spec => []TypeOK
<1>1. Inv /\ Typed => TypeOK
  <2> SUFFICES ASSUME Inv, Typed PROVE TypeOK
    OBVIOUS
  <2>1. ASSUME NEW t \in Tasks PROVE task[t] \in Task
    <3>1. PICK d : task[t] \in TaskWith(d)
      BY DEF Inv, Types, Loose
    <3>2. d = task[t].delta /\ d \in Int
      BY <3>1 DEF TaskWith, Typed
    <3> QED
      BY <3>1, <3>2 DEF TaskWith, Task
  <2> QED
    BY <2>1 DEF Inv, Types, Typed, TypeOK
<1> QED
  BY InitInv, StepInv, BooksInit, StepBooks, <1>1, PTL DEF Spec

\* Carrying balances forward and crediting failed payouts moves money and neither makes nor loses
\* any, for any amounts, weeks and generators, whatever the order in which the halves of a pair
\* are written, claimed, paid and closed.
THEOREM BooksBalance == Spec => []MoneyConserved
<1>1. Books => MoneyConserved
  BY SumOK DEF Books, Balanced, MoneyConserved, Credit, Earned
<1> QED
  BY InitInv, StepInv, BooksInit, StepBooks, <1>1, PTL DEF Spec
=============================================================================
