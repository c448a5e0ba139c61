------------------------- MODULE LiveSessionProofs -------------------------
(***************************************************************************)
(* Proofs about LiveSession, for any number of sessions and handlers, any  *)
(* horizon and any positive timings.                                       *)
(*                                                                         *)
(* Inv, the inductive invariant: the types; a checkout that goes on has    *)
(* not been reported (Counted); and what a handler that read a session     *)
(* still knows of it when it writes (Knows).  The crux is the last         *)
(* conjunct of Knows: a session found timed out has an older last activity *)
(* than any event since can leave on it, so an unchanged one still holds   *)
(* what was read.                                                          *)
(***************************************************************************)
EXTENDS LiveSession, TLAPS

Counted == \A s \in Sessions : /\ reported[s] <= 1
                               /\ visit[s].started => reported[s] = 0

Closing(v) == v.pc = "timeout" \/ (v.pc = "move" /\ v.ev = "close")

\* What a handler with the registers v knows when the sessions are ss and the time is now.
Knows(v, ss, now) ==
    /\ v.pc \in {"timeout", "update", "move"} => v.s \in Sessions /\ ss[v.s].status # "none"
    /\ v.pc \in {"timeout", "move"} => v.saw.status \in OpenSessionStatuses
    /\ v.pc = "timeout" => v.ev \in Events
    /\ v.pc = "move" => v.ev \in Moves
    /\ Closing(v) =>
        /\ now >= v.saw.last + CloseAfterFor(v.saw)
        /\ ss[v.s].last = v.saw.last =>
            /\ ss[v.s].cart = v.saw.cart
            /\ ss[v.s].diner = v.saw.diner
            /\ ss[v.s].ordered = v.saw.ordered

Inv ==
    /\ VisitTypeOK
    /\ Counted
    /\ \A t \in VisitTasks : Knows(vtask[t], visit, clock)

-----------------------------------------------------------------------------
LEMMA IdleOK == ASSUME Timings PROVE NoSession \in Session /\ VisitIdle \in VisitTask /\ VisitIdle.pc = "idle"
BY DEF Timings, NoSession, Session, VisitIdle, VisitTask, Time, Events, Moves

\* One handler moves on, the others stay.
LEMMA BecomeOK ==
    ASSUME vtask \in [VisitTasks -> VisitTask], NEW t \in VisitTasks, NEW v \in VisitTask, VisitBecomes(t, v)
    PROVE  /\ vtask' \in [VisitTasks -> VisitTask]
           /\ vtask'[t] = v
           /\ \A u \in VisitTasks : u # t => vtask'[u] = vtask[u]
BY DEF VisitBecomes

\* A session's times are positive.
LEMMA ClosePositive ==
    ASSUME Timings, NEW v PROVE CloseAfterFor(v) \in Nat \ {0}
BY DEF Timings, CloseAfterFor

\* Before the first visit the invariant holds.
THEOREM InitInv == ASSUME Timings PROVE VisitInit => Inv
<1> SUFFICES ASSUME VisitInit PROVE Inv
  OBVIOUS
<1>1. VisitTypeOK
  BY IdleOK DEF VisitInit, VisitTypeOK, Timings, Time
<1>2. Counted
  <2> SUFFICES ASSUME NEW s \in Sessions PROVE reported[s] <= 1 /\ (visit[s].started => reported[s] = 0)
    BY DEF Counted
  <2>1. reported[s] = 0
    BY DEF VisitInit
  <2> QED
    BY <2>1
<1>3. \A t \in VisitTasks : Knows(vtask[t], visit, clock)
  BY DEF VisitInit, Knows, Closing, VisitIdle
<1> QED
  BY <1>1, <1>2, <1>3 DEF Inv

-----------------------------------------------------------------------------
(* What a step does to a session: its last activity is now, or nothing     *)
(* that decides how it is closed has changed.                              *)
Ages ==
    /\ clock' >= clock
    /\ \A s \in Sessions : visit[s].status # "none" =>
        /\ visit'[s].status # "none"
        /\ \/ visit'[s].last = clock'
           \/ /\ visit'[s].last = visit[s].last
              /\ visit'[s].cart = visit[s].cart
              /\ visit'[s].diner = visit[s].diner
              /\ visit'[s].ordered = visit[s].ordered

\* A handler keeps what it knows while others act.
LEMMA KnowsStays ==
    ASSUME Timings, Inv, VisitTypeOK', Ages, NEW u \in VisitTasks
    PROVE  Knows(vtask[u], visit', clock')
<1> DEFINE v == vtask[u]
<1>1. Knows(v, visit, clock) /\ v \in VisitTask
  BY DEF Inv, VisitTypeOK
<1> HIDE DEF v
<1>2. v.pc \in {"timeout", "update", "move"} => v.s \in Sessions /\ visit'[v.s].status # "none"
  BY <1>1 DEF Knows, Ages
<1>3. ASSUME Closing(v)
      PROVE  /\ clock' >= v.saw.last + CloseAfterFor(v.saw)
             /\ visit'[v.s].last = v.saw.last =>
                    /\ visit'[v.s].cart = v.saw.cart
                    /\ visit'[v.s].diner = v.saw.diner
                    /\ visit'[v.s].ordered = v.saw.ordered
  <2>1. v.s \in Sessions /\ visit[v.s].status # "none"
    BY <1>1, <1>3 DEF Knows, Closing
  <2>2. clock >= v.saw.last + CloseAfterFor(v.saw) /\ CloseAfterFor(v.saw) \in Nat \ {0}
    BY <1>1, <1>3, ClosePositive DEF Knows
  <2>3. v.saw.last \in Nat /\ clock \in Nat /\ clock' \in Nat /\ clock' >= clock
    BY <1>1 DEF Inv, VisitTypeOK, Timings, VisitTask, Session, Time, Ages
  <2>4. clock' >= v.saw.last + CloseAfterFor(v.saw) /\ clock' # v.saw.last
    BY <2>2, <2>3
  <2>5. visit'[v.s].last = v.saw.last =>
            /\ visit'[v.s].last = visit[v.s].last
            /\ visit'[v.s].cart = visit[v.s].cart
            /\ visit'[v.s].diner = visit[v.s].diner
            /\ visit'[v.s].ordered = visit[v.s].ordered
    BY <2>1, <2>4 DEF Ages
  <2> QED
    BY <1>1, <1>3, <2>4, <2>5 DEF Knows
<1>4. /\ v.pc \in {"timeout", "move"} => v.saw.status \in OpenSessionStatuses
      /\ v.pc = "timeout" => v.ev \in Events
      /\ v.pc = "move" => v.ev \in Moves
  BY <1>1 DEF Knows
<1> QED
  BY <1>2, <1>3, <1>4 DEF Knows, v

\* A handler's step keeps the invariant when it keeps the rest and knows what it needs.
LEMMA StepOK ==
    ASSUME Timings, Inv, VisitTypeOK', Counted', Ages, NEW t \in VisitTasks, NEW v \in VisitTask, VisitBecomes(t, v),
           Knows(v, visit', clock')
    PROVE  Inv'
<1>1. vtask'[t] = v /\ \A u \in VisitTasks : u # t => vtask'[u] = vtask[u]
  BY BecomeOK DEF Inv, VisitTypeOK
<1>2. ASSUME NEW u \in VisitTasks PROVE Knows(vtask'[u], visit', clock')
  BY <1>1, KnowsStays
<1> QED
  BY <1>2 DEF Inv

\* The same, of a step that only moves its handler.
LEMMA HandlerStepOK ==
    ASSUME Timings, Inv, NEW t \in VisitTasks, NEW v \in VisitTask, VisitBecomes(t, v),
           UNCHANGED <<visit, clock, reported>>, Knows(v, visit, clock)
    PROVE  Inv'
<1>1. VisitTypeOK' /\ Counted'
  BY BecomeOK DEF Inv, VisitTypeOK, Counted
<1>2. Ages
  BY DEF Ages, Inv, VisitTypeOK, Time
<1> QED
  BY <1>1, <1>2, StepOK

LEMMA FinishOK == ASSUME Timings PROVE VisitIdle \in VisitTask /\ \A ss, now : Knows(VisitIdle, ss, now)
BY IdleOK DEF Knows, Closing, VisitIdle

-----------------------------------------------------------------------------
(* The steps.                                                              *)

\* Registers that are going to record an event of a session.
LEMMA RecordingOK ==
    ASSUME Timings, NEW v \in VisitTask, NEW s \in Sessions, NEW b \in Session, NEW ss, NEW now,
           ss[s].status # "none"
    PROVE  Recording(v, s, b) \in VisitTask /\ Knows(Recording(v, s, b), ss, now)
<1>1. Recording(v, s, b) \in VisitTask
  BY DEF Recording, VisitTask, Session
<1>2. Recording(v, s, b).pc = "update" /\ Recording(v, s, b).s = s
  BY DEF Recording, VisitTask, Session
<1> QED
  BY <1>1, <1>2 DEF Knows, Closing

\* Registers that are going to open a session.
LEMMA OpeningOK ==
    ASSUME Timings, NEW v \in VisitTask, NEW pc \in {"open", "refind"}, NEW ss, NEW now
    PROVE  [v EXCEPT !.pc = pc] \in VisitTask /\ Knows([v EXCEPT !.pc = pc], ss, now)
BY DEF VisitTask, Knows, Closing

LEMMA TimingOutOK ==
    ASSUME Timings, Inv, NEW v \in VisitTask, v.ev \in Events, NEW s \in Sessions, IsOpen(s), TimedOut(visit[s])
    PROVE  /\ TimingOut(v, s, visit[s]) \in VisitTask
           /\ Knows(TimingOut(v, s, visit[s]), visit, clock)
<1> DEFINE w == TimingOut(v, s, visit[s])
<1>1. visit[s] \in Session /\ 0 \in Time
  BY DEF Inv, VisitTypeOK, Timings, Time
<1>2. w \in VisitTask /\ w.pc = "timeout" /\ w.s = s /\ w.ev = v.ev
  BY <1>1 DEF TimingOut, VisitTask, Session
<1>3. /\ w.saw.status = visit[s].status /\ w.saw.last = visit[s].last
      /\ w.saw.cart = visit[s].cart /\ w.saw.diner = visit[s].diner
      /\ w.saw.ordered = visit[s].ordered
  BY <1>1 DEF TimingOut, VisitTask, Session
<1>4. clock >= w.saw.last + CloseAfterFor(w.saw)
  BY <1>3 DEF TimedOut, CloseAfterFor, Eating
<1>5. visit[s].status \in OpenSessionStatuses /\ visit[s].status # "none"
  BY DEF IsOpen, OpenSessionStatuses
<1> HIDE DEF w
<1>6. Knows(w, visit, clock)
  BY <1>2, <1>3, <1>4, <1>5 DEF Knows, Closing
<1> QED
  BY <1>2, <1>6 DEF w

LEMMA StartRecordOK ==
    ASSUME Timings, Inv, NEW t \in VisitTasks, NEW ev \in Events, NEW dineIn \in Channels, StartRecord(t, ev, dineIn)
    PROVE  Inv'
<1> DEFINE new == [VisitIdle EXCEPT !.ev = ev, !.dineIn = dineIn]
<1>1. new \in VisitTask /\ new.ev = ev
  BY IdleOK DEF Timings, VisitIdle, VisitTask
<1> HIDE DEF new
<1>2. UNCHANGED <<visit, clock, reported>>
  BY DEF StartRecord
<1>3. CASE VisitBecomes(t, [new EXCEPT !.pc = "open"])
  BY <1>1, <1>2, <1>3, OpeningOK, HandlerStepOK
<1>4. ASSUME NEW s \in Open, TimedOut(visit[s]), VisitBecomes(t, TimingOut(new, s, visit[s])) PROVE Inv'
  BY <1>1, <1>2, <1>4, TimingOutOK, HandlerStepOK DEF Open
<1>5. ASSUME NEW s \in Open, VisitBecomes(t, Recording(new, s, visit[s])) PROVE Inv'
  <2>1. s \in Sessions /\ visit[s] \in Session /\ visit[s].status # "none"
    BY DEF Open, IsOpen, OpenSessionStatuses, Inv, VisitTypeOK
  <2> QED
    BY <1>1, <1>2, <1>5, <2>1, RecordingOK, HandlerStepOK
<1> QED
  BY <1>3, <1>4, <1>5 DEF StartRecord, new

\* A session's status changes, and nothing else of it.
LEMMA StatusStepOK ==
    ASSUME Timings, Inv, NEW s \in Sessions, NEW status \in OpenSessionStatuses \union ClosedStatuses,
           visit' = [visit EXCEPT ![s].status = status], UNCHANGED <<clock, reported>>,
           vtask' \in [VisitTasks -> VisitTask]
    PROVE  VisitTypeOK' /\ Counted' /\ Ages
<1>1. visit[s] \in Session /\ visit' \in [Sessions -> Session]
  BY DEF Inv, VisitTypeOK, Session
<1>2. \A u \in Sessions :
          /\ visit'[u].last = visit[u].last /\ visit'[u].cart = visit[u].cart
          /\ visit'[u].diner = visit[u].diner /\ visit'[u].ordered = visit[u].ordered
          /\ visit'[u].started = visit[u].started
          /\ visit'[u].status = IF u = s THEN status ELSE visit[u].status
  BY <1>1 DEF Inv, VisitTypeOK, Session
<1>3. Ages
  BY <1>2 DEF Ages, Inv, VisitTypeOK, Time, OpenSessionStatuses, ClosedStatuses
<1> QED
  BY <1>1, <1>2, <1>3 DEF Inv, VisitTypeOK, Counted

LEMMA NoChangeOK ==
    ASSUME Timings, Inv, UNCHANGED <<visit, clock, reported>>, vtask' \in [VisitTasks -> VisitTask]
    PROVE  VisitTypeOK' /\ Counted' /\ Ages
BY DEF Inv, VisitTypeOK, Counted, Ages, Time

LEMMA VerdictOK == \A v : Verdict(v) \in ClosedStatuses
BY DEF Verdict, ClosedStatuses

LEMMA CloseTimedOutOK ==
    ASSUME Timings, Inv, NEW t \in VisitTasks, CloseTimedOut(t) PROVE Inv'
<1> DEFINE v == [VisitIdle EXCEPT !.pc = "open", !.ev = vtask[t].ev, !.dineIn = vtask[t].dineIn]
<1>1. v \in VisitTask /\ v.pc = "open"
  BY IdleOK DEF Inv, VisitTypeOK, VisitTask, VisitIdle
<1>2. VisitBecomes(t, v) /\ vtask' \in [VisitTasks -> VisitTask] /\ UNCHANGED <<clock, reported>>
  BY <1>1, BecomeOK DEF CloseTimedOut, Inv, VisitTypeOK
<1> HIDE DEF v
<1>3. Knows(v, visit', clock')
  BY <1>1 DEF Knows, Closing
<1>4. vtask[t].s \in Sessions
  BY DEF Inv, Knows, CloseTimedOut, VisitAt
<1>5. CASE visit' = [visit EXCEPT ![vtask[t].s].status = Verdict(vtask[t].saw)]
  BY <1>1, <1>2, <1>3, <1>4, <1>5, VerdictOK, StatusStepOK, StepOK
<1>6. CASE UNCHANGED visit
  BY <1>1, <1>2, <1>3, <1>6, NoChangeOK, StepOK
<1> QED
  BY <1>5, <1>6 DEF CloseTimedOut

LEMMA OpenSessionOK ==
    ASSUME Timings, Inv, NEW t \in VisitTasks, OpenSession(t) PROVE Inv'
<1>1. vtask[t] \in VisitTask /\ UNCHANGED <<clock, reported>>
  BY DEF Inv, VisitTypeOK, OpenSession
<1>2. CASE Open # {}
  <2>1. UNCHANGED <<visit, clock, reported>> /\ VisitBecomes(t, [vtask[t] EXCEPT !.pc = "refind"])
    BY <1>2 DEF OpenSession, VisitGoto
  <2> QED
    BY <1>1, <2>1, OpeningOK, HandlerStepOK
<1>3. CASE Open = {}
  <2> DEFINE b(cart) == [NoSession EXCEPT !.status = "active", !.last = clock, !.diner = vtask[t].dineIn,
                                          !.cart = cart /\ ~vtask[t].dineIn]
  <2>1. PICK s \in Sessions, cart \in BOOLEAN :
            /\ visit[s].status = "none"
            /\ visit' = [visit EXCEPT ![s] = b(cart)]
            /\ VisitBecomes(t, Recording(vtask[t], s, b(cart)))
    BY <1>3 DEF OpenSession
  <2>2. b(cart) \in Session /\ b(cart).status = "active" /\ ~b(cart).started
    <3>1. clock \in Time /\ vtask[t].dineIn \in BOOLEAN /\ NoSession \in Session
      BY <1>1, IdleOK DEF Inv, VisitTypeOK, VisitTask
    <3> DEFINE c == cart /\ ~vtask[t].dineIn
    <3>2. c \in BOOLEAN /\ ~NoSession.started
      BY DEF NoSession
    <3> HIDE DEF c
    <3> QED
      BY <3>1, <3>2 DEF Session, OpenSessionStatuses
  <2> HIDE DEF b
  <2>3. visit'[s] = b(cart) /\ \A u \in Sessions : u # s => visit'[u] = visit[u]
    BY <2>1 DEF Inv, VisitTypeOK
  <2>4. Recording(vtask[t], s, b(cart)) \in VisitTask /\ Knows(Recording(vtask[t], s, b(cart)), visit', clock')
    BY <1>1, <2>2, <2>3, RecordingOK
  <2>5. VisitTypeOK'
    BY <1>1, <2>1, <2>2, <2>4, BecomeOK DEF Inv, VisitTypeOK
  <2>6. Counted'
    BY <1>1, <2>2, <2>3 DEF Inv, Counted
  <2>7. Ages
    BY <1>1, <2>1, <2>3 DEF Inv, VisitTypeOK, Ages, Time
  <2> QED
    BY <2>1, <2>4, <2>5, <2>6, <2>7, StepOK
<1> QED
  BY <1>2, <1>3

LEMMA FindAgainOK ==
    ASSUME Timings, Inv, NEW t \in VisitTasks, FindAgain(t) PROVE Inv'
<1>1. vtask[t] \in VisitTask /\ UNCHANGED <<visit, clock, reported>>
  BY DEF Inv, VisitTypeOK, FindAgain
<1>2. CASE VisitFinish(t)
  BY <1>1, <1>2, FinishOK, HandlerStepOK DEF VisitFinish
<1>3. ASSUME NEW s \in Open, VisitBecomes(t, Recording(vtask[t], s, visit[s])) PROVE Inv'
  <2>1. s \in Sessions /\ visit[s] \in Session /\ visit[s].status # "none"
    BY DEF Open, IsOpen, OpenSessionStatuses, Inv, VisitTypeOK
  <2> QED
    BY <1>1, <1>3, <2>1, RecordingOK, HandlerStepOK
<1> QED
  BY <1>2, <1>3 DEF FindAgain

LEMMA RecordOK ==
    ASSUME Timings, Inv, NEW t \in VisitTasks, Record(t) PROVE Inv'
<1> DEFINE s == vtask[t].s
           begins == vtask[t].ev = "checkout" /\ ~vtask[t].saw.started
<1>1. /\ vtask[t] \in VisitTask /\ VisitFinish(t) /\ UNCHANGED clock /\ s \in Sessions
      /\ visit[s] \in Session /\ vtask' \in [VisitTasks -> VisitTask]
  BY FinishOK, BecomeOK DEF Inv, VisitTypeOK, Knows, Record, VisitAt, VisitFinish
<1>2. CASE ~IsOpen(s)
  BY <1>1, <1>2, NoChangeOK, FinishOK, StepOK DEF Record, VisitFinish
<1>3. CASE IsOpen(s)
  <2>1. PICK cart \in BOOLEAN : visit' = [visit EXCEPT ![s] = Recorded(visit[s], t, cart)]
    BY <1>3 DEF Record
  <2>2. reported' = [reported EXCEPT ![s] = IF begins THEN 0 ELSE reported[s]]
    BY <1>3 DEF Record
  <2> DEFINE w == Recorded(visit[s], t, cart)
  <2>3. w \in Session
    <3>1. visit[s] \in Session /\ clock \in Time /\ vtask[t].dineIn \in BOOLEAN /\ vtask[t].saw \in Session
      BY <1>1 DEF VisitTask, Inv, VisitTypeOK
    <3> DEFINE e1 == IF vtask[t].ev = "order" /\ ~vtask[t].saw.diner THEN "converted" ELSE "active"
               e2 == IF vtask[t].ev = "cart" THEN cart ELSE visit[s].cart
               e3 == visit[s].started \/ begins
               e4 == IF begins THEN clock ELSE visit[s].checkout
               e5 == visit[s].ordered \/ vtask[t].ev = "order"
               e6 == visit[s].diner \/ vtask[t].dineIn
    <3>2. /\ e1 \in OpenSessionStatuses \union ClosedStatuses \union {"none"}
          /\ e2 \in BOOLEAN /\ e3 \in BOOLEAN /\ e4 \in Time /\ e5 \in BOOLEAN /\ e6 \in BOOLEAN
      BY <3>1 DEF Session, OpenSessionStatuses, ClosedStatuses
    <3>3. w = [visit[s] EXCEPT !.status = e1, !.last = clock, !.cart = e2, !.started = e3,
                                 !.checkout = e4, !.ordered = e5, !.diner = e6]
      BY Zenon DEF Recorded
    <3> HIDE DEF w, e1, e2, e3, e4, e5, e6
    <3>4. w = [status |-> e1, last |-> clock, cart |-> e2, started |-> e3, checkout |-> e4,
               diner |-> e6, ordered |-> e5]
      BY <3>1, <3>3 DEF Session
    <3> QED
      BY <3>1, <3>2, <3>4, Zenon DEF Session
  <2>4. w.status # "none" /\ w.last = clock
    BY <1>1 DEF Recorded, Session
  <2>5. ~begins => w.started = visit[s].started
    BY <1>1 DEF Recorded, Session
  <2> HIDE DEF w
  <2>6. visit'[s] = w /\ \A u \in Sessions : u # s => visit'[u] = visit[u]
    BY <1>1, <2>1 DEF w, Inv, VisitTypeOK
  <2>7. /\ reported' \in [Sessions -> Nat]
        /\ reported'[s] = IF begins THEN 0 ELSE reported[s]
        /\ \A u \in Sessions : u # s => reported'[u] = reported[u]
    BY <1>1, <2>2 DEF Inv, VisitTypeOK
  <2> HIDE DEF begins
  <2>8. visit' \in [Sessions -> Session]
    BY <1>1, <2>1, <2>3 DEF w, Inv, VisitTypeOK
  <2>9. VisitTypeOK'
    BY <1>1, <2>7, <2>8 DEF Inv, VisitTypeOK
  <2>10. ASSUME NEW u \in Sessions PROVE reported'[u] <= 1 /\ (visit'[u].started => reported'[u] = 0)
    <3>1. reported[u] <= 1 /\ (visit[u].started => reported[u] = 0)
      BY DEF Inv, Counted
    <3> QED
      BY <1>1, <2>5, <2>6, <2>7, <3>1
  <2>11. Ages
    BY <1>1, <2>4, <2>6 DEF Ages, Inv, VisitTypeOK, Time
  <2> QED
    BY <1>1, <2>9, <2>10, <2>11, FinishOK, StepOK DEF Counted, VisitFinish
<1> QED
  BY <1>2, <1>3

LEMMA NeededOK ==
    ASSUME Timings, NEW v \in Session, NEW ev \in Moves
    PROVE  /\ Needed(v, ev) \in Session
           /\ Needed(v, ev).status = v.status
           /\ Needed(v, ev).last = v.last
           /\ ev = "close" => /\ Needed(v, ev).cart = v.cart
                              /\ Needed(v, ev).diner = v.diner
                              /\ Needed(v, ev).ordered = v.ordered
<1> DEFINE e1 == v.started /\ ev = "left"
           e2 == IF ev = "left" THEN v.checkout ELSE 0
           e3 == v.cart /\ ev = "close"
           e4 == v.diner /\ ev = "close"
           e5 == v.ordered /\ ev \in {"close", "paid"}
<1>1. /\ v.status \in OpenSessionStatuses \union ClosedStatuses \union {"none"} /\ v.last \in Time
      /\ v.cart \in BOOLEAN /\ v.diner \in BOOLEAN /\ v.ordered \in BOOLEAN
  BY DEF Session
<1>2. e1 \in BOOLEAN /\ e2 \in Time /\ e3 \in BOOLEAN /\ e4 \in BOOLEAN /\ e5 \in BOOLEAN
  BY DEF Session, Timings, Time
<1>3. ev = "close" => e3 = v.cart /\ e4 = v.diner /\ e5 = v.ordered
  <2> HAVE ev = "close"
  <2>1. (e3 <=> v.cart) /\ (e4 <=> v.diner) /\ (e5 <=> v.ordered)
    OBVIOUS
  <2> HIDE DEF e3, e4, e5
  <2> QED
    BY <1>1, <1>2, <2>1, Zenon
<1>4. Needed(v, ev) = [v EXCEPT !.started = e1, !.checkout = e2, !.cart = e3, !.diner = e4, !.ordered = e5]
  BY Zenon DEF Needed
<1> HIDE DEF e1, e2, e3, e4, e5
<1>5. Needed(v, ev) = [status |-> v.status, last |-> v.last, cart |-> e3, started |-> e1, checkout |-> e2,
                       diner |-> e4, ordered |-> e5]
  BY <1>4 DEF Session
<1> DEFINE w == Needed(v, ev)
<1> HIDE DEF w
<1>6. w \in Session
  <2>1. w = [status |-> v.status, last |-> v.last, cart |-> e3, started |-> e1, checkout |-> e2,
             diner |-> e4, ordered |-> e5]
    BY <1>5 DEF w
  <2> QED
    BY <1>1, <1>2, <2>1, Zenon DEF Session
<1>7. w.status = v.status /\ w.last = v.last /\ w.cart = e3 /\ w.diner = e4 /\ w.ordered = e5
  BY <1>5 DEF w
<1> QED
  BY <1>3, <1>6, <1>7, Zenon DEF w

LEMMA FindDueOK ==
    ASSUME Timings, Inv, NEW t \in VisitTasks, NEW ev \in Moves, NEW s \in Sessions, FindDue(t, ev, s)
    PROVE  Inv'
<1> DEFINE v == [VisitIdle EXCEPT !.pc = "move", !.ev = ev, !.s = s, !.saw = Needed(visit[s], ev)]
<1>1. visit[s] \in Session /\ visit[s].status \in OpenSessionStatuses
  BY DEF Inv, VisitTypeOK, FindDue, IsOpen
<1>2. v \in VisitTask /\ v.pc = "move" /\ v.s = s /\ v.ev = ev /\ v.saw = Needed(visit[s], ev)
  BY <1>1, NeededOK, IdleOK DEF VisitIdle, VisitTask
<1>3. ev = "close" => clock >= visit[s].last + CloseAfterFor(visit[s])
  BY DEF FindDue, Due, TimedOut
<1>4. VisitBecomes(t, v) /\ UNCHANGED <<visit, clock, reported>>
  BY DEF FindDue
<1> HIDE DEF v
<1>5. v.saw.status = visit[s].status /\ v.saw.last = visit[s].last
  BY <1>1, <1>2, NeededOK
<1>6. ev = "close" => /\ v.saw.cart = visit[s].cart /\ v.saw.diner = visit[s].diner
                      /\ v.saw.ordered = visit[s].ordered
                      /\ CloseAfterFor(v.saw) = CloseAfterFor(visit[s])
  BY <1>1, <1>2, NeededOK DEF CloseAfterFor, Eating
<1>7. Knows(v, visit, clock)
  BY <1>1, <1>2, <1>3, <1>5, <1>6 DEF Knows, Closing, OpenSessionStatuses
<1> QED
  BY <1>2, <1>4, <1>7, HandlerStepOK

\* A session's checkout is over, and its status is open or closed for good.
LEMMA CheckoutOverOK ==
    ASSUME Timings, Inv, NEW s \in Sessions, NEW status \in OpenSessionStatuses \union ClosedStatuses, NEW n \in Nat,
           n <= 1, UNCHANGED clock, vtask' \in [VisitTasks -> VisitTask],
           visit' = [visit EXCEPT ![s] =
                          [visit[s] EXCEPT !.status = status, !.started = FALSE, !.checkout = 0]],
           reported' = [reported EXCEPT ![s] = n]
    PROVE  VisitTypeOK' /\ Counted' /\ Ages
<1> DEFINE w == [visit[s] EXCEPT !.status = status, !.started = FALSE, !.checkout = 0]
<1>1. visit[s] \in Session /\ 0 \in Time
  BY DEF Inv, VisitTypeOK, Timings, Time
<1>2. /\ w \in Session /\ w.status = status /\ ~w.started
      /\ w.last = visit[s].last /\ w.cart = visit[s].cart
      /\ w.diner = visit[s].diner /\ w.ordered = visit[s].ordered
  BY <1>1 DEF Session
<1> HIDE DEF w
<1>3. visit' = [visit EXCEPT ![s] = w]
  BY DEF w
<1>4. visit'[s] = w /\ \A u \in Sessions : u # s => visit'[u] = visit[u]
  BY <1>3 DEF Inv, VisitTypeOK
<1>5. /\ reported' \in [Sessions -> Nat]
      /\ reported'[s] = n /\ \A u \in Sessions : u # s => reported'[u] = reported[u]
  BY DEF Inv, VisitTypeOK
<1>6. VisitTypeOK'
  BY <1>2, <1>3, <1>5 DEF Inv, VisitTypeOK
<1>7. Counted'
  BY <1>2, <1>4, <1>5 DEF Inv, Counted
<1>8. Ages
  BY <1>2, <1>4 DEF Ages, Inv, VisitTypeOK, Time, OpenSessionStatuses, ClosedStatuses
<1> QED
  BY <1>6, <1>7, <1>8

LEMMA MoveOK ==
    ASSUME Timings, Inv, NEW t \in VisitTasks, Move(t) PROVE Inv'
<1> DEFINE s == vtask[t].s
           ev == vtask[t].ev
           saw == vtask[t].saw
<1>1. /\ vtask[t] \in VisitTask /\ VisitBecomes(t, VisitIdle) /\ UNCHANGED clock /\ vtask' \in [VisitTasks -> VisitTask]
      /\ s \in Sessions /\ ev \in Moves /\ saw.status \in OpenSessionStatuses
      /\ visit[s] \in Session /\ reported[s] \in Nat
  BY FinishOK, BecomeOK DEF Inv, VisitTypeOK, Knows, Move, VisitAt, VisitFinish
<1> HIDE DEF s, ev, saw
<1>2. SUFFICES VisitTypeOK' /\ Counted' /\ Ages
  BY <1>1, FinishOK, StepOK
<1>3. CASE ~Unchanged(t)
  BY <1>1, <1>3, NoChangeOK DEF Move
<1>4. CASE Unchanged(t)
  <2>1. /\ visit' = [visit EXCEPT ![s] = Moved(visit[s], ev, saw)]
        /\ reported' = [reported EXCEPT ![s] = IF ev = "left" THEN reported[s] + 1 ELSE reported[s]]
    BY <1>4, Zenon DEF Move, s, ev, saw
  <2>2. visit[s].status \in OpenSessionStatuses
    BY <1>1, <1>4 DEF Unchanged, s, saw
  <2>3. ev # "left" => UNCHANGED reported
    BY <1>1, <2>1 DEF Inv, VisitTypeOK
  <2>4. CASE ev = "close"
    BY <1>1, <2>1, <2>3, <2>4, VerdictOK, StatusStepOK DEF Moved
  <2>5. CASE ev = "idle"
    BY <1>1, <2>1, <2>3, <2>5, StatusStepOK DEF Moved, OpenSessionStatuses
  <2>6. CASE ev = "left"
    <3>1. visit[s].started /\ reported[s] = 0
      BY <1>1, <1>4, <2>6 DEF Unchanged, s, ev, Inv, Counted
    <3> DEFINE status == visit[s].status
    <3>2. Moved(visit[s], ev, saw) =
              [visit[s] EXCEPT !.status = status, !.started = FALSE, !.checkout = 0]
      BY <1>1, <2>6 DEF Moved, Session
    <3> HIDE DEF status
    <3>4. status \in OpenSessionStatuses \union ClosedStatuses
      BY <2>2 DEF status
    <3>3. reported' = [reported EXCEPT ![s] = 1]
      BY <2>1, <2>6, <3>1
    <3>5. visit' = [visit EXCEPT ![s] =
                          [visit[s] EXCEPT !.status = status, !.started = FALSE, !.checkout = 0]]
      BY <2>1, <3>2
    <3>6. 1 \in Nat /\ 1 <= 1
      OBVIOUS
    <3> QED
      BY <1>1, <3>3, <3>4, <3>5, <3>6, CheckoutOverOK
  <2>7. CASE ev = "paid"
    <3> DEFINE status == IF saw.ordered THEN "converted" ELSE "ended"
    <3>1. Moved(visit[s], ev, saw) =
              [visit[s] EXCEPT !.status = status, !.started = FALSE, !.checkout = 0]
      BY <2>7 DEF Moved
    <3>2. status \in OpenSessionStatuses \union ClosedStatuses /\ reported[s] <= 1
      BY <1>1 DEF ClosedStatuses, Inv, Counted
    <3> HIDE DEF status
    <3>3. reported' = [reported EXCEPT ![s] = reported[s]]
      BY <2>1, <2>7
    <3> QED
      BY <1>1, <2>1, <3>1, <3>2, <3>3, CheckoutOverOK
  <2> QED
    BY <1>1, <2>4, <2>5, <2>6, <2>7 DEF Moves
<1> QED
  BY <1>3, <1>4

LEMMA HideOK ==
    ASSUME Timings, Inv, NEW s \in Sessions, Hide(s) PROVE Inv'
<1>1. VisitTypeOK' /\ Counted' /\ Ages /\ UNCHANGED vtask
  BY StatusStepOK DEF Hide, ClosedStatuses, Inv, VisitTypeOK
<1> QED
  BY <1>1, KnowsStays DEF Inv

LEMMA TickOK ==
    ASSUME Timings, Inv, Tick PROVE Inv'
<1>1. VisitTypeOK' /\ Counted' /\ Ages /\ UNCHANGED vtask
  BY DEF Tick, Inv, VisitTypeOK, Counted, Ages, Time, Timings
<1> QED
  BY <1>1, KnowsStays DEF Inv

\* Every step of the customer, the sweeps and the clock keeps the invariant.
THEOREM StepInv == ASSUME Timings PROVE Inv /\ [VisitNext]_visitVars => Inv'
<1> SUFFICES ASSUME Inv, [VisitNext]_visitVars PROVE Inv'
  OBVIOUS
<1>1. CASE UNCHANGED visitVars
  BY <1>1 DEF visitVars, Inv, VisitTypeOK, Counted, Knows, CloseAfterFor, Eating
<1>2. CASE VisitNext
  BY <1>2, StartRecordOK, CloseTimedOutOK, OpenSessionOK, FindAgainOK, RecordOK, FindDueOK, MoveOK, HideOK,
     TickOK DEF VisitNext
<1> QED
  BY <1>1, <1>2

-----------------------------------------------------------------------------
(* What follows.                                                           *)

LEMMA Invariance == ASSUME Timings PROVE VisitSpec => []Inv
<1>1. VisitInit => Inv
  BY InitInv
<1>2. Inv /\ [VisitNext]_visitVars => Inv'
  BY StepInv
<1> QED
  BY <1>1, <1>2, PTL DEF VisitSpec

\* The variables keep their types.
THEOREM TypeCorrect == VisitSpec => []VisitTypeOK
<1>. USE TimingsAssumption
<1>1. Inv => VisitTypeOK
  BY DEF Inv
<1> QED
  BY <1>1, Invariance, PTL

\* An attempt to check out is reported as left at most once, whoever sweeps.
THEOREM LeftOnce == VisitSpec => []LeftOncePerAttempt
<1>. USE TimingsAssumption
<1>1. Inv => LeftOncePerAttempt
  BY DEF Inv, Counted, LeftOncePerAttempt
<1> QED
  BY <1>1, Invariance, PTL

\* Only an open session is written.
LEMMA StaysClosedStep == ASSUME Timings PROVE Inv /\ [VisitNext]_visitVars => StaysClosed
<1> SUFFICES ASSUME Inv, [VisitNext]_visitVars, NEW s \in Sessions, visit[s].status \in ClosedStatuses
             PROVE  visit'[s] = visit[s]
  BY DEF StaysClosed
<1>1. visit \in [Sessions -> Session] /\ ~IsOpen(s) /\ visit[s].status # "none"
  BY DEF Inv, VisitTypeOK, IsOpen, OpenSessionStatuses, ClosedStatuses
<1>2. ASSUME NEW t \in VisitTasks, vtask[t].pc \in {"timeout", "move"}, Unchanged(t) PROVE vtask[t].s # s
  <2>1. visit[vtask[t].s].status = vtask[t].saw.status /\ vtask[t].saw.status \in OpenSessionStatuses
    BY <1>2 DEF Unchanged, Inv, Knows
  <2> QED
    BY <1>1, <2>1 DEF IsOpen
<1>3. ASSUME NEW t \in VisitTasks, CloseTimedOut(t) PROVE visit'[s] = visit[s]
  BY <1>1, <1>2, <1>3 DEF CloseTimedOut, VisitAt
<1>4. ASSUME NEW t \in VisitTasks, OpenSession(t) PROVE visit'[s] = visit[s]
  BY <1>1, <1>4 DEF OpenSession
<1>5. ASSUME NEW t \in VisitTasks, Record(t) PROVE visit'[s] = visit[s]
  BY <1>1, <1>5 DEF Record
<1>6. ASSUME NEW t \in VisitTasks, Move(t) PROVE visit'[s] = visit[s]
  BY <1>1, <1>2, <1>6 DEF Move, VisitAt
<1>7. ASSUME NEW u \in Sessions, Hide(u) PROVE visit'[s] = visit[s]
  BY <1>1, <1>7 DEF Hide
<1>8. CASE UNCHANGED visit
  BY <1>8
<1> QED
  BY <1>3, <1>4, <1>5, <1>6, <1>7, <1>8 DEF VisitNext, visitVars, StartRecord, FindAgain, FindDue, Tick

\* A session once closed is never written again.
THEOREM ClosedForGood == VisitSpec => ClosedStaysClosed
<1>. USE TimingsAssumption
<1>1. Inv /\ [VisitNext]_visitVars => StaysClosed
  BY StaysClosedStep
<1> QED
  BY <1>1, Invariance, PTL DEF VisitSpec, ClosedStaysClosed

\* Only a closing abandons, and what it has read still holds.
LEMMA AbandonsSilentStep == ASSUME Timings PROVE Inv /\ [VisitNext]_visitVars => AbandonsSilent
<1> SUFFICES ASSUME Inv, [VisitNext]_visitVars, NEW s \in Sessions, IsOpen(s), visit'[s].status = "abandoned"
             PROVE  visit[s].cart /\ TimedOut(visit[s])
  BY DEF AbandonsSilent
<1>1. visit \in [Sessions -> Session] /\ visit[s].status # "abandoned" /\ visit[s].status # "none"
  BY DEF Inv, VisitTypeOK, IsOpen, OpenSessionStatuses
<1>2. ASSUME NEW t \in VisitTasks, Closing(vtask[t]), Unchanged(t), vtask[t].s = s, Verdict(vtask[t].saw) = "abandoned"
      PROVE  visit[s].cart /\ TimedOut(visit[s])
  <2>1. /\ visit[s].last = vtask[t].saw.last /\ visit[s].cart = vtask[t].saw.cart
        /\ visit[s].diner = vtask[t].saw.diner /\ visit[s].ordered = vtask[t].saw.ordered
        /\ clock >= vtask[t].saw.last + CloseAfterFor(vtask[t].saw)
    BY <1>2 DEF Inv, Knows, Unchanged
  <2>2. vtask[t].saw.cart
    BY <1>2 DEF Verdict
  <2> QED
    BY <2>1, <2>2 DEF TimedOut, CloseAfterFor, Eating
<1>3. ASSUME NEW t \in VisitTasks, CloseTimedOut(t) PROVE visit[s].cart /\ TimedOut(visit[s])
  <2>1. Closing(vtask[t]) /\ Unchanged(t) /\ vtask[t].s = s
    BY <1>1, <1>3 DEF CloseTimedOut, VisitAt, Closing
  <2>2. visit'[s].status = Verdict(vtask[t].saw)
    BY <1>1, <1>3, <2>1 DEF CloseTimedOut, Session
  <2> QED
    BY <1>2, <2>1, <2>2
<1>4. ASSUME NEW t \in VisitTasks, OpenSession(t) PROVE FALSE
  BY <1>1, <1>4 DEF OpenSession, Open
<1>5. ASSUME NEW t \in VisitTasks, Record(t) PROVE FALSE
  <2>1. PICK cart : visit' = [visit EXCEPT ![vtask[t].s] = Recorded(visit[vtask[t].s], t, cart)]
    BY <1>1, <1>5 DEF Record
  <2>2. vtask[t].s = s
    BY <1>1, <2>1
  <2>3. Recorded(visit[s], t, cart).status \in {"converted", "active"}
    BY <1>1 DEF Recorded, Session
  <2> QED
    BY <1>1, <2>1, <2>2, <2>3
<1>6. ASSUME NEW t \in VisitTasks, Move(t) PROVE visit[s].cart /\ TimedOut(visit[s])
  <2>1. Unchanged(t) /\ vtask[t].s = s /\ vtask[t].pc = "move"
    BY <1>1, <1>6 DEF Move, VisitAt
  <2>2. visit'[s] = Moved(visit[s], vtask[t].ev, vtask[t].saw)
    BY <1>1, <1>6, <2>1, Zenon DEF Move
  <2>3. visit[s] \in Session /\ vtask[t].ev \in Moves
    BY <1>1, <2>1 DEF Inv, Knows
  <2>4. vtask[t].ev = "close" /\ Verdict(vtask[t].saw) = "abandoned"
    BY <1>1, <2>2, <2>3 DEF Moved, Moves, Session
  <2> QED
    BY <1>2, <2>1, <2>4 DEF Closing
<1>7. ASSUME NEW u \in Sessions, Hide(u) PROVE FALSE
  BY <1>1, <1>7 DEF Hide, Session
<1>8. CASE UNCHANGED visit
  BY <1>1, <1>8
<1> QED
  BY <1>3, <1>4, <1>5, <1>6, <1>7, <1>8 DEF VisitNext, visitVars, StartRecord, FindAgain, FindDue, Tick

\* Only the cart of a customer silent for long enough is reported abandoned.
THEOREM AbandonedOnlyInSilence == VisitSpec => AbandonedWhenSilent
<1>. USE TimingsAssumption
<1>1. Inv /\ [VisitNext]_visitVars => AbandonsSilent
  BY AbandonsSilentStep
<1> QED
  BY <1>1, Invariance, PTL DEF VisitSpec, AbandonedWhenSilent
=============================================================================
