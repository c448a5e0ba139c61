---------------------------- MODULE LiveSession ----------------------------
(***************************************************************************)
(* One customer's visits to one restaurant as the owner's live dashboard   *)
(* sees them (activity.service.js): sessions opened and moved along by the *)
(* customer's events, by the sweeper's ticks, by the table's paid bill and *)
(* by the customer turning sharing off (user.service.js).  Whatever reads  *)
(* a session writes it later, on condition of what it read.                *)
(*                                                                         *)
(* A repeated view folded into the earlier event only counts as activity,  *)
(* as any view does here; labels, prices and the search a visit came from  *)
(* are left out.  A definition X_Y is X with the seeded fault Y.           *)
(***************************************************************************)
EXTENDS Naturals

CONSTANTS
    Sessions,          \* sessions that may be opened
    VisitTasks,        \* event handlers, sweeper ticks and bill closings in flight
    NoVisit,           \* no session
    Channels,          \* whether the customer's token may name a table: a subset of BOOLEAN
    IdleAfter,         \* SESSION_TIMINGS, in ticks of the clock: positive
    CheckoutLeftAfter,
    CloseAfter,
    DineInCloseAfter,  \* no less than CloseAfter
    MaxTime            \* bound: the clock

\* SESSION_TIMINGS are numbers of minutes, none of them zero.
Timings ==
    /\ MaxTime \in Nat
    /\ {IdleAfter, CheckoutLeftAfter, CloseAfter, DineInCloseAfter} \subseteq Nat \ {0}
    /\ Channels \subseteq BOOLEAN
ASSUME TimingsAssumption == Timings

VARIABLES
    visit,     \* the CustomerSession documents
    clock,
    reported,  \* checkout_left events written since the session's checkout was last started
    vtask      \* handlers in flight

visitVars == <<visit, clock, reported, vtask>>

OpenSessionStatuses == {"active", "idle"}
ClosedStatuses == {"converted", "abandoned", "ended"}
Time == 0..MaxTime
\* cart: it holds items; checkout: when it was started, if it goes on; diner: it is at a table.
Session == [status : OpenSessionStatuses \union ClosedStatuses \union {"none"}, last : Time, cart : BOOLEAN,
            started : BOOLEAN, checkout : Time, diner : BOOLEAN, ordered : BOOLEAN]
NoSession == [status |-> "none", last |-> 0, cart |-> FALSE, started |-> FALSE, checkout |-> 0,
              diner |-> FALSE, ordered |-> FALSE]
Events == {"view", "cart", "checkout", "order"}
Moves == {"close", "idle", "left", "paid"}
\* ev: the event recorded, or the move made; dineIn: its token names a table; s: the session;
\* saw: what the handler needs of it as read.
VisitTask == [pc : {"idle", "timeout", "open", "refind", "update", "move"}, ev : Events \union Moves,
         dineIn : BOOLEAN, s : Sessions \union {NoVisit}, saw : Session]
VisitIdle == [pc |-> "idle", ev |-> "view", dineIn |-> FALSE, s |-> NoVisit, saw |-> NoSession]

VisitInit ==
    /\ visit = [s \in Sessions |-> NoSession]
    /\ clock = 0
    /\ reported = [s \in Sessions |-> 0]
    /\ vtask = [t \in VisitTasks |-> VisitIdle]

-----------------------------------------------------------------------------
VisitAt(t, pc) == vtask[t].pc = pc
VisitBecomes(t, v) == vtask' = [vtask EXCEPT ![t] = v]
VisitGoto(t, pc) == VisitBecomes(t, [vtask[t] EXCEPT !.pc = pc])
VisitFinish(t) == VisitBecomes(t, VisitIdle)

IsOpen(s) == visit[s].status \in OpenSessionStatuses
Open == {s \in Sessions : IsOpen(s)}

\* closeAfterFor: much longer for a diner who has ordered.
Eating(v) == v.diner /\ v.ordered
CloseAfterFor(v) == IF Eating(v) THEN DineInCloseAfter ELSE CloseAfter
TimedOut(v) == clock >= v.last + CloseAfterFor(v)

Unchanged_AnyCheckout(t) ==
    /\ visit[vtask[t].s].status = vtask[t].saw.status
    /\ visit[vtask[t].s].last = vtask[t].saw.last
Unchanged_AnyActivity(t) == visit[vtask[t].s].status = vtask[t].saw.status
\* transition: only the session that was read, with nothing done on it since.
Unchanged(t) ==
    LET v == visit[vtask[t].s] IN
    /\ v.status = vtask[t].saw.status
    /\ v.last = vtask[t].saw.last
    /\ vtask[t].ev = "left" => v.started /\ vtask[t].saw.started /\ v.checkout = vtask[t].saw.checkout

\* closeTimedOutSession's verdict.
Verdict(v) == IF v.cart THEN "abandoned" ELSE IF Eating(v) THEN "converted" ELSE "ended"

-----------------------------------------------------------------------------
(* A customer's event: recordNow with sessionFor.                          *)

\* Of the session read, an event needs whether its checkout is on and whether it is at a table.
Recording(v, s, b) == [v EXCEPT !.pc = "update", !.s = s, !.saw.started = b.started, !.saw.diner = b.diner]
\* A closing needs what it is conditional on, and what decides how the session ends.
TimingOut(v, s, b) == [v EXCEPT !.pc = "timeout", !.s = s, !.saw = [b EXCEPT !.started = FALSE, !.checkout = 0]]

StartRecord(t, ev, dineIn) ==
    LET new == [VisitIdle EXCEPT !.ev = ev, !.dineIn = dineIn] IN
    /\ VisitAt(t, "idle")
    /\ \/ Open = {} /\ VisitBecomes(t, [new EXCEPT !.pc = "open"])
       \/ \E s \in Open :
            VisitBecomes(t, IF TimedOut(visit[s]) THEN TimingOut(new, s, visit[s])
                      ELSE Recording(new, s, visit[s]))
    /\ UNCHANGED <<visit, clock, reported>>

CloseTimedOut(t) ==
    LET s == vtask[t].s IN
    /\ VisitAt(t, "timeout")
    /\ IF Unchanged(t)
       THEN visit' = [visit EXCEPT ![s].status = Verdict(vtask[t].saw)]
       ELSE UNCHANGED visit
    /\ VisitBecomes(t, [VisitIdle EXCEPT !.pc = "open", !.ev = vtask[t].ev, !.dineIn = vtask[t].dineIn])
    /\ UNCHANGED <<clock, reported>>

\* openSession: the unique index allows one open session; a diner's cart is on their phone.
OpenSession(t) ==
    /\ VisitAt(t, "open")
    /\ IF Open # {}
       THEN /\ VisitGoto(t, "refind")
            /\ UNCHANGED visit
       ELSE \E s \in Sessions, cart \in BOOLEAN :
            LET v == [NoSession EXCEPT !.status = "active", !.last = clock, !.diner = vtask[t].dineIn,
                                       !.cart = cart /\ ~vtask[t].dineIn] IN
            /\ visit[s].status = "none"
            /\ visit' = [visit EXCEPT ![s] = v]
            /\ VisitBecomes(t, Recording(vtask[t], s, v))
    /\ UNCHANGED <<clock, reported>>
FindAgain(t) ==
    /\ VisitAt(t, "refind")
    /\ \/ Open = {} /\ VisitFinish(t)
       \/ \E s \in Open : VisitBecomes(t, Recording(vtask[t], s, visit[s]))
    /\ UNCHANGED <<visit, clock, reported>>

\* The event on the session v, given the session saw that was read before.
Recorded(v, t, cart) ==
    LET saw == vtask[t].saw
        begins == vtask[t].ev = "checkout" /\ ~saw.started IN
    [v EXCEPT !.status = IF vtask[t].ev = "order" /\ ~saw.diner THEN "converted" ELSE "active",
              !.last = clock,
              !.cart = IF vtask[t].ev = "cart" THEN cart ELSE @,
              !.started = @ \/ begins,
              !.checkout = IF begins THEN clock ELSE @,
              !.ordered = @ \/ vtask[t].ev = "order",
              !.diner = @ \/ vtask[t].dineIn]

Record_Reopening(t) ==
    LET s == vtask[t].s
        begins == vtask[t].ev = "checkout" /\ ~vtask[t].saw.started IN
    /\ VisitAt(t, "update")
    /\ \E cart \in BOOLEAN : visit' = [visit EXCEPT ![s] = Recorded(@, t, cart)]
    /\ reported' = [reported EXCEPT ![s] = IF begins THEN 0 ELSE @]
    /\ VisitFinish(t)
    /\ UNCHANGED clock
\* Only while still open: a session closed meanwhile is never reopened.
Record(t) ==
    LET s == vtask[t].s
        begins == vtask[t].ev = "checkout" /\ ~vtask[t].saw.started IN
    /\ VisitAt(t, "update")
    /\ IF IsOpen(s)
       THEN /\ \E cart \in BOOLEAN : visit' = [visit EXCEPT ![s] = Recorded(@, t, cart)]
            /\ reported' = [reported EXCEPT ![s] = IF begins THEN 0 ELSE @]
       ELSE UNCHANGED <<visit, reported>>
    /\ VisitFinish(t)
    /\ UNCHANGED clock

-----------------------------------------------------------------------------
(* What the customer does not do: sweepSessions and closeDineInTable.      *)

Due(v, ev) ==
    CASE ev = "close" -> TimedOut(v)
      [] ev = "idle" -> v.status = "active" /\ clock >= v.last + IdleAfter
      [] ev = "left" -> v.started /\ clock >= v.checkout + CheckoutLeftAfter
      [] ev = "paid" -> v.diner
\* What a move is conditional on, and what decides how the session ends.
Needed(v, ev) ==
    [v EXCEPT !.started = @ /\ ev = "left", !.checkout = IF ev = "left" THEN @ ELSE 0,
              !.cart = @ /\ ev = "close", !.diner = @ /\ ev = "close", !.ordered = @ /\ ev \in {"close", "paid"}]
FindDue(t, ev, s) ==
    /\ VisitAt(t, "idle") /\ IsOpen(s) /\ Due(visit[s], ev)
    /\ VisitBecomes(t, [VisitIdle EXCEPT !.pc = "move", !.ev = ev, !.s = s, !.saw = Needed(visit[s], ev)])
    /\ UNCHANGED <<visit, clock, reported>>

Moved(v, ev, saw) ==
    CASE ev = "close" -> [v EXCEPT !.status = Verdict(saw)]
      [] ev = "idle" -> [v EXCEPT !.status = "idle"]
      [] ev = "left" -> [v EXCEPT !.started = FALSE, !.checkout = 0]
      [] ev = "paid" -> [v EXCEPT !.status = IF saw.ordered THEN "converted" ELSE "ended",
                                    !.started = FALSE, !.checkout = 0]
\* closeTimedOutSession, idleSession, markCheckoutLeft and the paid table's transition.
Move(t) ==
    LET s == vtask[t].s IN
    /\ VisitAt(t, "move")
    /\ IF Unchanged(t)
       THEN /\ visit' = [visit EXCEPT ![s] = Moved(@, vtask[t].ev, vtask[t].saw)]
            /\ reported' = [reported EXCEPT ![s] = IF vtask[t].ev = "left" THEN @ + 1 ELSE @]
       ELSE UNCHANGED <<visit, reported>>
    /\ VisitFinish(t)
    /\ UNCHANGED clock

\* hideActivityOf: sharing is turned off.
Hide(s) ==
    /\ IsOpen(s)
    /\ visit' = [visit EXCEPT ![s].status = "ended"]
    /\ UNCHANGED <<clock, reported, vtask>>

\* The clock ticks in minutes: a request is done within one, a sweep may take longer.
Tick ==
    /\ clock < MaxTime
    /\ \A t \in VisitTasks : vtask[t].pc \in {"idle", "move"}
    /\ clock' = clock + 1
    /\ UNCHANGED <<visit, reported, vtask>>

-----------------------------------------------------------------------------
VisitNext ==
    \/ \E t \in VisitTasks :
        \/ \E ev \in Events, dineIn \in Channels : StartRecord(t, ev, dineIn)
        \/ CloseTimedOut(t) \/ OpenSession(t) \/ FindAgain(t) \/ Record(t)
        \/ \E ev \in Moves, s \in Sessions : FindDue(t, ev, s)
        \/ Move(t)
    \/ \E s \in Sessions : Hide(s)
    \/ Tick

VisitSpec == VisitInit /\ [][VisitNext]_visitVars

-----------------------------------------------------------------------------
\* The variables have their types.
VisitTypeOK ==
    /\ visit \in [Sessions -> Session]
    /\ clock \in Time
    /\ reported \in [Sessions -> Nat]
    /\ vtask \in [VisitTasks -> VisitTask]

\* However many sweepers overlap, an attempt to check out is reported as left at most once
\* (markCheckoutLeft's condition on checkoutStartedAt).
LeftOncePerAttempt == \A s \in Sessions : reported[s] <= 1

\* A session once closed never changes again: a late event neither reopens it nor touches it.
StaysClosed == \A s \in Sessions : visit[s].status \in ClosedStatuses => visit'[s] = visit[s]
ClosedStaysClosed == [][StaysClosed]_visitVars

\* A cart is only reported abandoned by a customer who, when it is written, has been silent for
\* the whole time that takes, and has items in it: activity during the sweep saves the session.
AbandonsSilent ==
    \A s \in Sessions :
        IsOpen(s) /\ visit'[s].status = "abandoned" => visit[s].cart /\ TimedOut(visit[s])
AbandonedWhenSilent == [][AbandonsSilent]_visitVars
=============================================================================
