-------------------------- MODULE MCFloorAndGuards --------------------------
(***************************************************************************)
(* Small instances for TLC of the restaurant's floor and of the guards     *)
(* around a customer and an admin: DineInBill, OfferCheckout, LiveSession  *)
(* and FinanceSettings.  They share no state, so a behaviour is of one     *)
(* `part' and leaves the others as they are.  A part is its module's       *)
(* specification, bounded further where it says so:                        *)
(*   crowd      a bill: two rounds, one Razorpay order, two handlers; the  *)
(*              round that may be cancelled is the second;                 *)
(*   alone      a bill: two rounds, two Razorpay orders, one handler;      *)
(*   discount   a bill: a discount races a payment of its one round;       *)
(*   twice      a bill: two payments of its one round race;                *)
(*   used       an offer: two orders, two handlers;                        *)
(*   sent       an offer and the next one, one order, one handler;         *)
(*   keys       two Idempotency-Keys, two orders, two handlers;            *)
(*   app        a customer's visits from the app: two sessions;            *)
(*   table      a diner's visit, with the longer time they get;            *)
(*   plan       the finance settings: two rules, one save at a time;       *)
(*   served     one rule, two saves and a read of the current rules.       *)
(***************************************************************************)
EXTENDS DineInBill, OfferCheckout, LiveSession, FinanceSettings, TLC

CONSTANTS r1, r2, h1, h2, x1, x2, o1, o2, k1, k2

VARIABLE part

Bills == {"crowd", "alone", "discount", "twice"}
Offering == {"used", "sent", "keys"}
Visits == {"app", "table"}
Rules == {"plan", "served"}

MCInit ==
    /\ part \in Bills \union Offering \union Visits \union Rules
    /\ Init /\ OfferInit /\ VisitInit /\ SettingsInit

\* Bounds of a bill's steps.
OneRound == \A r \in Rounds \ {First} : round'[r] = "none"
OneIntent == Cardinality({i \in Intents : rzp'[i].state # "none"}) <= 1
FirstStays == round'[First] # "cancelled"
NoCancel == \A t \in Tasks : task'[t].pc # "cancel"
NoDiscount == bill'.off = 0 /\ \A t \in Tasks : task'[t].pc # "discount"
OneBiller == Cardinality({t \in Tasks : task'[t].pc # "idle"}) <= 1

BillNext ==
    /\ Next
    /\ part = "crowd" => OneIntent /\ NoDiscount /\ FirstStays
    /\ part = "alone" => OneBiller
    /\ part = "discount" => OneRound /\ OneIntent /\ NoCancel
    /\ part = "twice" => OneRound /\ NoDiscount /\ NoCancel

\* Bounds of a checkout's steps.
OneOffer == Cardinality({o \in Offers : offer'[o].status # "none"}) <= 1
NoOffer == \A o \in Offers : offer'[o].status = "none"
OneOrder == Cardinality({n \in Orders : order'[n].status # "none"}) <= 1
NoKeys == \A k \in Keys : key'[k].status = "free"
OneShopper == Cardinality({t \in OfferTasks : otask'[t].pc # "idle"}) <= 1

CheckoutNext ==
    /\ OfferNext
    /\ part = "used" => OneOffer /\ NoKeys
    /\ part = "sent" => OneOrder /\ OneShopper /\ NoKeys
    /\ part = "keys" => NoOffer

\* Bounds of a visit's steps.
InApp == \A t \in VisitTasks : ~vtask'[t].dineIn
AtTable == \A t \in VisitTasks : vtask'[t].pc \in {"idle", "move"} \/ vtask'[t].dineIn
OneVisit == Cardinality({s \in Sessions : visit'[s].status # "none"}) <= 1

CustomerNext ==
    /\ VisitNext
    /\ part = "app" => InApp /\ clock' <= 2
    /\ part = "table" => AtTable /\ OneVisit

\* Bounds of the steps on the finance settings: one save at a time, or few saves of one rule.
OneSave == Cardinality({a \in Admins : save'[a].pc # "idle"}) <= 1
NoReads == \A q \in Reads : fill'[q].pc = "idle"
FewSaves(f) ==
    \A a \in Admins :
        save[a].pc = "idle" /\ save'[a].pc # "idle" =>
            Cardinality(rows) <= 1 /\ DOMAIN save'[a].patch = {f}

AdminNext ==
    /\ SettingsNext
    /\ part = "plan" => OneSave /\ NoReads
    /\ part = "served" => FewSaves("riderBasePay")

MCNext ==
    \/ part \in Bills /\ BillNext /\ UNCHANGED <<part, offerVars, visitVars, settingsVars>>
    \/ part \in Offering /\ CheckoutNext /\ UNCHANGED <<part, vars, visitVars, settingsVars>>
    \/ part \in Visits /\ CustomerNext /\ UNCHANGED <<part, vars, offerVars, settingsVars>>
    \/ part \in Rules /\ AdminNext /\ UNCHANGED <<part, vars, offerVars, visitVars>>

MCSpec == MCInit /\ [][MCNext]_<<part, vars, offerVars, visitVars, settingsVars>>

Zero == [f \in Fields |-> 0]

\* Handlers are interchangeable, and so are orders or visits, offers, and keys.
Both == (h1 :> h2) @@ (h2 :> h1) @@ (x1 :> x2) @@ (x2 :> x1)
Sym == Permutations({h1, h2}) \union Permutations({x1, x2}) \union {Both}

\* DineInBill's PaymentIsAccounted, with one handler or one Razorpay order: a payment refused while
\* the bill's slot is taken, superseded, late or repeated is never dropped by the server.
LonePaymentIsAccounted == part \in {"crowd", "alone", "discount"} => PaymentIsAccounted

\* Every module's variables have their types.
TypesOK == TypeOK /\ OfferTypeOK /\ VisitTypeOK /\ SettingsTypeOK

\* FinanceSettings' KeepsTheTimeline: with one save at a time a change holds from its
\* date until the rule was due to change again, and leaves the rest of the plan as it was.
LoneSaveKeepsTheTimeline == [][part = "plan" => TimelineStep]_<<part, settingsVars>>
=============================================================================
