-------------------------- MODULE SettingsTimeline --------------------------
(***************************************************************************)
(* What the admin of the finance settings is promised: each rule (`field') *)
(* has a value for every date, and a change made for a date holds from     *)
(* that date until the next date at which the rule was already due to      *)
(* change; the rest of the plan stays.  Which rules, values and date an    *)
(* admin asks for is left open here.                                       *)
(***************************************************************************)
EXTENDS Integers

CONSTANTS Fields, Values, LastDate, Default

VARIABLE plan

Dates == 0..LastDate

Init == plan = [f \in Fields |-> [d \in Dates |-> Default[f]]]

\* The dates from w on at which f keeps the value it has at w.
Lasts(f, w) == {d \in w..LastDate : \A e \in (w + 1)..d : f[e] = f[e - 1]}

\* What is in force on w changes, as long as it lasts.
Change(w) ==
    plan' \in [Fields -> [Dates -> Values]] /\
    \A f \in Fields :
        LET old == plan[f]
            new == plan'[f]
        IN \A d \in Dates : new[d] = IF d \in Lasts(old, w) THEN new[w] ELSE old[d]

Next == \E w \in Dates : Change(w)

Spec == Init /\ [][Next]_plan
=============================================================================
