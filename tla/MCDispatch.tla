----------------------------- MODULE MCDispatch -----------------------------
\* Dispatch for TLC: orders o1 and o2, riders r1 and r2, handler slots t1 and t2.
EXTENDS Dispatch, TLC

CONSTANTS o1, o2, r1, r2, t1, t2

\* Orders are interchangeable, and so are riders; used by the runs that check no liveness.
Symmetry == Permutations(Orders) \union Permutations(Riders)
=============================================================================
