--------------------------- MODULE MCOrderPayment ---------------------------
\* OrderPayment for TLC: payments p1..p3, handler slots t1 and t2.
EXTENDS OrderPayment, TLC

CONSTANTS p1, p2, p3, t1, t2

\* Handlers are interchangeable, and so are payments on the same side of Exact; used by
\* the runs that check no liveness.
Symmetry == Permutations(Tasks) \union Permutations(Exact) \union Permutations(Payments \ Exact)
=============================================================================
