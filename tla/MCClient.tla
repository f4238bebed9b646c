------------------------------ MODULE MCClient ------------------------------
(* Instances of Client for TLC.                                            *)
EXTENDS Client, TLC

CONSTANTS t1, t2, p1, p2, p3, k1, k2, k3, c1, c2

TwoThreads == {t1, t2}
TwoPtrs == {p1, p2}
ThreePtrs == {p1, p2, p3}
TwoSlots == {k1, k2}
OneCore == {c1}
TwoCores == {c1, c2}
NoCores == {}
FirstCore == {c1}

\* Threads, addresses and slots are interchangeable.
Symmetry == Permutations({t1, t2}) \cup Permutations({p1, p2, p3}) \cup Permutations({k1, k2, k3})

=============================================================================
