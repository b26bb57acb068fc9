------------------------------ MODULE MCTxRing ------------------------------
(* Model values and the small instances TLC checks TxRing on. *)
EXTENDS TxRing, TLC
CONSTANTS c1, c2, u, a, m, r, e, null, nobody

TwoClients == {c1, c2}
ClientSymmetry == Permutations(TwoClients)
FourReqs == {a, m, r, e}
ThreeReqs == {a, m, r}
FaultReqs == {a, r, e}
OnlyRaw == {r}
OnlyEmpty == {e}
OnlyMulticast == {m}
TwoLate == {a, m}
None == {}
StartLate == {6}
=============================================================================
