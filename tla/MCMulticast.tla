---------------------------- MODULE MCMulticast ----------------------------
(* The small instances TLC checks Multicast on. *)
EXTENDS Multicast
CONSTANTS ip, diag

TwoStacks == {ip, diag}
SmallRanges == {<<5, 5>>, <<6, 7>>, <<7, 9>>}
=============================================================================
