--------------------------- MODULE MCOpenerQueues ---------------------------
(* Model values and the small instances TLC checks OpenerQueues on. *)
EXTENDS OpenerQueues
CONSTANTS c1, c2, u, A, B, ip, len1, len2, r1, r2, r3, r4, null, nobody

Reader == {c1}
Writer == {c2}
TwoOpeners == <<A, B>>
TwoTypes == {ip, len1}
ThreeTypes == {ip, len1, len2}
Fast == {ip}
First == {r1}
Lengths == {len1, len2}

Read(o, t) == [command |-> "read", opener |-> o, type |-> t, mask |-> {}]
Orphan(o) == [command |-> "orphan", opener |-> o, type |-> ip, mask |-> {}]
Event(o, mask) == [command |-> "event", opener |-> o, type |-> ip, mask |-> mask]

MixedRequests == r1 :> Read(A, ip) @@ r2 :> Read(A, len2) @@ r3 :> Orphan(B)
                 @@ r4 :> Event(A, {"ONLINE", "ERROR"})
=============================================================================
