------------------------------ MODULE MCRxRing ------------------------------
(* Model values and the small instance TLC checks RxRing on. *)
EXTENDS RxRing, TLC
CONSTANTS a, b, short, none, garbage

ThreeFrames == {a, b, short}
OneShort == {short}
Late == {3}
Ladder == <<1000>>
Line(key, words) == [key |-> key, words |-> words]
Bursts == << Line("RX_POLL_BURST", <<3>>), Line("RX_POLL_BURST_IDLE_BREAK", <<2>>) >>
NoBurst == << Line("RX_POLL_BURST", <<0>>) >>
Files == {<<>>, Bursts, NoBurst}
=============================================================================
