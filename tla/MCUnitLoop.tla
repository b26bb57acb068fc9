----------------------------- MODULE MCUnitLoop -----------------------------
(* Model values and the small instance TLC checks UnitLoop on: no          *)
(* genet.prefs, and one that asks for fast polls and has a word that is no *)
(* number, an unknown key and a value too large for its field.             *)
EXTENDS UnitLoop, TLC
CONSTANT garbage

TwoSteps == <<1, 2>>

Line(key, words) == [key |-> key, words |-> words]
Missing == <<>>
Odd == << Line("TX_PENDING_FAST_TICKS", <<1>>), Line("UNIT_STACK_SIZE", <<1001>>),
          Line("MTU", <<1500>>), Line("POLL_DELAY_US", <<garbage, -1, 2>>),
          Line("RX_POLL_BURST", <<65536>>) >>
Files == {Missing, Odd}
=============================================================================
