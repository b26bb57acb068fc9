---- MODULE MCPhy ----
(* The small instances TLC checks Phy on: a gigabit and a 100 Mb/s PHY; partners
   with which the best common mode is 1000 or 100 Mb/s, full or half duplex, or
   with which there is none; and no cable. *)
EXTENDS Phy
GigabitAndFast == {{"10F", "100F", "1000F"}, {"10H", "100H", "100F"}}
SomePartners == {{}, {"10H", "100H", "1000F"}, {"100F", "1000F"}, {"100F", "1000H"}, {"1000H"}}
====
