--------------------------- MODULE MCUnitLifecycle ---------------------------
(* The small instances TLC checks UnitLifecycle on. *)
EXTENDS UnitLifecycle
CONSTANTS stack, tool, query

ThreePrograms == {stack, tool, query}
OneQuery == {query}
AllFailures == {"utility", "unit", "opener", "pool", "devtree", "task", "setup", "timer",
                "replyPort"}
NoFailures == {}
=============================================================================
