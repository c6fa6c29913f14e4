------------------------- MODULE MCErrorCoalescer -------------------------
(* Small instances of ErrorCoalescer for TLC.                              *)
EXTENDS ErrorCoalescer

MCConns == {"*1 ", "*2 "}
While == <<" while ", "reading", ", client:", "ip">>
Refused == <<"connect() failed (111", ": ", "Connection refused)">>
NotFound == <<"open() failed (2", ": ", "No such file)">>

\* One template, of two connections; two others, the first with the same home
\* slot and the second with a marker of the prefix in it; and a crit line.
MCMessages == {"a", "a2", "b", "c", "crit"}
MCLevel == [m \in MCMessages |-> IF m = "crit" THEN 3 ELSE 4]
MCText ==
    [m \in MCMessages |->
       CASE m = "a" -> [conn |-> <<"*1 ">>, core |-> Refused, context |-> While]
         [] m = "a2" -> [conn |-> <<"*2 ">>, core |-> Refused, context |-> <<", client:", "ip">>]
         [] m = "b" -> [conn |-> << >>, core |-> NotFound, context |-> << >>]
         [] m = "c" -> [conn |-> << >>, core |-> <<"[x", "] ", "notice">>, context |-> << >>]
         [] OTHER -> [conn |-> << >>, core |-> Refused, context |-> << >>]]

\* Two templates only, for the races at one slot.
TwoMessages == {"a", "b"}
TwoLevel == [m \in TwoMessages |-> 4]
TwoText == [m \in TwoMessages |-> MCText[m]]

\* Different for the cores that differ, and 0 for one of them.
MCHash(severity, core) ==
    IF severity = 3 THEN 5
    ELSE IF core = Refused THEN 2 ELSE IF core = NotFound THEN 4
    ELSE IF core[1] = "[x" THEN 0 ELSE 6
=============================================================================
