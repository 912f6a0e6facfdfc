------------------------------- MODULE MCPsram -------------------------------
EXTENDS Psram
W(a, b, c, d) == [l \in Lanes |-> CASE l = 0 -> a [] l = 1 -> b [] l = 2 -> c [] l = 3 -> d]
MCByteStrobes == {{}, {0, 1}, {1}, {2}}
MCWordStrobes == {{}, {0, 1, 2, 3}}
MCData == {W("a", "b", "a", "b"), W("b", "a", "b", "a")}
MCOther == {W("b", "a", "b", "a")}
MCPowerUp == {[w \in Words |-> W("a","b","a","b")]}
SteadySpec == Init /\ [][Next /\ (sys_resetn => sys_resetn')]_vars
=============================================================================
