----------------------------- MODULE MCSimpleUart -----------------------------
EXTENDS SimpleUart
\* A bit time of BitTime = 8 clocks met by peers that run fast and slow.
MCRates == {<<39, 5>>, <<42, 5>>}

\* The two directions share the divider and no other register: in a behaviour either
\* the program sends, and writes CLKDIV again, or the peer does.
OneWay ==
    \/ sent' = <<>>
    \/ puts' = <<>> /\ port'.op # "put" /\ divs' <= 1
OneWayNext == Next /\ OneWay
OneWaySpec == Init /\ [][OneWayNext]_vars
                   /\ WF_vars(OneWayNext /\ (port # NoRequest \/ send_bitcnt # 0))
===============================================================================
