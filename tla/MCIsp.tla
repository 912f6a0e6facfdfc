-------------------------------- MODULE MCIsp --------------------------------
EXTENDS Isp, Bitwise
MCCleared(x, y) == x & y
\* Data that reads like commands: one full sector; two sectors and a short page.
MCImages == {<<48, 0, 85, 16>>, <<1, 0, 85, 64, 240>>}
MCImage  == {<<1, 0, 85, 64, 240>>}
MCBanner == <<13, 86, 69, 82, 83, 73, 79, 78>>   \* CR, then "VERSION"
=============================================================================
