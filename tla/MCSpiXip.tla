------------------------------- MODULE MCSpiXip -------------------------------
EXTENDS SpiXip
\* Two words in sequence, their address bytes different.  From the second, and
\* the one prefetched after it, the first is a jump.
MCAddrs == {66052, 66056}
\* Different for each byte of them and each version.
MCContent(v, a) == (29 * a + 3 * (a \div 256) + 151 * v + 73) % 256
===============================================================================
