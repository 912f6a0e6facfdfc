------------------------------- MODULE MCLcd114 -------------------------------
EXTENDS Lcd114
\* The test picture of the simulation build (lcd114.v:145, 245); the first, a
\* data and the last word of init_cmd.
MCinit_cmd    == <<54, 368, 44>>
MCtest_pixels == <<31, 2016, 63488>>
\* RAM write; a data word; a pixel whose bytes differ.
MCCmds        == {44, 296}
MCPixels      == {63488 + 31}
===============================================================================
