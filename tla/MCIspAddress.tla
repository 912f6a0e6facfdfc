----------------------------- MODULE MCIspAddress -----------------------------
EXTENDS IspAddress
\* One byte; the last and the first size of 1, 16 and 256 pages; and the whole
\* of the 4 MB flash of the board.
MCLengths == {1, 256, 257, 4096, 4097, 65535, 65536, 65537, 2^22}
===============================================================================
