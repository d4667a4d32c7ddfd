------------------------------- MODULE MCCache -------------------------------
EXTENDS Cache

CONSTANTS k1, k2
TwoKeys == {k1, k2}
ShortLived == {0, 1}
=============================================================================
