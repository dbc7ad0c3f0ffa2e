--------------------------- MODULE MCRunControl ----------------------------
EXTENDS RunControl

CONSTANTS c1, c2
=============================================================================
