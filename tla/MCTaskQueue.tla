---------------------------- MODULE MCTaskQueue ----------------------------
EXTENDS TaskQueue

CONSTANTS t1, t2, w1, w2
=============================================================================
