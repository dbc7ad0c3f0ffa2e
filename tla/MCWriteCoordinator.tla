------------------------ MODULE MCWriteCoordinator -------------------------
EXTENDS WriteCoordinator

CONSTANTS s1, s2, s3

Steps == {s1, s2, s3}
OneModule == [s \in Steps |-> 1]
TwoModules == [s \in Steps |-> IF s = s1 THEN 1 ELSE 2]
=============================================================================
