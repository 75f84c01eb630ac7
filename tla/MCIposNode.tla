----------------------------- MODULE MCIposNode -----------------------------
EXTENDS IposNode
C(csv, ip) == [csv |-> csv, ip |-> ip]
CyclicOnly == {C(TRUE, FALSE)}
ModePairs == {"POSITION_DIRECT", "FORCE_IDLE"}
SomeConfs == {C(FALSE, FALSE), C(TRUE, TRUE)}
=============================================================================
