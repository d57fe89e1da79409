--------------------------- MODULE MCConnection ---------------------------
EXTENDS Connection, TLC

CONSTANTS t1, t2

MCTwoTasks == {t1, t2}
=============================================================================
