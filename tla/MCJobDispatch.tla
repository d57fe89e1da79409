--------------------------- MODULE MCJobDispatch ---------------------------
EXTENDS JobDispatch, TLC

CONSTANTS t1, t2

MCTasks == {t1, t2}
=============================================================================
