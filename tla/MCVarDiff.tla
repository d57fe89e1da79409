----------------------------- MODULE MCVarDiff -----------------------------
EXTENDS VarDiff

CONSTANTS t1, t2

MCTasks == {t1, t2}
=============================================================================
