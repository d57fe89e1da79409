----------------------------- MODULE MCDesktop -----------------------------
EXTENDS Desktop

CONSTANTS i1, i2

MCInstances == {i1, i2}
=============================================================================
