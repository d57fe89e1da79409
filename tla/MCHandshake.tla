---------------------------- MODULE MCHandshake ----------------------------
EXTENDS Handshake, TLC

CONSTANTS c1, c2

MCClients == {c1, c2}
MCSymmetry == Permutations(MCClients)
=============================================================================
