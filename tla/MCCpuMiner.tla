---------------------------- MODULE MCCpuMiner ----------------------------
EXTENDS CpuMiner, TLC

CONSTANTS m1, m2

MCThreads == {m1, m2}

(* The first template has a solution among the second nonces of one thread *)
(* and the first ones of the other; the second template is solved by one   *)
(* thread, twice, and not at all by the other.                             *)
MCSolutions == {<<1, m1, 1>>, <<1, m2, 0>>, <<2, m1, 0>>, <<2, m1, 1>>}
=============================================================================
