----------------------------- MODULE MCLogQueue -----------------------------
(* Instances of LogQueue for TLC: every log but b1 comes from device A.    *)
EXTENDS LogQueue

CONSTANTS a1, a2, a3, b1, A, B

MCDongleOf == [l \in Logs |-> IF l = b1 THEN B ELSE A]
=============================================================================
