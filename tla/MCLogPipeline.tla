---------------------------- MODULE MCLogPipeline ---------------------------
(* Instances of LogPipeline for TLC: all logs but b1 are of device A.      *)
EXTENDS LogPipeline

CONSTANTS a1, a2, a3, b1, A, B, r1, r2

MCDongleOf == [l \in Logs |-> IF l = b1 THEN B ELSE A]
(* Both devices' logs carry the same route id. *)
MCOneRoute == [l \in Logs |-> r1]
=============================================================================
