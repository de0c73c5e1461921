----------------------------- MODULE MCNatsRpc ------------------------------
(* One device, two instances.  The calls run on the second one.  Both      *)
(* connections come to the first, or the device moves to the second.       *)
EXTENDS NatsRpc

CONSTANTS I, J

MCCallerAt == [k \in Calls |-> J]
MCArrivals == {[c \in Conns |-> I], [c \in Conns |-> IF c = 1 THEN I ELSE J]}
=============================================================================
