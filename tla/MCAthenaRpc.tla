---------------------------- MODULE MCAthenaRpc -----------------------------
(* One device with two connections; its calls, and forwardLogs and         *)
(* storeStats of its own.                                                  *)
EXTENDS AthenaRpc

CONSTANT A

MCConnOf    == [c \in Conns |-> A]
MCCallOf    == [k \in Calls |-> A]
MCMessageOf == [m \in DeviceCalls |-> A]
=============================================================================
