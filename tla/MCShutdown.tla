----------------------------- MODULE MCShutdown -----------------------------
(* Three uploads of one route, a buffer of one and one job slot: a full    *)
(* buffer, a log in the dispatcher's hand and a job, or a waiting sender,  *)
(* when the signal comes.  The second of three logs that are saved finds a *)
(* row, so two jobs at once would lose a segment.                          *)
EXTENDS Shutdown

CONSTANTS a1, a2, a3, A, r1

MCDongleOf == [l \in Logs |-> A]
MCRouteOf  == [l \in Logs |-> r1]
=============================================================================
