---------------------------- MODULE SegmentStore ----------------------------
(***************************************************************************)
(* What uploading logs promises, whatever queue and jobs do it: each log   *)
(* is merged into its route's row once and for good, or fails.  A row is   *)
(* the sequence of logs merged into it; RouteIngest says what a sequence   *)
(* of segments makes of the row's columns.                                 *)
(***************************************************************************)
EXTENDS Sequences

CONSTANTS Logs, Routes, RouteOf

VARIABLES rows, fate

Init ==
    /\ rows = [r \in Routes |-> <<>>]
    /\ fate = [l \in Logs |-> "pending"]

Merge(l) ==
    /\ fate[l] = "pending"
    /\ rows' = [rows EXCEPT ![RouteOf[l]] = Append(@, l)]
    /\ fate' = [fate EXCEPT ![l] = "merged"]

Fail(l) ==
    /\ fate[l] = "pending"
    /\ fate' = [fate EXCEPT ![l] = "failed"]
    /\ UNCHANGED rows

Next == \E l \in Logs : Merge(l) \/ Fail(l)

Spec == Init /\ [][Next]_<<rows, fate>>
=============================================================================
