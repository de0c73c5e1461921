---------------------------- MODULE LogPipeline -----------------------------
(***************************************************************************)
(* LogQueue composed with what its jobs do to the database: processLog in  *)
(* internal/logparser/queue.go reads a route's row, folds the log's        *)
(* segment into the copy and saves every column of it.  The read and the   *)
(* save are two statements without a transaction.                          *)
(*                                                                         *)
(* A row is represented by the sequence of logs merged into it; the        *)
(* columns it then has are RouteIngest's.  route_id has a unique index, so *)
(* there is one row per route id, whichever device it belongs to.          *)
(***************************************************************************)
EXTENDS LogQueue

CONSTANTS
    Routes,     \* route ids
    RouteOf     \* the route id in each upload's path

ASSUME RouteOfAssumption == RouteOf \in [Logs -> Routes]

VARIABLES
    rows,     \* per route id, the logs merged into its row; <<>> is no row
    ingest,   \* how far the job of each log is in processLog
    snapshot  \* the copy of the row each job has read

store == <<rows, ingest, snapshot>>
pvars == <<vars, store>>

Ended == {"saved", "failed"}

PInit ==
    /\ Init
    /\ rows = [r \in Routes |-> <<>>]
    /\ ingest = [l \in Logs |-> "idle"]
    /\ snapshot = [l \in Logs |-> <<>>]

-----------------------------------------------------------------------------
(* processLog. *)

Running(l) == ~panicked /\ job[l] = "processing"

(* A row belongs to the device whose log created it.                       *)
OwnRow(l) == rows[RouteOf[l]] # <<>> /\ DongleOf[Head(rows[RouteOf[l]])] = DongleOf[l]

(* Any error before the save - file, device, extension, log, database.     *)
IngestFails(l) ==
    /\ Running(l)
    /\ ingest[l] \in {"idle", "read"}
    /\ ingest' = [ingest EXCEPT ![l] = "failed"]
    /\ UNCHANGED <<vars, rows, snapshot>>

(* FindRouteForSegment, by device and route id; no row found is a new      *)
(* route, represented by the empty copy.                                   *)
ReadRoute(l) ==
    /\ Running(l)
    /\ ingest[l] = "idle"
    /\ snapshot' = [snapshot EXCEPT ![l] =
                      IF OwnRow(l) THEN rows[RouteOf[l]] ELSE <<>>]
    /\ ingest' = [ingest EXCEPT ![l] = "read"]
    /\ UNCHANGED <<vars, rows>>

(* Mutant of SaveRoute: the row is looked up by route id alone.            *)
SaveAnyDevice(l) ==
    /\ Running(l)
    /\ ingest[l] = "read"
    /\ rows' = [rows EXCEPT ![RouteOf[l]] = Append(@, l)]
    /\ ingest' = [ingest EXCEPT ![l] = "saved"]
    /\ UNCHANGED <<vars, snapshot>>

(* db.Save: a row that was read is overwritten with the copy and the new   *)
(* segment; a new route is inserted, unless the route id exists by now.    *)
SaveRoute(l) ==
    /\ Running(l)
    /\ ingest[l] = "read"
    /\ snapshot[l] # <<>> \/ rows[RouteOf[l]] = <<>>
    /\ rows' = [rows EXCEPT ![RouteOf[l]] = Append(snapshot[l], l)]
    /\ ingest' = [ingest EXCEPT ![l] = "saved"]
    /\ UNCHANGED <<vars, snapshot>>

InsertRefused(l) ==
    /\ Running(l)
    /\ ingest[l] = "read"
    /\ snapshot[l] = <<>>
    /\ rows[RouteOf[l]] # <<>>
    /\ ingest' = [ingest EXCEPT ![l] = "failed"]
    /\ UNCHANGED <<vars, rows, snapshot>>

(* The job goes on to Delete its mark when processLog has returned.        *)
ReturnFromIngest(l) ==
    /\ ingest[l] \in Ended
    /\ UnmarkActive(l)
    /\ UNCHANGED store

Ingest(l) == ReadRoute(l) \/ SaveRoute(l) \/ InsertRefused(l)

PJob(l) ==
    \/ (MarkActive(l) \/ ReleaseSlot(l)) /\ UNCHANGED store
    \/ Ingest(l)
    \/ IngestFails(l)
    \/ ReturnFromIngest(l)

PNext ==
    \/ \E l \in Logs : (AddLog(l) \/ AddLogPanics(l)) /\ UNCHANGED store
    \/ \E l \in Logs : PJob(l)
    \/ (Dispatch \/ Stop) /\ UNCHANGED store

PSpec ==
    /\ PInit
    /\ [][PNext]_pvars
    /\ WF_pvars(Dispatch /\ UNCHANGED store)
    /\ \A l \in Logs : WF_pvars(PJob(l))

-----------------------------------------------------------------------------
Saved == {l \in Logs : ingest[l] = "saved"}

(* However jobs of one route overlap, a row holds only segments of saved   *)
(* logs of one device and that route, none of them twice: what is wrong    *)
(* with overlapping jobs is only that segments disappear.                  *)
RowsHoldSavedLogs ==
    \A r \in Routes :
        /\ IsInjective(rows[r])
        /\ \A l \in Range(rows[r]) :
               /\ l \in Saved
               /\ RouteOf[l] = r
               /\ DongleOf[l] = DongleOf[Head(rows[r])]

(* With one job slot the pipeline keeps the promise of SegmentStore: no    *)
(* saved segment is ever lost to another job's stale copy.                 *)
Promise == INSTANCE SegmentStore WITH
    fate <- [l \in Logs |-> CASE ingest[l] = "saved" -> "merged"
                              [] ingest[l] = "failed" -> "failed"
                              [] OTHER -> "pending"]
ImplementsSegmentStore == Promise!Spec

(* Every log the queue accepted ends up saved or failed, unless the queue  *)
(* is stopped.                                                             *)
EveryLogIsIngested ==
    \A l \in Logs : job[l] = "sent" ~> (ingest[l] \in Ended \/ closed \/ panicked)
=============================================================================
