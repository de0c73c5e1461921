------------------------------ MODULE Shutdown ------------------------------
(***************************************************************************)
(* The end of the process: the signal handler of cmd/cmd.go and            *)
(* Server.Stop (internal/server/server.go), composed with the queue, its   *)
(* jobs and the rows (LogPipeline) and with the upload requests that feed  *)
(* them.                                                                   *)
(*                                                                         *)
(* The handler stops the HTTP servers, the log queue and the storage at    *)
(* the same time, each in a goroutine, and the process exits when all      *)
(* three have ended.  Nothing waits for a job, nor for the goroutine that  *)
(* an upload leaves behind to call AddLog.                                 *)
(***************************************************************************)
EXTENDS LogPipeline

VARIABLES
    phase,    \* of the process
    http,     \* the servers: they listen, drain, or have shut down
    storage,  \* open or closed
    upload    \* where the request that brings each log is

process == <<phase, http, storage, upload>>
svars == <<pvars, process>>

SInit ==
    /\ PInit
    /\ phase = "running"
    /\ http = "listening"
    /\ storage = "open"
    /\ upload = [l \in Logs |-> "none"]

-----------------------------------------------------------------------------
(* Uploads.                                                                *)

UploadArrives(l) ==
    /\ ~panicked
    /\ http = "listening"
    /\ upload[l] = "none"
    /\ upload' = [upload EXCEPT ![l] = "handling"]
    /\ UNCHANGED <<pvars, phase, http, storage>>

(* The answer, and "go logQueue.AddLog(...)"; or an error.                 *)
UploadEnds(l) ==
    /\ ~panicked
    /\ upload[l] = "handling"
    /\ \E answer \in {"accepted", "refused"} : upload' = [upload EXCEPT ![l] = answer]
    /\ UNCHANGED <<pvars, phase, http, storage>>

(* Mutant of CallAddLog: a request that was refused leaves one behind too. *)
CallAddLogAnyway(l) ==
    /\ upload[l] \in {"accepted", "refused"}
    /\ AddLog(l) \/ AddLogPanics(l)
    /\ UNCHANGED <<store, process>>

(* The goroutine that the request left behind.                             *)
CallAddLog(l) ==
    /\ upload[l] = "accepted"
    /\ AddLog(l) \/ AddLogPanics(l)
    /\ UNCHANGED <<store, process>>

-----------------------------------------------------------------------------
(* The signal handler.                                                     *)

Stopping == phase = "stopping" /\ ~panicked

Signal ==
    /\ ~panicked
    /\ phase = "running"
    /\ phase' = "stopping"
    /\ UNCHANGED <<pvars, http, storage, upload>>

StopListening ==
    /\ Stopping
    /\ http = "listening"
    /\ http' = "draining"
    /\ UNCHANGED <<pvars, phase, storage, upload>>

(* Mutant of HttpEnds: Shutdown without a deadline.                        *)
HttpEndsWhenIdle ==
    /\ Stopping
    /\ http = "draining"
    /\ \A l \in Logs : upload[l] # "handling"
    /\ http' = "down"
    /\ UNCHANGED <<pvars, phase, storage, upload>>

(* Shutdown waits for the requests, but no longer than 240 seconds.        *)
HttpEnds ==
    /\ Stopping
    /\ http = "draining"
    /\ http' = "down"
    /\ UNCHANGED <<pvars, phase, storage, upload>>

StopQueue ==
    /\ Stopping
    /\ Stop
    /\ UNCHANGED <<store, process>>

CloseStorage ==
    /\ Stopping
    /\ storage = "open"
    /\ storage' = "closed"
    /\ UNCHANGED <<pvars, phase, http, upload>>

(* Mutant of Exit: the handler does not wait for the queue.                *)
ExitEarly ==
    /\ Stopping
    /\ http = "down" /\ storage = "closed"
    /\ phase' = "exited"
    /\ UNCHANGED <<pvars, http, storage, upload>>

(* errGrp.Wait has returned, and main returns: whatever still runs is cut. *)
Exit ==
    /\ Stopping
    /\ http = "down" /\ storage = "closed" /\ stop = "returned"
    /\ phase' = "exited"
    /\ UNCHANGED <<pvars, http, storage, upload>>

StopStep == StopListening \/ HttpEnds \/ StopQueue \/ CloseStorage \/ Exit

-----------------------------------------------------------------------------
Alive == phase # "exited"

DispatchStep == Alive /\ Dispatch /\ UNCHANGED <<store, process>>
JobStep(l)   == Alive /\ PJob(l) /\ UNCHANGED process
HandOverStep(l) == Alive /\ CallAddLog(l)

SNext ==
    \/ \E l \in Logs : Alive /\ (UploadArrives(l) \/ UploadEnds(l))
    \/ \E l \in Logs : HandOverStep(l) \/ JobStep(l)
    \/ DispatchStep
    \/ Signal
    \/ StopStep

(* Goroutines that can run do.  Uploads, how long they take, and the       *)
(* signal are up to the outside.                                           *)
SSpec ==
    /\ SInit
    /\ [][SNext]_svars
    /\ WF_svars(DispatchStep)
    /\ \A l \in Logs : WF_svars(JobStep(l)) /\ WF_svars(HandOverStep(l))
    /\ WF_svars(StopListening) /\ WF_svars(HttpEnds) /\ WF_svars(StopQueue)
    /\ WF_svars(CloseStorage) /\ WF_svars(Exit)

-----------------------------------------------------------------------------
(* An exit in good order loses few of the logs that the queue accepted:    *)
(* those of the jobs it cuts, one per slot.  Every other one is saved or   *)
(* failed.                                                                 *)
CutOff == {l \in Logs : job[l] # "new" /\ ingest[l] \notin Ended}

ExitCutsOnlyRunningJobs ==
    phase = "exited" =>
        /\ CutOff \subseteq InFlight
        /\ Cardinality(CutOff) <= ParallelLogParsers

(* The process dies of a send on the closed channel only if an upload it   *)
(* accepted has no job yet: a server that has caught up stops in order.    *)
PanicNeedsUnstartedLog ==
    panicked => /\ phase = "stopping"
                /\ \E l \in Logs : upload[l] = "accepted" /\ job[l] \in {"new", "sent"}

(* After the signal the process ends, whatever state the queue is in - a   *)
(* dispatcher that blocks on its own channel, uploads that hang - by       *)
(* itself or of the panic.                                                 *)
ShutdownEnds == phase = "stopping" ~> (phase = "exited" \/ panicked)
=============================================================================
