------------------------------ MODULE LogQueue ------------------------------
(***************************************************************************)
(* The queue of uploaded driving logs, internal/logparser/queue.go.        *)
(*                                                                         *)
(* Every accepted upload runs "go logQueue.AddLog(...)".  One dispatcher   *)
(* goroutine (Start) takes logs from a buffered channel and starts a job   *)
(* goroutine for each, unless the log's dongle is marked busy or all job   *)
(* slots are taken: then the dispatcher itself sends the log back into     *)
(* the channel it alone receives from.  Stop closes the channel.           *)
(*                                                                         *)
(* The channel is a Go channel: senders that find it full wait in order,   *)
(* a receive moves the first waiting sender's value into the freed slot,   *)
(* and a send on a closed channel panics, which ends the process because   *)
(* none of these goroutines recovers.                                      *)
(***************************************************************************)
EXTENDS Integers, Sequences, FiniteSets, Functions

CONSTANTS
    Logs,               \* calls of AddLog; two uploads of one file are two
    Dongles,            \* the devices
    DongleOf,           \* the device each log comes from
    QueueDepth,         \* capacity of the channel
    ParallelLogParsers, \* job slots; config validation refuses 0
    NoLog               \* "the dispatcher holds no log"

ASSUME DongleOfAssumption == DongleOf \in [Logs -> Dongles]
ASSUME QueueDepthAssumption == QueueDepth \in Nat \ {0}
ASSUME ParallelAssumption == ParallelLogParsers \in Nat \ {0}
ASSUME NoLogAssumption == NoLog \notin Logs

VARIABLES
    queue,           \* the channel's buffer
    senders,         \* AddLog calls that found the buffer full, in order
    closed,          \* Stop has closed the channel
    dispatcher,      \* where the Start loop is
    held,            \* the log the Start loop has received
    job,             \* where each log's AddLog call or job is
    activeJobs,      \* dongles marked busy
    activeJobsCount, \* the counter the dispatcher compares with the slots
    stop,            \* where the caller of Stop is
    panicked         \* the process has died of a send on a closed channel

vars == <<queue, senders, closed, dispatcher, held, job, activeJobs,
          activeJobsCount, stop, panicked>>

channel == <<queue, senders, closed>>
jobs    == <<job, activeJobs, activeJobsCount>>

-----------------------------------------------------------------------------
(* The life of a log: "new" before AddLog, "sent" from AddLog until its    *)
(* job is spawned, then the statements of the job goroutine.               *)

JobStates == {"spawned", "processing", "unmarked"}
LogStates == {"new", "sent", "done"} \union JobStates

(* Jobs that hold one of the slots, and jobs whose Store has happened and  *)
(* whose Delete has not.                                                   *)
InFlight   == {l \in Logs : job[l] \in JobStates}
Processing == {l \in Logs : job[l] = "processing"}

Init ==
    /\ queue = <<>>
    /\ senders = <<>>
    /\ closed = FALSE
    /\ dispatcher = "receive"
    /\ held = NoLog
    /\ job = [l \in Logs |-> "new"]
    /\ activeJobs = {}
    /\ activeJobsCount = 0
    /\ stop = "idle"
    /\ panicked = FALSE

-----------------------------------------------------------------------------
(* AddLog: the call's only statement is the send.                          *)

AddLog(l) ==
    /\ ~panicked
    /\ job[l] = "new"
    /\ ~closed
    /\ job' = [job EXCEPT ![l] = "sent"]
    /\ IF Len(queue) < QueueDepth
         THEN queue' = Append(queue, l) /\ UNCHANGED senders
         ELSE senders' = Append(senders, l) /\ UNCHANGED queue
    /\ UNCHANGED <<closed, dispatcher, held, activeJobs, activeJobsCount,
                   stop, panicked>>

(* An upload handled after Stop closed the channel.                        *)
AddLogPanics(l) ==
    /\ ~panicked
    /\ job[l] = "new"
    /\ closed
    /\ panicked' = TRUE
    /\ UNCHANGED <<channel, dispatcher, held, jobs, stop>>

-----------------------------------------------------------------------------
(* The dispatcher.                                                         *)

(* Mutant of Receive: the log is looked at and left in the buffer.         *)
ReceivePeeks ==
    /\ ~panicked
    /\ dispatcher = "receive"
    /\ queue # <<>>
    /\ held' = Head(queue)
    /\ dispatcher' = "load"
    /\ UNCHANGED <<channel, jobs, stop, panicked>>

(* "for work := range q.queue"; the buffer is also drained after close.    *)
Receive ==
    /\ ~panicked
    /\ dispatcher = "receive"
    /\ queue # <<>>
    /\ held' = Head(queue)
    /\ IF senders # <<>>
         THEN /\ queue' = Append(Tail(queue), Head(senders))
              /\ senders' = Tail(senders)
         ELSE /\ queue' = Tail(queue)
              /\ UNCHANGED senders
    /\ dispatcher' = "load"
    /\ UNCHANGED <<closed, jobs, stop, panicked>>

DongleBusy == DongleOf[held] \in activeJobs

(* activeJobs.Load: a busy dongle's log goes back into the queue.          *)
LoadActive ==
    /\ ~panicked
    /\ dispatcher = "load"
    /\ dispatcher' = IF DongleBusy THEN "requeue" ELSE "count"
    /\ UNCHANGED <<channel, held, jobs, stop, panicked>>

(* Mutant of Spawn: the slots are compared with "<=".                      *)
SpawnOneTooMany ==
    /\ ~panicked
    /\ dispatcher = "count"
    /\ activeJobsCount <= ParallelLogParsers
    /\ activeJobsCount' = activeJobsCount + 1
    /\ job' = [job EXCEPT ![held] = "spawned"]
    /\ held' = NoLog
    /\ dispatcher' = "receive"
    /\ UNCHANGED <<channel, activeJobs, stop, panicked>>

(* A free slot: count it and spawn the job, which has done nothing yet.    *)
(* Only the dispatcher reads the counter and only it increments, so the    *)
(* comparison, the Inc and the go statement are one step.                  *)
Spawn ==
    /\ ~panicked
    /\ dispatcher = "count"
    /\ activeJobsCount < ParallelLogParsers
    /\ activeJobsCount' = activeJobsCount + 1
    /\ job' = [job EXCEPT ![held] = "spawned"]
    /\ held' = NoLog
    /\ dispatcher' = "receive"
    /\ UNCHANGED <<channel, activeJobs, stop, panicked>>

NoFreeSlot ==
    /\ ~panicked
    /\ dispatcher = "count"
    /\ activeJobsCount >= ParallelLogParsers
    /\ dispatcher' = "requeue"
    /\ UNCHANGED <<channel, held, jobs, stop, panicked>>

(* Mutant of Requeue: a full buffer drops the log ("select default").      *)
RequeueDrops ==
    /\ ~panicked
    /\ dispatcher = "requeue"
    /\ ~closed
    /\ queue' = IF Len(queue) < QueueDepth THEN Append(queue, held) ELSE queue
    /\ held' = NoLog
    /\ dispatcher' = "receive"
    /\ UNCHANGED <<senders, closed, jobs, stop, panicked>>

(* "q.queue <- work" by the dispatcher.  With the buffer full it waits for *)
(* a receive that only it could make: this action is then disabled, and    *)
(* only RequeuePanics can follow.                                          *)
Requeue ==
    /\ ~panicked
    /\ dispatcher = "requeue"
    /\ ~closed
    /\ Len(queue) < QueueDepth
    /\ queue' = Append(queue, held)
    /\ held' = NoLog
    /\ dispatcher' = "receive"
    /\ UNCHANGED <<senders, closed, jobs, stop, panicked>>

RequeuePanics ==
    /\ ~panicked
    /\ dispatcher = "requeue"
    /\ closed
    /\ panicked' = TRUE
    /\ UNCHANGED <<channel, dispatcher, held, jobs, stop>>

(* The range loop ends on a closed, empty channel; the send on closeChan   *)
(* meets the receive in Stop, which returns.                               *)
EndLoop ==
    /\ ~panicked
    /\ dispatcher = "receive"
    /\ closed
    /\ queue = <<>>
    /\ dispatcher' = "closing"
    /\ UNCHANGED <<channel, held, jobs, stop, panicked>>

ReportClosed ==
    /\ ~panicked
    /\ dispatcher = "closing"
    /\ stop = "waiting"
    /\ dispatcher' = "ended"
    /\ stop' = "returned"
    /\ UNCHANGED <<channel, held, jobs, panicked>>

-----------------------------------------------------------------------------
(* A job goroutine.                                                        *)

MarkActive(l) ==
    /\ ~panicked
    /\ job[l] = "spawned"
    /\ job' = [job EXCEPT ![l] = "processing"]
    /\ activeJobs' = activeJobs \union {DongleOf[l]}
    /\ UNCHANGED <<channel, dispatcher, held, activeJobsCount, stop, panicked>>

(* Mutant of UnmarkActive: an early return skips the Delete.               *)
UnmarkForgotten(l) ==
    /\ ~panicked
    /\ job[l] = "processing"
    /\ job' = [job EXCEPT ![l] = "unmarked"]
    /\ UNCHANGED <<channel, dispatcher, held, activeJobs, activeJobsCount,
                   stop, panicked>>

(* processLog has returned, with an error or without.                      *)
UnmarkActive(l) ==
    /\ ~panicked
    /\ job[l] = "processing"
    /\ job' = [job EXCEPT ![l] = "unmarked"]
    /\ activeJobs' = activeJobs \ {DongleOf[l]}
    /\ UNCHANGED <<channel, dispatcher, held, activeJobsCount, stop, panicked>>

ReleaseSlot(l) ==
    /\ ~panicked
    /\ job[l] = "unmarked"
    /\ job' = [job EXCEPT ![l] = "done"]
    /\ activeJobsCount' = activeJobsCount - 1
    /\ UNCHANGED <<channel, dispatcher, held, activeJobs, stop, panicked>>

-----------------------------------------------------------------------------
(* Stop, called once by the shutdown handler: close the channel (waiting   *)
(* senders panic), then wait for closeChan.                                *)

Stop ==
    /\ ~panicked
    /\ stop = "idle"
    /\ closed' = TRUE
    /\ stop' = "waiting"
    /\ panicked' = (senders # <<>>)
    /\ UNCHANGED <<queue, senders, dispatcher, held, jobs>>

-----------------------------------------------------------------------------
Dispatch == \/ Receive \/ LoadActive \/ Spawn \/ NoFreeSlot
            \/ Requeue \/ RequeuePanics \/ EndLoop \/ ReportClosed

Job(l) == MarkActive(l) \/ UnmarkActive(l) \/ ReleaseSlot(l)

Next ==
    \/ \E l \in Logs : AddLog(l) \/ AddLogPanics(l) \/ Job(l)
    \/ Dispatch
    \/ Stop

(* Goroutines that can run are run by the Go scheduler.  Uploads and the   *)
(* shutdown signal come from outside and are never forced.                 *)
Fairness == WF_vars(Dispatch) /\ \A l \in Logs : WF_vars(Job(l))

Safety == Init /\ [][Next]_vars
Spec   == Safety /\ Fairness

-----------------------------------------------------------------------------
TypeOK ==
    /\ queue \in Seq(Logs)
    /\ Len(queue) \in 0..QueueDepth
    /\ senders \in Seq(Logs)
    /\ closed \in BOOLEAN
    /\ dispatcher \in {"receive", "load", "count", "requeue", "closing", "ended"}
    /\ held \in Logs \union {NoLog}
    /\ (held = NoLog) <=> (dispatcher \in {"receive", "closing", "ended"})
    /\ job \in [Logs -> LogStates]
    /\ activeJobs \subseteq Dongles
    /\ activeJobsCount \in Int
    /\ stop \in {"idle", "waiting", "returned"}
    /\ panicked \in BOOLEAN

(* Never more jobs than slots: a job keeps its slot from before it is      *)
(* spawned until after its mark is removed, so the counter the dispatcher  *)
(* compares never undercounts the jobs that run.                           *)
JobsFitSlots == Cardinality(InFlight) <= ParallelLogParsers

(* A sent log is in exactly one place - the buffer, a waiting sender, or   *)
(* the dispatcher's hand - however often it is requeued: none is lost and  *)
(* none is processed twice.                                                *)
Sent == {l \in Logs : job[l] = "sent"}

EachSentLogHeldOnce ==
    /\ Sent = Range(queue) \union Range(senders) \union ({held} \ {NoLog})
    /\ Len(queue) + Len(senders) + (IF held = NoLog THEN 0 ELSE 1)
         = Cardinality(Sent)

(* The dispatcher blocks on its own channel, and with it every upload that *)
(* follows, only once more than QueueDepth logs wait for a job.            *)
Blocked == dispatcher = "requeue" /\ ~closed /\ Len(queue) = QueueDepth
BlocksOnlyWhenOverfull == Blocked => Cardinality(Sent) > QueueDepth

(* A dongle's busy mark always has a job behind it that will remove it: no *)
(* interleaving of two jobs of one dongle leaves a mark for ever, which    *)
(* would send that dongle's logs round the queue until the process ends.   *)
MarksHaveJobs == activeJobs \subseteq {DongleOf[l] : l \in Processing}

(* When Stop returns every log the queue accepted has been given to a job  *)
(* (the job may still be running: Stop does not wait for jobs).            *)
StopLeavesNoQueuedLog == stop = "returned" => Sent = {}

(* The strengthening that makes the properties above inductive: the counter *)
(* is exact, senders wait only on a full buffer that is still open, and     *)
(* shutdown goes through its stages in order.                               *)
SlotsCounted ==
    /\ IsFiniteSet(InFlight)
    /\ activeJobsCount = Cardinality(InFlight)

SendersWait ==
    senders # <<>> => Len(queue) = QueueDepth /\ (closed => panicked)

ShutdownOrder ==
    /\ closed <=> stop # "idle"
    /\ dispatcher \in {"closing", "ended"} => closed /\ queue = <<>>
    /\ stop = "returned" => dispatcher = "ended" /\ senders = <<>>

IInv ==
    /\ TypeOK
    /\ IsFiniteSet(Sent)
    /\ EachSentLogHeldOnce
    /\ SlotsCounted
    /\ JobsFitSlots
    /\ MarksHaveJobs
    /\ SendersWait
    /\ ShutdownOrder

(* Once blocked, the dispatcher stays where it is until the process dies:  *)
(* no job that finishes and no upload can free it.                         *)
BlockedForGood == [][Blocked => Blocked' \/ panicked' \/ closed']_vars

(* The comment in the dispatcher: "If we already have a job for this       *)
(* dongle, we can't start another one".                                    *)
OneJobPerDongle ==
    \A l, m \in Processing : DongleOf[l] = DongleOf[m] => l = m
=============================================================================
