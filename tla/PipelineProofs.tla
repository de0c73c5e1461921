--------------------------- MODULE PipelineProofs ---------------------------
(***************************************************************************)
(* Proofs about LogQueue for every set of logs (finite or not), devices,   *)
(* queue depth and number of job slots; and about Shutdown, and through it *)
(* about the pipeline of queue, jobs and rows, for every moment of the     *)
(* signal too.                                                             *)
(***************************************************************************)
EXTENDS Shutdown, FiniteSetTheorems, SequenceTheorems, TLAPS

(***************************************************************************)
(* What an upload, a receive and a requeue do to the logs in a sequence.   *)
(***************************************************************************)

(* Appending adds one log to those a sequence holds.                       *)
LEMMA RangeOfAppend ==
  ASSUME NEW S, NEW s \in Seq(S), NEW e \in S
  PROVE  Range(Append(s, e)) = Range(s) \union {e}
<1>1. /\ Append(s, e) \in Seq(S)
      /\ Len(Append(s, e)) = Len(s) + 1
      /\ \A i \in 1..Len(s) : Append(s, e)[i] = s[i]
      /\ Append(s, e)[Len(s) + 1] = e
  BY AppendProperties
<1>2. /\ Range(s) = {s[i] : i \in 1..Len(s)}
      /\ Range(Append(s, e)) = {Append(s, e)[i] : i \in 1..(Len(s) + 1)}
  BY <1>1, RangeEquality
<1>3. Len(s) \in Nat
  BY LenProperties
<1>4. 1..(Len(s) + 1) = 1..Len(s) \union {Len(s) + 1}
  BY <1>3
<1>5. {Append(s, e)[i] : i \in 1..(Len(s) + 1)}
        = {s[i] : i \in 1..Len(s)} \union {e}
  BY <1>1, <1>4
<1> QED
  BY <1>2, <1>5

(* The head and the tail of a sequence hold what the sequence holds.       *)
LEMMA RangeOfHeadTail ==
  ASSUME NEW S, NEW s \in Seq(S), s # <<>>
  PROVE  Range(s) = {Head(s)} \union Range(Tail(s))
<1>1. /\ Head(s) = s[1]
      /\ Len(s) \in Nat \ {0}
      /\ Tail(s) \in Seq(S)
      /\ Len(Tail(s)) = Len(s) - 1
      /\ \A i \in 1..Len(Tail(s)) : Tail(s)[i] = s[i + 1]
  BY HeadTailProperties, EmptySeq
<1>2. /\ Range(s) = {s[i] : i \in 1..Len(s)}
      /\ Range(Tail(s)) = {Tail(s)[i] : i \in 1..(Len(s) - 1)}
  <2>1. Range(s) = {s[i] : i \in 1..Len(s)}
    BY RangeEquality
  <2>2. Range(Tail(s)) = {Tail(s)[i] : i \in 1..Len(Tail(s))}
    BY <1>1, RangeEquality
  <2> QED BY <1>1, <2>1, <2>2
<1>3. ASSUME NEW i \in 1..Len(s), i # 1
      PROVE  s[i] = Tail(s)[i - 1] /\ i - 1 \in 1..(Len(s) - 1)
  <2>1. i - 1 \in 1..(Len(s) - 1) /\ (i - 1) + 1 = i
    BY <1>1, <1>3
  <2> QED BY <1>1, <2>1
<1>4. ASSUME NEW i \in 1..(Len(s) - 1)
      PROVE  Tail(s)[i] = s[i + 1] /\ i + 1 \in 1..Len(s)
  BY <1>1
<1>5. Range(s) \subseteq {Head(s)} \union Range(Tail(s))
  BY <1>1, <1>2, <1>3
<1>6. {Head(s)} \union Range(Tail(s)) \subseteq Range(s)
  BY <1>1, <1>2, <1>4
<1> QED
  BY <1>5, <1>6

(* A sequence holds at most as many different logs as it is long.          *)
LEMMA RangeCardinality ==
  ASSUME NEW S, NEW s \in Seq(S)
  PROVE  /\ IsFiniteSet(Range(s))
         /\ Cardinality(Range(s)) \in Nat
         /\ Cardinality(Range(s)) <= Len(s)
<1>1. Len(s) \in Nat /\ DOMAIN s = 1..Len(s) /\ s \in [1..Len(s) -> S]
  BY LenProperties
<1>2. s \in Surjection(1..Len(s), Range(s))
  BY <1>1 DEF Surjection, Range
<1>3. IsFiniteSet(1..Len(s)) /\ Cardinality(1..Len(s)) = Len(s)
  BY <1>1, FS_Interval
<1>4. IsFiniteSet(Range(s)) /\ Cardinality(Range(s)) <= Cardinality(1..Len(s))
  BY <1>2, <1>3, FS_Surjection
<1> QED
  BY <1>3, <1>4, FS_CardinalityType

-----------------------------------------------------------------------------
(***************************************************************************)
(* Types.                                                                  *)
(***************************************************************************)

LEMMA TypeStep == TypeOK /\ [Next]_vars => TypeOK'
<1> SUFFICES ASSUME TypeOK, [Next]_vars PROVE TypeOK'
  OBVIOUS
<1> USE DongleOfAssumption, QueueDepthAssumption, NoLogAssumption
        DEF TypeOK, LogStates, JobStates, channel, jobs
<1>1. ASSUME NEW l \in Logs, AddLog(l) PROVE TypeOK'
  <2>1. CASE Len(queue) < QueueDepth
    <3>1. queue' = Append(queue, l) /\ UNCHANGED senders
      BY <1>1, <2>1 DEF AddLog
    <3>2. queue' \in Seq(Logs) /\ Len(queue') = Len(queue) + 1
      BY <3>1, AppendProperties
    <3> QED  BY <1>1, <2>1, <3>1, <3>2 DEF AddLog
  <2>2. CASE ~(Len(queue) < QueueDepth)
    <3>1. senders' = Append(senders, l) /\ UNCHANGED queue
      BY <1>1, <2>2 DEF AddLog
    <3>2. senders' \in Seq(Logs)
      BY <3>1, AppendProperties
    <3> QED  BY <1>1, <3>1, <3>2 DEF AddLog
  <2> QED  BY <2>1, <2>2
<1>2. CASE Receive
  <2>1. /\ Head(queue) \in Logs
        /\ Tail(queue) \in Seq(Logs)
        /\ Len(Tail(queue)) = Len(queue) - 1
        /\ Len(queue) \in Nat \ {0}
    BY <1>2, HeadTailProperties, EmptySeq DEF Receive
  <2>2. CASE senders = <<>>
    BY <1>2, <2>1, <2>2 DEF Receive
  <2>3. CASE senders # <<>>
    <3>1. Head(senders) \in Logs /\ Tail(senders) \in Seq(Logs)
      BY <2>3, HeadTailProperties
    <3>2. /\ Append(Tail(queue), Head(senders)) \in Seq(Logs)
          /\ Len(Append(Tail(queue), Head(senders))) = Len(queue)
      BY <2>1, <3>1, AppendProperties
    <3> QED  BY <1>2, <2>1, <2>3, <3>1, <3>2 DEF Receive
  <2> QED  BY <2>2, <2>3
<1>3. CASE Requeue
  <2>1. held \in Logs
    BY <1>3 DEF Requeue
  <2>2. queue' \in Seq(Logs) /\ Len(queue') = Len(queue) + 1
    BY <1>3, <2>1, AppendProperties DEF Requeue
  <2> QED  BY <1>3, <2>2 DEF Requeue
<1>4. CASE LoadActive
  BY <1>4 DEF LoadActive
<1>5. CASE Spawn
  BY <1>5 DEF Spawn
<1>6. CASE NoFreeSlot
  BY <1>6 DEF NoFreeSlot
<1>7. CASE RequeuePanics \/ EndLoop \/ ReportClosed
  BY <1>7 DEF RequeuePanics, EndLoop, ReportClosed
<1>8. ASSUME NEW l \in Logs, AddLogPanics(l) \/ Job(l) PROVE TypeOK'
  <2>1. CASE AddLogPanics(l)
    BY <2>1 DEF AddLogPanics
  <2>2. CASE MarkActive(l)
    <3>1. DongleOf[l] \in Dongles
      OBVIOUS
    <3> QED  BY <2>2, <3>1 DEF MarkActive
  <2>3. CASE UnmarkActive(l)
    BY <2>3 DEF UnmarkActive
  <2>4. CASE ReleaseSlot(l)
    BY <2>4 DEF ReleaseSlot
  <2> QED
    BY <1>8, <2>1, <2>2, <2>3, <2>4 DEF Job
<1>9. CASE Stop
  BY <1>9 DEF Stop
<1>10. CASE UNCHANGED vars
  BY <1>10 DEF vars
<1> QED
  BY <1>1, <1>2, <1>3, <1>4, <1>5, <1>6, <1>7, <1>8, <1>9, <1>10
     DEF Next, Dispatch

LEMMA TypeInit == Init => TypeOK
<1> SUFFICES ASSUME Init PROVE TypeOK
  OBVIOUS
<1>1. <<>> \in Seq(Logs) /\ Len(<<>>) = 0
  BY EmptySeq
<1>2. queue \in Seq(Logs) /\ senders \in Seq(Logs) /\ Len(queue) = 0
  BY <1>1 DEF Init
<1>3. job \in [Logs -> LogStates]
  BY DEF Init, LogStates
<1>4. Len(queue) \in 0..QueueDepth
  BY <1>2, QueueDepthAssumption
<1>5. closed \in BOOLEAN /\ panicked \in BOOLEAN /\ activeJobs \subseteq Dongles
  BY DEF Init
<1>6. /\ activeJobsCount \in Int
      /\ stop \in {"idle", "waiting", "returned"}
  BY DEF Init
<1>7. /\ dispatcher \in {"receive", "load", "count", "requeue", "closing", "ended"}
      /\ held \in Logs \union {NoLog}
      /\ (held = NoLog) <=> (dispatcher \in {"receive", "closing", "ended"})
  BY DEF Init
<1> QED
  BY <1>2, <1>3, <1>4, <1>5, <1>6, <1>7 DEF TypeOK

(* Every variable keeps its type, in every reachable state.                *)
THEOREM TypeCorrect == Spec => []TypeOK
  BY TypeInit, TypeStep, PTL DEF Spec, Safety

-----------------------------------------------------------------------------
(***************************************************************************)
(* The inductive invariant.  An action moves one log between the places a  *)
(* log can be in; the lemmas say what that does to Sent and to InFlight.   *)
(***************************************************************************)

(* The log in the dispatcher's hand waits in no sequence: the three places *)
(* together hold as many positions as there are sent logs.                 *)
LEMMA HeldIsApart ==
  ASSUME TypeOK, IsFiniteSet(Sent), EachSentLogHeldOnce, held # NoLog
  PROVE  /\ held \in Sent
         /\ held \notin Range(queue) \union Range(senders)
<1>1. held \in Sent
  BY DEF EachSentLogHeldOnce
<1>2. ASSUME held \in Range(queue) \union Range(senders)
      PROVE  FALSE
  <2> DEFINE Q == Range(queue)
             W == Range(senders)
  <2>1. /\ IsFiniteSet(Q) /\ Cardinality(Q) \in Nat /\ Cardinality(Q) <= Len(queue)
        /\ IsFiniteSet(W) /\ Cardinality(W) \in Nat /\ Cardinality(W) <= Len(senders)
    BY RangeCardinality DEF TypeOK
  <2>2. Len(queue) \in Nat /\ Len(senders) \in Nat
    BY LenProperties DEF TypeOK
  <2>3. Sent = Q \union W
    BY <1>2 DEF EachSentLogHeldOnce
  <2>4. /\ Cardinality(Q \union W) =
             Cardinality(Q) + Cardinality(W) - Cardinality(Q \cap W)
    BY <2>1, FS_Union
  <2>5. Cardinality(Q \cap W) \in Nat
    BY <2>1, FS_Intersection, FS_CardinalityType
  <2>6. Cardinality(Sent) = Len(queue) + Len(senders) + 1
    BY DEF EachSentLogHeldOnce
  <2> HIDE DEF Q, W
  <2> QED
    BY <2>1, <2>2, <2>3, <2>4, <2>5, <2>6
<1> QED
  BY <1>1, <1>2

(* A log reaches its next life stage and no other log does.                *)
LEMMA MoveLog ==
  ASSUME TypeOK, NEW l \in Logs
  PROVE  /\ job' = [job EXCEPT ![l] = "sent"] =>
              /\ Sent' = Sent \union {l} /\ InFlight' = InFlight \ {l}
              /\ Processing' = Processing \ {l}
         /\ job' = [job EXCEPT ![l] = "spawned"] =>
              /\ Sent' = Sent \ {l} /\ InFlight' = InFlight \union {l}
              /\ Processing' = Processing \ {l}
         /\ job' = [job EXCEPT ![l] = "processing"] =>
              /\ Sent' = Sent \ {l} /\ InFlight' = InFlight \union {l}
              /\ Processing' = Processing \union {l}
         /\ job' = [job EXCEPT ![l] = "unmarked"] =>
              /\ Sent' = Sent \ {l} /\ InFlight' = InFlight \union {l}
              /\ Processing' = Processing \ {l}
         /\ job' = [job EXCEPT ![l] = "done"] =>
              /\ Sent' = Sent \ {l} /\ InFlight' = InFlight \ {l}
              /\ Processing' = Processing \ {l}
  BY DEF TypeOK, Sent, InFlight, Processing, LogStates, JobStates

LEMMA SameLogs ==
  job' = job => Sent' = Sent /\ InFlight' = InFlight /\ Processing' = Processing
  BY DEF Sent, InFlight, Processing

(* What an action does not touch keeps its part of the invariant.          *)
Holding == IsFiniteSet(Sent) /\ EachSentLogHeldOnce
Slots   == SlotsCounted /\ JobsFitSlots /\ MarksHaveJobs

LEMMA SameHolding ==
  ASSUME Holding, Sent' = Sent, UNCHANGED <<queue, senders, held>>
  PROVE  Holding'
  BY DEF Holding, EachSentLogHeldOnce

LEMMA SameSlots ==
  ASSUME Slots, UNCHANGED <<activeJobs, activeJobsCount>>,
         InFlight' = InFlight, Processing' = Processing
  PROVE  Slots'
  BY DEF Slots, SlotsCounted, JobsFitSlots, MarksHaveJobs

(* An upload adds its log to the buffer, or to the waiting senders.        *)
LEMMA AddLogStep ==
  ASSUME IInv, NEW l \in Logs, AddLog(l)
  PROVE  Holding' /\ Slots' /\ SendersWait' /\ ShutdownOrder'
<1> USE DEF Holding, Slots
<1>1. /\ job[l] = "new" /\ job' = [job EXCEPT ![l] = "sent"]
      /\ ~closed /\ ~panicked
      /\ UNCHANGED <<closed, dispatcher, held, activeJobs, activeJobsCount,
                     stop, panicked>>
  BY DEF AddLog
<1>2. /\ Sent' = Sent \union {l} /\ l \notin Sent
      /\ InFlight' = InFlight /\ Processing' = Processing
  <2>1. /\ Sent' = Sent \union {l}
        /\ InFlight' = InFlight \ {l} /\ Processing' = Processing \ {l}
    BY <1>1, MoveLog DEF IInv
  <2>2. l \notin Sent /\ l \notin InFlight /\ l \notin Processing
    BY <1>1 DEF Sent, InFlight, Processing, JobStates
  <2> QED  BY <2>1, <2>2
<1>3. /\ IsFiniteSet(Sent') /\ Cardinality(Sent') = Cardinality(Sent) + 1
      /\ Cardinality(Sent) \in Nat
  BY <1>2, FS_AddElement, FS_CardinalityType DEF IInv
<1>4. Slots'
  BY <1>1, <1>2, SameSlots DEF IInv
<1>5. Holding' /\ SendersWait' /\ ShutdownOrder'
  <2>0. /\ queue \in Seq(Logs) /\ senders \in Seq(Logs)
        /\ Len(queue) \in 0..QueueDepth /\ Len(senders) \in Nat
    BY LenProperties DEF IInv, TypeOK
  <2>1. CASE Len(queue) < QueueDepth
    <3>1. queue' = Append(queue, l) /\ senders' = senders
      BY <2>1 DEF AddLog
    <3>2. Range(queue') = Range(queue) \union {l} /\ Len(queue') = Len(queue) + 1
      BY <2>0, <3>1, RangeOfAppend, AppendProperties
    <3>3. senders = <<>>
      BY <2>1, <2>0, QueueDepthAssumption DEF IInv, SendersWait
    <3>4. Holding'
      BY <1>1, <1>2, <1>3, <2>0, <3>1, <3>2 DEF IInv, EachSentLogHeldOnce
    <3> QED
      BY <1>1, <3>1, <3>3, <3>4 DEF IInv, SendersWait, ShutdownOrder
  <2>2. CASE ~(Len(queue) < QueueDepth)
    <3>1. senders' = Append(senders, l) /\ queue' = queue
      BY <2>2 DEF AddLog
    <3>2. Range(senders') = Range(senders) \union {l}
          /\ Len(senders') = Len(senders) + 1
      BY <2>0, <3>1, RangeOfAppend, AppendProperties
    <3>3. Holding'
      BY <1>1, <1>2, <1>3, <2>0, <3>1, <3>2 DEF IInv, EachSentLogHeldOnce
    <3>4. Len(queue) = QueueDepth
      BY <2>0, <2>2, QueueDepthAssumption
    <3>5. stop # "returned"
      BY <1>1 DEF IInv, ShutdownOrder
    <3> QED
      BY <1>1, <3>1, <3>3, <3>4, <3>5 DEF IInv, SendersWait, ShutdownOrder
  <2> QED  BY <2>1, <2>2
<1> QED
  BY <1>4, <1>5

(* A receive moves the head of the buffer to the dispatcher's hand and the *)
(* first waiting sender's log to the buffer's end.                         *)
LEMMA ReceiveStep ==
  ASSUME IInv, Receive
  PROVE  Holding' /\ Slots' /\ SendersWait' /\ ShutdownOrder'
<1> USE DEF Holding, Slots
<1>1. /\ queue # <<>> /\ dispatcher = "receive" /\ ~panicked
      /\ held' = Head(queue) /\ dispatcher' = "load"
      /\ job' = job
      /\ UNCHANGED <<closed, activeJobs, activeJobsCount, stop, panicked>>
  BY DEF Receive, jobs
<1>2. Sent' = Sent /\ InFlight' = InFlight /\ Processing' = Processing
  BY <1>1, SameLogs
<1>3. Slots'
  BY <1>1, <1>2, SameSlots DEF IInv
<1>4. /\ queue \in Seq(Logs) /\ senders \in Seq(Logs)
      /\ Len(queue) \in Nat /\ Len(senders) \in Nat
      /\ Head(queue) \in Logs /\ Tail(queue) \in Seq(Logs)
      /\ Len(Tail(queue)) = Len(queue) - 1
      /\ Range(queue) = {Head(queue)} \union Range(Tail(queue))
  BY <1>1, LenProperties, HeadTailProperties, RangeOfHeadTail DEF IInv, TypeOK
<1>5. held = NoLog /\ held' # NoLog
  BY <1>1, <1>4, NoLogAssumption DEF IInv, TypeOK
<1>6. CASE senders = <<>>
  <2>1. queue' = Tail(queue) /\ senders' = senders
    BY <1>6 DEF Receive
  <2>2. Holding'
    BY <1>1, <1>2, <1>4, <1>5, <2>1 DEF IInv, EachSentLogHeldOnce
  <2> QED
    BY <1>1, <1>3, <1>6, <2>1, <2>2 DEF IInv, SendersWait, ShutdownOrder
<1>7. CASE senders # <<>>
  <2>1. queue' = Append(Tail(queue), Head(senders)) /\ senders' = Tail(senders)
    BY <1>7 DEF Receive
  <2>2. /\ Head(senders) \in Logs /\ Tail(senders) \in Seq(Logs)
        /\ Len(Tail(senders)) = Len(senders) - 1
        /\ Range(senders) = {Head(senders)} \union Range(Tail(senders))
    BY <1>4, <1>7, HeadTailProperties, RangeOfHeadTail
  <2>3. /\ Len(queue') = Len(queue)
        /\ Range(queue') = Range(Tail(queue)) \union {Head(senders)}
    <3>1. Len(Append(Tail(queue), Head(senders))) = Len(Tail(queue)) + 1
      BY <1>4, <2>2, AppendProperties
    <3>2. Range(Append(Tail(queue), Head(senders)))
            = Range(Tail(queue)) \union {Head(senders)}
      <4> DEFINE t == Tail(queue)
                 h == Head(senders)
      <4>1. t \in Seq(Logs) /\ h \in Logs
        BY <1>4, <2>2
      <4> HIDE DEF t, h
      <4>2. Range(Append(t, h)) = Range(t) \union {h}
        BY <4>1, RangeOfAppend
      <4> QED  BY <4>2 DEF t, h
    <3> QED  BY <1>4, <2>1, <3>1, <3>2
  <2>4. Holding'
    BY <1>1, <1>2, <1>4, <1>5, <2>1, <2>2, <2>3 DEF IInv, EachSentLogHeldOnce
  <2>5. ~closed /\ Len(queue) = QueueDepth
    BY <1>1, <1>7 DEF IInv, SendersWait
  <2>6. stop # "returned"
    BY <2>5 DEF IInv, ShutdownOrder
  <2> QED
    BY <1>1, <1>3, <2>3, <2>4, <2>5, <2>6 DEF IInv, SendersWait, ShutdownOrder
<1> QED
  BY <1>6, <1>7

(* A requeue moves the log in hand to the buffer's end.                    *)
LEMMA RequeueStep ==
  ASSUME IInv, Requeue
  PROVE  Holding' /\ Slots' /\ SendersWait' /\ ShutdownOrder'
<1> USE DEF Holding, Slots
<1>1. /\ dispatcher = "requeue" /\ ~closed /\ ~panicked
      /\ Len(queue) < QueueDepth
      /\ queue' = Append(queue, held) /\ held' = NoLog
      /\ dispatcher' = "receive" /\ job' = job
      /\ UNCHANGED <<senders, closed, activeJobs, activeJobsCount, stop, panicked>>
  BY DEF Requeue, jobs
<1>2. Sent' = Sent /\ InFlight' = InFlight /\ Processing' = Processing
  BY <1>1, SameLogs
<1>3. Slots'
  BY <1>1, <1>2, SameSlots DEF IInv
<1>4. /\ queue \in Seq(Logs) /\ held \in Logs /\ held # NoLog
      /\ Len(queue) \in Nat /\ Len(senders) \in Nat
  BY <1>1, LenProperties, NoLogAssumption DEF IInv, TypeOK
<1>5. /\ Len(queue') = Len(queue) + 1
      /\ Range(queue') = Range(queue) \union {held}
  BY <1>1, <1>4, AppendProperties, RangeOfAppend
<1>6. Holding'
  BY <1>1, <1>2, <1>4, <1>5 DEF IInv, EachSentLogHeldOnce
<1>7. senders = <<>>
  BY <1>1, <1>4, QueueDepthAssumption DEF IInv, SendersWait
<1> QED
  BY <1>1, <1>3, <1>6, <1>7 DEF IInv, SendersWait, ShutdownOrder

(* A spawn takes the log in hand out of Sent and into a slot.              *)
LEMMA SpawnStep ==
  ASSUME IInv, Spawn
  PROVE  Holding' /\ Slots' /\ SendersWait' /\ ShutdownOrder'
<1> USE DEF Holding, Slots
<1>1. /\ dispatcher = "count" /\ activeJobsCount < ParallelLogParsers
      /\ activeJobsCount' = activeJobsCount + 1
      /\ job' = [job EXCEPT ![held] = "spawned"]
      /\ held' = NoLog /\ dispatcher' = "receive"
      /\ UNCHANGED <<queue, senders, closed, activeJobs, stop, panicked>>
  BY DEF Spawn, channel
<1>2. held \in Logs /\ held # NoLog
  BY <1>1, NoLogAssumption DEF IInv, TypeOK
<1>3. held \in Sent /\ held \notin Range(queue) \union Range(senders)
  BY <1>2, HeldIsApart DEF IInv
<1>4. /\ Sent' = Sent \ {held}
      /\ InFlight' = InFlight \union {held} /\ held \notin InFlight
      /\ Processing' = Processing
  <2>1. /\ Sent' = Sent \ {held}
        /\ InFlight' = InFlight \union {held}
        /\ Processing' = Processing \ {held}
    BY <1>1, <1>2, MoveLog DEF IInv
  <2>2. held \notin InFlight /\ held \notin Processing
    BY <1>3 DEF Sent, InFlight, Processing, JobStates
  <2> QED  BY <2>1, <2>2
<1>5. Holding'
  <2>1. /\ IsFiniteSet(Sent') /\ Cardinality(Sent') = Cardinality(Sent) - 1
        /\ Cardinality(Sent) \in Nat
    BY <1>3, <1>4, FS_RemoveElement, FS_CardinalityType DEF IInv
  <2>2. Len(queue) \in Nat /\ Len(senders) \in Nat
    BY LenProperties DEF IInv, TypeOK
  <2> QED
    BY <1>1, <1>2, <1>3, <1>4, <2>1, <2>2 DEF IInv, EachSentLogHeldOnce
<1>6. Slots'
  <2>1. /\ IsFiniteSet(InFlight')
        /\ Cardinality(InFlight') = Cardinality(InFlight) + 1
        /\ Cardinality(InFlight) \in Nat
    BY <1>4, FS_AddElement, FS_CardinalityType DEF IInv, SlotsCounted
  <2> QED
    BY <1>1, <1>4, <2>1, ParallelAssumption
       DEF IInv, SlotsCounted, JobsFitSlots, MarksHaveJobs
<1> QED
  BY <1>1, <1>5, <1>6 DEF IInv, SendersWait, ShutdownOrder

(* The job's Store and Delete: after the Delete of one job, a mark that is *)
(* left belongs to a job of another dongle.                                *)
LEMMA MarkStep ==
  ASSUME IInv, NEW l \in Logs, MarkActive(l) \/ UnmarkActive(l)
  PROVE  Holding' /\ Slots' /\ SendersWait' /\ ShutdownOrder'
<1> USE DEF Holding, Slots
<1>1. UNCHANGED <<queue, senders, closed, dispatcher, held, activeJobsCount,
                  stop, panicked>>
  BY DEF MarkActive, UnmarkActive, channel
<1>2. l \in InFlight /\ l \notin Sent
  BY DEF MarkActive, UnmarkActive, InFlight, Sent, JobStates
<1>3. PICK st \in {"processing", "unmarked"} : job' = [job EXCEPT ![l] = st]
  BY DEF MarkActive, UnmarkActive
<1>4. Sent' = Sent /\ InFlight' = InFlight
  <2>1. Sent' = Sent \ {l} /\ InFlight' = InFlight \union {l}
    BY <1>3, MoveLog DEF IInv
  <2> QED  BY <1>2, <2>1
<1>5. MarksHaveJobs'
  <2>1. CASE MarkActive(l)
    <3>1. Processing' = Processing \union {l}
      BY <2>1, MoveLog DEF IInv, MarkActive
    <3> QED
      BY <2>1, <3>1 DEF IInv, MarksHaveJobs, MarkActive
  <2>2. CASE UnmarkActive(l)
    <3>1. Processing' = Processing \ {l}
      BY <2>2, MoveLog DEF IInv, UnmarkActive
    <3> QED
      BY <2>2, <3>1 DEF IInv, MarksHaveJobs, UnmarkActive
  <2> QED  BY <2>1, <2>2
<1>6. Holding'
  BY <1>1, <1>4, SameHolding DEF IInv
<1> QED
  BY <1>1, <1>4, <1>5, <1>6
     DEF IInv, SlotsCounted, JobsFitSlots, SendersWait, ShutdownOrder

(* The job's Dec gives the slot back.                                      *)
LEMMA ReleaseStep ==
  ASSUME IInv, NEW l \in Logs, ReleaseSlot(l)
  PROVE  Holding' /\ Slots' /\ SendersWait' /\ ShutdownOrder'
<1> USE DEF Holding, Slots
<1>1. /\ job[l] = "unmarked" /\ job' = [job EXCEPT ![l] = "done"]
      /\ activeJobsCount' = activeJobsCount - 1
      /\ UNCHANGED <<queue, senders, closed, dispatcher, held, activeJobs,
                     stop, panicked>>
  BY DEF ReleaseSlot, channel
<1>2. /\ Sent' = Sent /\ Processing' = Processing
      /\ InFlight' = InFlight \ {l} /\ l \in InFlight
  <2>1. /\ Sent' = Sent \ {l} /\ Processing' = Processing \ {l}
        /\ InFlight' = InFlight \ {l}
    BY <1>1, MoveLog DEF IInv
  <2>2. l \in InFlight /\ l \notin Sent /\ l \notin Processing
    BY <1>1 DEF InFlight, Sent, Processing, JobStates
  <2> QED  BY <2>1, <2>2
<1>3. /\ IsFiniteSet(InFlight') /\ Cardinality(InFlight') = Cardinality(InFlight) - 1
      /\ Cardinality(InFlight) \in Nat
  BY <1>2, FS_RemoveElement, FS_CardinalityType DEF IInv, SlotsCounted
<1>4. Holding'
  BY <1>1, <1>2, SameHolding DEF IInv
<1> QED
  BY <1>1, <1>2, <1>3, <1>4, ParallelAssumption
     DEF IInv, SlotsCounted, JobsFitSlots, MarksHaveJobs, SendersWait, ShutdownOrder

(* The steps that move no log: the dispatcher's tests, the panics, the end *)
(* of the loop and Stop.                                                   *)
LEMMA OtherStep ==
  ASSUME IInv,
         \/ LoadActive \/ NoFreeSlot \/ RequeuePanics \/ EndLoop \/ ReportClosed
         \/ (\E l \in Logs : AddLogPanics(l)) \/ Stop \/ UNCHANGED vars
  PROVE  Holding' /\ Slots' /\ SendersWait' /\ ShutdownOrder'
<1>1. UNCHANGED <<queue, senders, held, job, activeJobs, activeJobsCount>>
  BY DEF LoadActive, NoFreeSlot, RequeuePanics, EndLoop, ReportClosed,
         AddLogPanics, Stop, vars, channel, jobs
<1>2. Sent' = Sent /\ InFlight' = InFlight /\ Processing' = Processing
  BY <1>1, SameLogs
<1>3. Holding' /\ Slots'
  BY <1>1, <1>2, SameHolding, SameSlots DEF IInv, Holding, Slots
<1>4. SendersWait'
  BY <1>1 DEF IInv, SendersWait, LoadActive, NoFreeSlot, RequeuePanics,
         EndLoop, ReportClosed, AddLogPanics, Stop, vars, channel, jobs
<1>5. ShutdownOrder'
  BY <1>1 DEF IInv, SendersWait, ShutdownOrder, LoadActive, NoFreeSlot,
         RequeuePanics, EndLoop, ReportClosed, AddLogPanics, Stop, vars,
         channel, jobs
<1> QED
  BY <1>3, <1>4, <1>5

LEMMA InitInv == Init => IInv
<1> SUFFICES ASSUME Init PROVE IInv
  OBVIOUS
<1>1. TypeOK
  BY TypeInit
<1>2. Sent = {} /\ InFlight = {}
  BY DEF Init, Sent, InFlight, JobStates
<1>3. IsFiniteSet({}) /\ Cardinality({}) = 0
  BY FS_EmptySet
<1>4. Range(<<>>) = {} /\ Len(<<>>) = 0
  BY EmptySeq DEF Range
<1>5. EachSentLogHeldOnce
  <2>1. held = NoLog /\ queue = <<>> /\ senders = <<>>
    BY DEF Init
  <2> QED
    BY <1>2, <1>3, <1>4, <2>1 DEF EachSentLogHeldOnce
<1>6. SlotsCounted /\ JobsFitSlots
  BY <1>2, <1>3, ParallelAssumption DEF Init, SlotsCounted, JobsFitSlots
<1>7. MarksHaveJobs /\ SendersWait /\ ShutdownOrder
  BY DEF Init, MarksHaveJobs, SendersWait, ShutdownOrder
<1> QED
  BY <1>1, <1>2, <1>3, <1>5, <1>6, <1>7 DEF IInv

LEMMA StepInv == IInv /\ [Next]_vars => IInv'
<1> SUFFICES ASSUME IInv, [Next]_vars PROVE IInv'
  OBVIOUS
<1>1. TypeOK'
  BY TypeStep DEF IInv
<1>2. Holding' /\ Slots' /\ SendersWait' /\ ShutdownOrder'
  BY AddLogStep, ReceiveStep, RequeueStep, SpawnStep, MarkStep, ReleaseStep,
     OtherStep DEF Next, Dispatch, Job
<1> QED
  BY <1>1, <1>2 DEF IInv, Holding, Slots

LEMMA Inductive == Spec => []IInv
  BY InitInv, StepInv, PTL DEF Spec, Safety

-----------------------------------------------------------------------------
(***************************************************************************)
(* The properties.                                                         *)
(***************************************************************************)

(* Never more jobs than slots.                                             *)
THEOREM JobsFit == Spec => []JobsFitSlots
<1>1. IInv => JobsFitSlots
  BY DEF IInv
<1> QED
  BY <1>1, Inductive, PTL

(* No sent log is lost, and none is held twice.                            *)
THEOREM HeldOnce == Spec => []EachSentLogHeldOnce
<1>1. IInv => EachSentLogHeldOnce
  BY DEF IInv
<1> QED
  BY <1>1, Inductive, PTL

(* The dispatcher blocks on its own channel only when more logs wait than  *)
(* the channel can hold: it holds one itself and the buffer is full.       *)
THEOREM BlocksWhenOverfull == Spec => []BlocksOnlyWhenOverfull
<1>1. IInv => BlocksOnlyWhenOverfull
  <2> SUFFICES ASSUME IInv, Blocked PROVE Cardinality(Sent) > QueueDepth
    BY DEF BlocksOnlyWhenOverfull
  <2>1. held # NoLog /\ Len(queue) = QueueDepth
    BY DEF Blocked, IInv, TypeOK
  <2>2. Len(senders) \in Nat
    BY LenProperties DEF IInv, TypeOK
  <2> QED
    BY <2>1, <2>2, QueueDepthAssumption DEF IInv, EachSentLogHeldOnce
<1> QED
  BY <1>1, Inductive, PTL

(* Every busy mark has a job that will remove it.                          *)
THEOREM NoStaleMark == Spec => []MarksHaveJobs
<1>1. IInv => MarksHaveJobs
  BY DEF IInv
<1> QED
  BY <1>1, Inductive, PTL

(* Stop returns only when no accepted log is left without a job.           *)
THEOREM StopDrains == Spec => []StopLeavesNoQueuedLog
<1>1. IInv => StopLeavesNoQueuedLog
  <2> SUFFICES ASSUME IInv, stop = "returned" PROVE Sent = {}
    BY DEF StopLeavesNoQueuedLog
  <2>1. queue = <<>> /\ senders = <<>> /\ held = NoLog
    BY DEF IInv, ShutdownOrder, TypeOK
  <2>2. Range(<<>>) = {}
    BY EmptySeq DEF Range
  <2> QED
    BY <2>1, <2>2 DEF IInv, EachSentLogHeldOnce
<1> QED
  BY <1>1, Inductive, PTL

(* A blocked dispatcher stays blocked until the process ends.              *)
THEOREM BlockedStays == Spec => BlockedForGood
<1>1. TypeOK /\ [Next]_vars => [Blocked => Blocked' \/ panicked' \/ closed']_vars
  <2> SUFFICES ASSUME TypeOK, Next, Blocked
               PROVE  Blocked' \/ panicked' \/ closed'
    BY DEF vars
  <2>1. dispatcher = "requeue" /\ ~closed /\ Len(queue) = QueueDepth
    BY DEF Blocked
  <2>2. ASSUME NEW l \in Logs, AddLog(l) PROVE Blocked'
    BY <2>1, <2>2, QueueDepthAssumption DEF AddLog, Blocked
  <2>3. ASSUME NEW l \in Logs, AddLogPanics(l) PROVE panicked'
    BY <2>3 DEF AddLogPanics
  <2>4. ASSUME NEW l \in Logs, Job(l) PROVE Blocked'
    BY <2>1, <2>4 DEF Job, MarkActive, UnmarkActive, ReleaseSlot, Blocked, channel
  <2>5. ~Receive /\ ~LoadActive /\ ~Spawn /\ ~NoFreeSlot /\ ~EndLoop /\ ~ReportClosed
    BY <2>1 DEF Receive, LoadActive, Spawn, NoFreeSlot, EndLoop, ReportClosed
  <2>6. ~Requeue /\ ~RequeuePanics
    BY <2>1, QueueDepthAssumption DEF Requeue, RequeuePanics
  <2>7. ASSUME Stop PROVE closed'
    BY <2>7 DEF Stop
  <2> QED
    BY <2>2, <2>3, <2>4, <2>5, <2>6, <2>7 DEF Next, Dispatch
<1> QED
  BY <1>1, TypeCorrect, PTL DEF Spec, Safety, BlockedForGood

-----------------------------------------------------------------------------
(***************************************************************************)
(* The pipeline and its shutdown.                                          *)
(***************************************************************************)

(* Every step of the process is a step of the queue or leaves it alone.    *)
LEMMA QueueStep == SNext => [Next]_vars
<1> SUFFICES ASSUME SNext PROVE [Next]_vars
  OBVIOUS
<1>1. ASSUME NEW l \in Logs, HandOverStep(l) PROVE [Next]_vars
  BY <1>1 DEF HandOverStep, CallAddLog, Next
<1>2. ASSUME NEW l \in Logs, JobStep(l) PROVE [Next]_vars
  BY <1>2 DEF JobStep, PJob, Ingest, IngestFails, ReadRoute, SaveRoute, InsertRefused,
     ReturnFromIngest, Next, Job
<1>3. CASE DispatchStep
  BY <1>3 DEF DispatchStep, Next
<1>4. CASE StopStep
  BY <1>4 DEF StopStep, StopListening, HttpEnds, StopQueue, CloseStorage, Exit, pvars, Next
<1>5. CASE Signal
  BY <1>5 DEF Signal, pvars
<1>6. ASSUME NEW l \in Logs, UploadArrives(l) \/ UploadEnds(l) PROVE [Next]_vars
  BY <1>6 DEF UploadArrives, UploadEnds, pvars
<1> QED BY <1>1, <1>2, <1>3, <1>4, <1>5, <1>6 DEF SNext

LEMMA QueueInit == SInit => IInv
BY InitInv DEF SInit, PInit

LEMMA QueueInv == IInv /\ [SNext]_svars => IInv'
<1>1. UNCHANGED svars => UNCHANGED vars
  BY DEF svars, pvars
<1> QED BY <1>1, QueueStep, StepInv

-----------------------------------------------------------------------------
(***************************************************************************)
(* The process.                                                            *)
(***************************************************************************)

ProcessTypeOK ==
    /\ phase \in {"running", "stopping", "exited"}
    /\ upload \in [Logs -> {"none", "handling", "accepted", "refused"}]
    /\ ingest \in [Logs -> {"idle", "read"} \union Ended]

(* A job that is past processLog has ended it, one that is before has not  *)
(* begun; a log was sent by an upload that was accepted; the queue is      *)
(* closed only after the signal and its Stop has returned before the exit. *)
ProcessInv ==
    /\ ProcessTypeOK
    /\ \A l \in Logs :
          /\ job[l] \in {"unmarked", "done"} => ingest[l] \in Ended
          /\ ingest[l] # "idle" => job[l] \in {"processing", "unmarked", "done"}
          /\ job[l] # "new" => upload[l] = "accepted"
    /\ closed => phase # "running"
    /\ phase = "exited" => stop = "returned"
    /\ PanicNeedsUnstartedLog

LEMMA ProcessInit == SInit => ProcessInv
BY DEF SInit, PInit, Init, ProcessInv, ProcessTypeOK, PanicNeedsUnstartedLog

(* A log in the channel or in the dispatcher's hand has no job yet.        *)
LEMMA HeldIsSent ==
    ASSUME IInv
    PROVE  /\ held # NoLog => held \in Logs /\ job[held] = "sent"
           /\ senders # <<>> => \E l \in Logs : job[l] = "sent"
<1>1. held # NoLog => held \in Sent
  BY DEF IInv, EachSentLogHeldOnce
<1>2. senders # <<>> => Head(senders) \in Sent
  <2> SUFFICES ASSUME senders # <<>> PROVE Head(senders) \in Sent
    OBVIOUS
  <2>1. senders \in Seq(Logs)
    BY DEF IInv, TypeOK
  <2>2. Head(senders) \in Range(senders)
    BY <2>1, RangeOfHeadTail
  <2> QED BY <2>2 DEF IInv, EachSentLogHeldOnce
<1> QED BY <1>1, <1>2 DEF Sent

LEMMA AddLogKeeps ==
    ASSUME IInv, ProcessInv, NEW l \in Logs, HandOverStep(l)
    PROVE  ProcessInv'
<1>1. phase # "exited" /\ upload[l] = "accepted" /\ UNCHANGED <<store, process>> /\ ~panicked
  BY DEF HandOverStep, CallAddLog, Alive, AddLog, AddLogPanics
<1>2. CASE AddLog(l)
  <2>1. /\ job' = [job EXCEPT ![l] = "sent"] /\ job[l] = "new"
        /\ panicked' = panicked /\ closed' = closed /\ stop' = stop
    BY <1>2 DEF AddLog
  <2> QED
    BY <1>1, <2>1 DEF ProcessInv, ProcessTypeOK, PanicNeedsUnstartedLog, store, process,
       IInv, TypeOK
<1>3. CASE AddLogPanics(l)
  <2>1. job[l] = "new" /\ closed /\ UNCHANGED <<job, closed, stop>>
    BY <1>3 DEF AddLogPanics, channel, jobs
  <2>2. phase = "stopping"
    BY <1>1, <2>1 DEF ProcessInv, ProcessTypeOK
  <2> QED
    BY <1>1, <2>1, <2>2 DEF ProcessInv, ProcessTypeOK, PanicNeedsUnstartedLog, store, process
<1> QED BY <1>2, <1>3, <1>1 DEF HandOverStep, CallAddLog

LEMMA JobKeeps ==
    ASSUME IInv, ProcessInv, NEW l \in Logs, JobStep(l)
    PROVE  ProcessInv'
<1>1. /\ UNCHANGED process /\ UNCHANGED <<closed, stop, panicked>> /\ ~panicked
  BY DEF JobStep, PJob, MarkActive, UnmarkActive, ReleaseSlot, Ingest, IngestFails, ReadRoute,
     SaveRoute, InsertRefused, ReturnFromIngest, Running, vars, channel
<1>2. job \in [Logs -> LogStates] /\ ingest \in [Logs -> {"idle", "read"} \union Ended]
  BY DEF IInv, TypeOK, ProcessInv, ProcessTypeOK
<1>3. \/ \E s \in {"processing", "unmarked", "done"} :
           /\ job' = [job EXCEPT ![l] = s] /\ ingest' = ingest
           /\ job[l] \in JobStates
           /\ s \in {"unmarked", "done"} => ingest[l] \in Ended
      \/ \E s \in {"read"} \union Ended :
           /\ ingest' = [ingest EXCEPT ![l] = s] /\ job' = job
           /\ job[l] = "processing"
  BY DEF JobStep, PJob, MarkActive, ReleaseSlot, Ingest, IngestFails, ReadRoute, SaveRoute,
     InsertRefused, ReturnFromIngest, UnmarkActive, Running, vars, store, JobStates, Ended,
     ProcessInv
<1>4. \A k \in Logs :
        /\ job'[k] \in {"unmarked", "done"} => ingest'[k] \in Ended
        /\ ingest'[k] # "idle" => job'[k] \in {"processing", "unmarked", "done"}
        /\ job'[k] # "new" => upload[k] = "accepted"
  BY <1>2, <1>3 DEF ProcessInv, JobStates
<1>5. ingest' \in [Logs -> {"idle", "read"} \union Ended]
  BY <1>2, <1>3
<1>6. ProcessTypeOK' /\ PanicNeedsUnstartedLog'
  BY <1>1, <1>5 DEF ProcessInv, ProcessTypeOK, PanicNeedsUnstartedLog, process
<1>7. phase' = phase /\ upload' = upload /\ closed' = closed /\ stop' = stop
  BY <1>1 DEF process
<1>8. \A k \in Logs :
        /\ job'[k] \in {"unmarked", "done"} => ingest'[k] \in Ended
        /\ ingest'[k] # "idle" => job'[k] \in {"processing", "unmarked", "done"}
        /\ job'[k] # "new" => upload'[k] = "accepted"
  BY <1>4, <1>7
<1>9. (closed => phase # "running")' /\ (phase = "exited" => stop = "returned")'
  BY <1>7 DEF ProcessInv
<1> QED BY <1>6, <1>8, <1>9 DEF ProcessInv

LEMMA DispatchKeeps ==
    ASSUME IInv, ProcessInv, DispatchStep
    PROVE  ProcessInv'
<1>1. UNCHANGED <<store, process>> /\ phase # "exited" /\ ~panicked /\ closed' = closed
  BY DEF DispatchStep, Dispatch, Alive, Receive, LoadActive, Spawn, NoFreeSlot, Requeue,
     RequeuePanics, EndLoop, ReportClosed, channel
<1>2. job \in [Logs -> LogStates]
  BY DEF IInv, TypeOK
<1>3. CASE Spawn
  <2>1. held # NoLog
    BY <1>3 DEF Spawn, IInv, TypeOK
  <2>2. held \in Logs /\ job[held] = "sent" /\ job' = [job EXCEPT ![held] = "spawned"]
        /\ panicked' = panicked /\ stop' = stop
    BY <2>1, <1>3, HeldIsSent DEF Spawn
  <2> QED
    BY <1>1, <1>2, <2>2 DEF ProcessInv, ProcessTypeOK, PanicNeedsUnstartedLog, store, process
<1>4. CASE RequeuePanics
  <2>1. held # NoLog /\ closed /\ UNCHANGED <<job, stop>>
    BY <1>4 DEF RequeuePanics, IInv, TypeOK, jobs
  <2>2. held \in Logs /\ job[held] = "sent"
    BY <2>1, HeldIsSent
  <2>3. phase = "stopping" /\ upload[held] = "accepted"
    BY <1>1, <2>1, <2>2 DEF ProcessInv, ProcessTypeOK
  <2> QED
    BY <1>1, <2>1, <2>2, <2>3 DEF ProcessInv, ProcessTypeOK, PanicNeedsUnstartedLog,
       store, process
<1>5. CASE Receive \/ LoadActive \/ NoFreeSlot \/ Requeue \/ EndLoop \/ ReportClosed
  <2>1. job' = job /\ panicked' = panicked
    BY <1>5 DEF Receive, LoadActive, NoFreeSlot, Requeue, EndLoop, ReportClosed, jobs
  <2> QED
    BY <1>1, <2>1 DEF ProcessInv, ProcessTypeOK, PanicNeedsUnstartedLog, store, process
<1> QED BY <1>3, <1>4, <1>5 DEF DispatchStep, Dispatch

LEMMA StopKeeps ==
    ASSUME IInv, ProcessInv, StopStep
    PROVE  ProcessInv'
<1>1. CASE StopQueue
  <2>1. /\ phase = "stopping" /\ UNCHANGED <<store, process, job>> /\ ~panicked
        /\ panicked' = (senders # <<>>)
    BY <1>1 DEF StopQueue, Stopping, Stop, jobs
  <2>2. panicked' => \E l \in Logs : upload[l] = "accepted" /\ job[l] = "sent"
    BY <2>1, HeldIsSent DEF ProcessInv
  <2> QED
    BY <2>1, <2>2 DEF ProcessInv, ProcessTypeOK, PanicNeedsUnstartedLog, store, process
<1>2. CASE StopListening \/ HttpEnds \/ CloseStorage \/ Exit
  <2>1. /\ UNCHANGED <<pvars, upload>> /\ ~panicked
        /\ phase' = phase \/ (phase' = "exited" /\ stop = "returned")
    BY <1>2 DEF StopListening, HttpEnds, CloseStorage, Exit, Stopping, pvars
  <2> QED
    BY <2>1 DEF ProcessInv, ProcessTypeOK, PanicNeedsUnstartedLog, pvars, vars, store
<1> QED BY <1>1, <1>2 DEF StopStep

LEMMA ProcessStep == IInv /\ ProcessInv /\ [SNext]_svars => ProcessInv'
<1> SUFFICES ASSUME IInv, ProcessInv, [SNext]_svars PROVE ProcessInv'
  OBVIOUS
<1>1. CASE UNCHANGED svars
  BY <1>1 DEF svars, pvars, vars, store, process, ProcessInv, ProcessTypeOK,
     PanicNeedsUnstartedLog
<1>2. CASE Signal
  BY <1>2 DEF Signal, pvars, vars, store, ProcessInv, ProcessTypeOK, PanicNeedsUnstartedLog
<1>3. ASSUME NEW l \in Logs, UploadArrives(l) \/ UploadEnds(l) PROVE ProcessInv'
  <2>1. /\ UNCHANGED <<pvars, phase>> /\ ~panicked
        /\ upload[l] \in {"none", "handling"}
        /\ \E s \in {"handling", "accepted", "refused"} : upload' = [upload EXCEPT ![l] = s]
    BY <1>3 DEF UploadArrives, UploadEnds
  <2> QED
    BY <2>1 DEF ProcessInv, ProcessTypeOK, PanicNeedsUnstartedLog, pvars, vars, store
<1> QED BY <1>1, <1>2, <1>3, AddLogKeeps, JobKeeps, DispatchKeeps, StopKeeps DEF SNext

LEMMA ProcessAlways == SSpec => [](IInv /\ ProcessInv)
BY QueueInit, QueueInv, ProcessInit, ProcessStep, PTL DEF SSpec

(* A shutdown that ends in order (cmd.go) cuts off running jobs only: what *)
(* the queue had accepted is saved, failed, or one of those in the slots.  *)
THEOREM ExitCuts == SSpec => []ExitCutsOnlyRunningJobs
<1>1. IInv /\ ProcessInv => ExitCutsOnlyRunningJobs
  <2> SUFFICES ASSUME IInv, ProcessInv, phase = "exited"
               PROVE  CutOff \subseteq InFlight /\ Cardinality(CutOff) <= ParallelLogParsers
    BY DEF ExitCutsOnlyRunningJobs
  <2>1. Sent = {}
    <3>1. stop = "returned"
      BY DEF ProcessInv
    <3>2. queue = <<>> /\ senders = <<>> /\ held = NoLog
      BY <3>1 DEF IInv, ShutdownOrder, TypeOK
    <3>3. Range(<<>>) = {}
      BY EmptySeq DEF Range
    <3> QED BY <3>2, <3>3 DEF IInv, EachSentLogHeldOnce
  <2>2. CutOff \subseteq InFlight
    BY <2>1 DEF CutOff, InFlight, Sent, ProcessInv, IInv, TypeOK, LogStates
  <2>3. IsFiniteSet(InFlight) /\ Cardinality(InFlight) <= ParallelLogParsers
    BY DEF IInv, SlotsCounted, JobsFitSlots
  <2>4. /\ Cardinality(CutOff) <= Cardinality(InFlight) /\ IsFiniteSet(CutOff)
    BY <2>2, <2>3, FS_Subset
  <2>5. Cardinality(CutOff) \in Nat /\ Cardinality(InFlight) \in Nat
    BY <2>3, <2>4, FS_CardinalityType
  <2> QED BY <2>2, <2>3, <2>4, <2>5, ParallelAssumption
<1> QED BY <1>1, ProcessAlways, PTL

(* The process dies of a closed channel (AddLog, the dispatcher's send,    *)
(* a waiting sender) only with an accepted upload whose job has not begun. *)
THEOREM PanicNeedsLog == SSpec => []PanicNeedsUnstartedLog
<1>1. ProcessInv => PanicNeedsUnstartedLog
  BY DEF ProcessInv
<1> QED BY <1>1, ProcessAlways, PTL

-----------------------------------------------------------------------------
(***************************************************************************)
(* The rows.                                                               *)
(***************************************************************************)

(* A sequence of saved logs of one route and one device, each once.        *)
Good(s, r, d) ==
    /\ s \in Seq(Logs)
    /\ IsInjective(s)
    /\ \A k \in Range(s) : k \in Saved /\ RouteOf[k] = r /\ DongleOf[k] = d

(* A job that has read its row holds what was then a good one of its own   *)
(* device: nothing saved since can make the copy a bad one.                *)
RowsInv ==
    /\ rows \in [Routes -> Seq(Logs)]
    /\ \A r \in Routes : rows[r] # <<>> => Good(rows[r], r, DongleOf[Head(rows[r])])
    /\ snapshot \in [Logs -> Seq(Logs)]
    /\ \A l \in Logs : ingest[l] = "read" => Good(snapshot[l], RouteOf[l], DongleOf[l])

USE RouteOfAssumption, DongleOfAssumption

LEMMA EmptyGood ==
    ASSUME NEW r, NEW d
    PROVE  Good(<<>>, r, d)
<1>1. Range(<<>>) = {} /\ <<>> \in Seq(Logs) /\ DOMAIN <<>> = {}
  BY EmptySeq DEF Range
<1> QED BY <1>1 DEF Good, IsInjective

LEMMA AppendGood ==
    ASSUME NEW l \in Logs, NEW s, Good(s, RouteOf[l], DongleOf[l]), l \notin Saved,
           Saved' = Saved \union {l}
    PROVE  LET t == Append(s, l) IN
           /\ t # <<>> /\ Head(t) \in Logs /\ DongleOf[Head(t)] = DongleOf[l]
           /\ Good(t, RouteOf[l], DongleOf[l])'
<1> DEFINE t == Append(s, l)
<1>1. /\ s \in Seq(Logs) /\ IsInjective(s) /\ l \notin Range(s)
      /\ \A k \in Range(s) : k \in Saved /\ RouteOf[k] = RouteOf[l] /\ DongleOf[k] = DongleOf[l]
  BY DEF Good
<1>2. /\ t \in Seq(Logs) /\ Len(t) = Len(s) + 1 /\ t # <<>>
      /\ \A i \in 1..Len(s) : t[i] = s[i]
      /\ t[Len(s) + 1] = l
  BY <1>1, AppendProperties
<1>3. Range(t) = Range(s) \union {l}
  BY <1>1, RangeOfAppend
<1>4. IsInjective(t)
  <2>1. DOMAIN s = 1..Len(s) /\ DOMAIN t = 1..(Len(s) + 1) /\ Len(s) \in Nat
    BY <1>1, <1>2
  <2>2. \A i \in 1..Len(s) : s[i] # l
    BY <1>1, <2>1 DEF Range
  <2> QED BY <1>1, <1>2, <2>1, <2>2 DEF IsInjective
<1>5. Head(t) = t[1] /\ t[1] \in Range(t)
  BY <1>2 DEF Range
<1> HIDE DEF t
<1>6. Head(t) \in Logs /\ DongleOf[Head(t)] = DongleOf[l]
  BY <1>1, <1>3, <1>5 DEF Saved
<1>7. Good(t, RouteOf[l], DongleOf[l])'
  BY <1>1, <1>2, <1>3, <1>4 DEF Good
<1> QED BY <1>2, <1>6, <1>7 DEF t

LEMMA RowsInit == SInit => RowsInv
<1> SUFFICES ASSUME SInit PROVE RowsInv
  OBVIOUS
<1>1. <<>> \in Seq(Logs)
  OBVIOUS
<1> QED BY <1>1 DEF SInit, PInit, RowsInv

(* Saved logs stay saved, so what is good stays good.                      *)
LEMMA StaysGood ==
    ASSUME NEW s, NEW r, NEW d, Good(s, r, d), Saved \subseteq Saved'
    PROVE  Good(s, r, d)'
BY DEF Good

LEMMA RowsStep == IInv /\ ProcessInv /\ RowsInv /\ [SNext]_svars => RowsInv'
<1> SUFFICES ASSUME IInv, ProcessInv, RowsInv, [SNext]_svars PROVE RowsInv'
  OBVIOUS
<1>t. ingest \in [Logs -> {"idle", "read"} \union Ended]
  BY DEF ProcessInv, ProcessTypeOK
<1>1. CASE UNCHANGED store
  BY <1>1 DEF store, RowsInv, Good, Saved
<1>2. ASSUME NEW l \in Logs, IngestFails(l) \/ InsertRefused(l) PROVE RowsInv'
  <2>1. /\ ingest[l] \in {"idle", "read"} /\ ingest' = [ingest EXCEPT ![l] = "failed"]
        /\ rows' = rows /\ snapshot' = snapshot
    BY <1>2 DEF IngestFails, InsertRefused
  <2>2. Saved' = Saved /\ \A k \in Logs : ingest'[k] = "read" => ingest[k] = "read"
    BY <1>t, <2>1 DEF Saved
  <2> QED BY <2>1, <2>2 DEF RowsInv, Good
<1>3. ASSUME NEW l \in Logs, ReadRoute(l) PROVE RowsInv'
  <2>1. /\ ingest[l] = "idle" /\ ingest' = [ingest EXCEPT ![l] = "read"] /\ rows' = rows
        /\ snapshot' = [snapshot EXCEPT ![l] = IF OwnRow(l) THEN rows[RouteOf[l]] ELSE <<>>]
    BY <1>3 DEF ReadRoute
  <2>2. Saved' = Saved /\ \A k \in Logs \ {l} : ingest'[k] = ingest[k]
    BY <1>t, <2>1 DEF Saved
  <2> DEFINE copy == IF OwnRow(l) THEN rows[RouteOf[l]] ELSE <<>>
  <2>3. Good(copy, RouteOf[l], DongleOf[l]) /\ copy \in Seq(Logs)
    BY EmptyGood DEF RowsInv, OwnRow
  <2> HIDE DEF copy
  <2>4. /\ snapshot' \in [Logs -> Seq(Logs)] /\ snapshot'[l] = copy
        /\ \A k \in Logs \ {l} : snapshot'[k] = snapshot[k]
    BY <2>1, <2>3 DEF RowsInv, copy
  <2>5. \A k \in Logs : ingest'[k] = "read" => Good(snapshot'[k], RouteOf[k], DongleOf[k])
    BY <2>2, <2>3, <2>4 DEF RowsInv
  <2> QED BY <2>1, <2>2, <2>4, <2>5 DEF RowsInv, Good
<1>4. ASSUME NEW l \in Logs, SaveRoute(l) PROVE RowsInv'
  <2>1. /\ ingest[l] = "read" /\ ingest' = [ingest EXCEPT ![l] = "saved"]
        /\ rows' = [rows EXCEPT ![RouteOf[l]] = Append(snapshot[l], l)] /\ snapshot' = snapshot
    BY <1>4 DEF SaveRoute
  <2>2. /\ Saved' = Saved \union {l} /\ l \notin Saved
        /\ \A k \in Logs : ingest'[k] = "read" => ingest[k] = "read"
    BY <1>t, <2>1 DEF Saved
  <2>p. PICK copy : copy = snapshot[l]
    OBVIOUS
  <2>q. PICK row : row = Append(copy, l)
    OBVIOUS
  <2>g. Good(copy, RouteOf[l], DongleOf[l])
    BY <2>1, <2>p DEF RowsInv
  <2>3. /\ row # <<>> /\ DongleOf[Head(row)] = DongleOf[l]
        /\ Good(row, RouteOf[l], DongleOf[l])'
    BY <2>2, <2>g, <2>q, AppendGood
  <2>4. row \in Seq(Logs)
    BY <2>3 DEF Good
  <2>5. rows' \in [Routes -> Seq(Logs)] /\ rows'[RouteOf[l]] = row
        /\ \A r \in Routes \ {RouteOf[l]} : rows'[r] = rows[r]
    BY <2>1, <2>4, <2>p, <2>q DEF RowsInv
  <2>6. ASSUME NEW r \in Routes, rows'[r] # <<>>
        PROVE  (Good(rows[r], r, DongleOf[Head(rows[r])]))'
    <3>1. CASE r = RouteOf[l]
      BY <3>1, <2>3, <2>5 DEF Good
    <3>2. CASE r # RouteOf[l]
      <4>1. rows'[r] = rows[r]
        BY <3>2, <2>5
      <4>2. Good(rows[r], r, DongleOf[Head(rows[r])])
        BY <4>1, <2>6 DEF RowsInv
      <4> QED BY <4>1, <4>2, <2>2 DEF Good
    <3> QED BY <3>1, <3>2
  <2>7. \A k \in Logs : ingest'[k] = "read" => (Good(snapshot[k], RouteOf[k], DongleOf[k]))'
    BY <2>1, <2>2 DEF RowsInv, Good
  <2> QED BY <2>1, <2>5, <2>6, <2>7 DEF RowsInv
<1> QED
  BY <1>1, <1>2, <1>3, <1>4 DEF SNext, HandOverStep, CallAddLog, DispatchStep, JobStep, PJob, Ingest,
     ReturnFromIngest, StopStep, StopListening, HttpEnds, StopQueue, CloseStorage, Exit, Signal,
     UploadArrives, UploadEnds, svars, pvars

(* processLog's read and save without a transaction can lose segments but  *)
(* never mixes devices, doubles a log or shows an unsaved one.             *)
THEOREM RowsHoldSaved == SSpec => []RowsHoldSavedLogs
<1>1. RowsInv => RowsHoldSavedLogs
  <2> SUFFICES ASSUME RowsInv, NEW r \in Routes
               PROVE  /\ IsInjective(rows[r])
                      /\ \A l \in Range(rows[r]) :
                             l \in Saved /\ RouteOf[l] = r
                             /\ DongleOf[l] = DongleOf[Head(rows[r])]
    BY DEF RowsHoldSavedLogs
  <2>1. CASE rows[r] = <<>>
    BY <2>1, EmptyGood DEF Good, Range
  <2>2. CASE rows[r] # <<>>
    BY <2>2 DEF RowsInv, Good
  <2> QED BY <2>1, <2>2
<1> QED BY <1>1, ProcessAlways, RowsInit, RowsStep, PTL DEF SSpec

-----------------------------------------------------------------------------
(***************************************************************************)
(* One job slot: the pipeline implements SegmentStore.  A job that has     *)
(* read its row holds the slot until it has saved, so nobody else saves in *)
(* between and its copy is still the row.                                  *)
(***************************************************************************)

FreshCopies ==
    \A l \in Logs : ingest[l] = "read" /\ snapshot[l] # <<>> => snapshot[l] = rows[RouteOf[l]]

Fate == [l \in Logs |-> CASE ingest[l] = "saved" -> "merged"
                          [] ingest[l] = "failed" -> "failed"
                          [] OTHER -> "pending"]

(* Two logs whose jobs are between their read and their save are one.      *)
LEMMA OneReader ==
    ASSUME IInv, ProcessInv, ParallelLogParsers = 1,
           NEW k \in Logs, NEW l \in Logs, ingest[k] = "read", ingest[l] = "read"
    PROVE  k = l
<1>1. k \in InFlight /\ l \in InFlight
  BY DEF ProcessInv, InFlight, JobStates, Ended
<1>2. IsFiniteSet(InFlight) /\ Cardinality(InFlight) <= 1
  BY DEF IInv, Slots, SlotsCounted, JobsFitSlots
<1> SUFFICES ASSUME k # l PROVE FALSE
  OBVIOUS
<1>3. IsFiniteSet({k, l}) /\ Cardinality({k, l}) = 2
  <2>1. IsFiniteSet({k}) /\ Cardinality({k}) = 1
    BY FS_Singleton
  <2>2. IsFiniteSet({k} \union {l}) /\ Cardinality({k} \union {l}) = 2
    <3>1. l \notin {k}
      OBVIOUS
    <3>2. IsFiniteSet({k} \union {l}) /\ Cardinality({k} \union {l}) = Cardinality({k}) + 1
      BY <2>1, <3>1, FS_AddElement, Zenon
    <3> QED BY <2>1, <3>2
  <2>3. {k} \union {l} = {k, l}
    OBVIOUS
  <2> QED BY <2>2, <2>3
<1>4. Cardinality({k, l}) <= Cardinality(InFlight)
  BY <1>1, <1>2, FS_Subset
<1> QED BY <1>2, <1>3, <1>4, FS_CardinalityType

(* What the steps that touch rows or fates do to them; every other step    *)
(* stutters, or only copies a row.                                         *)
LEMMA StoreSteps ==
    ASSUME [SNext]_svars
    PROVE  \/ UNCHANGED store
           \/ \E l \in Logs : ReadRoute(l) \/ SaveRoute(l) \/ InsertRefused(l) \/ IngestFails(l)
BY DEF SNext, HandOverStep, CallAddLog, DispatchStep, JobStep, PJob, Ingest, ReturnFromIngest,
   StopStep, StopListening, HttpEnds, StopQueue, CloseStorage, Exit, Signal, UploadArrives,
   UploadEnds, svars, pvars

LEMMA FreshStep ==
    ASSUME IInv, ProcessInv, RowsInv, FreshCopies, ParallelLogParsers = 1, [SNext]_svars
    PROVE  FreshCopies'
<1>t. ingest \in [Logs -> {"idle", "read"} \union Ended] /\ snapshot \in [Logs -> Seq(Logs)]
      /\ rows \in [Routes -> Seq(Logs)]
  BY DEF ProcessInv, ProcessTypeOK, RowsInv
<1>1. CASE UNCHANGED store
  BY <1>1 DEF store, FreshCopies
<1>2. ASSUME NEW l \in Logs, InsertRefused(l) \/ IngestFails(l) PROVE FreshCopies'
  BY <1>t, <1>2 DEF InsertRefused, IngestFails, FreshCopies
<1>3. ASSUME NEW l \in Logs, ReadRoute(l) PROVE FreshCopies'
  BY <1>t, <1>3 DEF ReadRoute, FreshCopies
<1>4. ASSUME NEW l \in Logs, SaveRoute(l) PROVE FreshCopies'
  <2>1. ingest[l] = "read" /\ ingest' = [ingest EXCEPT ![l] = "saved"]
    BY <1>4 DEF SaveRoute
  <2>2. \A k \in Logs : ingest'[k] # "read"
    BY <1>t, <2>1, OneReader
  <2> QED BY <2>2 DEF FreshCopies
<1> QED BY <1>1, <1>2, <1>3, <1>4, StoreSteps

(* Every step is a merge, a failure or a stutter of the promise.           *)
LEMMA PromiseStep ==
    ASSUME IInv, ProcessInv, RowsInv, FreshCopies, [SNext]_svars
    PROVE  [Promise!Next]_<<rows, Fate>>
<1>t. ingest \in [Logs -> {"idle", "read"} \union Ended] /\ rows \in [Routes -> Seq(Logs)]
  BY DEF ProcessInv, ProcessTypeOK, RowsInv
<1>1. CASE UNCHANGED store
  BY <1>1 DEF store, Fate
<1>2. ASSUME NEW l \in Logs, ReadRoute(l) PROVE UNCHANGED <<rows, Fate>>
  BY <1>t, <1>2 DEF ReadRoute, Fate, Ended
<1>3. ASSUME NEW l \in Logs, InsertRefused(l) \/ IngestFails(l) PROVE Promise!Fail(l)
  <2>1. /\ ingest[l] \in {"idle", "read"} /\ ingest' = [ingest EXCEPT ![l] = "failed"]
        /\ rows' = rows
    BY <1>3 DEF InsertRefused, IngestFails
  <2>2. Fate[l] = "pending" /\ Fate' = [Fate EXCEPT ![l] = "failed"]
    BY <1>t, <2>1 DEF Fate, Ended
  <2> QED BY <2>1, <2>2 DEF Promise!Fail, Fate
<1>4. ASSUME NEW l \in Logs, SaveRoute(l) PROVE Promise!Merge(l)
  <2>1. /\ ingest[l] = "read" /\ ingest' = [ingest EXCEPT ![l] = "saved"]
        /\ snapshot[l] # <<>> \/ rows[RouteOf[l]] = <<>>
        /\ rows' = [rows EXCEPT ![RouteOf[l]] = Append(snapshot[l], l)]
    BY <1>4 DEF SaveRoute
  <2>2. Fate[l] = "pending" /\ Fate' = [Fate EXCEPT ![l] = "merged"]
    BY <1>t, <2>1 DEF Fate, Ended
  <2>3. snapshot[l] = rows[RouteOf[l]]
    BY <2>1 DEF FreshCopies
  <2>4. rows' = [rows EXCEPT ![RouteOf[l]] = Append(@, l)]
    BY <2>1, <2>3
  <2> QED BY <2>2, <2>4 DEF Promise!Merge, Fate
<1> QED BY <1>1, <1>2, <1>3, <1>4, StoreSteps DEF Promise!Next

(* With one job slot the pipeline, and the process around it, keeps the    *)
(* promise of SegmentStore: each saved log is in its route's row for good. *)
THEOREM OneSlotImplements ==
    ASSUME ParallelLogParsers = 1
    PROVE  SSpec => ImplementsSegmentStore
<1>1. SInit => FreshCopies /\ Promise!Init
  BY DEF SInit, PInit, FreshCopies, Promise!Init
<1>2. IInv /\ ProcessInv /\ RowsInv /\ FreshCopies /\ [SNext]_svars => FreshCopies'
  BY FreshStep
<1>3. IInv /\ ProcessInv /\ RowsInv /\ FreshCopies /\ [SNext]_svars
        => [Promise!Next]_<<rows, Fate>>
  BY PromiseStep
<1> QED BY <1>1, <1>2, <1>3, ProcessAlways, RowsInit, RowsStep, PTL
        DEF SSpec, ImplementsSegmentStore, Promise!Spec, Fate
=============================================================================
