--------------------------- MODULE NatsRpcProofs ----------------------------
(***************************************************************************)
(* Proofs about NatsRpc for any number of instances, connections and calls *)
(* and any bounds: the device may come back wherever and as often as it    *)
(* likes, and instances may die.                                           *)
(***************************************************************************)
EXTENDS NatsRpc, SequenceTheorems, TLAPS

USE CallerAssumption, ArrivalAssumption, BoundAssumption, NoConnAssumption, NoCallAssumption

Msgs      == [call : Calls, live : BOOLEAN]
Callbacks == [at : {"idle", "subscribed", "sending", "waiting"},
              call : Calls \union {NoCall}, live : BOOLEAN]

(* The type invariant in three parts, of which a step disturbs one or two. *)
ConnTypes ==
    /\ handler \in [Conns -> {"new", "subscribing", "serving", "unsubscribing",
                              "closing", "ended"}]
    /\ place \in [Conns -> Instances]
    /\ registered \in [Instances -> Conns \union {NoConn}]
    /\ victim \in [Conns -> Conns \union {NoConn}]
    /\ open \subseteq Conns /\ pumping \subseteq Conns /\ subscribed \subseteq Conns
    /\ crash \in [Instances -> {"none", "sendAfterClose", "lateAnswer"}]

QueueTypes ==
    /\ pending \in [Conns -> Seq(Msgs)]
    /\ callback \in [Conns -> Callbacks]
    /\ \A c \in Conns : Busy(c) => callback[c].call \in Calls
    /\ subscribers \in [Conns -> SUBSET Calls]
    /\ watcher \in [Conns -> {"free", "current", "stale"}]

CallTypes ==
    /\ call \in [Calls -> {"new", "looping", "requesting", "answered", "failed", "local"}]
    /\ retry \in [Calls -> 0 .. MaxRetries + 1]
    /\ owed \in [Calls -> 0 .. MaxOwed]

LEMMA TypeParts == TypeOK <=> ConnTypes /\ QueueTypes /\ CallTypes
BY DEF TypeOK, ConnTypes, QueueTypes, CallTypes, Msgs, Callbacks

LEMMA InitTypes == Init => TypeOK
<1> SUFFICES ASSUME Init PROVE TypeOK
  OBVIOUS
<1>1. ConnTypes
  BY DEF Init, ConnTypes
<1>2. QueueTypes
  <2>1. Idle \in Callbacks /\ Idle.at = "idle"
    BY DEF Idle, Callbacks
  <2>2. <<>> \in Seq(Msgs)
    OBVIOUS
  <2> QED BY <2>1, <2>2 DEF Init, QueueTypes, Busy
<1>3. CallTypes
  BY DEF Init, CallTypes
<1> QED BY <1>1, <1>2, <1>3, TypeParts

-----------------------------------------------------------------------------
(* Copies that lose their caller.                                          *)

LEMMA StaleMessage ==
    ASSUME NEW m \in Msgs, NEW S
    PROVE  /\ Stale(m, S) \in Msgs
           /\ Stale(m, S).call = m.call
           /\ Stale(m, S).live => m.live /\ m.call \notin S
BY DEF Stale, Msgs

LEMMA StaleCallback ==
    ASSUME NEW m \in Callbacks, NEW S
    PROVE  /\ Stale(m, S) \in Callbacks
           /\ Stale(m, S).call = m.call /\ Stale(m, S).at = m.at
           /\ Stale(m, S).live => m.live /\ m.call \notin S
BY DEF Stale, Callbacks

LEMMA MovedCallback ==
    ASSUME QueueTypes, NEW c \in Conns,
           NEW at \in {"idle", "subscribed", "sending", "waiting"},
           callback' = [callback EXCEPT ![c].at = at]
    PROVE  /\ callback' \in [Conns -> Callbacks] /\ callback'[c].at = at
           /\ \A b \in Conns : /\ callback'[b].call = callback[b].call
                               /\ callback'[b].live = callback[b].live
           /\ \A b \in Conns \ {c} : callback'[b] = callback[b]
<1> DEFINE moved == [callback[c] EXCEPT !.at = at]
<1>1. callback \in [Conns -> Callbacks]
  BY DEF QueueTypes
<1>2. /\ moved \in Callbacks /\ moved.at = at
      /\ moved.call = callback[c].call /\ moved.live = callback[c].live
  BY <1>1 DEF Callbacks
<1>3. callback' = [callback EXCEPT ![c] = moved]
  OBVIOUS
<1> HIDE DEF moved
<1>4. callback' \in [Conns -> Callbacks] /\ callback'[c] = moved
  BY <1>1, <1>2, <1>3
<1>5. \A b \in Conns \ {c} : callback'[b] = callback[b]
  BY <1>1, <1>3
<1> QED BY <1>2, <1>4, <1>5

(* A subscription keeps its messages in their order; those of the calls in *)
(* S no longer have a caller.                                              *)
Ages(new, old, S) ==
    /\ Len(new) = Len(old)
    /\ \A n \in 1..Len(old) :
          /\ new[n].call = old[n].call
          /\ new[n].live => old[n].live /\ old[n].call \notin S

LEMMA StalePending ==
    ASSUME QueueTypes, NEW S
    PROVE  /\ PendingStale(S) \in [Conns -> Seq(Msgs)]
           /\ \A c \in Conns : Ages(PendingStale(S)[c], pending[c], S)
<1> SUFFICES ASSUME NEW c \in Conns
             PROVE  /\ PendingStale(S)[c] \in Seq(Msgs)
                    /\ Ages(PendingStale(S)[c], pending[c], S)
  BY DEF PendingStale
<1> DEFINE s == pending[c]
           t == [n \in 1..Len(s) |-> Stale(s[n], S)]
<1>1. s \in Seq(Msgs)
  BY DEF QueueTypes
<1>2. Len(s) \in Nat /\ DOMAIN s = 1..Len(s) /\ \A n \in 1..Len(s) : s[n] \in Msgs
  BY <1>1
<1>3. PendingStale(S)[c] = t
  BY <1>2 DEF PendingStale
<1>4. \A n \in 1..Len(s) : t[n] \in Msgs
  BY <1>2, StaleMessage
<1>5. t \in Seq(Msgs) /\ Len(t) = Len(s)
  <2> HIDE DEF s
  <2>1. t \in [1..Len(s) -> Msgs]
    BY <1>4
  <2> QED BY <1>2, <2>1
<1>6. Ages(t, s, S)
  BY <1>2, <1>5, StaleMessage DEF Ages
<1> QED BY <1>3, <1>5, <1>6

LEMMA StaleCallbacks ==
    ASSUME QueueTypes, NEW S
    PROVE  /\ CallbackStale(S) \in [Conns -> Callbacks]
           /\ \A c \in Conns :
                 /\ CallbackStale(S)[c].call = callback[c].call
                 /\ CallbackStale(S)[c].at = callback[c].at
                 /\ CallbackStale(S)[c].live => callback[c].live /\ callback[c].call \notin S
BY StaleCallback DEF CallbackStale, QueueTypes

-----------------------------------------------------------------------------
(* The effect of the steps that many properties need.                      *)

(* A callback that returns is idle and its caller, if it still had one,    *)
(* no longer waits for any copy.                                           *)
Lost(c) == IF callback[c].live THEN {callback[c].call} ELSE {}

LEMMA RespondEffect ==
    ASSUME QueueTypes, NEW c \in Conns, NEW outcome, Respond(c, outcome)
    PROVE  /\ pending' \in [Conns -> Seq(Msgs)] /\ callback' \in [Conns -> Callbacks]
           /\ watcher' \in [Conns -> {"free", "current", "stale"}]
           /\ callback'[c] = Idle
           /\ \A b \in Conns : Ages(pending'[b], pending[b], Lost(c))
           /\ \A b \in Conns \ {c} :
                 /\ callback'[b].call = callback[b].call
                 /\ callback'[b].at = callback[b].at
                 /\ callback'[b].live => callback[b].live /\ callback[b].call \notin Lost(c)
                 /\ watcher'[b] = watcher[b]
<1> DEFINE k == callback[c].call
<1> USE DEF Lost
<1>1. Idle \in Callbacks
  BY DEF Idle, Callbacks
<1>2. watcher' \in [Conns -> {"free", "current", "stale"}]
      /\ \A b \in Conns \ {c} : watcher'[b] = watcher[b]
  BY DEF Respond, QueueTypes
<1>3. CASE callback[c].live
  <2>1. /\ callback' = [CallbackStale({k}) EXCEPT ![c] = Idle]
        /\ pending' = PendingStale({k})
    BY <1>3 DEF Respond
  <2>2. /\ pending' \in [Conns -> Seq(Msgs)]
        /\ \A b \in Conns : Ages(pending'[b], pending[b], {k})
    BY <2>1, StalePending
  <2>3. /\ CallbackStale({k}) \in [Conns -> Callbacks]
        /\ \A b \in Conns :
              /\ CallbackStale({k})[b].call = callback[b].call
              /\ CallbackStale({k})[b].at = callback[b].at
              /\ CallbackStale({k})[b].live => callback[b].live /\ callback[b].call \notin {k}
    BY StaleCallbacks
  <2> HIDE DEF k
  <2>4. /\ callback' \in [Conns -> Callbacks] /\ callback'[c] = Idle
        /\ \A b \in Conns \ {c} : callback'[b] = CallbackStale({k})[b]
    BY <1>1, <2>1, <2>3
  <2> QED BY <1>2, <1>3, <2>2, <2>3, <2>4 DEF k
<1>4. CASE ~callback[c].live
  <2>1. callback' = [callback EXCEPT ![c] = Idle] /\ pending' = pending
    BY <1>4 DEF Respond
  <2>2. \A b \in Conns : Ages(pending[b], pending[b], {})
    BY DEF Ages
  <2> QED BY <1>1, <1>2, <1>4, <2>1, <2>2 DEF QueueTypes
<1> QED BY <1>3, <1>4

(* A panic empties the instance; elsewhere copies may lose their caller.   *)
LEMMA CrashEffect ==
    ASSUME QueueTypes, NEW i, NEW why, Crash(i, why)
    PROVE  /\ pending' \in [Conns -> Seq(Msgs)] /\ callback' \in [Conns -> Callbacks]
           /\ \A c \in Conns : place[c] = i =>
                 /\ pending'[c] = <<>> /\ callback'[c] = Idle
                 /\ subscribers'[c] = {} /\ watcher'[c] = "free"
           /\ \A c \in Conns : place[c] # i =>
                 /\ Ages(pending'[c], pending[c], {})
                 /\ callback'[c].call = callback[c].call /\ callback'[c].at = callback[c].at
                 /\ callback'[c].live => callback[c].live
                 /\ subscribers'[c] = subscribers[c] /\ watcher'[c] = watcher[c]
<1> DEFINE lost == {k \in Calls : CallerAt[k] = i}
           P == PendingStale(lost)
           C == CallbackStale(lost)
<1>1. /\ P \in [Conns -> Seq(Msgs)] /\ C \in [Conns -> Callbacks]
      /\ \A c \in Conns : /\ Ages(P[c], pending[c], lost)
                          /\ C[c].call = callback[c].call /\ C[c].at = callback[c].at
                          /\ C[c].live => callback[c].live
  <2>1. P \in [Conns -> Seq(Msgs)] /\ \A c \in Conns : Ages(P[c], pending[c], lost)
    BY StalePending
  <2>2. /\ C \in [Conns -> Callbacks]
        /\ \A c \in Conns : /\ C[c].call = callback[c].call /\ C[c].at = callback[c].at
                            /\ C[c].live => callback[c].live
    BY StaleCallbacks
  <2> QED BY <2>1, <2>2
<1>2. /\ pending' = [c \in Conns |-> IF place[c] = i THEN <<>> ELSE P[c]]
      /\ callback' = [c \in Conns |-> IF place[c] = i THEN Idle ELSE C[c]]
      /\ subscribers' = [c \in Conns |-> IF place[c] = i THEN {} ELSE subscribers[c]]
      /\ watcher' = [c \in Conns |-> IF place[c] = i THEN "free" ELSE watcher[c]]
  BY DEF Crash
<1>3. Idle \in Callbacks /\ <<>> \in Seq(Msgs)
  BY DEF Idle, Callbacks
<1>4. \A c \in Conns : Ages(P[c], pending[c], {})
  BY <1>1 DEF Ages
<1> HIDE DEF P, C
<1> QED BY <1>1, <1>2, <1>3, <1>4

-----------------------------------------------------------------------------
(* Type correctness.                                                       *)

LEMMA ConnStepTypes ==
    ASSUME ConnTypes, NEW c \in Conns,
           \/ StoreSession(c) \/ SubscribeNats(c) \/ TakeSession(c) \/ Unsubscribe(c)
           \/ CloseSession(c) \/ PumpEnds(c)
    PROVE  ConnTypes'
<1> USE DEF ConnTypes
<1>1. CASE StoreSession(c)
  BY <1>1 DEF StoreSession, nats
<1>2. CASE SubscribeNats(c)
  BY <1>2 DEF SubscribeNats, sessions
<1>3. CASE TakeSession(c)
  BY <1>3 DEF TakeSession, nats
<1>4. CASE Unsubscribe(c)
  BY <1>4 DEF Unsubscribe, sessions
<1>5. CASE CloseSession(c)
  BY <1>5 DEF CloseSession, nats
<1>6. CASE PumpEnds(c)
  BY <1>6 DEF PumpEnds, nats
<1> QED BY <1>1, <1>2, <1>3, <1>4, <1>5, <1>6

LEMMA CrashTypes ==
    ASSUME ConnTypes, NEW i \in Instances, NEW why \in {"sendAfterClose", "lateAnswer"},
           Crash(i, why)
    PROVE  ConnTypes'
BY DEF ConnTypes, Crash

LEMMA CallStepQueues ==
    ASSUME QueueTypes, NEW k \in Calls, SendRequest(k) \/ RequestTimesOut(k) \/ RequestFails(k)
    PROVE  QueueTypes'
<1>1. CASE SendRequest(k)
  <2>1. Message(k) \in Msgs
    BY DEF Message, Msgs
  <2>2. pending' \in [Conns -> Seq(Msgs)]
    <3> SUFFICES ASSUME NEW c \in Conns
                 PROVE  (IF c \in subscribed /\ Len(pending[c]) < PendingLimit
                         THEN Append(pending[c], Message(k)) ELSE pending[c]) \in Seq(Msgs)
      BY <1>1 DEF SendRequest
    <3>1. pending[c] \in Seq(Msgs)
      BY DEF QueueTypes
    <3> QED BY <2>1, <3>1
  <2> QED BY <1>1, <2>2 DEF QueueTypes, SendRequest, watchers, Busy
<1>2. CASE RequestTimesOut(k) \/ RequestFails(k)
  <2>1. /\ pending' = PendingStale({k}) /\ callback' = CallbackStale({k})
        /\ UNCHANGED <<subscribers, watcher>>
    BY <1>2 DEF RequestTimesOut, RequestFails, watchers
  <2>2. pending' \in [Conns -> Seq(Msgs)]
    BY <2>1, StalePending
  <2>3. /\ callback' \in [Conns -> Callbacks]
        /\ \A c \in Conns : callback'[c].call = callback[c].call /\ (Busy(c)' <=> Busy(c))
    BY <2>1, StaleCallbacks DEF Busy
  <2> QED BY <2>1, <2>2, <2>3 DEF QueueTypes
<1> QED BY <1>1, <1>2

Responding(c) ==
    \/ callback[c].at = "subscribed" /\ c \notin open /\ CheckOpen(c)
    \/ CallbackTimesOut(c) \/ Answer(c)

LEMMA RespondStep ==
    ASSUME NEW c \in Conns, Responding(c)
    PROVE  /\ Busy(c)
           /\ \E outcome \in {"nak", "answer"} : Respond(c, outcome)
           /\ UNCHANGED <<handler, place, sessions, subscribed, subscribers, owed, crash>>
BY DEF Responding, CheckOpen, CallbackTimesOut, Answer, Busy

LEMMA CallbackStepQueues ==
    ASSUME QueueTypes, NEW c \in Conns,
           TakeRequest(c) \/ CheckOpen(c) \/ SendInbound(c) \/ CallbackTimesOut(c) \/ Answer(c)
    PROVE  QueueTypes'
<1>1. CASE TakeRequest(c)
  <2>1. pending[c] \in Seq(Msgs) /\ pending[c] # <<>>
    BY <1>1 DEF QueueTypes, TakeRequest
  <2>2. Head(pending[c]) \in Msgs /\ Tail(pending[c]) \in Seq(Msgs)
    BY <2>1
  <2> DEFINE m == Head(pending[c])
             cb == [at |-> "subscribed", call |-> m.call, live |-> m.live]
  <2>3. m.call \in Calls /\ cb \in Callbacks /\ cb.call = m.call
    BY <2>2 DEF Msgs, Callbacks
  <2>4. /\ pending' = [pending EXCEPT ![c] = Tail(pending[c])]
        /\ callback' = [callback EXCEPT ![c] = cb]
        /\ subscribers' = [subscribers EXCEPT ![c] = subscribers[c] \union {m.call}]
        /\ watcher' = watcher
    BY <1>1 DEF TakeRequest
  <2> HIDE DEF m, cb
  <2> QED BY <2>2, <2>3, <2>4 DEF QueueTypes, Busy
<1>2. CASE Responding(c)
  <2>1. PICK outcome \in {"nak", "answer"} : Respond(c, outcome)
    BY <1>2, RespondStep
  <2>2. subscribers' = subscribers /\ Idle.at = "idle"
    BY <1>2, RespondStep DEF Idle
  <2> QED BY <2>1, <2>2, RespondEffect DEF QueueTypes, Busy
<1>3. ASSUME NEW at \in {"sending", "waiting"}, callback' = [callback EXCEPT ![c].at = at],
             Busy(c), UNCHANGED <<pending, subscribers, watcher>>
      PROVE  QueueTypes'
  <2>1. callback' \in [Conns -> Callbacks]
    BY <1>3, MovedCallback
  <2>2. \A b \in Conns : callback'[b].call = callback[b].call /\ (Busy(b)' => Busy(b))
    BY <1>3, MovedCallback DEF Busy
  <2> QED BY <1>3, <2>1, <2>2 DEF QueueTypes
<1>4. CASE CheckOpen(c) /\ c \in open
  BY <1>3, <1>4 DEF CheckOpen, Busy, watchers
<1>5. CASE SendInbound(c)
  BY <1>3, <1>5 DEF SendInbound, Busy, watchers
<1> QED BY <1>1, <1>2, <1>4, <1>5 DEF Responding, CheckOpen

LEMMA DeviceAnswersQueues ==
    ASSUME QueueTypes, NEW k \in Calls, NEW c \in Conns, DeviceAnswers(k, c)
    PROVE  QueueTypes'
BY DEF QueueTypes, DeviceAnswers, nats, watchers, Busy

LEMMA CrashQueues ==
    ASSUME QueueTypes, NEW i, NEW why, Crash(i, why)
    PROVE  QueueTypes'
<1>1. Idle.at = "idle"
  BY DEF Idle
<1>2. \A c \in Conns : Busy(c)' => callback'[c].call = callback[c].call /\ Busy(c)
  BY <1>1, CrashEffect DEF Busy
<1>3. /\ subscribers' \in [Conns -> SUBSET Calls]
      /\ watcher' \in [Conns -> {"free", "current", "stale"}]
  BY DEF Crash, QueueTypes
<1> QED BY <1>2, <1>3, CrashEffect DEF QueueTypes

-----------------------------------------------------------------------------
(* A copy is live only while its call waits for a response to it.          *)

LiveCopies ==
    /\ \A c \in Conns : \A n \in 1..Len(pending[c]) :
          pending[c][n].live => call[pending[c][n].call] = "requesting"
    /\ \A c \in Conns : callback[c].live =>
          Busy(c) /\ call[callback[c].call] = "requesting"

(* The request that is under way has been counted: a NAK takes it back.    *)
Counted == \A k \in Calls : call[k] = "requesting" => retry[k] > 0

(* A message or a callback that no longer has the caller it had ...        *)
LEMMA LiveAges ==
    ASSUME QueueTypes, LiveCopies, NEW S,
           \A c \in Conns : pending'[c] = <<>> \/ Ages(pending'[c], pending[c], S),
           \A c \in Conns : \/ callback'[c] = Idle
                            \/ /\ callback'[c].call = callback[c].call
                               /\ Busy(c) => Busy(c)'
                               /\ callback'[c].live => callback[c].live /\ callback[c].call \notin S,
           \A k \in Calls \ S : call[k] = "requesting" => call'[k] = "requesting"
    PROVE  LiveCopies'
<1>1. ASSUME NEW c \in Conns, NEW n \in 1..Len(pending'[c]), pending'[c][n].live
      PROVE  call'[pending'[c][n].call] = "requesting"
  <2>1. Ages(pending'[c], pending[c], S)
    <3>1. CASE pending'[c] = <<>>
      BY <1>1, <3>1
    <3> QED BY <3>1
  <2>2. /\ n \in 1..Len(pending[c]) /\ pending'[c][n].call = pending[c][n].call
        /\ pending[c][n].live /\ pending[c][n].call \notin S
    BY <1>1, <2>1 DEF Ages
  <2>3. pending[c][n] \in Msgs
    <3>1. pending[c] \in Seq(Msgs)
      BY DEF QueueTypes
    <3> QED BY <2>2, <3>1
  <2>4. pending[c][n].call \in Calls
    BY <2>3 DEF Msgs
  <2> QED BY <2>2, <2>4 DEF LiveCopies
<1>2. ASSUME NEW c \in Conns, callback'[c].live
      PROVE  Busy(c)' /\ call'[callback'[c].call] = "requesting"
  <2>1. callback'[c] # Idle
    BY <1>2 DEF Idle
  <2>2. Busy(c) /\ call[callback[c].call] = "requesting" /\ callback[c].call \notin S
    BY <1>2, <2>1 DEF LiveCopies
  <2> QED BY <2>1, <2>2 DEF QueueTypes
<1> QED BY <1>1, <1>2 DEF LiveCopies

LEMMA LiveKept ==
    ASSUME QueueTypes, LiveCopies,
           \A c \in Conns : pending'[c] = <<>> \/ Ages(pending'[c], pending[c], {}),
           \A c \in Conns : \/ callback'[c] = Idle
                            \/ /\ callback'[c].call = callback[c].call
                               /\ Busy(c) => Busy(c)'
                               /\ callback'[c].live => callback[c].live,
           \A k \in Calls : call[k] = "requesting" => call'[k] = "requesting"
    PROVE  LiveCopies'
<1> DEFINE S == {}
<1>1. /\ \A c \in Conns : pending'[c] = <<>> \/ Ages(pending'[c], pending[c], S)
      /\ \A c \in Conns : \/ callback'[c] = Idle
                          \/ /\ callback'[c].call = callback[c].call
                             /\ Busy(c) => Busy(c)'
                             /\ callback'[c].live => callback[c].live /\ callback[c].call \notin S
      /\ \A k \in Calls \ S : call[k] = "requesting" => call'[k] = "requesting"
  OBVIOUS
<1> HIDE DEF S
<1> QED BY <1>1, LiveAges

LEMMA NoneAges == \A c \in Conns : Ages(pending[c], pending[c], {})
BY DEF Ages

LEMMA ConnStepLive ==
    ASSUME QueueTypes, LiveCopies, NEW c \in Conns,
           \/ StoreSession(c) \/ SubscribeNats(c) \/ TakeSession(c) \/ Unsubscribe(c)
           \/ CloseSession(c) \/ PumpEnds(c)
    PROVE  LiveCopies'
<1>1. \A b \in Conns : pending'[b] = <<>> \/ pending'[b] = pending[b]
  BY DEF QueueTypes, StoreSession, SubscribeNats, TakeSession, Unsubscribe, CloseSession,
         PumpEnds, nats
<1>2. UNCHANGED <<callback, call>>
  BY DEF StoreSession, SubscribeNats, TakeSession, Unsubscribe, CloseSession, PumpEnds,
         nats, calls
<1> QED BY <1>1, <1>2, NoneAges, LiveKept DEF Busy

LEMMA CrashLive ==
    ASSUME QueueTypes, LiveCopies, NEW i, NEW why, Crash(i, why)
    PROVE  LiveCopies'
<1>1. \A c \in Conns : pending'[c] = <<>> \/ Ages(pending'[c], pending[c], {})
  BY CrashEffect
<1>2. \A c \in Conns : \/ callback'[c] = Idle
                       \/ /\ callback'[c].call = callback[c].call
                          /\ Busy(c) => Busy(c)'
                          /\ callback'[c].live => callback[c].live
  BY CrashEffect DEF Busy
<1>3. call' = call
  BY DEF Crash, calls
<1> QED BY <1>1, <1>2, <1>3, LiveKept

(* ... and a new copy is the one its call waits for: it had none before.   *)
LEMMA SendRequestLive ==
    ASSUME QueueTypes, CallTypes, LiveCopies, NEW k \in Calls, SendRequest(k)
    PROVE  LiveCopies'
<1>1. /\ call[k] = "looping"
      /\ call' = [call EXCEPT ![k] = IF subscribed = {} THEN "looping" ELSE "requesting"]
      /\ callback' = callback
      /\ pending' = [c \in Conns |->
            IF c \in subscribed /\ Len(pending[c]) < PendingLimit
            THEN Append(pending[c], Message(k)) ELSE pending[c]]
  BY DEF SendRequest
<1>2. \A j \in Calls : call[j] = "requesting" => call'[j] = "requesting"
  BY <1>1 DEF CallTypes
<1>3. ASSUME NEW c \in Conns, NEW n \in 1..Len(pending'[c]), pending'[c][n].live
      PROVE  call'[pending'[c][n].call] = "requesting"
  <2>1. pending[c] \in Seq(Msgs) /\ Message(k) \in Msgs /\ Message(k).call = k
    BY DEF QueueTypes, Message, Msgs
  <2>2. CASE n \in 1..Len(pending[c])
    <3>1. pending'[c][n] = pending[c][n] /\ pending[c][n] \in Msgs
      <4>1. pending[c][n] \in Msgs /\ Append(pending[c], Message(k))[n] = pending[c][n]
        BY <2>1, <2>2
      <4> QED BY <1>1, <4>1
    <3>2. pending[c][n].call \in Calls
      BY <3>1 DEF Msgs
    <3> QED BY <1>2, <1>3, <2>2, <3>1, <3>2 DEF LiveCopies
  <2>3. CASE n \notin 1..Len(pending[c])
    <3>1. c \in subscribed /\ pending'[c] = Append(pending[c], Message(k))
      BY <1>1, <1>3, <2>3
    <3>2. /\ Len(pending'[c]) = Len(pending[c]) + 1 /\ Len(pending[c]) \in Nat
          /\ pending'[c][Len(pending[c]) + 1] = Message(k)
      BY <2>1, <3>1, AppendProperties
    <3>3. pending'[c][n] = Message(k)
      <4>1. n = Len(pending[c]) + 1
        BY <2>3, <3>2
      <4> QED BY <3>2, <4>1
    <3>4. call'[k] = "requesting"
      <4>1. call' = [call EXCEPT ![k] = "requesting"]
        BY <1>1, <3>1
      <4> QED BY <4>1 DEF CallTypes
    <3> QED BY <2>1, <3>3, <3>4
  <2> QED BY <2>2, <2>3
<1>4. \A c \in Conns : callback[c].live =>
         Busy(c) /\ call'[callback[c].call] = "requesting"
  BY <1>2 DEF LiveCopies, QueueTypes
<1> QED BY <1>1, <1>3, <1>4 DEF LiveCopies, Busy

LEMMA CallStepLive ==
    ASSUME QueueTypes, CallTypes, LiveCopies, NEW k \in Calls,
           StartCall(k) \/ GiveUp(k) \/ RequestTimesOut(k) \/ RequestFails(k)
    PROVE  LiveCopies'
<1>1. CASE StartCall(k) \/ GiveUp(k)
  <2>1. UNCHANGED <<pending, callback>> /\ call[k] \in {"new", "looping"}
        /\ \A j \in Calls \ {k} : call'[j] = call[j]
    BY <1>1 DEF StartCall, GiveUp, nats, CallTypes
  <2> QED BY <2>1, NoneAges, LiveKept DEF Busy
<1>2. CASE RequestTimesOut(k) \/ RequestFails(k)
  <2>1. /\ pending' = PendingStale({k}) /\ callback' = CallbackStale({k})
        /\ \A j \in Calls \ {k} : call'[j] = call[j]
    BY <1>2 DEF RequestTimesOut, RequestFails, CallTypes
  <2>2. \A c \in Conns : Ages(pending'[c], pending[c], {k})
    BY <2>1, StalePending
  <2>3. \A c \in Conns :
           /\ callback'[c].call = callback[c].call /\ (Busy(c) => Busy(c)')
           /\ callback'[c].live => callback[c].live /\ callback[c].call \notin {k}
    BY <2>1, StaleCallbacks DEF Busy
  <2> QED BY <2>1, <2>2, <2>3, LiveAges
<1> QED BY <1>1, <1>2

LEMMA CallbackStepLive ==
    ASSUME QueueTypes, CallTypes, LiveCopies, NEW c \in Conns,
           TakeRequest(c) \/ CheckOpen(c) \/ SendInbound(c) \/ CallbackTimesOut(c) \/ Answer(c)
    PROVE  LiveCopies'
<1>1. CASE TakeRequest(c)
  <2> DEFINE m == Head(pending[c])
  <2>1. pending[c] \in Seq(Msgs) /\ pending[c] # <<>>
    BY <1>1 DEF QueueTypes, TakeRequest
  <2>2. /\ pending' = [pending EXCEPT ![c] = Tail(pending[c])]
        /\ callback' = [callback EXCEPT ![c] =
                          [at |-> "subscribed", call |-> m.call, live |-> m.live]]
        /\ call' = call
    BY <1>1 DEF TakeRequest, calls
  <2>3. m = pending[c][1] /\ 1 \in 1..Len(pending[c])
    BY <2>1
  <2>4. \A n \in 1..Len(Tail(pending[c])) :
           n + 1 \in 1..Len(pending[c]) /\ Tail(pending[c])[n] = pending[c][n + 1]
    BY <2>1
  <2>5. \A b \in Conns : \A n \in 1..Len(pending'[b]) :
           pending'[b][n].live => call[pending'[b][n].call] = "requesting"
    BY <2>2, <2>4 DEF LiveCopies, QueueTypes
  <2>6. callback'[c].at = "subscribed" /\ callback'[c].call = m.call
        /\ callback'[c].live = m.live
    BY <2>2 DEF QueueTypes
  <2>7. m.live => call[m.call] = "requesting"
    BY <2>3 DEF LiveCopies
  <2>8. \A b \in Conns \ {c} : callback'[b] = callback[b]
    BY <2>2 DEF QueueTypes
  <2> QED BY <2>2, <2>5, <2>6, <2>7, <2>8 DEF LiveCopies, Busy
<1>2. CASE Responding(c)
  <2>1. PICK outcome \in {"nak", "answer"} : Respond(c, outcome)
    BY <1>2, RespondStep
  <2>2. \A k \in Calls \ Lost(c) : call'[k] = call[k]
    BY <2>1 DEF Respond, Lost, CallTypes
  <2> DEFINE S == Lost(c)
  <2>3. \A b \in Conns : Ages(pending'[b], pending[b], S)
    BY <2>1, RespondEffect
  <2>4. \A b \in Conns : \/ callback'[b] = Idle
                         \/ /\ callback'[b].call = callback[b].call
                            /\ Busy(b) => Busy(b)'
                            /\ callback'[b].live => callback[b].live /\ callback[b].call \notin S
    BY <2>1, RespondEffect DEF Busy
  <2>5. \A k \in Calls \ S : call[k] = "requesting" => call'[k] = "requesting"
    BY <2>2
  <2> HIDE DEF S
  <2> QED BY <2>3, <2>4, <2>5, LiveAges
<1>3. ASSUME NEW at \in {"sending", "waiting"}, callback' = [callback EXCEPT ![c].at = at],
             UNCHANGED <<pending, call>>
      PROVE  LiveCopies'
  <2>1. \A b \in Conns : callback'[b].call = callback[b].call
                        /\ callback'[b].live = callback[b].live /\ (Busy(b) => Busy(b)')
    BY <1>3, MovedCallback DEF Busy
  <2> QED BY <1>3, <2>1, NoneAges, LiveKept
<1>4. CASE CheckOpen(c) /\ c \in open
  BY <1>3, <1>4 DEF CheckOpen, calls
<1>5. CASE SendInbound(c)
  BY <1>3, <1>5 DEF SendInbound, calls
<1> QED BY <1>1, <1>2, <1>4, <1>5 DEF Responding, CheckOpen

(* The counter: what takes it back is a response to a counted request.     *)
LEMMA CallStepCalls ==
    ASSUME CallTypes, Counted, NEW k \in Calls,
           StartCall(k) \/ GiveUp(k) \/ SendRequest(k) \/ RequestTimesOut(k) \/ RequestFails(k)
    PROVE  CallTypes' /\ Counted'
<1>1. owed' = owed /\ \A j \in Calls \ {k} : call'[j] = call[j] /\ retry'[j] = retry[j]
  BY DEF CallTypes, StartCall, GiveUp, SendRequest, RequestTimesOut, RequestFails
<1>2. call' \in [Calls -> {"new", "looping", "requesting", "answered", "failed", "local"}]
  BY DEF CallTypes, StartCall, GiveUp, SendRequest, RequestTimesOut, RequestFails
<1>3. CASE SendRequest(k)
  <2>1. retry' = [retry EXCEPT ![k] = retry[k] + 1] /\ retry[k] <= MaxRetries
    BY <1>3 DEF SendRequest
  <2>2. retry' \in [Calls -> 0 .. MaxRetries + 1] /\ retry'[k] > 0
    BY <2>1 DEF CallTypes
  <2> QED BY <1>1, <1>2, <2>2 DEF CallTypes, Counted
<1>4. CASE StartCall(k) \/ GiveUp(k) \/ RequestTimesOut(k) \/ RequestFails(k)
  <2>1. retry' = retry /\ call'[k] # "requesting"
    BY <1>4 DEF CallTypes, StartCall, GiveUp, RequestTimesOut, RequestFails
  <2> QED BY <1>1, <1>2, <2>1 DEF CallTypes, Counted
<1> QED BY <1>3, <1>4

LEMMA RespondCalls ==
    ASSUME QueueTypes, CallTypes, LiveCopies, Counted, NEW c \in Conns, Responding(c)
    PROVE  CallTypes' /\ Counted'
<1> DEFINE k == callback[c].call
<1>1. PICK outcome \in {"nak", "answer"} : Respond(c, outcome)
  BY RespondStep
<1>2. owed' = owed /\ k \in Calls
  BY RespondStep DEF QueueTypes
<1>3. CASE callback[c].live
  <2>1. call[k] = "requesting" /\ retry[k] > 0
    BY <1>2, <1>3 DEF LiveCopies, Counted
  <2>2. /\ call' = [call EXCEPT ![k] = IF outcome = "nak" THEN "looping" ELSE "answered"]
        /\ retry' = [retry EXCEPT ![k] = IF outcome = "nak" THEN retry[k] - 1 ELSE retry[k]]
    BY <1>1, <1>3 DEF Respond
  <2> HIDE DEF k
  <2>3. retry' \in [Calls -> 0 .. MaxRetries + 1]
    BY <1>2, <2>1, <2>2 DEF CallTypes
  <2> QED BY <1>2, <2>2, <2>3 DEF CallTypes, Counted
<1>4. CASE ~callback[c].live
  BY <1>1, <1>2, <1>4 DEF Respond, CallTypes, Counted
<1> QED BY <1>3, <1>4

-----------------------------------------------------------------------------
(* Putting the parts together.                                             *)

QueueInv == ConnTypes /\ QueueTypes /\ CallTypes /\ LiveCopies /\ Counted

(* The steps of Next, grouped as the lemmas have them.                     *)
ConnStep(c) ==
    \/ StoreSession(c) \/ SubscribeNats(c) \/ TakeSession(c) \/ Unsubscribe(c)
    \/ CloseSession(c) \/ PumpEnds(c)

Requesting(k) ==
    StartCall(k) \/ GiveUp(k) \/ SendRequest(k) \/ RequestTimesOut(k) \/ RequestFails(k)

Panics(c) == \E why \in {"sendAfterClose", "lateAnswer"} : Crash(place[c], why)

LEMMA NextSplit ==
    ASSUME Next
    PROVE  \/ \E c \in Conns :
                 \/ ConnStep(c) \/ (Alive(c) /\ Panics(c))
                 \/ TakeRequest(c) \/ Responding(c) \/ SendInbound(c)
                 \/ c \in open /\ CheckOpen(c)
           \/ \E k \in Calls : Requesting(k) \/ \E c \in Conns : DeviceAnswers(k, c)
<1>1. ASSUME NEW c \in Conns, StoreSession(c) \/ TakeSession(c) \/ HandlerStep(c)
      PROVE  ConnStep(c)
  BY <1>1 DEF HandlerStep, ConnStep
<1>2. ASSUME NEW c \in Conns, CallbackStep(c)
      PROVE  \/ Alive(c) /\ Panics(c)
             \/ TakeRequest(c) \/ Responding(c) \/ SendInbound(c)
             \/ c \in open /\ CheckOpen(c)
  <2>1. CASE SendInboundPanics(c) \/ AnswerPanics(c)
    BY <2>1 DEF SendInboundPanics, AnswerPanics, Panics
  <2>2. CASE CheckOpen(c) \/ CallbackTimesOut(c) \/ Answer(c)
    BY <2>2 DEF Responding, CheckOpen
  <2> QED BY <1>2, <2>1, <2>2 DEF CallbackStep
<1>3. ASSUME NEW k \in Calls, StartCall(k) \/ CallStep(k) \/ RequestFails(k)
      PROVE  Requesting(k)
  BY <1>3 DEF CallStep, Requesting
<1> QED BY <1>1, <1>2, <1>3 DEF Next

LEMMA NextQueue == QueueInv /\ [Next]_vars => QueueInv'
<1> SUFFICES ASSUME QueueInv, [Next]_vars PROVE QueueInv'
  OBVIOUS
<1> USE DEF QueueInv
<1>1. CASE UNCHANGED vars
  BY <1>1 DEF vars, sessions, nats, watchers, calls, ConnTypes, QueueTypes, CallTypes,
              LiveCopies, Counted, Busy
<1>2. ASSUME NEW c \in Conns, ConnStep(c) PROVE QueueInv'
  <2>1. ConnTypes' /\ LiveCopies'
    BY <1>2, ConnStepTypes, ConnStepLive DEF ConnStep
  <2>2. UNCHANGED <<callback, subscribers, watcher, call, retry, owed>>
    BY <1>2 DEF ConnStep, StoreSession, SubscribeNats, TakeSession, Unsubscribe,
                CloseSession, PumpEnds, nats, watchers, calls
  <2>3. pending' \in [Conns -> Seq(Msgs)]
    <3>1. CASE Unsubscribe(c)
      <4>1. \/ pending' = pending
            \/ pending' = [pending EXCEPT ![victim[c]] = <<>>]
        BY <3>1 DEF Unsubscribe
      <4>2. <<>> \in Seq(Msgs)
        OBVIOUS
      <4> QED BY <4>1, <4>2 DEF QueueTypes
    <3>2. CASE ~Unsubscribe(c)
      BY <1>2, <3>2 DEF ConnStep, StoreSession, SubscribeNats, TakeSession, CloseSession,
                        PumpEnds, nats, QueueTypes
    <3> QED BY <3>1, <3>2
  <2> QED BY <2>1, <2>2, <2>3 DEF QueueTypes, CallTypes, Counted, Busy
<1>3. ASSUME NEW c \in Conns, Panics(c) PROVE QueueInv'
  <2>1. PICK why \in {"sendAfterClose", "lateAnswer"} : Crash(place[c], why)
    BY <1>3 DEF Panics
  <2>2. place[c] \in Instances
    BY DEF ConnTypes
  <2>3. UNCHANGED <<call, retry, owed>>
    BY <2>1 DEF Crash, calls
  <2>4. ConnTypes' /\ QueueTypes' /\ LiveCopies'
    BY <2>1, <2>2, CrashTypes, CrashQueues, CrashLive
  <2> QED BY <2>3, <2>4 DEF CallTypes, Counted
<1>4. ASSUME NEW c \in Conns, Responding(c) PROVE QueueInv'
  <2>1. QueueTypes' /\ LiveCopies'
    BY <1>4, CallbackStepQueues, CallbackStepLive DEF Responding
  <2>2. UNCHANGED <<handler, place, sessions, subscribed, crash>>
    BY <1>4, RespondStep
  <2> QED BY <1>4, <2>1, <2>2, RespondCalls DEF ConnTypes, sessions
<1>5. ASSUME NEW c \in Conns,
             TakeRequest(c) \/ SendInbound(c) \/ (c \in open /\ CheckOpen(c))
      PROVE  QueueInv'
  <2>1. QueueTypes' /\ LiveCopies'
    BY <1>5, CallbackStepQueues, CallbackStepLive
  <2>2. UNCHANGED <<handler, place, sessions, subscribed, call, retry, crash>>
    BY <1>5 DEF TakeRequest, SendInbound, CheckOpen, calls
  <2>3. owed' \in [Calls -> 0 .. MaxOwed]
    <3>1. /\ owed \in [Calls -> 0 .. MaxOwed]
          /\ \A k : owed[k] < MaxOwed /\ k \in Calls => owed[k] + 1 \in 0 .. MaxOwed
      BY DEF CallTypes
    <3>2. owed' = owed \/ \E k : owed' = [owed EXCEPT ![k] = IF owed[k] < MaxOwed
                                                            THEN owed[k] + 1 ELSE owed[k]]
      BY <1>5 DEF TakeRequest, SendInbound, CheckOpen
    <3> QED BY <3>1, <3>2
  <2>4. ConnTypes'
    BY <2>2 DEF ConnTypes, sessions
  <2> QED BY <2>1, <2>2, <2>3, <2>4 DEF CallTypes, Counted
<1>6. ASSUME NEW k \in Calls, Requesting(k) PROVE QueueInv'
  <2>1. UNCHANGED <<handler, place, sessions, subscribed, watchers, crash>>
    BY <1>6 DEF Requesting, StartCall, GiveUp, SendRequest, RequestTimesOut, RequestFails, nats
  <2>2. CallTypes' /\ Counted' /\ LiveCopies'
    BY <1>6, CallStepCalls, CallStepLive, SendRequestLive DEF Requesting
  <2>3. QueueTypes'
    <3>1. CASE StartCall(k) \/ GiveUp(k)
      BY <3>1 DEF StartCall, GiveUp, nats, watchers, QueueTypes, Busy
    <3> QED BY <1>6, <3>1, CallStepQueues DEF Requesting
  <2> QED BY <2>1, <2>2, <2>3 DEF ConnTypes, sessions
<1>7. ASSUME NEW k \in Calls, NEW c \in Conns, DeviceAnswers(k, c) PROVE QueueInv'
  <2>1. UNCHANGED <<handler, place, sessions, nats, calls, crash>>
    BY <1>7 DEF DeviceAnswers
  <2>2. owed' = [owed EXCEPT ![k] = owed[k] - 1] /\ owed[k] > 0
    BY <1>7 DEF DeviceAnswers
  <2>3. CallTypes'
    BY <2>1, <2>2 DEF CallTypes, calls
  <2> QED BY <1>7, <2>1, <2>3, DeviceAnswersQueues
          DEF ConnTypes, LiveCopies, Counted, sessions, nats, calls, Busy
<1> QED BY <1>1, <1>2, <1>3, <1>4, <1>5, <1>6, <1>7, NextSplit

LEMMA InitQueue == Init => QueueInv
<1> SUFFICES ASSUME Init PROVE QueueInv
  OBVIOUS
<1>1. ~Idle.live
  BY DEF Idle
<1>2. LiveCopies /\ Counted
  BY <1>1 DEF Init, LiveCopies, Counted
<1> QED BY <1>2, InitTypes, TypeParts DEF QueueInv

LEMMA QueueAlways == Spec => []QueueInv
BY InitQueue, NextQueue, PTL DEF Spec

(* TypeOK: the counter that a NAK takes back stays in its range, and a     *)
(* busy callback has a call.                                               *)
THEOREM TypeCorrect == Spec => []TypeOK
<1>1. QueueInv => TypeOK
  BY TypeParts DEF QueueInv
<1> QED BY <1>1, QueueAlways, PTL

-----------------------------------------------------------------------------
(* Answers.  From the moment a callback has subscribed until it returns,   *)
(* its call's id is in the session's table, or the watcher has taken it    *)
(* out to answer this very callback: with the same id, DeviceAnswers       *)
(* cannot take it for an earlier copy.                                     *)

Heard == \A c \in Conns : Busy(c) =>
    callback[c].call \in subscribers[c] \/ watcher[c] = "current"

LEMMA InitHeard == Init => Heard
BY DEF Init, Heard, Busy, Idle

LEMMA HeardKept ==
    ASSUME Heard, UNCHANGED <<subscribers, watcher>>,
           \A c \in Conns : Busy(c)' => Busy(c) /\ callback'[c].call = callback[c].call
    PROVE  Heard'
BY DEF Heard

LEMMA NextHeard == QueueInv /\ Heard /\ [Next]_vars => Heard'
<1> SUFFICES ASSUME QueueInv, Heard, [Next]_vars PROVE Heard'
  OBVIOUS
<1> USE DEF QueueInv
<1>1. CASE UNCHANGED vars
  BY <1>1, HeardKept DEF vars, nats, watchers, Busy
<1>2. ASSUME NEW c \in Conns, ConnStep(c) PROVE Heard'
  <2>1. UNCHANGED <<callback, subscribers, watcher>>
    BY <1>2 DEF ConnStep, StoreSession, SubscribeNats, TakeSession, Unsubscribe,
                CloseSession, PumpEnds, nats, watchers
  <2> QED BY <2>1, HeardKept DEF Busy
<1>3. ASSUME NEW c \in Conns, Panics(c) PROVE Heard'
  <2>1. PICK why \in {"sendAfterClose", "lateAnswer"} : Crash(place[c], why)
    BY <1>3 DEF Panics
  <2> QED BY <2>1, CrashEffect DEF Heard, Busy, Idle
<1>4. ASSUME NEW c \in Conns, TakeRequest(c) PROVE Heard'
  <2>1. /\ callback' = [callback EXCEPT ![c] = [at |-> "subscribed",
              call |-> Head(pending[c]).call, live |-> Head(pending[c]).live]]
        /\ subscribers' = [subscribers EXCEPT ![c] = subscribers[c] \union {Head(pending[c]).call}]
        /\ watcher' = watcher
    BY <1>4 DEF TakeRequest
  <2>2. callback'[c].call \in subscribers'[c]
    BY <2>1 DEF QueueTypes
  <2>3. \A b \in Conns \ {c} : callback'[b] = callback[b] /\ subscribers'[b] = subscribers[b]
    BY <2>1 DEF QueueTypes
  <2> QED BY <2>1, <2>2, <2>3 DEF Heard, Busy
<1>5. ASSUME NEW c \in Conns, Responding(c) PROVE Heard'
  <2>1. PICK outcome \in {"nak", "answer"} : Respond(c, outcome)
    BY <1>5, RespondStep
  <2>2. subscribers' = subscribers /\ ~Busy(c)'
    BY <1>5, <2>1, RespondStep, RespondEffect DEF Busy, Idle
  <2>3. \A b \in Conns \ {c} : Busy(b)' => Busy(b) /\ callback'[b].call = callback[b].call
                                                /\ watcher'[b] = watcher[b]
    BY <2>1, RespondEffect DEF Busy
  <2> QED BY <2>2, <2>3 DEF Heard
<1>6. ASSUME NEW c \in Conns, SendInbound(c) \/ (c \in open /\ CheckOpen(c)) PROVE Heard'
  <2>1. PICK at \in {"sending", "waiting"} : callback' = [callback EXCEPT ![c].at = at]
    BY <1>6 DEF SendInbound, CheckOpen
  <2>2. Busy(c) /\ UNCHANGED <<subscribers, watcher>>
    BY <1>6 DEF SendInbound, CheckOpen, Busy, watchers
  <2>3. \A b \in Conns : callback'[b].call = callback[b].call /\ (Busy(b)' => Busy(b))
    BY <2>1, <2>2, MovedCallback DEF Busy
  <2> QED BY <2>2, <2>3, HeardKept
<1>7. ASSUME NEW k \in Calls, Requesting(k) PROVE Heard'
  <2>1. UNCHANGED <<subscribers, watcher>>
    BY <1>7 DEF Requesting, StartCall, GiveUp, SendRequest, RequestTimesOut, RequestFails,
                watchers
  <2>2. callback' = callback \/ callback' = CallbackStale({k})
    BY <1>7 DEF Requesting, StartCall, GiveUp, SendRequest, RequestTimesOut, RequestFails, nats
  <2>3. \A c \in Conns : Busy(c)' => Busy(c) /\ callback'[c].call = callback[c].call
    BY <2>2, StaleCallbacks DEF Busy
  <2> QED BY <2>1, <2>3, HeardKept
<1>8. ASSUME NEW k \in Calls, NEW c \in Conns, DeviceAnswers(k, c) PROVE Heard'
  <2> DEFINE s == registered[place[c]]
             heard == s # NoConn /\ s \in open /\ k \in subscribers[s]
  <2>1. callback' = callback
    BY <1>8 DEF DeviceAnswers, nats
  <2>2. CASE heard
    <3>1. /\ subscribers' = [subscribers EXCEPT ![s] = subscribers[s] \ {k}]
          /\ watcher' = [watcher EXCEPT ![s] = IF callback[s].call = k THEN "current" ELSE "stale"]
          /\ watcher[s] = "free" /\ s \in Conns
      BY <1>8, <2>2 DEF DeviceAnswers, ConnTypes
    <3> HIDE DEF s
    <3>2. Busy(s) => callback[s].call \in subscribers'[s] \/ watcher'[s] = "current"
      BY <3>1 DEF Heard, QueueTypes
    <3>3. \A b \in Conns \ {s} : subscribers'[b] = subscribers[b] /\ watcher'[b] = watcher[b]
      BY <3>1 DEF QueueTypes
    <3> QED BY <2>1, <3>2, <3>3 DEF Heard, Busy
  <2>3. CASE ~heard
    BY <1>8, <2>1, <2>3, HeardKept DEF DeviceAnswers, watchers, Busy
  <2> QED BY <2>2, <2>3
<1> QED BY <1>1, <1>2, <1>3, <1>4, <1>5, <1>6, <1>7, <1>8, NextSplit

(* CallbackIsHeard: an answer that comes while a callback waits reaches    *)
(* it, though earlier copies of its call used the same id.                 *)
THEOREM WaitingCallbackHeard == Spec => []CallbackIsHeard
<1>1. Heard => CallbackIsHeard
  BY DEF Heard, CallbackIsHeard, Busy
<1> QED BY <1>1, InitHeard, NextHeard, QueueAlways, PTL DEF Spec

-----------------------------------------------------------------------------
(* Subscriptions.                                                          *)

(* A session that is closed was taken by a connection of its instance that *)
(* has ended, and one that took its own has unsubscribed before.           *)
MapPlaces    == \A i \in Instances : registered[i] # NoConn => place[registered[i]] = i
VictimPlaces == \A b \in Conns : victim[b] # NoConn => place[victim[b]] = place[b]
SubscribedAlive == \A c \in subscribed : Alive(c)
ClosedWasTaken == \A c \in Conns : Alive(c) /\ c \notin open =>
                     \E b \in Conns : victim[b] = c /\ handler[b] = "ended"
OwnUnsubscribed == \A c \in Conns :
    victim[c] = c /\ handler[c] \in {"closing", "ended"} => c \notin subscribed

OverlapInv ==
    MapPlaces /\ VictimPlaces /\ SubscribedAlive /\ ClosedWasTaken /\ OwnUnsubscribed

LEMMA InitOverlap == Init => OverlapInv
BY DEF Init, OverlapInv, MapPlaces, VictimPlaces, SubscribedAlive, ClosedWasTaken,
       OwnUnsubscribed, Alive

LEMMA OverlapKept ==
    ASSUME OverlapInv, UNCHANGED <<handler, place, registered, victim, open, subscribed, crash>>
    PROVE  OverlapInv'
BY DEF OverlapInv, MapPlaces, VictimPlaces, SubscribedAlive, ClosedWasTaken,
       OwnUnsubscribed, Alive, Running

LEMMA ConnStepOverlap ==
    ASSUME ConnTypes, OverlapInv, NEW c \in Conns, ConnStep(c)
    PROVE  OverlapInv'
<1> USE DEF ConnTypes, OverlapInv, Alive, Running
<1>1. CASE StoreSession(c)
  <2>1. MapPlaces' /\ VictimPlaces'
    BY <1>1 DEF StoreSession, MapPlaces, VictimPlaces
  <2>2. SubscribedAlive' /\ OwnUnsubscribed'
    BY <1>1 DEF StoreSession, nats, SubscribedAlive, OwnUnsubscribed
  <2>3. ClosedWasTaken'
    BY <1>1 DEF StoreSession, ClosedWasTaken
  <2> QED BY <2>1, <2>2, <2>3
<1>2. CASE SubscribeNats(c)
  <2>1. MapPlaces' /\ VictimPlaces' /\ SubscribedAlive'
    BY <1>2 DEF SubscribeNats, sessions, MapPlaces, VictimPlaces, SubscribedAlive
  <2>2. ClosedWasTaken' /\ OwnUnsubscribed'
    BY <1>2 DEF SubscribeNats, sessions, ClosedWasTaken, OwnUnsubscribed
  <2> QED BY <2>1, <2>2
<1>3. CASE TakeSession(c)
  <2>1. MapPlaces' /\ VictimPlaces'
    BY <1>3 DEF TakeSession, MapPlaces, VictimPlaces
  <2>2. SubscribedAlive'
    BY <1>3 DEF TakeSession, nats, SubscribedAlive
  <2>3. ClosedWasTaken'
    BY <1>3 DEF TakeSession, ClosedWasTaken
  <2>4. OwnUnsubscribed'
    <3>1. handler'[c] = "ended" => victim'[c] = NoConn
      BY <1>3 DEF TakeSession
    <3>2. handler'[c] # "closing"
      BY <1>3 DEF TakeSession
    <3> QED BY <1>3, <3>1, <3>2 DEF TakeSession, nats, OwnUnsubscribed
  <2> QED BY <2>1, <2>2, <2>3, <2>4
<1>4. CASE Unsubscribe(c)
  <2>1. subscribed' \subseteq subscribed /\ (victim[c] = c => c \notin subscribed')
    BY <1>4 DEF Unsubscribe
  <2>2. /\ UNCHANGED <<place, registered, victim, open, crash>>
        /\ handler' = [handler EXCEPT ![c] = "closing"] /\ handler[c] = "unsubscribing"
    BY <1>4 DEF Unsubscribe, sessions
  <2>3. MapPlaces' /\ VictimPlaces' /\ SubscribedAlive'
    BY <2>1, <2>2 DEF MapPlaces, VictimPlaces, SubscribedAlive
  <2>4. ClosedWasTaken' /\ OwnUnsubscribed'
    BY <2>1, <2>2 DEF ClosedWasTaken, OwnUnsubscribed
  <2> QED BY <2>3, <2>4
<1>5. CASE CloseSession(c)
  <2>1. MapPlaces' /\ VictimPlaces' /\ SubscribedAlive'
    BY <1>5 DEF CloseSession, nats, MapPlaces, VictimPlaces, SubscribedAlive
  <2>2. ClosedWasTaken' /\ OwnUnsubscribed'
    BY <1>5 DEF CloseSession, nats, ClosedWasTaken, OwnUnsubscribed
  <2> QED BY <2>1, <2>2
<1>6. CASE PumpEnds(c)
  BY <1>6, OverlapKept DEF PumpEnds, nats
<1> QED BY <1>1, <1>2, <1>3, <1>4, <1>5, <1>6 DEF ConnStep

(* The dead instance has no session, flag or subscription left; connections*)
(* of the others have their victims on their own instance.                 *)
LEMMA CrashOverlap ==
    ASSUME ConnTypes, OverlapInv, NEW i \in Instances,
           NEW why \in {"sendAfterClose", "lateAnswer"}, Crash(i, why)
    PROVE  OverlapInv'
<1> USE DEF ConnTypes, OverlapInv, Alive, Running
<1>1. /\ place' = place
      /\ registered' = [registered EXCEPT ![i] = NoConn]
      /\ crash' = [crash EXCEPT ![i] = why]
      /\ subscribed' \subseteq subscribed /\ \A c \in subscribed' : place[c] # i
      /\ \A c \in Conns : place[c] # i =>
            /\ handler'[c] = handler[c] /\ victim'[c] = victim[c]
            /\ c \in open' <=> c \in open
      /\ \A c \in Conns : place[c] = i => victim'[c] = NoConn
  BY DEF Crash
<1>2. MapPlaces' /\ VictimPlaces'
  BY <1>1 DEF MapPlaces, VictimPlaces
<1>3. SubscribedAlive'
  BY <1>1 DEF SubscribedAlive
<1>4. ClosedWasTaken'
  <2> SUFFICES ASSUME NEW c \in Conns, Alive(c)', c \notin open'
               PROVE  \E b \in Conns : victim'[b] = c /\ handler'[b] = "ended"
    BY DEF ClosedWasTaken
  <2>1. place[c] # i
    BY <1>1
  <2>2. PICK b \in Conns : victim[b] = c /\ handler[b] = "ended"
    BY <1>1, <2>1 DEF ClosedWasTaken
  <2>3. place[b] # i
    BY <2>1, <2>2 DEF VictimPlaces
  <2> QED BY <1>1, <2>2, <2>3
<1>5. OwnUnsubscribed'
  BY <1>1 DEF OwnUnsubscribed
<1> QED BY <1>2, <1>3, <1>4, <1>5

LEMMA NextOverlap == QueueInv /\ OverlapInv /\ [Next]_vars => OverlapInv'
<1> SUFFICES ASSUME QueueInv, OverlapInv, [Next]_vars PROVE OverlapInv'
  OBVIOUS
<1>1. CASE UNCHANGED vars
  BY <1>1, OverlapKept DEF vars, sessions, nats
<1>2. ASSUME NEW c \in Conns, ConnStep(c) PROVE OverlapInv'
  BY <1>2, ConnStepOverlap DEF QueueInv
<1>3. ASSUME NEW c \in Conns, Panics(c) PROVE OverlapInv'
  BY <1>3, CrashOverlap DEF Panics, QueueInv, ConnTypes
<1>4. ASSUME NEW c \in Conns,
             TakeRequest(c) \/ Responding(c) \/ SendInbound(c) \/ CheckOpen(c)
      PROVE  OverlapInv'
  BY <1>4, RespondStep, OverlapKept DEF TakeRequest, SendInbound, CheckOpen, sessions
<1>5. ASSUME NEW k \in Calls, Requesting(k) \/ \E c \in Conns : DeviceAnswers(k, c)
      PROVE  OverlapInv'
  BY <1>5, OverlapKept DEF Requesting, StartCall, GiveUp, SendRequest, RequestTimesOut,
     RequestFails, DeviceAnswers, sessions, nats
<1> QED BY <1>1, <1>2, <1>3, <1>4, <1>5, NextSplit

(* RefusesAfterOverlap: with one connection at a time on an instance, a    *)
(* subscription ends before its session closes.                            *)
THEOREM RefusalNeedsOverlap == Spec => []RefusesAfterOverlap
<1>1. OverlapInv => RefusesAfterOverlap
  <2> SUFFICES ASSUME OverlapInv, NEW c \in Conns, Refusing(c)
               PROVE  \E b \in Conns \ {c} : victim[b] = c
    BY DEF RefusesAfterOverlap
  <2>1. c \in subscribed /\ Alive(c) /\ c \notin open
    BY DEF OverlapInv, SubscribedAlive, Refusing
  <2>2. PICK b \in Conns : victim[b] = c /\ handler[b] = "ended"
    BY <2>1 DEF OverlapInv, ClosedWasTaken
  <2>3. b # c
    BY <2>1, <2>2 DEF OverlapInv, OwnUnsubscribed
  <2> QED BY <2>2, <2>3
<1> QED BY <1>1, InitOverlap, NextOverlap, QueueAlways, PTL DEF Spec

-----------------------------------------------------------------------------
(* Answered calls.  While the device has had one connection only, its      *)
(* subscription holds a call's copies in the order of the attempts, and    *)
(* the one that still has a caller is the last of them: when it has been   *)
(* answered no copy is left.                                               *)

Sole(c)         == \A b \in Conns \ {c} : handler[b] = "new"
Absent(k, c, n) == \A i \in n..Len(pending[c]) : pending[c][i].call # k

LiveIsLast(c) ==
    /\ \A n \in 1..Len(pending[c]) :
          pending[c][n].live => Absent(pending[c][n].call, c, n + 1)
    /\ callback[c].live => Absent(callback[c].call, c, 1)

AnsweredIsGone(c) ==
    \A k \in Calls : call[k] = "answered" =>
        Absent(k, c, 1) /\ (Busy(c) => callback[c].call # k)

InOrder(c) == subscribed \subseteq {c} /\ LiveIsLast(c) /\ AnsweredIsGone(c)

SoleInv == \A c \in Conns : Sole(c) => InOrder(c)

LEMMA InitSole == Init => SoleInv
BY DEF Init, SoleInv, InOrder, LiveIsLast, AnsweredIsGone, Absent, Busy, Idle

(* A handler that has started stays so, and only the one connection's      *)
(* handler and callback take steps.                                        *)
LEMMA SoleBefore ==
    ASSUME ConnTypes, [Next]_vars, NEW c \in Conns, Sole(c)'
    PROVE  Sole(c)
<1>1. \A b \in Conns : handler'[b] = "new" => handler[b] = "new"
  <2>1. CASE UNCHANGED vars
    BY <2>1 DEF vars
  <2>2. ASSUME NEW d \in Conns, ConnStep(d)
        PROVE  \A b \in Conns : handler'[b] = "new" => handler[b] = "new"
    BY <2>2 DEF ConnTypes, ConnStep, StoreSession, SubscribeNats, TakeSession, Unsubscribe,
                CloseSession, PumpEnds
  <2>3. ASSUME NEW d \in Conns, Panics(d)
        PROVE  \A b \in Conns : handler'[b] = "new" => handler[b] = "new"
    BY <2>3 DEF Panics, Crash
  <2>4. ASSUME NEW d \in Conns,
               TakeRequest(d) \/ Responding(d) \/ SendInbound(d) \/ (d \in open /\ CheckOpen(d))
        PROVE  handler' = handler
    BY <2>4, RespondStep DEF TakeRequest, SendInbound, CheckOpen
  <2>5. ASSUME NEW k \in Calls, Requesting(k) \/ \E d \in Conns : DeviceAnswers(k, d)
        PROVE  handler' = handler
    BY <2>5 DEF Requesting, StartCall, GiveUp, SendRequest, RequestTimesOut, RequestFails,
                DeviceAnswers
  <2> QED BY <2>1, <2>2, <2>3, <2>4, <2>5, NextSplit
<1> QED BY <1>1 DEF Sole

LEMMA SoleActs ==
    ASSUME NEW c \in Conns, Sole(c), NEW b \in Conns, Alive(b)
    PROVE  b = c
BY DEF Sole, Alive

(* Steps that bring no copy and answer nothing.                            *)
LEMMA InOrderAges ==
    ASSUME QueueInv, NEW c \in Conns, InOrder(c),
           subscribed' \subseteq subscribed \union {c},
           \A b \in Conns : pending'[b] = <<>> \/ Ages(pending'[b], pending[b], {}),
           \A b \in Conns : \/ callback'[b] = Idle
                            \/ /\ callback'[b].call = callback[b].call
                               /\ Busy(b)' => Busy(b)
                               /\ callback'[b].live => callback[b].live,
           \A k \in Calls : call'[k] = "answered" => call[k] = "answered"
    PROVE  InOrder(c)'
<1>1. ~Idle.live /\ Idle.at = "idle"
  BY DEF Idle
<1>2. Len(pending[c]) \in Nat
  <2>1. pending[c] \in Seq(Msgs)
    BY DEF QueueInv, QueueTypes
  <2> QED BY <2>1
<1>3. ASSUME NEW k, NEW n \in Nat \ {0}, 
             \A i \in n..Len(pending[c]) : pending[c][i].call # k
      PROVE  \A i \in n..Len(pending'[c]) : pending'[c][i].call # k
  <2>1. CASE pending'[c] = <<>>
    BY <2>1, <1>3
  <2>2. CASE Ages(pending'[c], pending[c], {})
    <3>1. Len(pending'[c]) = Len(pending[c])
      BY <2>2 DEF Ages
    <3> QED BY <2>2, <3>1, <1>2, <1>3 DEF Ages
  <2> QED BY <2>1, <2>2
<1>4. subscribed' \subseteq {c}
  BY DEF InOrder
<1>5. LiveIsLast(c)'
  <2>1. ASSUME NEW n \in 1..Len(pending'[c]), pending'[c][n].live
        PROVE  Absent(pending[c][n].call, c, n + 1)'
    <3>1. Ages(pending'[c], pending[c], {})
      <4>1. CASE pending'[c] = <<>>
        BY <2>1, <4>1
      <4> QED BY <4>1
    <3>2. /\ n \in 1..Len(pending[c]) /\ pending'[c][n].call = pending[c][n].call
          /\ pending[c][n].live
      BY <2>1, <3>1 DEF Ages
    <3>3. \A i \in (n + 1)..Len(pending[c]) : pending[c][i].call # pending[c][n].call
      BY <3>2 DEF InOrder, LiveIsLast, Absent
    <3>4. n + 1 \in Nat \ {0}
      BY <1>2, <3>2
    <3>5. \A i \in (n + 1)..Len(pending'[c]) : pending'[c][i].call # pending[c][n].call
      BY <1>3, <3>3, <3>4
    <3> QED BY <3>2, <3>5 DEF Absent
  <2>2. ASSUME callback'[c].live PROVE Absent(callback[c].call, c, 1)'
    <3>1. callback'[c].call = callback[c].call /\ callback[c].live
      BY <1>1, <2>2
    <3>2. \A i \in 1..Len(pending[c]) : pending[c][i].call # callback[c].call
      BY <3>1 DEF InOrder, LiveIsLast, Absent
    <3>3. 1 \in Nat \ {0}
      OBVIOUS
    <3>4. \A i \in 1..Len(pending'[c]) : pending'[c][i].call # callback[c].call
      BY <1>3, <3>2, <3>3
    <3> QED BY <3>1, <3>4 DEF Absent
  <2> QED BY <2>1, <2>2 DEF LiveIsLast
<1>6. AnsweredIsGone(c)'
  <2> SUFFICES ASSUME NEW k \in Calls, call'[k] = "answered"
               PROVE  Absent(k, c, 1)' /\ (Busy(c)' => callback'[c].call # k)
    BY DEF AnsweredIsGone
  <2>1. Absent(k, c, 1) /\ (Busy(c) => callback[c].call # k)
    BY DEF InOrder, AnsweredIsGone
  <2>2. Busy(c)' => callback'[c].call # k
    BY <1>1, <2>1 DEF Busy
  <2>3. 1 \in Nat \ {0}
    OBVIOUS
  <2>4. \A i \in 1..Len(pending'[c]) : pending'[c][i].call # k
    BY <1>3, <2>1, <2>3 DEF Absent
  <2> QED BY <2>2, <2>4 DEF Absent
<1> QED BY <1>4, <1>5, <1>6 DEF InOrder

(* A new attempt goes behind the copies of the earlier ones, which lost    *)
(* their caller when those timed out.                                      *)
LEMMA SendRequestOrder ==
    ASSUME QueueInv, NEW c \in Conns, InOrder(c), NEW k \in Calls, SendRequest(k)
    PROVE  InOrder(c)'
<1> DEFINE p == pending[c]
           q == pending'[c]
<1>1. /\ call[k] = "looping"
      /\ call' = [call EXCEPT ![k] = IF subscribed = {} THEN "looping" ELSE "requesting"]
      /\ UNCHANGED <<callback, subscribed>>
      /\ q = IF c \in subscribed /\ Len(p) < PendingLimit THEN Append(p, Message(k)) ELSE p
  BY DEF SendRequest
<1>2. p \in Seq(Msgs) /\ Message(k).call = k
  BY DEF QueueInv, QueueTypes, Message
<1>3. /\ Len(p) \in Nat /\ Len(q) \in Nat
      /\ \A i \in 1..Len(p) : q[i] = p[i] /\ i \in 1..Len(q)
      /\ \A i \in 1..Len(q) : i \in 1..Len(p) \/ (i = Len(p) + 1 /\ i = Len(q) /\ q[i].call = k)
  BY <1>1, <1>2
<1>4. \A j \in Calls : call'[j] = "answered" => call[j] = "answered" /\ j # k
  BY <1>1 DEF QueueInv, CallTypes
<1>5. \A n \in 1..Len(p) : p[n].live => p[n].call # k
  BY <1>1 DEF QueueInv, LiveCopies
<1>6. callback[c].live => callback[c].call # k
  BY <1>1 DEF QueueInv, LiveCopies
<1>7. ASSUME NEW j, j # k, NEW n \in Nat \ {0}, \A i \in n..Len(p) : p[i].call # j
      PROVE  \A i \in n..Len(q) : q[i].call # j
  <2> HIDE DEF p, q
  <2> QED BY <1>3, <1>7
<1>8. LiveIsLast(c)'
  <2>1. ASSUME NEW n \in 1..Len(q), q[n].live
        PROVE  \A i \in (n + 1)..Len(q) : q[i].call # q[n].call
    <3>1. CASE n \in 1..Len(p)
      <4>1. q[n] = p[n] /\ p[n].live /\ p[n].call # k
        BY <1>3, <1>5, <2>1, <3>1
      <4>2. \A i \in (n + 1)..Len(p) : p[i].call # p[n].call
        BY <3>1, <4>1 DEF InOrder, LiveIsLast, Absent
      <4>3. n + 1 \in Nat \ {0}
        BY <1>3, <3>1
      <4> HIDE DEF p, q
      <4> QED BY <1>7, <4>1, <4>2, <4>3
    <3>2. CASE n = Len(q)
      <4> HIDE DEF p, q
      <4> QED BY <1>3, <3>2
    <3> QED BY <1>3, <3>1, <3>2
  <2>2. ASSUME callback[c].live PROVE \A i \in 1..Len(q) : q[i].call # callback[c].call
    <3>1. \A i \in 1..Len(p) : p[i].call # callback[c].call
      BY <2>2 DEF InOrder, LiveIsLast, Absent
    <3>2. 1 \in Nat \ {0} /\ callback[c].call # k
      BY <1>6, <2>2
    <3> HIDE DEF p, q
    <3> QED BY <1>7, <3>1, <3>2
  <2> QED BY <1>1, <2>1, <2>2 DEF LiveIsLast, Absent
<1>9. AnsweredIsGone(c)'
  <2> SUFFICES ASSUME NEW j \in Calls, call'[j] = "answered"
               PROVE  /\ \A i \in 1..Len(q) : q[i].call # j
                      /\ Busy(c) => callback[c].call # j
    BY <1>1 DEF AnsweredIsGone, Absent, Busy
  <2>1. (\A i \in 1..Len(p) : p[i].call # j) /\ (Busy(c) => callback[c].call # j)
    BY <1>4 DEF InOrder, AnsweredIsGone, Absent
  <2>2. 1 \in Nat \ {0} /\ j # k
    BY <1>4
  <2> HIDE DEF p, q
  <2> QED BY <1>7, <2>1, <2>2
<1> QED BY <1>1, <1>8, <1>9 DEF InOrder

(* The callback takes the first copy.                                      *)
LEMMA TakeRequestOrder ==
    ASSUME QueueInv, NEW c \in Conns, InOrder(c), TakeRequest(c)
    PROVE  InOrder(c)'
<1> DEFINE p == pending[c]
           q == pending'[c]
<1>1. /\ q = Tail(p) /\ p # <<>>
      /\ callback'[c] = [at |-> "subscribed", call |-> Head(p).call, live |-> Head(p).live]
      /\ UNCHANGED <<subscribed, call>>
  BY DEF TakeRequest, QueueInv, QueueTypes, calls
<1>2. p \in Seq(Msgs)
  BY DEF QueueInv, QueueTypes
<1>3. /\ Len(p) \in Nat \ {0} /\ Len(q) = Len(p) - 1 /\ Head(p) = p[1]
      /\ \A i \in 1..Len(q) : q[i] = p[i + 1]
  BY <1>1, <1>2
<1>4. callback'[c].call = p[1].call /\ callback'[c].live = p[1].live
  BY <1>1, <1>3
<1>5. LiveIsLast(c)'
  <2>1. \A n \in 1..Len(p) : p[n].live => \A i \in (n + 1)..Len(p) : p[i].call # p[n].call
    BY DEF InOrder, LiveIsLast, Absent
  <2> HIDE DEF p, q
  <2>0. \A i \in 1..Len(q) : i + 1 \in 1..Len(p) /\ q[i] = p[i + 1]
    BY <1>3
  <2>2. ASSUME NEW n \in 1..Len(q), q[n].live
        PROVE  \A i \in (n + 1)..Len(q) : q[i].call # q[n].call
    <3>1. \A i \in (n + 1)..Len(q) : i \in 1..Len(q) /\ i + 1 \in ((n + 1) + 1)..Len(p)
      BY <1>3
    <3>2. \A i \in ((n + 1) + 1)..Len(p) : p[i].call # q[n].call
      BY <2>0, <2>1, <2>2
    <3> QED BY <2>0, <3>1, <3>2
  <2>3. p[1].live => \A i \in 1..Len(q) : q[i].call # p[1].call
    <3>1. 1 \in 1..Len(p) /\ \A i \in 1..Len(q) : i + 1 \in (1 + 1)..Len(p)
      BY <1>3
    <3> QED BY <2>0, <2>1, <3>1
  <2> QED BY <1>4, <2>2, <2>3 DEF LiveIsLast, Absent, p, q
<1>6. AnsweredIsGone(c)'
  <2> SUFFICES ASSUME NEW j \in Calls, call[j] = "answered"
               PROVE  (\A i \in 1..Len(q) : q[i].call # j) /\ p[1].call # j
    BY <1>1, <1>4 DEF AnsweredIsGone, Absent
  <2>1. \A i \in 1..Len(p) : p[i].call # j
    BY DEF InOrder, AnsweredIsGone, Absent
  <2> HIDE DEF p, q
  <2> QED BY <1>3, <2>1
<1> QED BY <1>1, <1>5, <1>6 DEF InOrder

(* A call is answered by its last copy.                                    *)
LEMMA RespondOrder ==
    ASSUME QueueInv, NEW c \in Conns, InOrder(c), Responding(c)
    PROVE  InOrder(c)'
<1> DEFINE p == pending[c]
           q == pending'[c]
<1>1. PICK outcome \in {"nak", "answer"} : Respond(c, outcome)
  BY RespondStep
<1>2. /\ subscribed' = subscribed /\ callback'[c] = Idle /\ Ages(q, p, Lost(c))
  BY <1>1, RespondStep, RespondEffect DEF QueueInv
<1>3. ~Idle.live /\ Idle.at = "idle"
  BY DEF Idle
<1>4. \A j \in Calls : call'[j] = "answered" =>
         call[j] = "answered" \/ (callback[c].live /\ j = callback[c].call)
  BY <1>1 DEF Respond, QueueInv, CallTypes
<1>5. Len(q) = Len(p) /\ \A n \in 1..Len(p) : q[n].call = p[n].call /\ (q[n].live => p[n].live)
  BY <1>2 DEF Ages
<1>6. Len(p) \in Nat
  <2>1. p \in Seq(Msgs)
    BY DEF QueueInv, QueueTypes
  <2> QED BY <2>1
<1>7. LiveIsLast(c)'
  <2>1. \A n \in 1..Len(p) : p[n].live => \A i \in (n + 1)..Len(p) : p[i].call # p[n].call
    BY DEF InOrder, LiveIsLast, Absent
  <2> HIDE DEF p, q
  <2>2. ASSUME NEW n \in 1..Len(q), q[n].live
        PROVE  \A i \in (n + 1)..Len(q) : q[i].call # q[n].call
    BY <1>5, <1>6, <2>1, <2>2
  <2> QED BY <1>2, <1>3, <2>2 DEF LiveIsLast, Absent, q
<1>8. AnsweredIsGone(c)'
  <2> SUFFICES ASSUME NEW j \in Calls, call'[j] = "answered"
               PROVE  \A i \in 1..Len(q) : q[i].call # j
    BY <1>2, <1>3 DEF AnsweredIsGone, Absent, Busy
  <2>1. \A i \in 1..Len(p) : p[i].call # j
    BY <1>4 DEF InOrder, LiveIsLast, AnsweredIsGone, Absent
  <2> HIDE DEF p, q
  <2> QED BY <1>5, <2>1
<1> QED BY <1>2, <1>7, <1>8 DEF InOrder

LEMMA NextSole == QueueInv /\ SoleInv /\ [Next]_vars => SoleInv'
<1> SUFFICES ASSUME QueueInv, SoleInv, [Next]_vars, NEW c \in Conns, Sole(c)'
             PROVE  InOrder(c)'
  BY DEF SoleInv
<1> USE DEF QueueInv
<1>1. Sole(c) /\ InOrder(c)
  BY SoleBefore DEF SoleInv
<1>2. CASE UNCHANGED vars
  <2>1. UNCHANGED <<subscribed, pending, callback, call>>
    BY <1>2 DEF vars, nats, calls
  <2> QED BY <1>1, <2>1, NoneAges, InOrderAges DEF Busy
<1>3. ASSUME NEW b \in Conns, ConnStep(b) PROVE InOrder(c)'
  <2>1. UNCHANGED <<callback, call>>
    BY <1>3 DEF ConnStep, StoreSession, SubscribeNats, TakeSession, Unsubscribe,
                CloseSession, PumpEnds, nats, calls
  <2>2. subscribed' \subseteq subscribed \union {c}
    BY <1>1, <1>3, SoleActs DEF ConnStep, StoreSession, SubscribeNats, TakeSession,
       Unsubscribe, CloseSession, PumpEnds, nats
  <2>3. \A d \in Conns : pending'[d] = <<>> \/ pending'[d] = pending[d]
    BY <1>3 DEF QueueTypes, ConnStep, StoreSession, SubscribeNats, TakeSession, Unsubscribe,
       CloseSession, PumpEnds, nats
  <2> QED BY <1>1, <2>1, <2>2, <2>3, NoneAges, InOrderAges DEF Busy
<1>4. ASSUME NEW b \in Conns, Panics(b) PROVE InOrder(c)'
  <2>1. PICK why \in {"sendAfterClose", "lateAnswer"} : Crash(place[b], why)
    BY <1>4 DEF Panics
  <2>2. subscribed' \subseteq subscribed /\ call' = call
    BY <2>1 DEF Crash, calls
  <2>3. \A d \in Conns : pending'[d] = <<>> \/ Ages(pending'[d], pending[d], {})
    BY <2>1, CrashEffect
  <2>4. \A d \in Conns : \/ callback'[d] = Idle
                         \/ /\ callback'[d].call = callback[d].call
                            /\ Busy(d)' => Busy(d)
                            /\ callback'[d].live => callback[d].live
    BY <2>1, CrashEffect DEF Busy
  <2> QED BY <1>1, <2>2, <2>3, <2>4, InOrderAges
<1>5. ASSUME NEW b \in Conns, TakeRequest(b) PROVE InOrder(c)'
  BY <1>1, <1>5, SoleActs, TakeRequestOrder DEF TakeRequest
<1>6. ASSUME NEW b \in Conns, Responding(b) PROVE InOrder(c)'
  BY <1>1, <1>6, SoleActs, RespondOrder DEF Responding, CheckOpen, CallbackTimesOut, Answer
<1>7. ASSUME NEW b \in Conns, SendInbound(b) \/ (b \in open /\ CheckOpen(b))
      PROVE  InOrder(c)'
  <2>1. PICK at \in {"sending", "waiting"} : callback' = [callback EXCEPT ![b].at = at]
    BY <1>7 DEF SendInbound, CheckOpen
  <2>2. Busy(b) /\ UNCHANGED <<subscribed, pending, call>>
    BY <1>7 DEF SendInbound, CheckOpen, Busy, calls
  <2>3. \A d \in Conns : /\ callback'[d].call = callback[d].call
                         /\ Busy(d)' => Busy(d)
                         /\ callback'[d].live => callback[d].live
    BY <2>1, <2>2, MovedCallback DEF Busy
  <2>4. \A d \in Conns : Ages(pending'[d], pending[d], {})
    BY <2>2, NoneAges
  <2> HIDE DEF QueueInv
  <2> QED BY <1>1, <2>2, <2>3, <2>4, InOrderAges
<1>8. ASSUME NEW k \in Calls, Requesting(k) PROVE InOrder(c)'
  <2>1. CASE SendRequest(k)
    BY <1>1, <2>1, SendRequestOrder
  <2>2. CASE ~SendRequest(k)
    <3>1. subscribed' = subscribed
          /\ \A j \in Calls : call'[j] = "answered" => call[j] = "answered"
      BY <1>8, <2>2 DEF Requesting, StartCall, GiveUp, RequestTimesOut, RequestFails, nats,
                        CallTypes
    <3>2. \/ UNCHANGED <<pending, callback>>
          \/ pending' = PendingStale({k}) /\ callback' = CallbackStale({k})
      BY <1>8, <2>2 DEF Requesting, StartCall, GiveUp, RequestTimesOut, RequestFails, nats
    <3>3. \A d \in Conns : Ages(pending'[d], pending[d], {})
      <4>1. \A d \in Conns : Ages(PendingStale({k})[d], pending[d], {k})
        BY StalePending
      <4>2. \A d \in Conns : Ages(PendingStale({k})[d], pending[d], {})
        BY <4>1 DEF Ages
      <4> QED BY <3>2, <4>2, NoneAges
    <3>4. \A d \in Conns : /\ callback'[d].call = callback[d].call
                           /\ Busy(d)' => Busy(d)
                           /\ callback'[d].live => callback[d].live
      BY <3>2, StaleCallbacks DEF Busy
    <3> HIDE DEF QueueInv
    <3> QED BY <1>1, <3>1, <3>3, <3>4, InOrderAges
  <2> QED BY <2>1, <2>2
<1>9. ASSUME NEW k \in Calls, NEW b \in Conns, DeviceAnswers(k, b) PROVE InOrder(c)'
  <2>1. UNCHANGED <<subscribed, pending, callback, call>>
    BY <1>9 DEF DeviceAnswers, nats, calls
  <2> QED BY <1>1, <2>1, NoneAges, InOrderAges DEF Busy
<1> QED BY <1>2, <1>3, <1>4, <1>5, <1>6, <1>7, <1>8, <1>9, NextSplit

(* AnsweredRunsNoMore: a call that has been answered is given to the       *)
(* device once more only if the device has had a second connection.        *)
THEOREM AnsweredOnce == Spec => AnsweredRunsNoMore
<1>1. ASSUME QueueInv, SoleInv, NEW c \in Conns, Sends(c), call[callback[c].call] = "answered"
      PROVE  \E b \in Conns \ {c} : handler[b] # "new"
  <2> SUFFICES ASSUME Sole(c) PROVE FALSE
    BY DEF Sole
  <2>1. Busy(c) /\ callback[c].call \in Calls
    BY <1>1 DEF Sends, Busy, QueueInv, QueueTypes
  <2> QED BY <1>1, <2>1 DEF SoleInv, InOrder, AnsweredIsGone
<1>2. QueueInv /\ SoleInv =>
        [\A c \in Conns : Sends(c) /\ call[callback[c].call] = "answered" =>
            \E b \in Conns \ {c} : handler[b] # "new"]_vars
  BY <1>1
<1> QED BY <1>2, InitSole, NextSole, QueueAlways, PTL DEF Spec, AnsweredRunsNoMore
=============================================================================
