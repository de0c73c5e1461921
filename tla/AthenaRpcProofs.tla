-------------------------- MODULE AthenaRpcProofs ---------------------------
(***************************************************************************)
(* Proofs about AthenaRpc for any devices, connections, calls and          *)
(* messages, with or without overlapping connections.                      *)
(*                                                                         *)
(* RegisteredIsOpen and ClosedOnce hold because a session belongs either   *)
(* to the map or to one OnDisconnect, never both, and only its owner       *)
(* changes its flag and channels.  SessionInv states who owns what.        *)
(***************************************************************************)
EXTENDS AthenaRpc, TLAPS

Started(c) == handler[c] # "new"
Closing(c) == handler[c] \in {"closing", "closeInbound", "closeOutbound"}

SessionTypes ==
    /\ handler \in [Conns -> {"new", "serving", "closing", "closeInbound",
                              "closeOutbound", "ended"}]
    /\ registered \in [Dongles -> Conns \union {NoConn}]
    /\ victim \in [Conns -> Conns \union {NoConn}]
    /\ open \subseteq Conns /\ inClosed \subseteq Conns /\ outClosed \subseteq Conns

(* Only a connection of the dongle, one that has stored itself, is in the  *)
(* map, and a session that an OnDisconnect has taken is not.               *)
MapOwns == \A d \in Dongles : registered[d] # NoConn =>
    /\ ConnOf[registered[d]] = d
    /\ Started(registered[d])
    /\ \A b \in Conns : victim[b] # registered[d]

DisconnectOwns == \A b \in Conns :
    /\ Closing(b) => victim[b] # NoConn
    /\ handler[b] \in {"new", "serving"} => victim[b] = NoConn
    /\ victim[b] # NoConn => Started(victim[b])

(* A session is open until its OnDisconnect; a channel is closed only by   *)
(* the OnDisconnect that has the session.                                  *)
ClosedIsTaken ==
    /\ \A c \in Conns : Started(c) /\ c \notin open => \E b \in Conns : victim[b] = c
    /\ \A c \in inClosed \union outClosed : \E b \in Conns : victim[b] = c

SessionInv == SessionTypes /\ MapOwns /\ DisconnectOwns /\ ClosedIsTaken /\ ClosedOnce

USE ConnAssumption, CallAssumption, MessageAssumption, NameAssumption

LEMMA InitSession == Init => SessionInv
BY DEF Init, SessionInv, SessionTypes, MapOwns, DisconnectOwns, ClosedIsTaken,
       ClosedOnce, Started, Closing

(* What most steps leave alone.                                            *)
SessionVars == <<handler, registered, victim, sessions>>

LEMMA KeepsSession == SessionInv /\ UNCHANGED SessionVars => SessionInv'
BY DEF SessionVars, sessions, SessionInv, SessionTypes, MapOwns, DisconnectOwns,
       ClosedIsTaken, ClosedOnce, Started, Closing

LEMMA OnConnectSession ==
    ASSUME SessionInv, NEW c \in Conns, OnConnect(c)
    PROVE  SessionInv'
<1> USE DEF SessionInv, OnConnect, requests
<1>1. SessionTypes'
  BY DEF SessionTypes
<1>2. MapOwns'
  <2> SUFFICES ASSUME NEW d \in Dongles, registered'[d] # NoConn
               PROVE  /\ ConnOf[registered'[d]] = d
                      /\ handler'[registered'[d]] # "new"
                      /\ \A b \in Conns : victim'[b] # registered'[d]
    BY DEF MapOwns, Started
  <2>1. CASE d = ConnOf[c]
    <3>1. registered'[d] = c /\ handler'[c] = "serving"
      BY <2>1 DEF SessionTypes
    <3>2. \A b \in Conns : victim[b] # c
      BY DEF DisconnectOwns, Started, SessionTypes
    <3> QED BY <2>1, <3>1, <3>2 DEF Started
  <2>2. CASE d # ConnOf[c]
    BY <2>2 DEF MapOwns, Started, SessionTypes
  <2> QED BY <2>1, <2>2
<1>3. DisconnectOwns'
  BY DEF DisconnectOwns, Closing, Started, SessionTypes
<1>4. ClosedIsTaken'
  BY DEF ClosedIsTaken, Started, SessionTypes
<1>5. ClosedOnce'
  BY DEF ClosedOnce
<1> QED BY <1>1, <1>2, <1>3, <1>4, <1>5

LEMMA TakeSessionSession ==
    ASSUME SessionInv, NEW c \in Conns, TakeSession(c)
    PROVE  SessionInv'
<1> USE DEF SessionInv, TakeSession, sessions
<1> DEFINE taken == registered[ConnOf[c]]
<1>1. /\ ConnOf[c] \in Dongles
      /\ victim[c] = NoConn
      /\ victim' = [victim EXCEPT ![c] = taken]
  BY DEF Serving, DisconnectOwns
<1>2. taken # NoConn => /\ taken \in Conns /\ Started(taken)
                        /\ \A b \in Conns : victim[b] # taken
  BY <1>1 DEF MapOwns, SessionTypes
<1>3. \A b \in Conns : victim[b] # NoConn => victim'[b] = victim[b]
  BY <1>1 DEF SessionTypes
<1>4. SessionTypes'
  BY <1>1 DEF SessionTypes
<1>5. MapOwns'
  <2> SUFFICES ASSUME NEW d \in Dongles, registered'[d] # NoConn
               PROVE  /\ ConnOf[registered'[d]] = d
                      /\ handler'[registered'[d]] # "new"
                      /\ \A b \in Conns : victim'[b] # registered'[d]
    BY DEF MapOwns, Started
  <2>1. d # ConnOf[c] /\ registered'[d] = registered[d]
    BY <1>1 DEF SessionTypes
  <2>2. ConnOf[registered[d]] = d /\ Started(registered[d])
        /\ \A b \in Conns : victim[b] # registered[d]
    BY <2>1 DEF MapOwns
  <2>3. registered[d] # taken
    BY <1>1, <1>2, <2>1, <2>2 DEF MapOwns
  <2> QED BY <1>1, <2>1, <2>2, <2>3 DEF Started, Serving, SessionTypes
<1>6. DisconnectOwns'
  <2> SUFFICES ASSUME NEW b \in Conns
               PROVE  /\ Closing(b)' => victim'[b] # NoConn
                      /\ handler'[b] \in {"new", "serving"} => victim'[b] = NoConn
                      /\ victim'[b] # NoConn => handler'[victim'[b]] # "new"
    BY DEF DisconnectOwns, Started
  <2>1. CASE b = c
    BY <1>1, <1>2, <2>1 DEF Closing, Started, SessionTypes
  <2>2. CASE b # c
    BY <1>1, <2>2 DEF DisconnectOwns, Closing, Started, SessionTypes
  <2> QED BY <2>1, <2>2
<1>7. ClosedIsTaken'
  BY <1>3, <1>1 DEF ClosedIsTaken, Started, Serving, SessionTypes
<1>8. ClosedOnce'
  BY <1>1, <1>2 DEF ClosedOnce, SessionTypes
<1> QED BY <1>4, <1>5, <1>6, <1>7, <1>8

LEMMA OnDisconnectSession ==
    ASSUME SessionInv, NEW c \in Conns, OnDisconnect(c)
    PROVE  SessionInv'
<1> USE DEF SessionInv, OnDisconnect
<1>1. /\ victim[c] \in Conns
      /\ victim' = victim /\ registered' = registered
      /\ \A b \in Conns : Started(b) <=> Started(b)'
      /\ \A b \in Conns : Closing(b)' => Closing(b)
      /\ \A b \in Conns : handler'[b] \in {"new", "serving"} => handler[b] = handler'[b]
  BY DEF ClearOpen, CloseInbound, CloseOutbound, Closing, Started, DisconnectOwns,
         SessionTypes
<1>2. /\ open \subseteq open' \union {victim[c]} /\ open' \subseteq open
      /\ inClosed' \subseteq inClosed \union {victim[c]}
      /\ outClosed' \subseteq outClosed \union {victim[c]}
  BY DEF ClearOpen, CloseInbound, CloseOutbound
<1>3. SessionTypes'
  BY <1>1, <1>2 DEF SessionTypes, ClearOpen, CloseInbound, CloseOutbound
<1>4. MapOwns'
  BY <1>1 DEF MapOwns, SessionTypes
<1>5. DisconnectOwns'
  BY <1>1 DEF DisconnectOwns, SessionTypes
<1>6. ClosedIsTaken'
  BY <1>1, <1>2 DEF ClosedIsTaken
<1>7. ClosedOnce'
  BY <1>1 DEF ClosedOnce
<1> QED BY <1>3, <1>4, <1>5, <1>6, <1>7

LEMMA NextSession == SessionInv /\ [Next]_vars => SessionInv'
<1> SUFFICES ASSUME SessionInv, [Next]_vars PROVE SessionInv'
  OBVIOUS
<1>1. CASE UNCHANGED vars
  BY <1>1, KeepsSession DEF vars, SessionVars
<1>2. ASSUME NEW c \in Conns, OnConnect(c) \/ TakeSession(c) \/ ConnStep(c)
      PROVE  SessionInv'
  <2>1. CASE OnConnect(c) BY <2>1, OnConnectSession
  <2>2. CASE TakeSession(c) BY <2>2, TakeSessionSession
  <2>3. CASE OnDisconnect(c) BY <2>3, OnDisconnectSession
  <2>4. CASE PumpEnds(c) \/ Answer(c) \/ AnswerPanics(c) \/ WatcherEnds(c)
    <3>1. UNCHANGED SessionVars
      BY <2>4 DEF SessionVars, PumpEnds, Answer, AnswerPanics, WatcherEnds
    <3> QED BY <3>1, KeepsSession
  <2> QED BY <1>2, <2>1, <2>2, <2>3, <2>4 DEF ConnStep
<1>3. ASSUME NEW k \in Calls, LoadMisses(k) \/ LoadFinds(k) \/ CallStep(k)
      PROVE  SessionInv'
  <2>1. UNCHANGED SessionVars
    BY <1>3 DEF SessionVars, LoadMisses, LoadFinds, CallStep, CheckOpen, Subscribe,
                SendInbound, SendInboundPanics, Timeout
  <2> QED BY <2>1, KeepsSession
<1>4. ASSUME NEW m \in Messages, MessageStep(m) \/ \E c \in Conns : DeviceSends(m, c)
      PROVE  SessionInv'
  <2>1. UNCHANGED SessionVars
    BY <1>4 DEF SessionVars, MessageStep, LoadTarget, CheckTarget, SendOutbound,
                SendOutboundPanics, DeviceSends
  <2> QED BY <2>1, KeepsSession
<1> QED BY <1>1, <1>2, <1>3, <1>4 DEF Next

(* The session map, its flags and its channels never disagree, and no      *)
(* channel is closed twice: RPCWebsocket.OnConnect and OnDisconnect.       *)
LEMMA SessionAlways == Spec => []SessionInv
BY InitSession, NextSession, PTL DEF Spec

(* RegisteredIsOpen: what c.dongles.Load returns was open when it looked.  *)
THEOREM RegisteredOpen == Spec => []RegisteredIsOpen
<1>1. SessionInv => RegisteredIsOpen
  BY DEF SessionInv, SessionTypes, MapOwns, ClosedIsTaken, RegisteredIsOpen
<1> QED BY <1>1, SessionAlways, PTL

(* ClosedOnce: no session is taken, and so closed, by two OnDisconnects.   *)
THEOREM NeverClosedTwice == Spec => []ClosedOnce
<1>1. SessionInv => ClosedOnce
  BY DEF SessionInv
<1> QED BY <1>1, SessionAlways, PTL

-----------------------------------------------------------------------------
(* A connection that is being served and that the map does not know.       *)

LEMMA InitMiss == Init => MissNeedsLateDisconnect
BY DEF Init, Serving, MissNeedsLateDisconnect

(* TakeSession is the only step that empties an entry of c.dongles, and    *)
(* its connection is leaving from then on.                                 *)
LEMMA NextMiss ==
    SessionInv /\ MissNeedsLateDisconnect /\ [Next]_vars => MissNeedsLateDisconnect'
<1> SUFFICES ASSUME SessionInv, MissNeedsLateDisconnect, [Next]_vars
             PROVE  MissNeedsLateDisconnect'
  OBVIOUS
<1>1. ASSUME NEW c \in Conns, OnConnect(c) PROVE MissNeedsLateDisconnect'
  <2>1. \A b \in Conns : Leaving(b) => Leaving(b)'
    BY <1>1 DEF OnConnect, Leaving, SessionInv, SessionTypes
  <2>2. registered'[ConnOf[c]] # NoConn
    BY <1>1 DEF OnConnect, SessionInv, SessionTypes
  <2>3. \A b \in Conns : Serving(b)' /\ registered'[ConnOf[b]] = NoConn =>
           Serving(b) /\ registered[ConnOf[b]] = NoConn
    BY <1>1, <2>2 DEF OnConnect, Serving, SessionInv, SessionTypes
  <2> QED BY <2>1, <2>3 DEF MissNeedsLateDisconnect
<1>2. ASSUME NEW c \in Conns, TakeSession(c) PROVE MissNeedsLateDisconnect'
  <2>1. \A b \in Conns : (Leaving(b) => Leaving(b)') /\ (Serving(b)' => Serving(b) /\ b # c)
    BY <1>2 DEF TakeSession, Leaving, Serving, SessionInv, SessionTypes
  <2>2. Leaving(c)'
    BY <1>2 DEF TakeSession, Leaving, SessionInv, SessionTypes
  <2>3. \A b \in Conns : ConnOf[b] # ConnOf[c] => registered'[ConnOf[b]] = registered[ConnOf[b]]
    BY <1>2 DEF TakeSession, SessionInv, SessionTypes
  <2> QED BY <2>1, <2>2, <2>3 DEF MissNeedsLateDisconnect
<1>3. ASSUME NEW c \in Conns, OnDisconnect(c) PROVE MissNeedsLateDisconnect'
  BY <1>3 DEF OnDisconnect, ClearOpen, CloseInbound, CloseOutbound, MissNeedsLateDisconnect,
              Leaving, Serving, SessionInv, SessionTypes
<1>4. CASE UNCHANGED <<handler, registered>>
  BY <1>4 DEF MissNeedsLateDisconnect, Leaving, Serving
<1>5. ASSUME NEW c \in Conns,
             PumpEnds(c) \/ Answer(c) \/ AnswerPanics(c) \/ WatcherEnds(c)
      PROVE  UNCHANGED <<handler, registered>>
  BY <1>5 DEF PumpEnds, Answer, AnswerPanics, WatcherEnds
<1>6. ASSUME NEW k \in Calls, LoadMisses(k) \/ LoadFinds(k) \/ CallStep(k)
      PROVE  UNCHANGED <<handler, registered>>
  BY <1>6 DEF LoadMisses, LoadFinds, CallStep, CheckOpen, Subscribe, SendInbound,
              SendInboundPanics, Timeout
<1>7. ASSUME NEW m \in Messages, MessageStep(m) \/ \E c \in Conns : DeviceSends(m, c)
      PROVE  UNCHANGED <<handler, registered>>
  BY <1>7 DEF MessageStep, LoadTarget, CheckTarget, SendOutbound, SendOutboundPanics,
              DeviceSends
<1>8. CASE UNCHANGED vars
  BY <1>4, <1>8 DEF vars
<1> QED BY <1>1, <1>2, <1>3, <1>4, <1>5, <1>6, <1>7, <1>8 DEF Next, ConnStep

(* MissNeedsLateDisconnect: however many connections a device has, a call  *)
(* misses the one that is served only behind another one's disconnect.     *)
THEOREM MissIsLate == Spec => []MissNeedsLateDisconnect
BY InitMiss, NextMiss, SessionAlways, PTL DEF Spec

-----------------------------------------------------------------------------
(* Type correctness: LoadFinds stores only sessions, so every later step   *)
(* of a call has one; OnDisconnect has one by DisconnectOwns.              *)

LEMMA InitType == Init => TypeOK
BY DEF Init, TypeOK, Messages, Outcomes

LEMMA ConnType ==
    ASSUME TypeOK, SessionInv, NEW c \in Conns,
           OnConnect(c) \/ TakeSession(c) \/ OnDisconnect(c)
    PROVE  TypeOK'
<1>1. CASE OnConnect(c)
  BY <1>1 DEF TypeOK, OnConnect, requests
<1>2. CASE TakeSession(c)
  BY <1>2 DEF TypeOK, TakeSession, Serving, sessions, workers, requests
<1>3. handler[c] \in {"closing", "closeInbound", "closeOutbound"} => victim[c] \in Conns
  BY DEF SessionInv, SessionTypes, DisconnectOwns, Closing
<1>4. CASE ClearOpen(c)
  BY <1>4 DEF TypeOK, ClearOpen, workers, requests
<1>5. CASE CloseInbound(c)
  BY <1>3, <1>5 DEF TypeOK, CloseInbound, workers, requests
<1>6. CASE CloseOutbound(c)
  BY <1>3, <1>6 DEF TypeOK, CloseOutbound, workers, requests
<1> QED BY <1>1, <1>2, <1>4, <1>5, <1>6 DEF OnDisconnect

LEMMA WorkerType ==
    ASSUME TypeOK, NEW c \in Conns,
           PumpEnds(c) \/ Answer(c) \/ AnswerPanics(c) \/ WatcherEnds(c)
    PROVE  TypeOK'
BY DEF TypeOK, PumpEnds, Answer, AnswerPanics, WatcherEnds, sessions, workers,
       requests, Outcomes

LEMMA CallType ==
    ASSUME TypeOK, NEW k \in Calls, LoadMisses(k) \/ LoadFinds(k) \/ CallStep(k)
    PROVE  TypeOK'
BY DEF TypeOK, LoadMisses, LoadFinds, CallStep, CheckOpen, Subscribe, SendInbound,
       SendInboundPanics, Timeout, sessions, workers, Outcomes

LEMMA MessageType ==
    ASSUME TypeOK, NEW m \in Messages, MessageStep(m) \/ \E c \in Conns : DeviceSends(m, c)
    PROVE  TypeOK'
<1>1. CASE LoadTarget(m)
  BY <1>1 DEF TypeOK, LoadTarget, DongleOfMessage, Messages, sessions, workers
<1>2. CASE CheckTarget(m) \/ SendOutboundPanics(m) \/ \E c \in Conns : DeviceSends(m, c)
  BY <1>2 DEF TypeOK, CheckTarget, SendOutboundPanics, DeviceSends, sessions, workers,
              requests
<1>3. CASE SendOutbound(m)
  <2>1. message' \in [Messages -> {"none", "arrived", "acknowledging", "checking",
                                   "sending", "done"}]
    BY <1>3 DEF TypeOK, SendOutbound
  <2>2. /\ watcher' \in [Conns -> {"none", "receiving", "ended"} \union Calls]
        /\ subscribers' \in [Conns -> SUBSET Calls]
    <3>1. /\ watcher \in [Conns -> {"none", "receiving", "ended"} \union Calls]
          /\ subscribers \in [Conns -> SUBSET Calls]
      BY DEF TypeOK
    <3>2. \A c \in Conns : m \in subscribers[c] => m \in Calls
      BY <3>1
    <3>3. /\ watcher' = [watcher EXCEPT ![target[m]] =
                           IF m \in subscribers[target[m]] THEN m ELSE watcher[target[m]]]
          /\ subscribers' = [subscribers EXCEPT ![target[m]] = subscribers[target[m]] \ {m}]
      BY <1>3 DEF SendOutbound
    <3> QED BY <3>1, <3>2, <3>3
  <2> QED BY <1>3, <2>1, <2>2 DEF TypeOK, SendOutbound, sessions
<1> QED BY <1>1, <1>2, <1>3 DEF MessageStep

LEMMA NextType == TypeOK /\ SessionInv /\ [Next]_vars => TypeOK'
<1> SUFFICES ASSUME TypeOK, SessionInv, [Next]_vars PROVE TypeOK'
  OBVIOUS
<1>1. CASE UNCHANGED vars
  BY <1>1 DEF TypeOK, vars, sessions, workers, requests
<1> QED BY <1>1, ConnType, WorkerType, CallType, MessageType DEF Next, ConnStep

(* TypeOK: every call past the load of c.dongles has a session.            *)
THEOREM TypeCorrect == Spec => []TypeOK
BY InitType, NextType, SessionAlways, PTL DEF Spec

-----------------------------------------------------------------------------
(* Answers.  Between Subscribe and its return a call is known to exactly   *)
(* one of the watcher's map and the watcher itself, of its own session; no *)
(* answer exists before the call was handed to the pump.                   *)

SubscribedIsPending == \A c \in Conns : \A k \in subscribers[c] :
    /\ c = via[k]
    /\ call[k] \in {"sending", "waiting", "timeout", "panicked"}
    /\ watcher[c] # k

WatchedIsPending == \A c \in Conns : watcher[c] \in Calls =>
    /\ c = via[watcher[c]]
    /\ call[watcher[c]] \in {"waiting", "timeout"}

SendingIsSubscribed == \A k \in Calls : call[k] = "sending" => k \in subscribers[via[k]]

AnswerFollowsCall == \A k \in Calls : message[k] # "none" => Delivered(k)

LoadedIsStarted == \A k \in Calls : via[k] # NoConn => Started(via[k])

AnswerInv ==
    /\ SubscribedIsPending /\ WatchedIsPending /\ SendingIsSubscribed
    /\ AnswerFollowsCall /\ LoadedIsStarted /\ WaitingIsHeard /\ LateAnswerNeedsTimeout

LEMMA InitAnswer == Init => AnswerInv
BY DEF Init, AnswerInv, SubscribedIsPending, WatchedIsPending, SendingIsSubscribed,
       AnswerFollowsCall, LoadedIsStarted, WaitingIsHeard, LateAnswerNeedsTimeout,
       Delivered, Messages

USE DEF AnswerInv, SubscribedIsPending, WatchedIsPending, SendingIsSubscribed,
        AnswerFollowsCall, LoadedIsStarted, WaitingIsHeard, LateAnswerNeedsTimeout,
        Delivered, Started

(* A connection's watcher starts with no call: none has the session before *)
(* it is registered.                                                       *)
LEMMA ConnAnswer ==
    ASSUME TypeOK, SessionInv, AnswerInv, NEW c \in Conns,
           OnConnect(c) \/ TakeSession(c) \/ OnDisconnect(c)
    PROVE  AnswerInv'
<1>1. CASE OnConnect(c)
  BY <1>1 DEF OnConnect, TypeOK, requests
<1>2. CASE TakeSession(c)
  BY <1>2 DEF TakeSession, Serving, TypeOK, workers, requests
<1>3. CASE OnDisconnect(c)
  BY <1>3 DEF OnDisconnect, ClearOpen, CloseInbound, CloseOutbound, TypeOK, workers, requests
<1> QED BY <1>1, <1>2, <1>3

LEMMA WorkerAnswer ==
    ASSUME TypeOK, AnswerInv, NEW c \in Conns,
           PumpEnds(c) \/ Answer(c) \/ AnswerPanics(c) \/ WatcherEnds(c)
    PROVE  AnswerInv'
<1>1. CASE PumpEnds(c)
  BY <1>1 DEF PumpEnds, requests
<1>2. CASE Answer(c)
  BY <1>2 DEF Answer, TypeOK, Running
<1>3. CASE AnswerPanics(c)
  BY <1>3 DEF AnswerPanics, Returned, Outcomes, workers, requests
<1>4. CASE WatcherEnds(c)
  BY <1>4 DEF WatcherEnds, TypeOK, requests
<1> QED BY <1>1, <1>2, <1>3, <1>4

LEMMA CallAnswer ==
    ASSUME TypeOK, SessionInv, AnswerInv, NEW k \in Calls,
           LoadMisses(k) \/ LoadFinds(k) \/ CallStep(k)
    PROVE  AnswerInv'
<1>0. CASE LoadMisses(k)
  BY <1>0 DEF LoadMisses, TypeOK, workers
<1>1. CASE CheckOpen(k)
  BY <1>1 DEF CheckOpen, TypeOK, workers
<1>2. CASE LoadFinds(k)
  BY <1>2 DEF LoadFinds, TypeOK, workers, SessionInv, MapOwns
<1>3. CASE Subscribe(k)
  BY <1>3 DEF Subscribe, TypeOK
<1>4. CASE SendInbound(k)
  BY <1>4 DEF SendInbound, TypeOK, workers
<1>5. CASE SendInboundPanics(k)
  BY <1>5 DEF SendInboundPanics, TypeOK, workers
<1>6. CASE Timeout(k)
  BY <1>6 DEF Timeout, TypeOK, workers, Running
<1> QED BY <1>0, <1>1, <1>2, <1>3, <1>4, <1>5, <1>6 DEF CallStep

LEMMA MessageAnswer ==
    ASSUME TypeOK, AnswerInv, NEW m \in Messages,
           MessageStep(m) \/ \E c \in Conns : DeviceSends(m, c)
    PROVE  AnswerInv'
<1>1. CASE LoadTarget(m) \/ CheckTarget(m) \/ \E c \in Conns : DeviceSends(m, c)
  BY <1>1 DEF LoadTarget, CheckTarget, DeviceSends, TypeOK, workers, Messages
<1>2. CASE SendOutboundPanics(m)
  BY <1>2 DEF SendOutboundPanics, workers, requests
<1>3. CASE SendOutbound(m)
  <2> DEFINE c == target[m]
  <2>1. /\ call' = call /\ via' = via /\ handler' = handler /\ crash' = crash
        /\ watcher[c] = "receiving"
        /\ m \in Calls => message[m] # "none" /\ Delivered(m)
        /\ \A k \in Calls : message'[k] # "none" => message[k] # "none"
    BY <1>3 DEF SendOutbound, Sending, TypeOK, Messages
  <2>2. \A b \in Conns : \A k :
           k \in subscribers'[b] <=> k \in subscribers[b] /\ ~(b = c /\ k = m)
    <3>1. subscribers' = [subscribers EXCEPT ![c] = subscribers[c] \ {m}]
      BY <1>3 DEF SendOutbound
    <3>2. \A b \in Conns : subscribers'[b] = IF b = c THEN subscribers[c] \ {m}
                                              ELSE subscribers[b]
      BY <3>1 DEF TypeOK
    <3> QED BY <3>2
  <2>3. \A b \in Conns : watcher'[b] = IF b = c /\ m \in subscribers[c] THEN m ELSE watcher[b]
    BY <1>3 DEF SendOutbound, TypeOK
  <2>4. "receiving" \notin Calls /\ (c \in Conns => subscribers[c] \subseteq Calls)
    BY DEF TypeOK
  <2>5. SubscribedIsPending'
    BY <2>1, <2>2, <2>3
  <2>6. WatchedIsPending'
    <3> SUFFICES ASSUME NEW b \in Conns, watcher'[b] \in Calls
                 PROVE  b = via[watcher'[b]] /\ call[watcher'[b]] \in {"waiting", "timeout"}
      BY <2>1
    <3>1. CASE b = c /\ m \in subscribers[c]
      BY <2>1, <2>3, <2>4, <3>1
    <3>2. CASE ~(b = c /\ m \in subscribers[c])
      BY <2>3, <3>2
    <3> QED BY <3>1, <3>2
  <2>7. SendingIsSubscribed'
    BY <2>1, <2>2 DEF TypeOK
  <2>8. WaitingIsHeard'
    <3> SUFFICES ASSUME NEW k \in Calls, call[k] = "waiting"
                 PROVE  k \in subscribers'[via[k]] \/ watcher'[via[k]] = k
      BY <2>1
    <3>1. via[k] \in Conns
      BY DEF TypeOK
    <3> QED BY <2>1, <2>2, <2>3, <2>4, <3>1
  <2>9. AnswerFollowsCall' /\ LoadedIsStarted' /\ LateAnswerNeedsTimeout'
    BY <2>1
  <2> QED BY <2>5, <2>6, <2>7, <2>8, <2>9
<1> QED BY <1>1, <1>2, <1>3 DEF MessageStep

LEMMA AnswerAlways == Spec => []AnswerInv
<1>1. TypeOK /\ SessionInv /\ AnswerInv /\ [Next]_vars => AnswerInv'
  <2> SUFFICES ASSUME TypeOK, SessionInv, AnswerInv, [Next]_vars PROVE AnswerInv'
    OBVIOUS
  <2>1. CASE UNCHANGED vars
    BY <2>1 DEF vars, workers, requests
  <2> QED BY <2>1, ConnAnswer, WorkerAnswer, CallAnswer, MessageAnswer DEF Next, ConnStep
<1> QED BY <1>1, InitAnswer, TypeCorrect, SessionAlways, PTL DEF Spec

(* WaitingIsHeard: the watcher never drops the answer of a waiting call.   *)
THEOREM WaitingHeard == Spec => []WaitingIsHeard
<1>1. AnswerInv => WaitingIsHeard
  OBVIOUS
<1> QED BY <1>1, AnswerAlways, PTL

(* LateAnswerNeedsTimeout: only Call's 120 s timeout leaves a subscriber   *)
(* behind that a later answer can reach.                                   *)
THEOREM LateAnswer == Spec => []LateAnswerNeedsTimeout
<1>1. AnswerInv => LateAnswerNeedsTimeout
  OBVIOUS
<1> QED BY <1>1, AnswerAlways, PTL
=============================================================================
