------------------------------ MODULE NatsRpc -------------------------------
(***************************************************************************)
(* Calls that reach a device through NATS: the branch of                   *)
(* internal/server/websocket/rpc.go for a device that is not connected to  *)
(* the caller's instance, and the subscription that OnConnect makes for    *)
(* every connection of the device (internal/server/websocket/websocket.go).*)
(*                                                                         *)
(* One device: another one has another subject and shares nothing.  Its    *)
(* connections arrive at any instance.  A subscription hands its messages  *)
(* to its callback one at a time and in order, and keeps at most           *)
(* PendingLimit waiting; a request goes to all subscriptions, and the      *)
(* caller takes the first response to its latest request.  The empty       *)
(* response is a NAK.                                                      *)
(*                                                                         *)
(* What AthenaRpc takes apart is one step here: the flag and the channels  *)
(* of a session close together, and a message of the device goes to its    *)
(* watcher at once.                                                        *)
(***************************************************************************)
EXTENDS Naturals, Sequences, FiniteSets

CONSTANTS
    Instances,     \* server processes that share NATS
    Conns,         \* websocket connections of the device, numbered as they come
    Calls,         \* HTTP requests that run Call
    CallerAt,      \* the instance each call runs on
    Arrivals,      \* the ways the connections may be spread over the instances
    MaxRetries,    \* 3 in the code
    PendingLimit,  \* bound: messages a subscription keeps waiting
    MaxOwed,       \* bound: answers the device still owes to one call
    NoConn, NoCall

ASSUME CallerAssumption == CallerAt \in [Calls -> Instances]
ASSUME ArrivalAssumption == Arrivals \subseteq [Conns -> Instances]
ASSUME BoundAssumption == {MaxRetries, PendingLimit, MaxOwed} \subseteq Nat
ASSUME NoConnAssumption == Conns \subseteq Nat /\ NoConn \notin Conns
ASSUME NoCallAssumption == NoCall \notin Calls

VARIABLES
    handler,     \* where each connection's handler goroutine is
    place,       \* the instance each connection has come to
    registered,  \* c.dongles of each instance
    victim,      \* the session each OnDisconnect has taken from c.dongles
    open,        \* sessions whose flag is set and whose channels are open
    pumping,     \* sessions whose pump still receives
    subscribed,  \* sessions with a subscription
    pending,     \* messages each subscription has not handed over
    callback,    \* what each subscription's callback is doing
    subscribers, \* ids with a subscriber in each session's watcher
    watcher,     \* whether each watcher is in a subscriber: that of the
                 \* callback under way, or a stale one
    call,        \* where each Call is
    retry,       \* its counter
    owed,        \* answers the device may still send to each call
    crash        \* why each instance has died, if it has

sessions == <<registered, victim, open, pumping>>
nats     == <<subscribed, pending, callback>>
watchers == <<subscribers, watcher>>
calls    == <<call, retry>>
vars == <<handler, place, sessions, nats, watchers, calls, owed, crash>>

Running(i) == crash[i] = "none"
Alive(c)   == handler[c] # "new" /\ Running(place[c])

(* A message is a call's request; it is live while the call waits for a    *)
(* response to it.                                                         *)
Message(k) == [call |-> k, live |-> TRUE]
Idle == [at |-> "idle", call |-> NoCall, live |-> FALSE]

Busy(c)     == callback[c].at # "idle"
Returned(k) == call[k] \in {"answered", "failed", "local"}

Init ==
    /\ handler = [c \in Conns |-> "new"]
    /\ place \in Arrivals
    /\ registered = [i \in Instances |-> NoConn]
    /\ victim = [c \in Conns |-> NoConn]
    /\ open = {} /\ pumping = {} /\ subscribed = {}
    /\ pending = [c \in Conns |-> <<>>]
    /\ callback = [c \in Conns |-> Idle]
    /\ subscribers = [c \in Conns |-> {}]
    /\ watcher = [c \in Conns |-> "free"]
    /\ call = [k \in Calls |-> "new"]
    /\ retry = [k \in Calls |-> 0]
    /\ owed = [k \in Calls |-> 0]
    /\ crash = [i \in Instances |-> "none"]

(* The copies of calls S that are under way no longer have a caller that   *)
(* waits for them.                                                         *)
Stale(m, S) == [m EXCEPT !.live = @ /\ m.call \notin S]

PendingStale(S)  == [c \in Conns |-> [n \in DOMAIN pending[c] |-> Stale(pending[c][n], S)]]
CallbackStale(S) == [c \in Conns |-> Stale(callback[c], S)]

-----------------------------------------------------------------------------
(* Connections: OnConnect and OnDisconnect.                                *)

(* The session is in c.dongles before it has a subscription.               *)
StoreSession(c) ==
    /\ handler[c] = "new"
    /\ \A b \in Conns : b < c => handler[b] # "new"
    /\ Running(place[c])
    /\ handler' = [handler EXCEPT ![c] = "subscribing"]
    /\ registered' = [registered EXCEPT ![place[c]] = c]
    /\ open' = open \union {c}
    /\ pumping' = pumping \union {c}
    /\ UNCHANGED <<place, victim, nats, watchers, calls, owed, crash>>

SubscribeNats(c) ==
    /\ Alive(c)
    /\ handler[c] = "subscribing"
    /\ handler' = [handler EXCEPT ![c] = "serving"]
    /\ subscribed' = subscribed \union {c}
    /\ UNCHANGED <<place, sessions, pending, callback, watchers, calls, owed, crash>>

TakeSession(c) ==
    LET taken == registered[place[c]] IN
    /\ Alive(c)
    /\ handler[c] = "serving"
    /\ victim' = [victim EXCEPT ![c] = taken]
    /\ registered' = [registered EXCEPT ![place[c]] = NoConn]
    /\ handler' = [handler EXCEPT ![c] = IF taken = NoConn THEN "ended" ELSE "unsubscribing"]
    /\ UNCHANGED <<place, open, pumping, nats, watchers, calls, owed, crash>>

(* Mutant of Unsubscribe: it is forgotten.                                 *)
UnsubscribeSkipped(c) ==
    /\ Alive(c)
    /\ handler[c] = "unsubscribing"
    /\ handler' = [handler EXCEPT ![c] = "closing"]
    /\ UNCHANGED <<place, sessions, nats, watchers, calls, owed, crash>>

(* Unsubscribe on a nil subscription, where the session's OnConnect has    *)
(* not come to it yet, is an error that is logged.                         *)
Unsubscribe(c) ==
    LET v == victim[c] IN
    /\ Alive(c)
    /\ handler[c] = "unsubscribing"
    /\ handler' = [handler EXCEPT ![c] = "closing"]
    /\ IF handler[v] = "subscribing"
         THEN UNCHANGED <<subscribed, pending>>
         ELSE /\ subscribed' = subscribed \ {v}
              /\ pending' = [pending EXCEPT ![v] = <<>>]
    /\ UNCHANGED <<place, sessions, callback, watchers, calls, owed, crash>>

(* Mutant of CloseSession: the flag and the channels stay as they are.     *)
CloseSessionSkipped(c) ==
    /\ Alive(c)
    /\ handler[c] = "closing"
    /\ handler' = [handler EXCEPT ![c] = "ended"]
    /\ UNCHANGED <<place, sessions, nats, watchers, calls, owed, crash>>

CloseSession(c) ==
    /\ Alive(c)
    /\ handler[c] = "closing"
    /\ handler' = [handler EXCEPT ![c] = "ended"]
    /\ open' = open \ {victim[c]}
    /\ UNCHANGED <<place, registered, victim, pumping, nats, watchers, calls, owed, crash>>

PumpEnds(c) ==
    /\ Alive(c)
    /\ c \in pumping
    /\ c \notin open \/ handler[c] = "ended"
    /\ pumping' = pumping \ {c}
    /\ UNCHANGED <<handler, place, registered, victim, open, nats, watchers,
                   calls, owed, crash>>

(* A panic ends the instance and all its memory holds.  NATS drops its     *)
(* subscriptions, and nobody waits for the calls that ran on it.           *)
Crash(i, why) ==
    LET gone  == {c \in Conns : place[c] = i}
        lost == {k \in Calls : CallerAt[k] = i}
        reset(f, v) == [c \in Conns |-> IF c \in gone THEN v ELSE f[c]] IN
    /\ crash' = [crash EXCEPT ![i] = why]
    /\ handler' = [c \in Conns |-> IF c \in gone /\ handler[c] # "new" THEN "ended"
                                   ELSE handler[c]]
    /\ registered' = [registered EXCEPT ![i] = NoConn]
    /\ victim' = reset(victim, NoConn)
    /\ open' = open \ gone /\ pumping' = pumping \ gone /\ subscribed' = subscribed \ gone
    /\ pending' = reset(PendingStale(lost), <<>>)
    /\ callback' = reset(CallbackStale(lost), Idle)
    /\ subscribers' = reset(subscribers, {})
    /\ watcher' = reset(watcher, "free")
    /\ UNCHANGED <<place, calls, owed>>

-----------------------------------------------------------------------------
(* Call.                                                                   *)

Calling(k) == Running(CallerAt[k])

(* A device that is connected to the caller's instance is AthenaRpc's.     *)
StartCall(k) ==
    /\ Calling(k)
    /\ call[k] = "new"
    /\ call' = [call EXCEPT ![k] =
                  IF registered[CallerAt[k]] = NoConn THEN "looping" ELSE "local"]
    /\ UNCHANGED <<handler, place, sessions, nats, watchers, retry, owed, crash>>

GiveUp(k) ==
    /\ Calling(k)
    /\ call[k] = "looping"
    /\ retry[k] > MaxRetries
    /\ call' = [call EXCEPT ![k] = "failed"]
    /\ UNCHANGED <<handler, place, sessions, nats, watchers, retry, owed, crash>>

(* Mutant of SendRequest: the attempt without a subscription is not counted. *)
SendRequestUncounted(k) ==
    /\ Calling(k)
    /\ call[k] = "looping"
    /\ retry[k] <= MaxRetries
    /\ retry' = [retry EXCEPT ![k] = IF subscribed = {} THEN @ ELSE @ + 1]
    /\ call' = [call EXCEPT ![k] = IF subscribed = {} THEN "looping" ELSE "requesting"]
    /\ pending' = [c \in Conns |->
          IF c \in subscribed /\ Len(pending[c]) < PendingLimit
          THEN Append(pending[c], Message(k)) ELSE pending[c]]
    /\ UNCHANGED <<handler, place, sessions, subscribed, callback, watchers, owed, crash>>

(* nc.Request.  Without a subscription it fails at once with               *)
(* ErrNoResponders; the sleep of a second lets a device reconnect.  A      *)
(* subscription that is full drops the message.                            *)
SendRequest(k) ==
    /\ Calling(k)
    /\ call[k] = "looping"
    /\ retry[k] <= MaxRetries
    /\ retry' = [retry EXCEPT ![k] = @ + 1]
    /\ call' = [call EXCEPT ![k] = IF subscribed = {} THEN "looping" ELSE "requesting"]
    /\ pending' = [c \in Conns |->
          IF c \in subscribed /\ Len(pending[c]) < PendingLimit
          THEN Append(pending[c], Message(k)) ELSE pending[c]]
    /\ UNCHANGED <<handler, place, sessions, subscribed, callback, watchers, owed, crash>>

(* Mutant of RequestTimesOut: all attempts share one inbox.                *)
RequestTimesOutHeard(k) ==
    /\ Calling(k)
    /\ call[k] = "requesting"
    /\ call' = [call EXCEPT ![k] = "looping"]
    /\ UNCHANGED <<handler, place, sessions, nats, watchers, retry, owed, crash>>

(* The request's 5 s, or 30 s for a snapshot.                              *)
RequestTimesOut(k) ==
    /\ Calling(k)
    /\ call[k] = "requesting"
    /\ call' = [call EXCEPT ![k] = "looping"]
    /\ pending' = PendingStale({k})
    /\ callback' = CallbackStale({k})
    /\ UNCHANGED <<handler, place, sessions, subscribed, watchers, retry, owed, crash>>

(* Any other error of the request.                                         *)
RequestFails(k) ==
    /\ Calling(k)
    /\ call[k] = "requesting"
    /\ call' = [call EXCEPT ![k] = "failed"]
    /\ pending' = PendingStale({k})
    /\ callback' = CallbackStale({k})
    /\ UNCHANGED <<handler, place, sessions, subscribed, watchers, retry, owed, crash>>

CallStep(k) == GiveUp(k) \/ SendRequest(k) \/ RequestTimesOut(k)

-----------------------------------------------------------------------------
(* The subscription's callback.                                            *)

(* The callback returns and closes its responseChan.  Its response reaches *)
(* the call if the call still waits for it: a NAK takes the retry back and *)
(* goes round the loop.                                                    *)
Respond(c, outcome) ==
    LET k == callback[c].call IN
    /\ watcher' = [watcher EXCEPT ![c] =
                     IF @ # "current" THEN @ ELSE IF outcome = "nak" THEN "stale" ELSE "free"]
    /\ callback' = [IF callback[c].live THEN CallbackStale({k}) ELSE callback
                      EXCEPT ![c] = Idle]
    /\ IF callback[c].live
         THEN /\ call' = [call EXCEPT ![k] = IF outcome = "nak" THEN "looping" ELSE "answered"]
              /\ retry' = [retry EXCEPT ![k] = IF outcome = "nak" THEN @ - 1 ELSE @]
              /\ pending' = PendingStale({k})
         ELSE UNCHANGED <<call, retry, pending>>

(* Mutant of TakeRequest: an id that has a late watcher is not subscribed. *)
TakeRequestOnce(c) ==
    LET m == Head(pending[c]) IN
    /\ Alive(c)
    /\ ~Busy(c)
    /\ pending[c] # <<>>
    /\ pending' = [pending EXCEPT ![c] = Tail(@)]
    /\ callback' = [callback EXCEPT ![c] =
                      [at |-> "subscribed", call |-> m.call, live |-> m.live]]
    /\ subscribers' = [subscribers EXCEPT ![c] = IF watcher[c] = "stale" THEN @ ELSE @ \union {m.call}]
    /\ UNCHANGED <<handler, place, sessions, subscribed, watcher, calls, owed, crash>>

(* Unmarshal and Subscribe at the session's watcher.                       *)
TakeRequest(c) ==
    LET m == Head(pending[c]) IN
    /\ Alive(c)
    /\ ~Busy(c)
    /\ pending[c] # <<>>
    /\ pending' = [pending EXCEPT ![c] = Tail(@)]
    /\ callback' = [callback EXCEPT ![c] =
                      [at |-> "subscribed", call |-> m.call, live |-> m.live]]
    /\ subscribers' = [subscribers EXCEPT ![c] = @ \union {m.call}]
    /\ UNCHANGED <<handler, place, sessions, subscribed, watcher, calls, owed, crash>>

CheckOpen(c) ==
    /\ Alive(c)
    /\ callback[c].at = "subscribed"
    /\ IF c \in open
         THEN /\ callback' = [callback EXCEPT ![c].at = "sending"]
              /\ UNCHANGED <<pending, calls, watcher>>
         ELSE Respond(c, "nak")
    /\ UNCHANGED <<handler, place, sessions, subscribed, subscribers, owed, crash>>

(* inbound <- call, without a timeout; the pump writes it to the device.   *)
SendInbound(c) ==
    LET k == callback[c].call IN
    /\ Alive(c)
    /\ callback[c].at = "sending"
    /\ c \in open /\ c \in pumping
    /\ callback' = [callback EXCEPT ![c].at = "waiting"]
    /\ owed' = [owed EXCEPT ![k] = IF @ < MaxOwed THEN @ + 1 ELSE @]
    /\ UNCHANGED <<handler, place, sessions, subscribed, pending, watchers, calls, crash>>

(* The callback's goroutine is not gin's: nothing recovers the panic.      *)
SendInboundPanics(c) ==
    /\ Alive(c)
    /\ callback[c].at = "sending"
    /\ c \notin open
    /\ Crash(place[c], "sendAfterClose")

(* The context's end: that of the connection, or 30 seconds.  The timer    *)
(* starts after the request's own, which is no longer.                     *)
CallbackTimesOut(c) ==
    /\ Alive(c)
    /\ callback[c].at = "waiting"
    /\ handler[c] = "ended" \/ ~callback[c].live
    /\ Respond(c, "nak")
    /\ UNCHANGED <<handler, place, sessions, subscribed, subscribers, owed, crash>>

-----------------------------------------------------------------------------
(* The device answers a call it was sent, over any connection it has; the  *)
(* answer goes to the session that instance has for it.                    *)
DeviceAnswers(k, c) ==
    LET s == registered[place[c]]
        heard == s # NoConn /\ s \in open /\ k \in subscribers[s] IN
    /\ Alive(c)
    /\ handler[c] = "serving"
    /\ owed[k] > 0
    /\ heard => watcher[s] = "free"
    /\ owed' = [owed EXCEPT ![k] = @ - 1]
    /\ IF heard
         THEN /\ subscribers' = [subscribers EXCEPT ![s] = @ \ {k}]
              /\ watcher' = [watcher EXCEPT ![s] =
                             IF callback[s].call = k THEN "current" ELSE "stale"]
         ELSE UNCHANGED watchers
    /\ UNCHANGED <<handler, place, sessions, nats, calls, crash>>

(* The subscriber sends the answer on the callback's responseChan ...      *)
Answer(c) ==
    /\ Alive(c)
    /\ watcher[c] = "current"
    /\ callback[c].at = "waiting"
    /\ Respond(c, "answer")
    /\ UNCHANGED <<handler, place, sessions, subscribed, subscribers, owed, crash>>

(* ... which is closed when the callback has returned.                     *)
AnswerPanics(c) ==
    /\ Alive(c)
    /\ watcher[c] = "stale"
    /\ Crash(place[c], "lateAnswer")

CallbackStep(c) ==
    \/ TakeRequest(c) \/ CheckOpen(c) \/ SendInbound(c) \/ SendInboundPanics(c)
    \/ CallbackTimesOut(c) \/ Answer(c) \/ AnswerPanics(c)

HandlerStep(c) ==
    SubscribeNats(c) \/ Unsubscribe(c) \/ CloseSession(c) \/ PumpEnds(c)

-----------------------------------------------------------------------------
Next ==
    \/ \E c \in Conns : StoreSession(c) \/ TakeSession(c) \/ HandlerStep(c) \/ CallbackStep(c)
    \/ \E k \in Calls : StartCall(k) \/ CallStep(k) \/ RequestFails(k)
    \/ \E k \in Calls, c \in Conns : DeviceAnswers(k, c)

(* Goroutines that can run do, and timers fire.                            *)
Fairness ==
    /\ \A c \in Conns : WF_vars(HandlerStep(c)) /\ WF_vars(CallbackStep(c))
    /\ \A k \in Calls : WF_vars(CallStep(k))

Spec == Init /\ [][Next]_vars /\ Fairness

-----------------------------------------------------------------------------
TypeOK ==
    /\ handler \in [Conns -> {"new", "subscribing", "serving", "unsubscribing",
                              "closing", "ended"}]
    /\ place \in [Conns -> Instances]
    /\ registered \in [Instances -> Conns \union {NoConn}]
    /\ victim \in [Conns -> Conns \union {NoConn}]
    /\ open \subseteq Conns /\ pumping \subseteq Conns /\ subscribed \subseteq Conns
    /\ pending \in [Conns -> Seq([call : Calls, live : BOOLEAN])]
    /\ callback \in [Conns -> [at : {"idle", "subscribed", "sending", "waiting"},
                               call : Calls \union {NoCall}, live : BOOLEAN]]
    /\ \A c \in Conns : Busy(c) => callback[c].call \in Calls
    /\ subscribers \in [Conns -> SUBSET Calls]
    /\ watcher \in [Conns -> {"free", "current", "stale"}]
    /\ call \in [Calls -> {"new", "looping", "requesting", "answered", "failed", "local"}]
    /\ retry \in [Calls -> 0 .. MaxRetries + 1]
    /\ owed \in [Calls -> 0 .. MaxOwed]
    /\ crash \in [Instances -> {"none", "sendAfterClose", "lateAnswer"}]

(* A subscription that refuses every call, because its session is closed,  *)
(* needs two connections of the device on one instance: the earlier one's  *)
(* disconnect took the later session before that had its subscription.     *)
(* Every other disconnect ends the subscription before the session closes. *)
Refusing(c) == c \in subscribed /\ handler[c] # "subscribing" /\ c \notin open

RefusesAfterOverlap ==
    \A c \in Conns : Refusing(c) => \E b \in Conns \ {c} : victim[b] = c

(* A call that has been answered is given to the device once more only if  *)
(* the device had a second connection: with one, the request that was      *)
(* answered is the last in the subscription, behind all earlier copies.    *)
Sends(c) == callback[c].at = "sending" /\ callback'[c].at = "waiting"

AnsweredRunsNoMore ==
    [][\A c \in Conns : Sends(c) /\ call[callback[c].call] = "answered" =>
         \E b \in Conns \ {c} : handler[b] # "new"]_vars

(* A callback that waits for the device has its subscriber in the watcher, *)
(* or the watcher is in it: a late answer to an earlier copy of the same   *)
(* call, which uses the same id, never leaves the later one unheard.       *)
CallbackIsHeard ==
    \A c \in Conns : callback[c].at = "waiting" =>
        callback[c].call \in subscribers[c] \/ watcher[c] = "current"

(* Every call over NATS returns - answered, or failed after its retries -  *)
(* unless its instance dies or a subscription refuses it for ever: a NAK   *)
(* is not counted and the next request meets the same subscription.        *)
CallEnds ==
    \A k \in Calls : call[k] = "looping" ~>
        \/ Returned(k) \/ ~Calling(k)
        \/ \E c \in Conns : Refusing(c)

(* A callback ends, and with it the queue behind it moves, unless its      *)
(* session was orphaned: its connection ended after a later one had        *)
(* replaced it, and nothing receives or closes the channel it sends on.    *)
Orphaned(c) == handler[c] = "ended" /\ \A b \in Conns : victim[b] # c

CallbackEnds ==
    \A c \in Conns : Busy(c) ~> (~Busy(c) \/ ~Alive(c) \/ Orphaned(c))
=============================================================================
