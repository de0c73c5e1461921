----------------------------- MODULE AthenaRpc ------------------------------
(***************************************************************************)
(* Remote procedure calls to devices over their websockets, on one         *)
(* instance without NATS: internal/server/websocket/{websocket,rpc}.go,    *)
(* internal/utils/channel_watcher.go.                                      *)
(*                                                                         *)
(* Every websocket connection of a device has a session: two unbuffered    *)
(* channels (inbound: calls to the device, outbound: its messages), an     *)
(* "open" flag, a pump goroutine that takes calls from inbound and writes  *)
(* them to the socket, and a watcher goroutine that takes messages from    *)
(* outbound and hands each to the subscriber of its id.  c.dongles maps a  *)
(* dongle to one session, whichever connection stored last.                *)
(*                                                                         *)
(* A session is named by its connection.  Call ids are fresh UUIDs, so a   *)
(* call is its own id.  A send on a closed channel panics: gin recovers it *)
(* in an HTTP handler (Call), nothing does in the other goroutines.        *)
(***************************************************************************)
EXTENDS FiniteSets

CONSTANTS
    Dongles,        \* devices
    Conns,          \* websocket connections
    ConnOf,         \* the device of each connection
    Calls,          \* HTTP requests that run Call
    CallOf,         \* the device each call is for
    ForwardLogs,    \* device-initiated calls by method; any other method
    StoreStats,     \*   returns after a warning
    MessageOf,      \* the device each device-initiated call comes from
    NoConn

DeviceCalls == ForwardLogs \union StoreStats
Messages    == Calls \union DeviceCalls

ASSUME ConnAssumption == ConnOf \in [Conns -> Dongles] /\ NoConn \notin Conns
ASSUME CallAssumption == CallOf \in [Calls -> Dongles]
ASSUME MessageAssumption ==
    /\ MessageOf \in [DeviceCalls -> Dongles]
    /\ Calls \intersect DeviceCalls = {}
    /\ ForwardLogs \intersect StoreStats = {}
ASSUME NameAssumption == Calls \intersect {"none", "receiving", "ended"} = {}

VARIABLES
    handler,     \* where each connection's handler goroutine is
    registered,  \* c.dongles
    open,        \* the open flag of each session
    inClosed, outClosed,   \* the sessions whose channels are closed
    victim,      \* the session each OnDisconnect has taken from c.dongles
    pump,        \* the pump of each session
    watcher,     \* each session's watcher: receiving, or the call whose
                 \* subscriber it is in
    subscribers, \* ids with a subscriber, per session
    call,        \* where each Call is
    via,         \* the session each Call has loaded
    message,     \* where the goroutine of each message from a device is
    target,      \* the session each message's goroutine has loaded
    crash        \* why the process has ended, if it has

sessions == <<open, inClosed, outClosed>>
workers  == <<pump, watcher, subscribers>>
requests == <<call, via, message, target>>
vars == <<handler, registered, victim, sessions, workers, requests, crash>>

Running == crash = "none"

Serving(c) == handler[c] = "serving"
Outcomes   == {"answered", "timeout", "notConnected", "panicked"}
Returned(k) == call[k] \in Outcomes
Delivered(k) == call[k] \in {"waiting", "answered", "timeout"}

Init ==
    /\ handler = [c \in Conns |-> "new"]
    /\ registered = [d \in Dongles |-> NoConn]
    /\ open = {} /\ inClosed = {} /\ outClosed = {}
    /\ victim = [c \in Conns |-> NoConn]
    /\ pump = [c \in Conns |-> "none"]
    /\ watcher = [c \in Conns |-> "none"]
    /\ subscribers = [c \in Conns |-> {}]
    /\ call = [k \in Calls |-> "new"]
    /\ message = [m \in Messages |-> "none"]
    /\ via = [k \in Calls |-> NoConn]
    /\ target = [m \in Messages |-> NoConn]
    /\ crash = "none"

-----------------------------------------------------------------------------
(* Connections.                                                            *)

(* OnConnect: the session replaces whatever the dongle had.                *)
OnConnect(c) ==
    /\ Running
    /\ handler[c] = "new"
    /\ handler' = [handler EXCEPT ![c] = "serving"]
    /\ open' = open \union {c}
    /\ pump' = [pump EXCEPT ![c] = "receiving"]
    /\ watcher' = [watcher EXCEPT ![c] = "receiving"]
    /\ registered' = [registered EXCEPT ![ConnOf[c]] = c]
    /\ UNCHANGED <<inClosed, outClosed, victim, subscribers, requests, crash>>

(* Mutant of TakeSession: Load without Delete.                             *)
TakeLeavesEntry(c) ==
    /\ Running
    /\ Serving(c)
    /\ victim' = [victim EXCEPT ![c] = registered[ConnOf[c]]]
    /\ handler' = [handler EXCEPT ![c] =
                     IF registered[ConnOf[c]] = NoConn THEN "ended" ELSE "closing"]
    /\ UNCHANGED <<registered, sessions, workers, requests, crash>>

(* The read loop has ended.  OnDisconnect takes the dongle's session out   *)
(* of the map: by dongle, so it may be that of a later connection.         *)
TakeSession(c) ==
    /\ Running
    /\ Serving(c)
    /\ victim' = [victim EXCEPT ![c] = registered[ConnOf[c]]]
    /\ registered' = [registered EXCEPT ![ConnOf[c]] = NoConn]
    /\ handler' = [handler EXCEPT ![c] =
                     IF registered[ConnOf[c]] = NoConn THEN "ended" ELSE "closing"]
    /\ UNCHANGED <<sessions, workers, requests, crash>>

ClearOpen(c) ==
    /\ Running
    /\ handler[c] = "closing"
    /\ open' = open \ {victim[c]}
    /\ handler' = [handler EXCEPT ![c] = "closeInbound"]
    /\ UNCHANGED <<registered, inClosed, outClosed, victim, workers, requests, crash>>

(* Mutant of CloseInbound: the calls' channel is left open.                *)
LeaveInboundOpen(c) ==
    /\ Running
    /\ handler[c] = "closeInbound"
    /\ handler' = [handler EXCEPT ![c] = "closeOutbound"]
    /\ UNCHANGED <<registered, sessions, victim, workers, requests, crash>>

CloseInbound(c) ==
    /\ Running
    /\ handler[c] = "closeInbound"
    /\ inClosed' = inClosed \union {victim[c]}
    /\ handler' = [handler EXCEPT ![c] = "closeOutbound"]
    /\ UNCHANGED <<registered, open, outClosed, victim, workers, requests, crash>>

CloseOutbound(c) ==
    /\ Running
    /\ handler[c] = "closeOutbound"
    /\ outClosed' = outClosed \union {victim[c]}
    /\ handler' = [handler EXCEPT ![c] = "ended"]
    /\ UNCHANGED <<registered, open, inClosed, victim, workers, requests, crash>>

OnDisconnect(c) == ClearOpen(c) \/ CloseInbound(c) \/ CloseOutbound(c)

(* The pump stops when its channel is closed, or when its connection's     *)
(* handler has returned and with it the request's context.                 *)
PumpEnds(c) ==
    /\ Running
    /\ pump[c] = "receiving"
    /\ c \in inClosed \/ handler[c] = "ended"
    /\ pump' = [pump EXCEPT ![c] = "ended"]
    /\ UNCHANGED <<handler, registered, victim, sessions, watcher, subscribers,
                   requests, crash>>

-----------------------------------------------------------------------------
(* Call.                                                                   *)

(* c.dongles.Load; without NATS a miss returns ErrNotConnected.            *)
LoadMisses(k) ==
    /\ Running
    /\ call[k] = "new"
    /\ registered[CallOf[k]] = NoConn
    /\ call' = [call EXCEPT ![k] = "notConnected"]
    /\ UNCHANGED <<handler, registered, victim, sessions, workers, message, target, via, crash>>

(* Mutant of LoadFinds: the session is loaded and deleted.                 *)
LoadDeletes(k) ==
    /\ Running
    /\ call[k] = "new"
    /\ registered[CallOf[k]] # NoConn
    /\ via' = [via EXCEPT ![k] = registered[CallOf[k]]]
    /\ registered' = [registered EXCEPT ![CallOf[k]] = NoConn]
    /\ call' = [call EXCEPT ![k] = "loaded"]
    /\ UNCHANGED <<handler, victim, sessions, workers, message, target, crash>>

LoadFinds(k) ==
    /\ Running
    /\ call[k] = "new"
    /\ registered[CallOf[k]] # NoConn
    /\ via' = [via EXCEPT ![k] = registered[CallOf[k]]]
    /\ call' = [call EXCEPT ![k] = "loaded"]
    /\ UNCHANGED <<handler, registered, victim, sessions, workers, message, target, crash>>

(* The flag is read without synchronisation; a stale "open" is what a read *)
(* right after the load gives.                                             *)
CheckOpen(k) ==
    /\ Running
    /\ call[k] = "loaded"
    /\ call' = [call EXCEPT ![k] = IF via[k] \in open THEN "subscribing" ELSE "notConnected"]
    /\ UNCHANGED <<handler, registered, victim, sessions, workers, message, target, via, crash>>

Subscribe(k) ==
    /\ Running
    /\ call[k] = "subscribing"
    /\ subscribers' = [subscribers EXCEPT ![via[k]] = @ \union {k}]
    /\ call' = [call EXCEPT ![k] = "sending"]
    /\ UNCHANGED <<handler, registered, victim, sessions, pump, watcher, message,
                   target, via, crash>>

(* inbound <- call meets the pump's receive; the pump writes the call to   *)
(* the socket and receives again.  There is no timeout before this.        *)
SendInbound(k) ==
    /\ Running
    /\ call[k] = "sending"
    /\ via[k] \notin inClosed
    /\ pump[via[k]] = "receiving"
    /\ call' = [call EXCEPT ![k] = "waiting"]
    /\ UNCHANGED <<handler, registered, victim, sessions, workers, message, target, via, crash>>

SendInboundPanics(k) ==
    /\ Running
    /\ call[k] = "sending"
    /\ via[k] \in inClosed
    /\ call' = [call EXCEPT ![k] = "panicked"]
    /\ UNCHANGED <<handler, registered, victim, sessions, workers, message, target, via, crash>>

(* 120 seconds without an answer; the deferred close closes responseChan.  *)
Timeout(k) ==
    /\ Running
    /\ call[k] = "waiting"
    /\ call' = [call EXCEPT ![k] = "timeout"]
    /\ UNCHANGED <<handler, registered, victim, sessions, workers, message, target, via, crash>>

CallStep(k) ==
    CheckOpen(k) \/ Subscribe(k) \/ SendInbound(k) \/ SendInboundPanics(k) \/ Timeout(k)

-----------------------------------------------------------------------------
(* Messages from devices, each in a goroutine of OnMessage.                *)

DongleOfMessage(m) == IF m \in Calls THEN CallOf[m] ELSE MessageOf[m]

(* The device answers a call it was sent, or makes a call of its own, over *)
(* any connection that is being served.                                    *)
DeviceSends(m, c) ==
    /\ Running
    /\ message[m] = "none"
    /\ Serving(c) /\ ConnOf[c] = DongleOfMessage(m)
    /\ m \in Calls => Delivered(m)
    /\ message' = [message EXCEPT ![m] = "arrived"]
    /\ UNCHANGED <<handler, registered, victim, sessions, workers, call, via, target, crash>>

(* The answer goes to the session its dongle has now, which need not be    *)
(* the one the call went through.                                          *)
LoadTarget(m) ==
    /\ Running
    /\ message[m] = "arrived"
    /\ target' = [target EXCEPT ![m] = registered[DongleOfMessage(m)]]
    /\ message' = [message EXCEPT ![m] =
          CASE target'[m] = NoConn -> "done"
            [] m \in ForwardLogs  -> "acknowledging"
            [] OTHER              -> "checking"]
    /\ UNCHANGED <<handler, registered, victim, sessions, workers, call, via, crash>>

(* Every kind of message ends with "if open, outbound <- ..."; forwardLogs *)
(* sends its result once before, without the test.                         *)
CheckTarget(m) ==
    /\ Running
    /\ message[m] = "checking"
    /\ message' = [message EXCEPT ![m] = IF target[m] \in open THEN "sending" ELSE "done"]
    /\ UNCHANGED <<handler, registered, victim, sessions, workers, call, via, target, crash>>

Sending(m) == message[m] \in {"acknowledging", "sending"}

(* Mutant of SendOutbound: the watcher looks the subscriber up and leaves  *)
(* it without a call.                                                      *)
SendOutboundUnheard(m) ==
    LET c == target[m] IN
    /\ Running
    /\ Sending(m)
    /\ c \notin outClosed
    /\ watcher[c] = "receiving"
    /\ message' = [message EXCEPT ![m] = IF @ = "sending" THEN "done" ELSE "checking"]
    /\ subscribers' = [subscribers EXCEPT ![c] = @ \ {m}]
    /\ UNCHANGED <<handler, registered, victim, sessions, pump, watcher, call, via,
                   target, crash>>

(* outbound <- response meets the watcher's receive, which takes the       *)
(* subscriber of that id out of its map and calls it, if there is one.     *)
SendOutbound(m) ==
    LET c == target[m] IN
    /\ Running
    /\ Sending(m)
    /\ c \notin outClosed
    /\ watcher[c] = "receiving"
    /\ message' = [message EXCEPT ![m] = IF @ = "sending" THEN "done" ELSE "checking"]
    /\ subscribers' = [subscribers EXCEPT ![c] = @ \ {m}]
    /\ watcher' = [watcher EXCEPT ![c] = IF m \in subscribers[c] THEN m ELSE @]
    /\ UNCHANGED <<handler, registered, victim, sessions, pump, call, via, target, crash>>

SendOutboundPanics(m) ==
    /\ Running
    /\ Sending(m)
    /\ target[m] \in outClosed
    /\ crash' = "sendAfterClose"
    /\ UNCHANGED <<handler, registered, victim, sessions, workers, requests>>

MessageStep(m) ==
    LoadTarget(m) \/ CheckTarget(m) \/ SendOutbound(m) \/ SendOutboundPanics(m)

(* The subscriber sends on the call's responseChan ...                     *)
Answer(c) ==
    /\ Running
    /\ watcher[c] \in Calls
    /\ call[watcher[c]] = "waiting"
    /\ call' = [call EXCEPT ![watcher[c]] = "answered"]
    /\ watcher' = [watcher EXCEPT ![c] = "receiving"]
    /\ UNCHANGED <<handler, registered, victim, sessions, pump, subscribers, via,
                   message, target, crash>>

(* ... which Call closed when it returned, so a late answer is fatal.      *)
AnswerPanics(c) ==
    /\ Running
    /\ watcher[c] \in Calls
    /\ Returned(watcher[c])
    /\ crash' = "lateAnswer"
    /\ UNCHANGED <<handler, registered, victim, sessions, workers, requests>>

WatcherEnds(c) ==
    /\ Running
    /\ watcher[c] = "receiving"
    /\ c \in outClosed
    /\ watcher' = [watcher EXCEPT ![c] = "ended"]
    /\ UNCHANGED <<handler, registered, victim, sessions, pump, subscribers,
                   requests, crash>>

-----------------------------------------------------------------------------
ConnStep(c) ==
    OnDisconnect(c) \/ PumpEnds(c) \/ Answer(c) \/ AnswerPanics(c) \/ WatcherEnds(c)

Next ==
    \/ \E c \in Conns : OnConnect(c) \/ TakeSession(c) \/ ConnStep(c)
    \/ \E k \in Calls : LoadMisses(k) \/ LoadFinds(k) \/ CallStep(k)
    \/ \E m \in Messages : MessageStep(m) \/ \E c \in Conns : DeviceSends(m, c)

(* Goroutines that can run do, and timers fire.  Connections, the end of a *)
(* connection, requests and what devices send are up to the outside.       *)
Fairness ==
    /\ \A c \in Conns : WF_vars(ConnStep(c))
    /\ \A k \in Calls : WF_vars(CallStep(k))
    /\ \A m \in Messages : WF_vars(MessageStep(m))

Spec == Init /\ [][Next]_vars /\ Fairness

-----------------------------------------------------------------------------
TypeOK ==
    /\ handler \in [Conns -> {"new", "serving", "closing", "closeInbound",
                              "closeOutbound", "ended"}]
    /\ registered \in [Dongles -> Conns \union {NoConn}]
    /\ victim \in [Conns -> Conns \union {NoConn}]
    /\ open \subseteq Conns /\ inClosed \subseteq Conns /\ outClosed \subseteq Conns
    /\ pump \in [Conns -> {"none", "receiving", "ended"}]
    /\ watcher \in [Conns -> {"none", "receiving", "ended"} \union Calls]
    /\ subscribers \in [Conns -> SUBSET Calls]
    /\ call \in [Calls -> {"new", "loaded", "subscribing", "sending", "waiting"}
                          \union Outcomes]
    /\ via \in [Calls -> Conns \union {NoConn}]
    /\ \A k \in Calls : via[k] = NoConn => call[k] \in {"new", "notConnected"}
    /\ message \in [Messages -> {"none", "arrived", "acknowledging", "checking",
                                 "sending", "done"}]
    /\ target \in [Messages -> Conns \union {NoConn}]
    /\ crash \in {"none", "sendAfterClose", "lateAnswer"}

(* c.dongles never holds a session that is marked closed or has a closed   *)
(* channel, however connects and disconnects of a dongle overlap: a Call   *)
(* that finds a session finds one that was open when it looked.            *)
RegisteredIsOpen ==
    \A d \in Dongles : registered[d] # NoConn =>
        /\ registered[d] \in open
        /\ registered[d] \notin inClosed \union outClosed

(* No session is closed by two OnDisconnects: closing a channel twice      *)
(* panics in the handler.                                                  *)
ClosedOnce ==
    \A b, c \in Conns : victim[b] = victim[c] /\ victim[b] # NoConn => b = c

(* A call that waits has its subscriber in its session's watcher, or the   *)
(* watcher is about to give it the answer: no answer that the watcher      *)
(* takes is lost to a call that still waits for it.                        *)
WaitingIsHeard ==
    \A k \in Calls : call[k] = "waiting" =>
        k \in subscribers[via[k]] \/ watcher[via[k]] = k

(* A watcher that brings the server down with a late answer needs a call   *)
(* that timed out: an answered or a panicked call, or a disconnect between *)
(* the steps of one, never leaves a subscriber that an answer can reach.   *)
LateAnswerNeedsTimeout ==
    crash = "lateAnswer" => \E k \in Calls : call[k] = "timeout"

(* Every Call that found its device returns - an answer, a timeout, "not   *)
(* connected" or a recovered panic - unless its session was orphaned: its  *)
(* connection ended after a later one had replaced it in c.dongles, so no  *)
(* OnDisconnect closes the channel that the call sends on for ever.        *)
Orphaned(c) == handler[c] = "ended" /\ \A b \in Conns : victim[b] # c

CallReturns ==
    \A k \in Calls : call[k] = "loaded" ~>
        (Returned(k) \/ ~Running \/ \E c \in Conns : via[k] = c /\ Orphaned(c))

(* A call for a device whose websocket is being served is refused with     *)
(* "not connected" only after another connection of the device has ended:  *)
(* its late OnDisconnect took the session of the connection that replaced  *)
(* it.                                                                     *)
Leaving(b) == handler[b] \notin {"new", "serving"}

MissNeedsLateDisconnect ==
    \A c \in Conns : Serving(c) /\ registered[ConnOf[c]] = NoConn =>
        \E b \in Conns : b # c /\ ConnOf[b] = ConnOf[c] /\ Leaving(b)
=============================================================================
