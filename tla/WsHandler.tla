----------------------------- MODULE WsHandler ------------------------------
(***************************************************************************)
(* The websocket endpoint: internal/websocket/{ws,writer}.go.              *)
(*                                                                         *)
(* CreateHandler makes one WSHandler for all requests.  Every request      *)
(* upgrades, stores its connection in the shared field h.conn, and from    *)
(* then on reads, writes and closes whatever h.conn is at that moment.     *)
(* The field is unsynchronised; a goroutine may see it as it is.           *)
(*                                                                         *)
(* A connection is named by its request, and each is of another device:    *)
(* "message of s handled by c" means it is taken for one of c's device.    *)
(***************************************************************************)
EXTENDS Naturals, Sequences, SequencesExt

CONSTANTS
    Conns,      \* requests that upgrade
    MaxSent,    \* bound: messages a device sends over a connection
    MaxCalls,   \* bound: calls written for a device's connection
    NoConn

ASSUME ConnsAssumption == NoConn \notin Conns
ASSUME BoundAssumption == {MaxSent, MaxCalls} \subseteq Nat

VARIABLES
    current,   \* h.conn
    handler,   \* where each request's goroutine is
    reading,   \* the connection its ReadMessage has been called on
    open,      \* connections neither side has closed
    inbox,     \* messages of a device that nobody has read
    sent,      \* how many it has sent
    outbox,    \* messages in the channel of each request's writer
    called,    \* how many were put there
    writing,   \* requests whose writer goroutine is running
    handled,   \* <<s, c>>: a message that came over s was handled by c
    written,   \* <<c, s>>: a message for the device of c was written to s
    upgrades   \* history: the connections in the order h.conn took them

devices == <<inbox, sent>>
writers == <<outbox, called, writing, written>>
vars == <<current, handler, reading, open, devices, writers, handled, upgrades>>

Upgraded(c) == handler[c] # "new"
Registered(c) == handler[c] \in {"connected", "looping", "reading", "ending"}

Init ==
    /\ current = NoConn
    /\ handler = [c \in Conns |-> "new"]
    /\ reading = [c \in Conns |-> NoConn]
    /\ open = {}
    /\ inbox = [c \in Conns |-> 0] /\ sent = [c \in Conns |-> 0]
    /\ outbox = [c \in Conns |-> 0] /\ called = [c \in Conns |-> 0]
    /\ writing = {}
    /\ handled = {} /\ written = {}
    /\ upgrades = <<>>

(* Mutant of Upgrade: h.conn is set by the first request only.             *)
UpgradeKeepsFirst(c) ==
    /\ handler[c] = "new"
    /\ handler' = [handler EXCEPT ![c] = "upgraded"]
    /\ current' = IF current = NoConn THEN c ELSE current
    /\ open' = open \union {c}
    /\ upgrades' = Append(upgrades, c)
    /\ UNCHANGED <<reading, devices, writers, handled>>

Upgrade(c) ==
    /\ handler[c] = "new"
    /\ handler' = [handler EXCEPT ![c] = "upgraded"]
    /\ current' = c
    /\ open' = open \union {c}
    /\ upgrades' = Append(upgrades, c)
    /\ UNCHANGED <<reading, devices, writers, handled>>

(* OnConnect registers the device; the writer goroutine starts.            *)
Connect(c) ==
    /\ handler[c] = "upgraded"
    /\ handler' = [handler EXCEPT ![c] = "connected"]
    /\ writing' = writing \union {c}
    /\ UNCHANGED <<current, reading, open, devices, outbox, called, written, handled, upgrades>>

(* The first ping; a closed connection refuses it, one that only the       *)
(* device has closed may.                                                  *)
Ping(c) ==
    /\ handler[c] = "connected"
    /\ \/ handler' = [handler EXCEPT ![c] = "looping"]
       \/ /\ current \notin open
          /\ handler' = [handler EXCEPT ![c] = "ending"]
    /\ UNCHANGED <<current, reading, open, devices, writers, handled, upgrades>>

BeginRead(c) ==
    /\ handler[c] = "looping"
    /\ handler' = [handler EXCEPT ![c] = "reading"]
    /\ reading' = [reading EXCEPT ![c] = current]
    /\ UNCHANGED <<current, open, devices, writers, handled, upgrades>>

(* ReadMessage returns a message; "go OnMessage" handles it for c.         *)
ReadMessage(c) ==
    LET s == reading[c] IN
    /\ handler[c] = "reading"
    /\ inbox[s] > 0
    /\ inbox' = [inbox EXCEPT ![s] = @ - 1]
    /\ handled' = handled \union {<<s, c>>}
    /\ handler' = [handler EXCEPT ![c] = "looping"]
    /\ reading' = [reading EXCEPT ![c] = NoConn]
    /\ UNCHANGED <<current, open, sent, writers, upgrades>>

(* Mutant of ReadFails: the loop goes on after an error.                   *)
ReadRetries(c) ==
    /\ handler[c] = "reading"
    /\ handler' = [handler EXCEPT ![c] = "looping"]
    /\ reading' = [reading EXCEPT ![c] = NoConn]
    /\ UNCHANGED <<current, open, devices, writers, handled, upgrades>>

(* An error: the connection is closed, or its read deadline has passed (60 *)
(* s after a pong, whichever connection h.conn was when that came).        *)
ReadFails(c) ==
    /\ handler[c] = "reading"
    /\ handler' = [handler EXCEPT ![c] = "ending"]
    /\ reading' = [reading EXCEPT ![c] = NoConn]
    /\ UNCHANGED <<current, open, devices, writers, handled, upgrades>>

(* The deferred function: OnDisconnect, then h.conn.Close.                 *)
Disconnect(c) ==
    /\ handler[c] = "ending"
    /\ handler' = [handler EXCEPT ![c] = "closing"]
    /\ UNCHANGED <<current, reading, open, devices, writers, handled, upgrades>>

(* Mutant of Close: a missing Close.                                       *)
LeaveOpen(c) ==
    /\ handler[c] = "closing"
    /\ handler' = [handler EXCEPT ![c] = "ended"]
    /\ UNCHANGED <<current, reading, open, devices, writers, handled, upgrades>>

Close(c) ==
    /\ handler[c] = "closing"
    /\ handler' = [handler EXCEPT ![c] = "ended"]
    /\ open' = open \ {current}
    /\ UNCHANGED <<current, reading, devices, writers, handled, upgrades>>

(* The writer goroutine, until its request has ended or a write fails.     *)
WriteMessage(c) ==
    /\ c \in writing
    /\ outbox[c] > 0
    /\ outbox' = [outbox EXCEPT ![c] = @ - 1]
    /\ \/ written' = written \union {<<c, current>>} /\ UNCHANGED writing
       \/ current \notin open /\ writing' = writing \ {c} /\ UNCHANGED written
    /\ UNCHANGED <<current, handler, reading, open, devices, called, handled, upgrades>>

WriterEnds(c) ==
    /\ c \in writing
    /\ handler[c] = "ended"
    /\ writing' = writing \ {c}
    /\ UNCHANGED <<current, handler, reading, open, devices, outbox, called, written,
                   handled, upgrades>>

-----------------------------------------------------------------------------
(* Around the endpoint: devices, and RPCWebsocket handing calls to the     *)
(* writer of a registered connection.                                      *)

DeviceSends(s) ==
    /\ s \in open
    /\ sent[s] < MaxSent
    /\ sent' = [sent EXCEPT ![s] = @ + 1]
    /\ inbox' = [inbox EXCEPT ![s] = @ + 1]
    /\ UNCHANGED <<current, handler, reading, open, writers, handled, upgrades>>

DeviceCloses(s) ==
    /\ s \in open
    /\ open' = open \ {s}
    /\ UNCHANGED <<current, handler, reading, devices, writers, handled, upgrades>>

CallDevice(c) ==
    /\ Registered(c)
    /\ called[c] < MaxCalls
    /\ called' = [called EXCEPT ![c] = @ + 1]
    /\ outbox' = [outbox EXCEPT ![c] = @ + 1]
    /\ UNCHANGED <<current, handler, reading, open, devices, writing, written, handled,
                   upgrades>>

-----------------------------------------------------------------------------
Serve(c) ==
    Connect(c) \/ Ping(c) \/ BeginRead(c) \/ ReadMessage(c) \/ Disconnect(c) \/ Close(c)

Next == \E c \in Conns :
    \/ Upgrade(c) \/ Serve(c) \/ ReadFails(c) \/ WriteMessage(c) \/ WriterEnds(c)
    \/ DeviceSends(c) \/ DeviceCloses(c) \/ CallDevice(c)

(* Goroutines run; a read on a closed connection returns.                  *)
Fairness == \A c \in Conns :
    /\ WF_vars(Serve(c))
    /\ WF_vars(reading[c] \notin open /\ ReadFails(c))

Spec == Init /\ [][Next]_vars /\ Fairness

-----------------------------------------------------------------------------
TypeOK ==
    /\ current \in Conns \union {NoConn}
    /\ handler \in [Conns -> {"new", "upgraded", "connected", "looping", "reading",
                              "ending", "closing", "ended"}]
    /\ reading \in [Conns -> Conns \union {NoConn}]
    /\ \A c \in Conns : reading[c] # NoConn <=> handler[c] = "reading"
    /\ open \subseteq Conns /\ writing \subseteq Conns
    /\ inbox \in [Conns -> 0..MaxSent] /\ sent \in [Conns -> 0..MaxSent]
    /\ outbox \in [Conns -> 0..MaxCalls] /\ called \in [Conns -> 0..MaxCalls]
    /\ handled \subseteq Conns \X Conns /\ written \subseteq Conns \X Conns
    /\ upgrades \in Seq(Conns)

(* A request serves its own connection until another upgrades, and from    *)
(* then on only connections that upgraded after it: it never falls back to *)
(* an older device's.                                                      *)
NotOlder(c, s) == \E i, j \in DOMAIN upgrades :
                     i <= j /\ upgrades[i] = c /\ upgrades[j] = s

OnlyNewerConnections ==
    /\ \A c \in Conns : handler[c] = "reading" => NotOlder(c, reading[c])
    /\ \A p \in handled : NotOlder(p[2], p[1])
    /\ \A p \in written : NotOlder(p[1], p[2])

(* When no request is being served any more, the newest connection has     *)
(* been closed, though older ones may have been left open.                 *)
NewestIsClosed ==
    (\A c \in Conns : handler[c] \in {"new", "ended"}) => current \notin open

(* Once all devices have gone away every request ends, also those that     *)
(* read another's connection: none is left behind with its device          *)
(* registered.                                                             *)
RequestsEnd ==
    ((\A c \in Conns : Upgraded(c)) /\ open = {}) ~> (\A c \in Conns : handler[c] = "ended")

(* On the instance that holds a device's websocket, a call for the device  *)
(* is written to that websocket.                                           *)
CallsReachTheirDevice == \A p \in written : p[1] = p[2]
=============================================================================
