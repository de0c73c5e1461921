-------------------------- MODULE WsHandlerProofs ---------------------------
(***************************************************************************)
(* Proofs about WsHandler for any number of requests, and of messages and  *)
(* calls on their connections.                                             *)
(***************************************************************************)
EXTENDS WsHandler, SequenceTheorems, TLAPS

USE ConnsAssumption, BoundAssumption

LEMMA UpgradesGrow ==
    ASSUME NEW s \in Seq(Conns), NEW c \in Conns
    PROVE  /\ Append(s, c) \in Seq(Conns)
           /\ DOMAIN Append(s, c) = DOMAIN s \union {Len(s) + 1}
           /\ Len(s) + 1 \notin DOMAIN s
           /\ \A i \in DOMAIN s : Append(s, c)[i] = s[i] /\ i <= Len(s) + 1
           /\ Append(s, c)[Len(s) + 1] = c
           /\ Len(Append(s, c)) = Len(s) + 1
OBVIOUS

(* h.conn is the connection that upgraded last, every request past its     *)
(* upgrade has one, and it has not ended while h.conn is open.             *)
CurrentInv ==
    /\ current = IF upgrades = <<>> THEN NoConn ELSE upgrades[Len(upgrades)]
    /\ \A c \in Conns : Upgraded(c) <=> \E i \in DOMAIN upgrades : upgrades[i] = c
    /\ writing \subseteq {c \in Conns : Upgraded(c)}
    /\ current \in open => handler[current] # "ended"

(* What a device has sent covers what waits to be read, and what was       *)
(* called covers what waits to be written.                                 *)
Counted == \A c \in Conns : inbox[c] <= sent[c] /\ outbox[c] <= called[c]

Inv == TypeOK /\ Counted /\ CurrentInv /\ OnlyNewerConnections

(* A channel c that takes or gives up an item.                             *)
LEMMA Takes ==
    ASSUME NEW N \in Nat, NEW f \in [Conns -> 0..N], NEW g \in [Conns -> 0..N],
           NEW c \in Conns, \A b \in Conns : f[b] <= g[b], g[c] < N
    PROVE  LET f1 == [f EXCEPT ![c] = f[c] + 1]
               g1 == [g EXCEPT ![c] = g[c] + 1] IN
           /\ f1 \in [Conns -> 0..N] /\ g1 \in [Conns -> 0..N]
           /\ \A b \in Conns : f1[b] <= g1[b]
<1>1. f[c] + 1 \in 0..N /\ g[c] + 1 \in 0..N /\ f[c] + 1 <= g[c] + 1
  OBVIOUS
<1> QED BY <1>1

LEMMA Gives ==
    ASSUME NEW N \in Nat, NEW f \in [Conns -> 0..N], NEW g \in [Conns -> 0..N],
           NEW c \in Conns, \A b \in Conns : f[b] <= g[b], f[c] > 0
    PROVE  LET f1 == [f EXCEPT ![c] = f[c] - 1] IN
           f1 \in [Conns -> 0..N] /\ \A b \in Conns : f1[b] <= g[b]
<1>1. f[c] - 1 \in 0..N /\ f[c] - 1 <= g[c]
  OBVIOUS
<1> QED BY <1>1

LEMMA Channels ==
    ASSUME TypeOK, Counted
    PROVE  /\ MaxSent \in Nat /\ inbox \in [Conns -> 0..MaxSent] /\ sent \in [Conns -> 0..MaxSent]
           /\ MaxCalls \in Nat /\ outbox \in [Conns -> 0..MaxCalls]
           /\ called \in [Conns -> 0..MaxCalls]
           /\ \A b \in Conns : inbox[b] <= sent[b] /\ outbox[b] <= called[b]
BY DEF TypeOK, Counted

LEMMA InitInv == Init => Inv
BY DEF Init, Inv, TypeOK, Counted, CurrentInv, OnlyNewerConnections, Upgraded, NotOlder

LEMMA CurrentIsNewest ==
    ASSUME TypeOK, CurrentInv, NEW c \in Conns, Upgraded(c)
    PROVE  current \in Conns /\ Upgraded(current) /\ NotOlder(c, current)
<1>1. PICK i \in DOMAIN upgrades : upgrades[i] = c
  BY DEF CurrentInv
<1>2. /\ Len(upgrades) \in DOMAIN upgrades /\ i <= Len(upgrades)
      /\ upgrades # <<>> /\ upgrades[Len(upgrades)] \in Conns
  <2>1. upgrades \in Seq(Conns)
    BY DEF TypeOK
  <2> QED BY <1>1, <2>1
<1> QED BY <1>1, <1>2 DEF CurrentInv, NotOlder

LEMMA UpgradeInv ==
    ASSUME Inv, NEW c \in Conns, Upgrade(c)
    PROVE  Inv'
<1> USE DEF Inv, Upgrade, devices, writers
<1>1. /\ upgrades' \in Seq(Conns)
      /\ DOMAIN upgrades' = DOMAIN upgrades \union {Len(upgrades) + 1}
      /\ Len(upgrades) + 1 \notin DOMAIN upgrades
      /\ \A i \in DOMAIN upgrades : upgrades'[i] = upgrades[i] /\ i <= Len(upgrades) + 1
      /\ upgrades'[Len(upgrades) + 1] = c
      /\ Len(upgrades') = Len(upgrades) + 1
  BY UpgradesGrow DEF TypeOK
<1>2. TypeOK' /\ Counted'
  BY <1>1 DEF TypeOK, Counted
<1>3. CurrentInv'
  <2>1. current' = upgrades'[Len(upgrades')] /\ upgrades' # <<>>
    BY <1>1 DEF TypeOK
  <2>2. \A b \in Conns : Upgraded(b)' <=> Upgraded(b) \/ b = c
    BY DEF Upgraded, TypeOK
  <2>3. \A b \in Conns : (\E i \in DOMAIN upgrades' : upgrades'[i] = b)
                          <=> (\E i \in DOMAIN upgrades : upgrades[i] = b) \/ b = c
    BY <1>1
  <2>4. handler'[current'] # "ended"
    BY DEF TypeOK
  <2> QED BY <2>1, <2>2, <2>3, <2>4 DEF CurrentInv
<1>4. OnlyNewerConnections'
  <2>1. \A b, s \in Conns : NotOlder(b, s) => NotOlder(b, s)'
    BY <1>1 DEF NotOlder
  <2>2. \A b \in Conns : handler'[b] = "reading" => handler[b] = "reading"
    BY DEF TypeOK
  <2>3. \A b \in Conns : handler[b] = "reading" => reading[b] \in Conns
    BY DEF TypeOK
  <2> QED BY <2>1, <2>2, <2>3 DEF OnlyNewerConnections, TypeOK
<1> QED BY <1>2, <1>3, <1>4

(* The other steps leave the order of the upgrades alone.                  *)
LEMMA KeepsOrder ==
    ASSUME UNCHANGED upgrades, NEW c, NEW s, NotOlder(c, s)
    PROVE  NotOlder(c, s)'
BY DEF NotOlder

LEMMA RequestInv ==
    ASSUME Inv, NEW c \in Conns,
           Connect(c) \/ Ping(c) \/ BeginRead(c) \/ ReadFails(c) \/ Disconnect(c) \/ Close(c)
    PROVE  Inv'
<1>1. UNCHANGED <<inbox, sent, outbox, called, written, handled, current, upgrades>>
  BY DEF Connect, Ping, BeginRead, ReadFails, Disconnect, Close, devices, writers
<1>2. /\ Upgraded(c)
      /\ \A b \in Conns : Upgraded(b)' <=> Upgraded(b)
      /\ \A b \in Conns : handler'[b] = "ended" => handler[b] = "ended" \/ (b = c /\ Close(c))
  BY DEF Inv, TypeOK, Connect, Ping, BeginRead, ReadFails, Disconnect, Close, Upgraded
<1>3. TypeOK'
  <2>1. /\ open' \subseteq open /\ writing' \subseteq Conns
        /\ handler' \in [Conns -> {"new", "upgraded", "connected", "looping", "reading",
                                   "ending", "closing", "ended"}]
    BY DEF Inv, TypeOK, Connect, Ping, BeginRead, ReadFails, Disconnect, Close, writers
  <2>2. /\ reading' \in [Conns -> Conns \union {NoConn}]
        /\ \A b \in Conns : reading'[b] # NoConn <=> handler'[b] = "reading"
    <3>1. CASE BeginRead(c)
      <4>1. current \in Conns
        BY <1>2, CurrentIsNewest DEF Inv
      <4>2. /\ reading' = [reading EXCEPT ![c] = current]
            /\ handler' = [handler EXCEPT ![c] = "reading"]
        BY <3>1 DEF BeginRead
      <4> QED BY <4>1, <4>2 DEF Inv, TypeOK
    <3>2. CASE ReadFails(c)
      BY <3>2 DEF Inv, TypeOK, ReadFails
    <3>3. CASE Connect(c)
      BY <3>3 DEF Inv, TypeOK, Connect
    <3>4. CASE Ping(c)
      BY <3>4 DEF Inv, TypeOK, Ping
    <3>5. CASE Disconnect(c)
      BY <3>5 DEF Inv, TypeOK, Disconnect
    <3>6. CASE Close(c)
      BY <3>6 DEF Inv, TypeOK, Close
    <3> QED BY <3>1, <3>2, <3>3, <3>4, <3>5, <3>6
  <2> QED BY <1>1, <2>1, <2>2 DEF Inv, TypeOK
<1>4. Counted'
  BY <1>1 DEF Inv, Counted
<1>5. CurrentInv'
  <2>1. writing' \subseteq {b \in Conns : Upgraded(b)'}
    BY <1>2 DEF Inv, CurrentInv, Connect, Ping, BeginRead, ReadFails, Disconnect, Close, writers
  <2>2. current' \in open' => current \in open /\ ~Close(c)
    BY <1>1 DEF Connect, Ping, BeginRead, ReadFails, Disconnect, Close
  <2>3. current \in open => current \in Conns
    BY DEF Inv, TypeOK
  <2>4. current' \in open' => handler'[current'] # "ended"
    BY <1>1, <1>2, <2>2, <2>3 DEF Inv, CurrentInv
  <2> QED BY <1>1, <1>2, <2>1, <2>4 DEF Inv, CurrentInv
<1>6. OnlyNewerConnections'
  <2>1. ASSUME NEW b \in Conns, handler'[b] = "reading"
        PROVE  NotOlder(b, reading'[b])
    <3>1. CASE BeginRead(c) /\ b = c
      BY <1>2, <3>1, CurrentIsNewest DEF Inv, TypeOK, BeginRead
    <3>2. CASE ~(BeginRead(c) /\ b = c)
      <4>1. handler[b] = "reading" /\ reading'[b] = reading[b]
        <5>1. CASE BeginRead(c)
          BY <2>1, <3>2, <5>1 DEF Inv, TypeOK, BeginRead
        <5>2. CASE Connect(c) \/ Ping(c)
          BY <2>1, <5>2 DEF Inv, TypeOK, Connect, Ping
        <5>3. CASE ReadFails(c) \/ Disconnect(c) \/ Close(c)
          BY <2>1, <5>3 DEF Inv, TypeOK, ReadFails, Disconnect, Close
        <5> QED BY <5>1, <5>2, <5>3
      <4> QED BY <4>1 DEF Inv, OnlyNewerConnections
    <3> QED BY <3>1, <3>2
  <2> QED BY <1>1, <2>1 DEF Inv, OnlyNewerConnections, NotOlder
<1> QED BY <1>3, <1>4, <1>5, <1>6 DEF Inv

LEMMA ReadInv ==
    ASSUME Inv, NEW c \in Conns, ReadMessage(c)
    PROVE  Inv'
<1> DEFINE s == reading[c]
<1>1. s \in Conns /\ NotOlder(c, s)
  BY DEF Inv, TypeOK, OnlyNewerConnections, ReadMessage
<1>2. inbox' = [inbox EXCEPT ![s] = inbox[s] - 1] /\ inbox[s] \in Nat /\ inbox[s] > 0
  BY <1>1 DEF Inv, TypeOK, ReadMessage
<1>3. \A b \in Conns : Upgraded(b)' <=> Upgraded(b)
  BY DEF Inv, TypeOK, ReadMessage, Upgraded
<1>4. TypeOK' /\ Counted'
  <2>1. inbox' \in [Conns -> 0..MaxSent] /\ \A b \in Conns : inbox'[b] <= sent[b]
    BY <1>1, <1>2, Channels, Gives DEF Inv
  <2>2. handled' \subseteq Conns \X Conns
    BY <1>1 DEF Inv, TypeOK, ReadMessage
  <2>3. /\ handler' \in [Conns -> {"new", "upgraded", "connected", "looping", "reading",
                                   "ending", "closing", "ended"}]
        /\ reading' \in [Conns -> Conns \union {NoConn}]
        /\ \A b \in Conns : reading'[b] # NoConn <=> handler'[b] = "reading"
    <3>1. /\ handler' = [handler EXCEPT ![c] = "looping"]
          /\ reading' = [reading EXCEPT ![c] = NoConn]
      BY DEF ReadMessage
    <3> QED BY <3>1 DEF Inv, TypeOK
  <2>4. UNCHANGED <<current, open, sent, outbox, called, writing, written, upgrades>>
    BY DEF ReadMessage, writers
  <2>5. TypeOK'
    BY <2>1, <2>2, <2>3, <2>4 DEF Inv, TypeOK
  <2>6. Counted'
    BY <2>1, <2>4 DEF Inv, Counted
  <2> QED BY <2>5, <2>6
<1>5. CurrentInv'
  BY <1>3 DEF Inv, TypeOK, CurrentInv, ReadMessage, writers
<1>6. OnlyNewerConnections'
  <2>1. \A b \in Conns : handler'[b] = "reading" =>
           handler[b] = "reading" /\ reading'[b] = reading[b]
    BY DEF Inv, TypeOK, ReadMessage
  <2>2. UNCHANGED <<written, upgrades>> /\ handled' = handled \union {<<s, c>>}
    BY DEF ReadMessage, writers
  <2> QED BY <1>1, <2>1, <2>2 DEF Inv, OnlyNewerConnections, NotOlder
<1> QED BY <1>4, <1>5, <1>6 DEF Inv

LEMMA WriterInv ==
    ASSUME Inv, NEW c \in Conns, WriteMessage(c) \/ WriterEnds(c)
    PROVE  Inv'
<1>1. /\ UNCHANGED <<current, handler, reading, open, inbox, sent, called, handled, upgrades>>
      /\ writing' \subseteq writing
  BY DEF WriteMessage, WriterEnds, devices
<1>2. current \in Conns /\ NotOlder(c, current)
  <2>1. Upgraded(c)
    BY DEF Inv, CurrentInv, WriteMessage, WriterEnds
  <2> QED BY <2>1, CurrentIsNewest DEF Inv
<1>3. written' \subseteq written \union {<<c, current>>}
  BY DEF WriteMessage, WriterEnds
<1>4. outbox' \in [Conns -> 0..MaxCalls] /\ \A b \in Conns : outbox'[b] <= called[b]
  <2>1. CASE WriteMessage(c)
    <3>1. outbox' = [outbox EXCEPT ![c] = outbox[c] - 1] /\ outbox[c] > 0
      BY <2>1 DEF WriteMessage
    <3> QED BY <3>1, Channels, Gives DEF Inv
  <2>2. CASE WriterEnds(c)
    BY <2>2 DEF Inv, TypeOK, Counted, WriterEnds
  <2> QED BY <2>1, <2>2
<1>5. TypeOK' /\ Counted'
  <2>1. written' \subseteq Conns \X Conns
    BY <1>2, <1>3 DEF Inv, TypeOK
  <2>2. TypeOK'
    BY <1>1, <1>4, <2>1 DEF Inv, TypeOK
  <2>3. Counted'
    BY <1>1, <1>4 DEF Inv, Counted
  <2> QED BY <2>2, <2>3
<1>6. CurrentInv'
  BY <1>1 DEF Inv, CurrentInv, Upgraded
<1>7. OnlyNewerConnections'
  BY <1>1, <1>2, <1>3 DEF Inv, OnlyNewerConnections, NotOlder
<1> QED BY <1>5, <1>6, <1>7 DEF Inv

LEMMA OutsideInv ==
    ASSUME Inv, NEW c \in Conns, DeviceSends(c) \/ DeviceCloses(c) \/ CallDevice(c)
    PROVE  Inv'
<1>1. /\ UNCHANGED <<current, handler, reading, handled, upgrades, writing, written>>
      /\ open' \subseteq open
  BY DEF DeviceSends, DeviceCloses, CallDevice, writers
<1>2. /\ inbox' \in [Conns -> 0..MaxSent] /\ sent' \in [Conns -> 0..MaxSent]
      /\ \A b \in Conns : inbox'[b] <= sent'[b]
  <2>1. CASE DeviceSends(c)
    <3>1. /\ c \in Conns /\ sent[c] < MaxSent
          /\ sent' = [sent EXCEPT ![c] = sent[c] + 1]
          /\ inbox' = [inbox EXCEPT ![c] = inbox[c] + 1]
      BY <2>1 DEF DeviceSends
    <3> QED BY <3>1, Channels, Takes DEF Inv
  <2>2. CASE DeviceCloses(c) \/ CallDevice(c)
    BY <2>2 DEF Inv, TypeOK, Counted, DeviceCloses, CallDevice, devices
  <2> QED BY <2>1, <2>2
<1>3. /\ outbox' \in [Conns -> 0..MaxCalls] /\ called' \in [Conns -> 0..MaxCalls]
      /\ \A b \in Conns : outbox'[b] <= called'[b]
  <2>1. CASE CallDevice(c)
    <3>1. /\ called[c] < MaxCalls
          /\ called' = [called EXCEPT ![c] = called[c] + 1]
          /\ outbox' = [outbox EXCEPT ![c] = outbox[c] + 1]
      BY <2>1 DEF CallDevice
    <3> QED BY <3>1, Channels, Takes DEF Inv
  <2>2. CASE DeviceSends(c) \/ DeviceCloses(c)
    BY <2>2 DEF Inv, TypeOK, Counted, DeviceSends, DeviceCloses, writers
  <2> QED BY <2>1, <2>2
<1>4. TypeOK' /\ Counted'
  BY <1>1, <1>2, <1>3 DEF Inv, TypeOK, Counted
<1>5. CurrentInv'
  BY <1>1 DEF Inv, CurrentInv, Upgraded
<1>6. OnlyNewerConnections'
  BY <1>1 DEF Inv, OnlyNewerConnections, NotOlder
<1> QED BY <1>4, <1>5, <1>6 DEF Inv

LEMMA InvAlways == Spec => []Inv
<1>1. Inv /\ [Next]_vars => Inv'
  <2> SUFFICES ASSUME Inv, [Next]_vars PROVE Inv'
    OBVIOUS
  <2>1. CASE UNCHANGED vars
    <3>1. TypeOK'
      BY <2>1 DEF vars, devices, writers, Inv, TypeOK
    <3>2. Counted'
      BY <2>1 DEF vars, devices, writers, Inv, Counted
    <3>3. CurrentInv'
      BY <2>1 DEF vars, devices, writers, Inv, CurrentInv, Upgraded
    <3>4. OnlyNewerConnections'
      BY <2>1 DEF vars, devices, writers, Inv, OnlyNewerConnections, NotOlder
    <3> QED BY <3>1, <3>2, <3>3, <3>4 DEF Inv
  <2>2. ASSUME NEW c \in Conns, Serve(c) PROVE Inv'
    BY <2>2, RequestInv, ReadInv DEF Serve
  <2> QED BY <2>1, <2>2, UpgradeInv, RequestInv, WriterInv, OutsideInv DEF Next
<1> QED BY <1>1, InitInv, PTL DEF Spec

(* TypeOK: a read is always on a connection - h.conn is set before any     *)
(* request reads it - and channels hold no more than was put into them.    *)
THEOREM TypeCorrect == Spec => []TypeOK
<1>1. Inv => TypeOK
  BY DEF Inv
<1> QED BY <1>1, InvAlways, PTL

(* OnlyNewerConnections: the shared h.conn only moves on, so a request     *)
(* reads, handles and writes only its own connection or a later one's.     *)
THEOREM OnlyNewer == Spec => []OnlyNewerConnections
<1>1. Inv => OnlyNewerConnections
  BY DEF Inv
<1> QED BY <1>1, InvAlways, PTL

(* NewestIsClosed: the request that upgraded last closes h.conn when it    *)
(* ends, because nobody has replaced it.                                   *)
THEOREM NewestClosed == Spec => []NewestIsClosed
<1>1. Inv => NewestIsClosed
  <2> SUFFICES ASSUME Inv, current \in open PROVE ~(handler[current] \in {"new", "ended"})
    BY DEF Inv, TypeOK, NewestIsClosed
  <2>1. current \in Conns /\ handler[current] # "ended"
    BY DEF Inv, TypeOK, CurrentInv
  <2>2. Upgraded(current)
    <3>1. upgrades # <<>> /\ current = upgrades[Len(upgrades)]
      BY <2>1 DEF Inv, CurrentInv
    <3>2. Len(upgrades) \in DOMAIN upgrades
      BY <3>1 DEF Inv, TypeOK
    <3> QED BY <2>1, <3>1, <3>2 DEF Inv, CurrentInv
  <2> QED BY <2>1, <2>2 DEF Upgraded
<1> QED BY <1>1, InvAlways, PTL
=============================================================================
