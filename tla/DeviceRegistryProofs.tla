------------------------ MODULE DeviceRegistryProofs ------------------------
(***************************************************************************)
(* Theorems about DeviceRegistry, for any number of requests at a time,    *)
(* accounts and serials.                                                   *)
(***************************************************************************)
EXTENDS DeviceRegistry, TLAPS

-----------------------------------------------------------------------------
(* Sequences.                                                              *)

LEMMA AppendRow ==
    ASSUME NEW S, NEW s \in Seq(S), NEW x \in S
    PROVE  /\ Append(s, x) \in Seq(S)
           /\ DOMAIN Append(s, x) = DOMAIN s \union {Len(s) + 1}
           /\ Len(s) + 1 \notin DOMAIN s
           /\ \A i \in DOMAIN s : Append(s, x)[i] = s[i]
           /\ Append(s, x)[Len(s) + 1] = x
OBVIOUS

LEMMA NoRowZero == ASSUME NEW S, NEW s \in Seq(S) PROVE 0 \notin DOMAIN s
OBVIOUS

LEMMA WiderRows ==
    ASSUME NEW S, NEW T, S \subseteq T, NEW s \in Seq(S)
    PROVE  s \in Seq(T)
OBVIOUS

LEMMA RowReplaced ==
    ASSUME NEW S, NEW s \in Seq(S), NEW i \in DOMAIN s, NEW x \in S
    PROVE  /\ [s EXCEPT ![i] = x] \in Seq(S)
           /\ DOMAIN [s EXCEPT ![i] = x] = DOMAIN s
OBVIOUS

-----------------------------------------------------------------------------
(* What a request carries at each stage.                                   *)

Staged(w) ==
    /\ req[w].at \in {"createUser", "rereadUser"} => req[w].key \in Accounts
    /\ req[w].at = "rereadUser" => UsersOf(req[w].key) # {}
    /\ req[w].at = "createDevice" => req[w].key \in Serials
    /\ req[w].at \in {"pair", "unpair", "clearOwner", "findShare", "createShare"} =>
         req[w].device \in DOMAIN devices
    /\ req[w].at = "pair" => req[w].user \in DOMAIN users
    /\ req[w].at \in {"findShare", "createShare"} => req[w].to \in DOMAIN users

TableInv == TypeOK /\ RegisteredOnce /\ \A w \in Handlers : Staged(w)

(* With the index a lookup finds the one user of an account.               *)
LEMMA FirstIsUser ==
    ASSUME TableInv, NEW a, UsersOf(a) # {}
    PROVE  First(UsersOf(a)) \in DOMAIN users /\ users[First(UsersOf(a))] = a
<1>1. PICK i \in UsersOf(a) : TRUE
  OBVIOUS
<1>2. \A j \in UsersOf(a) : i = j
  BY <1>1 DEF TableInv, RegisteredOnce, UsersOf
<1>3. i \in Nat
  BY <1>1 DEF TableInv, TypeOK, UsersOf
<1>4. \A j \in UsersOf(a) : i <= j
  BY <1>2, <1>3
<1>5. First(UsersOf(a)) \in UsersOf(a)
  BY <1>1, <1>4 DEF First
<1> QED BY <1>5 DEF UsersOf

LEMMA InitTables == Init => TableInv
BY DEF Init, TableInv, TypeOK, RegisteredOnce, Staged, Idle, Stages, NoUser

(* Steps that leave the tables and the tokens alone.                       *)
LEMMA RequestStep ==
    ASSUME TableInv, NEW w \in Handlers,
           UNCHANGED <<tables, tokens>>, overlapped' \subseteq DOMAIN devices,
           NEW r, req' = [req EXCEPT ![w] = r],
           r \in [at : Stages, key : Accounts \union Serials \union {NoKey},
                  user : {NoUser} \union DOMAIN users,
                  device : {0} \union DOMAIN devices,
                  to : {NoUser} \union DOMAIN users],
           Staged(w)'
    PROVE  TableInv'
<1>1. TypeOK'
  BY DEF TableInv, TypeOK, tables, DeviceRows
<1>2. RegisteredOnce'
  BY DEF TableInv, RegisteredOnce, tables
<1>3. \A v \in Handlers : Staged(v)'
  BY DEF TableInv, TypeOK, Staged, UsersOf, tables
<1> QED BY <1>1, <1>2, <1>3 DEF TableInv

(* The inserts and updates of rows.                                        *)
LEMMA UserInserted ==
    ASSUME TableInv, NEW w \in Handlers, CreateUser(w)
    PROVE  TableInv'
<1> DEFINE a == req[w].key
<1>1. a \in Accounts /\ users \in Seq(Accounts)
  BY DEF TableInv, TypeOK, Staged, CreateUser
<1>2. /\ users' \in Seq(Accounts)
      /\ DOMAIN users' = DOMAIN users \union {Len(users) + 1}
      /\ Len(users) + 1 \notin DOMAIN users
      /\ \A i \in DOMAIN users : users'[i] = users[i]
      /\ users'[Len(users) + 1] = a
  BY <1>1, AppendRow DEF CreateUser
<1>3. TypeOK'
  <2>1. devices' \in Seq(DeviceRows')
    <3>1. DeviceRows \subseteq DeviceRows'
      BY <1>2 DEF DeviceRows
    <3> QED BY <3>1, WiderRows DEF TableInv, TypeOK, CreateUser
  <2>2. shares' \in Seq([device : DOMAIN devices', to : DOMAIN users'])
    <3>1. [device : DOMAIN devices, to : DOMAIN users]
            \subseteq [device : DOMAIN devices', to : DOMAIN users']
      BY <1>2 DEF CreateUser
    <3>2. shares \in Seq([device : DOMAIN devices, to : DOMAIN users]) /\ shares' = shares
      BY DEF TableInv, TypeOK, CreateUser
    <3> QED BY <3>1, <3>2, WiderRows
  <2>3. tokens' \subseteq [account : Accounts, user : DOMAIN users']
    BY <1>2 DEF TableInv, TypeOK, CreateUser
  <2> DEFINE R == [at : Stages, key : Accounts \union Serials \union {NoKey},
                   user : {NoUser} \union DOMAIN users',
                   device : {0} \union DOMAIN devices',
                   to : {NoUser} \union DOMAIN users']
  <2>4. req' \in [Handlers -> R]
    <3>1. "rereadUser" \in Stages
      BY DEF Stages
    <3>2. \A v \in Handlers : req[v] \in R
      BY <1>2 DEF TableInv, TypeOK, CreateUser
    <3>3. [req[w] EXCEPT !.at = "rereadUser"] \in R
      BY <3>1, <3>2
    <3> QED BY <3>2, <3>3 DEF TableInv, TypeOK, CreateUser
  <2>5. overlapped' \subseteq DOMAIN devices'
    BY DEF TableInv, TypeOK, CreateUser
  <2> QED BY <1>2, <2>1, <2>2, <2>3, <2>4, <2>5 DEF TypeOK
<1>4. RegisteredOnce'
  BY <1>2 DEF TableInv, TypeOK, RegisteredOnce, CreateUser, UsersOf
<1>5. \A v \in Handlers : Staged(v)'
  <2>1. DOMAIN users \subseteq DOMAIN users' /\ UNCHANGED <<devices, shares>>
    BY <1>2 DEF CreateUser
  <2>2. \A v \in Handlers : Staged(v)
    BY DEF TableInv
  <2>3. \A v \in Handlers \ {w} : req'[v] = req[v]
    BY DEF TableInv, TypeOK, CreateUser
  <2> QED BY <1>2, <2>1, <2>2, <2>3 DEF TableInv, TypeOK, Staged, CreateUser, UsersOf
<1> QED BY <1>3, <1>4, <1>5 DEF TableInv

LEMMA DeviceInserted ==
    ASSUME TableInv, NEW w \in Handlers, CreateDevice(w)
    PROVE  TableInv'
<1> DEFINE row == [serial |-> req[w].key, paired |-> FALSE, owner |-> NoUser]
<1>1. row \in DeviceRows /\ devices \in Seq(DeviceRows) /\ DeviceRows' = DeviceRows
  BY DEF TableInv, TypeOK, Staged, CreateDevice, DeviceRows
<1>2. /\ devices' \in Seq(DeviceRows')
      /\ DOMAIN devices' = DOMAIN devices \union {Len(devices) + 1}
      /\ Len(devices) + 1 \notin DOMAIN devices
      /\ \A i \in DOMAIN devices : devices'[i] = devices[i]
      /\ devices'[Len(devices) + 1] = row
  BY <1>1, AppendRow DEF CreateDevice
<1>3. TypeOK'
  <2>1. [device : DOMAIN devices, to : DOMAIN users]
          \subseteq [device : DOMAIN devices', to : DOMAIN users']
    BY <1>2 DEF CreateDevice
  <2>2. shares' \in Seq([device : DOMAIN devices', to : DOMAIN users'])
    <3>1. shares \in Seq([device : DOMAIN devices, to : DOMAIN users]) /\ shares' = shares
      BY DEF TableInv, TypeOK, CreateDevice
    <3> QED BY <2>1, <3>1, WiderRows
  <2>3. req' = [req EXCEPT ![w] = Idle] /\ Idle.at \in Stages
    BY DEF CreateDevice, Idle, Stages
  <2>4. req' \in [Handlers -> [at : Stages, key : Accounts \union Serials \union {NoKey},
                              user : {NoUser} \union DOMAIN users',
                              device : {0} \union DOMAIN devices',
                              to : {NoUser} \union DOMAIN users']]
    BY <1>2, <2>3 DEF TableInv, TypeOK, CreateDevice, Idle
  <2>5. overlapped' \subseteq DOMAIN devices'
    BY <1>2 DEF TableInv, TypeOK, CreateDevice
  <2> QED BY <1>2, <2>2, <2>4, <2>5 DEF TableInv, TypeOK, CreateDevice
<1>4. RegisteredOnce'
  BY <1>2 DEF TableInv, TypeOK, RegisteredOnce, CreateDevice, DevicesOf
<1>5. \A v \in Handlers : Staged(v)'
  BY <1>2 DEF TableInv, TypeOK, Staged, CreateDevice, UsersOf, Idle
<1> QED BY <1>3, <1>4, <1>5 DEF TableInv

(* An update of a device's row: its serial stays.                          *)
LEMMA DeviceUpdated ==
    ASSUME TableInv, NEW d \in DOMAIN devices, NEW row \in DeviceRows,
           row.serial = devices[d].serial, devices' = [devices EXCEPT ![d] = row],
           UNCHANGED <<users, shares, tokens, overlapped>>,
           NEW w \in Handlers, NEW r, req' = [req EXCEPT ![w] = r],
           r = Idle \/ r = [req[w] EXCEPT !.at = "clearOwner"],
           Staged(w)'
    PROVE  TableInv'
<1>1. devices \in Seq(DeviceRows) /\ DeviceRows' = DeviceRows
  BY DEF TableInv, TypeOK, DeviceRows
<1>2. devices' \in Seq(DeviceRows') /\ DOMAIN devices' = DOMAIN devices
  BY <1>1, RowReplaced
<1>3. \A c \in DOMAIN devices : devices'[c].serial = devices[c].serial
  BY <1>1
<1>4. TypeOK'
  <2>1. r \in [at : Stages, key : Accounts \union Serials \union {NoKey},
               user : {NoUser} \union DOMAIN users,
               device : {0} \union DOMAIN devices,
               to : {NoUser} \union DOMAIN users]
    <3>1. "idle" \in Stages /\ "clearOwner" \in Stages
      BY DEF Stages
    <3>2. CASE r = Idle
      BY <3>1, <3>2 DEF Idle
    <3>3. CASE r = [req[w] EXCEPT !.at = "clearOwner"]
      BY <3>1, <3>3 DEF TableInv, TypeOK
    <3> QED BY <3>2, <3>3
  <2> QED BY <1>2, <2>1 DEF TableInv, TypeOK
<1>5. RegisteredOnce'
  BY <1>2, <1>3 DEF TableInv, RegisteredOnce
<1>6. \A v \in Handlers : Staged(v)'
  BY <1>2 DEF TableInv, TypeOK, Staged, UsersOf
<1> QED BY <1>4, <1>5, <1>6 DEF TableInv

LEMMA ShareInserted ==
    ASSUME TableInv, NEW w \in Handlers, CreateShare(w)
    PROVE  TableInv'
<1> DEFINE row == [device |-> req[w].device, to |-> req[w].to]
<1>1. /\ row \in [device : DOMAIN devices, to : DOMAIN users]
      /\ shares \in Seq([device : DOMAIN devices, to : DOMAIN users])
  BY DEF TableInv, TypeOK, Staged, CreateShare
<1>2. shares' \in Seq([device : DOMAIN devices', to : DOMAIN users'])
  BY <1>1, AppendRow DEF CreateShare
<1>3. TypeOK'
  <2>1. req' = [req EXCEPT ![w] = Idle] /\ Idle.at \in Stages
    BY DEF CreateShare, Idle, Stages
  <2> QED BY <1>2, <2>1 DEF TableInv, TypeOK, CreateShare, DeviceRows, Idle
<1>4. RegisteredOnce'
  BY DEF TableInv, RegisteredOnce, CreateShare
<1>5. \A v \in Handlers : Staged(v)'
  BY DEF TableInv, TypeOK, Staged, CreateShare, UsersOf, Idle
<1> QED BY <1>3, <1>4, <1>5 DEF TableInv

LEMMA LoggedInUser ==
    ASSUME TableInv, NEW u \in LoggedIn
    PROVE  u \in DOMAIN users /\ u # NoUser
<1>1. u \in DOMAIN users
  BY DEF TableInv, TypeOK, LoggedIn
<1> QED BY <1>1, NoRowZero DEF TableInv, TypeOK, NoUser

(* A login that finds its user, and gives a token.                         *)
LEMMA TokenGiven ==
    ASSUME TableInv, NEW a \in Accounts, UsersOf(a) # {}, UNCHANGED <<tables, overlapped>>,
           tokens' = tokens \union {Token(a)},
           UNCHANGED req \/ \E w \in Handlers : req' = [req EXCEPT ![w] = Idle]
    PROVE  TableInv'
<1>1. Token(a) \in [account : Accounts, user : DOMAIN users] /\ users[Token(a).user] = a
  BY FirstIsUser DEF Token
<1>2. TypeOK'
  <2>1. Idle \in [at : Stages, key : Accounts \union Serials \union {NoKey},
                  user : {NoUser} \union DOMAIN users,
                  device : {0} \union DOMAIN devices,
                  to : {NoUser} \union DOMAIN users]
    BY DEF Idle, Stages
  <2> QED BY <1>1, <2>1 DEF TableInv, TypeOK, tables, DeviceRows
<1>3. RegisteredOnce'
  BY <1>1 DEF TableInv, RegisteredOnce, tables, Token
<1>4. \A v \in Handlers : Staged(v)'
  BY DEF TableInv, TypeOK, Staged, UsersOf, tables, Idle
<1> QED BY <1>2, <1>3, <1>4 DEF TableInv

LEMMA TableStep == TableInv /\ [Next]_vars => TableInv'
<1> SUFFICES ASSUME TableInv, [Next]_vars PROVE TableInv'
  OBVIOUS
<1> DEFINE R == [at : Stages, key : Accounts \union Serials \union {NoKey},
                 user : {NoUser} \union DOMAIN users,
                 device : {0} \union DOMAIN devices,
                 to : {NoUser} \union DOMAIN users]
<1>1. CASE UNCHANGED vars
  BY <1>1 DEF vars, tables, TableInv, TypeOK, RegisteredOnce, Staged, UsersOf, DeviceRows
<1>2. ASSUME NEW w \in Handlers, NEW a \in Accounts, FindUser(w, a) PROVE TableInv'
  <2>1. CASE UsersOf(a) # {}
    BY <1>2, <2>1, TokenGiven DEF FindUser
  <2>2. CASE UsersOf(a) = {}
    <3> DEFINE r == [Idle EXCEPT !.at = "createUser", !.key = a]
    <3>1. r \in R
      BY DEF Idle, Stages
    <3>2. Staged(w)'
      <4>1. req'[w] = r
        BY <1>2, <2>2 DEF FindUser, TableInv, TypeOK
      <4>2. r.at = "createUser" /\ r.key = a
        BY DEF Idle
      <4> QED BY <4>1, <4>2 DEF Staged
    <3> QED BY <1>2, <2>2, <3>1, <3>2, RequestStep DEF FindUser, TableInv, TypeOK
  <2> QED BY <2>1, <2>2
<1>3. ASSUME NEW w \in Handlers, RereadUser(w) PROVE TableInv'
  BY <1>3, TokenGiven DEF RereadUser, TableInv, Staged
<1>4. ASSUME NEW w \in Handlers, NEW s \in Serials, FindSerial(w, s) PROVE TableInv'
  <2> DEFINE r == [Idle EXCEPT !.at = "createDevice", !.key = s]
  <2>1. r \in R
    BY DEF Idle, Stages
  <2>2. Staged(w)'
    BY <1>4 DEF FindSerial, Staged, Idle, TableInv, TypeOK
  <2> QED BY <1>4, <2>1, <2>2, RequestStep DEF FindSerial, TableInv, TypeOK
<1>5. ASSUME NEW w \in Handlers, NEW u \in LoggedIn, NEW d \in DOMAIN devices,
             FindDevice(w, u, d)
      PROVE  TableInv'
  <2> DEFINE r == [Idle EXCEPT !.at = "pair", !.user = u, !.device = d]
  <2>1. u \in DOMAIN users
    BY LoggedInUser
  <2>2. r \in R
    BY <2>1 DEF Idle, Stages
  <2>3. Staged(w)'
    BY <1>5, <2>1 DEF FindDevice, Staged, Idle, TableInv, TypeOK, tables
  <2>4. overlapped' \subseteq DOMAIN devices
    BY <1>5 DEF FindDevice, Overlap, TableInv, TypeOK
  <2> QED BY <1>5, <2>2, <2>3, <2>4, RequestStep DEF FindDevice
<1>6. ASSUME NEW w \in Handlers, NEW u \in LoggedIn, NEW d \in DOMAIN devices,
             CheckUnpair(w, u, d)
      PROVE  TableInv'
  <2> DEFINE r == [Idle EXCEPT !.at = "unpair", !.user = u, !.device = d]
  <2>1. u \in DOMAIN users
    BY LoggedInUser
  <2>2. r \in R
    BY <2>1 DEF Idle, Stages
  <2>3. Staged(w)'
    BY <1>6, <2>1 DEF CheckUnpair, Staged, Idle, TableInv, TypeOK, tables
  <2>4. overlapped' \subseteq DOMAIN devices
    BY <1>6 DEF CheckUnpair, Overlap, TableInv, TypeOK
  <2> QED BY <1>6, <2>2, <2>3, <2>4, RequestStep DEF CheckUnpair
<1>7. ASSUME NEW w \in Handlers, NEW u \in LoggedIn, NEW d \in DOMAIN devices,
             NEW to \in DOMAIN users, CheckShare(w, u, d, to)
      PROVE  TableInv'
  <2> DEFINE r == [Idle EXCEPT !.at = "findShare", !.user = u, !.device = d, !.to = to]
  <2>1. u \in DOMAIN users
    BY LoggedInUser
  <2>2. r \in R
    BY <2>1 DEF Idle, Stages
  <2>3. Staged(w)'
    BY <1>7, <2>1 DEF CheckShare, Staged, Idle, TableInv, TypeOK, tables
  <2>4. overlapped' \subseteq DOMAIN devices
    BY <1>7 DEF CheckShare, Overlap, TableInv, TypeOK
  <2> QED BY <1>7, <2>2, <2>3, <2>4, RequestStep DEF CheckShare
<1>8. ASSUME NEW w \in Handlers, FindShare(w) PROVE TableInv'
  <2> DEFINE r == IF SharesOf(req[w].device, req[w].to) = {}
                  THEN [req[w] EXCEPT !.at = "createShare"] ELSE Idle
  <2>1. r \in R
    <3>1. "createShare" \in Stages /\ "idle" \in Stages
      BY DEF Stages
    <3> QED BY <3>1 DEF TableInv, TypeOK, Idle
  <2>2. req' = [req EXCEPT ![w] = r]
    BY <1>8 DEF FindShare
  <2>3. Staged(w)'
    BY <1>8, <2>2 DEF FindShare, Staged, Idle, TableInv, TypeOK, tables
  <2> QED BY <1>8, <2>1, <2>2, <2>3, RequestStep DEF FindShare, TableInv, TypeOK
<1>9. ASSUME NEW w \in Handlers, RequestFails(w) PROVE TableInv'
  <2>1. Idle \in R
    BY DEF Idle, Stages
  <2>2. Staged(w)'
    BY <1>9 DEF RequestFails, Staged, Idle, TableInv, TypeOK
  <2> QED BY <1>9, <2>1, <2>2, RequestStep DEF RequestFails, TableInv, TypeOK
<1>10. ASSUME NEW w \in Handlers, Pair(w) PROVE TableInv'
  <2> DEFINE d == req[w].device
             row == [devices[d] EXCEPT !.paired = TRUE, !.owner = req[w].user]
  <2>1. d \in DOMAIN devices /\ req[w].user \in DOMAIN users
    BY <1>10 DEF Pair, TableInv, Staged
  <2>2. row \in DeviceRows /\ row.serial = devices[d].serial
    <3>1. devices[d] \in DeviceRows
      BY <2>1 DEF TableInv, TypeOK
    <3> QED BY <2>1, <3>1 DEF DeviceRows
  <2>3. devices' = [devices EXCEPT ![d] = row]
    BY <1>10, <2>1 DEF Pair, TableInv, TypeOK, DeviceRows
  <2>4. Staged(w)'
    BY <1>10 DEF Pair, Staged, Idle, TableInv, TypeOK
  <2> QED BY <1>10, <2>1, <2>2, <2>3, <2>4, DeviceUpdated DEF Pair
<1>11. ASSUME NEW w \in Handlers, Unpair(w) PROVE TableInv'
  <2> DEFINE d == req[w].device
             row == [devices[d] EXCEPT !.paired = FALSE]
  <2>1. d \in DOMAIN devices
    BY <1>11 DEF Unpair, TableInv, Staged
  <2>2. row \in DeviceRows /\ row.serial = devices[d].serial
    <3>1. devices[d] \in DeviceRows
      BY <2>1 DEF TableInv, TypeOK
    <3> QED BY <2>1, <3>1 DEF DeviceRows
  <2>3. devices' = [devices EXCEPT ![d] = row]
    BY <1>11, <2>1 DEF Unpair, TableInv, TypeOK, DeviceRows
  <2>4. Staged(w)'
    BY <1>11, <2>1, <2>3 DEF Unpair, Staged, TableInv, TypeOK
  <2>5. req' = [req EXCEPT ![w] = [req[w] EXCEPT !.at = "clearOwner"]]
    BY <1>11 DEF Unpair, TableInv, TypeOK
  <2> QED BY <1>11, <2>1, <2>2, <2>3, <2>4, <2>5, DeviceUpdated DEF Unpair
<1>12. ASSUME NEW w \in Handlers, ClearOwner(w) PROVE TableInv'
  <2> DEFINE d == req[w].device
             row == [devices[d] EXCEPT !.owner = NoUser]
  <2>1. d \in DOMAIN devices
    BY <1>12 DEF ClearOwner, TableInv, Staged
  <2>2. row \in DeviceRows /\ row.serial = devices[d].serial
    <3>1. devices[d] \in DeviceRows
      BY <2>1 DEF TableInv, TypeOK
    <3> QED BY <2>1, <3>1 DEF DeviceRows
  <2>3. devices' = [devices EXCEPT ![d] = row]
    BY <1>12, <2>1 DEF ClearOwner, TableInv, TypeOK, DeviceRows
  <2>4. Staged(w)'
    BY <1>12 DEF ClearOwner, Staged, Idle, TableInv, TypeOK
  <2> QED BY <1>12, <2>1, <2>2, <2>3, <2>4, DeviceUpdated DEF ClearOwner
<1> QED
  BY <1>1, <1>2, <1>3, <1>4, <1>5, <1>6, <1>7, <1>8, <1>9, <1>10, <1>11, <1>12,
     UserInserted, DeviceInserted, ShareInserted
  DEF Next, LoginStep, RegisterStep, DeviceStep

(* The types, for any number of requests, accounts and serials.            *)
THEOREM TypeCorrect == Spec => []TypeOK
<1>1. TableInv => TypeOK
  BY DEF TableInv
<1> QED BY <1>1, InitTables, TableStep, PTL DEF Spec

(* However first logins and registrations overlap and fail, the tokens of  *)
(* an account name its one user and a serial has one device.               *)
THEOREM AccountsRegisteredOnce == Spec => []RegisteredOnce
<1>1. TableInv => RegisteredOnce
  BY DEF TableInv
<1> QED BY <1>1, InitTables, TableStep, PTL DEF Spec

-----------------------------------------------------------------------------
(* What an update or an insert relies on, on a device that no two requests *)
(* have worked on at once.                                                 *)

Alone ==
    \A v, w \in Handlers :
        v # w /\ req[v].device = req[w].device /\ req[v].device # 0 =>
            req[v].device \in overlapped

HalfUnpaired(w) ==
    req[w].at = "clearOwner" /\ req[w].device \notin overlapped =>
        ~devices[req[w].device].paired

NotYetShared(w) ==
    req[w].at = "createShare" /\ req[w].device \notin overlapped =>
        SharesOf(req[w].device, req[w].to) = {}

NotOverlappedInv ==
    /\ TableInv /\ Alone
    /\ \A w \in Handlers : HalfUnpaired(w) /\ NotYetShared(w)
    /\ PairedHasOwner /\ SharedOnce

LEMMA InitNotOverlapped == Init => NotOverlappedInv
<1> SUFFICES ASSUME Init PROVE NotOverlappedInv
  OBVIOUS
<1>1. Alone /\ (\A w \in Handlers : HalfUnpaired(w) /\ NotYetShared(w))
  BY DEF Init, Alone, HalfUnpaired, NotYetShared, Idle
<1>2. PairedHasOwner /\ SharedOnce
  BY DEF Init, PairedHasOwner, SharedOnce
<1> QED BY <1>1, <1>2, InitTables DEF NotOverlappedInv

(* A request begins on device d, or on none, and everybody it meets there  *)
(* is noted.                                                               *)
LEMMA RequestBegins ==
    ASSUME NotOverlappedInv, TableInv', NEW w \in Handlers,
           UNCHANGED <<devices, shares>>, NEW r, req' = [req EXCEPT ![w] = r],
           r.at \notin {"clearOwner", "createShare"},
           \/ r.device = 0 /\ overlapped' = overlapped
           \/ overlapped' = Overlap(w, r.device)
    PROVE  NotOverlappedInv'
<1>1. overlapped \subseteq overlapped'
  BY DEF Overlap
<1>2. \A v \in Handlers : v # w => req'[v] = req[v]
  BY DEF NotOverlappedInv, TableInv, TypeOK
<1>3. req'[w] = r
  BY DEF NotOverlappedInv, TableInv, TypeOK
<1>4. Alone'
  <2>1. \A v \in Handlers : v # w /\ req[v].device = r.device /\ r.device # 0 =>
          r.device \in overlapped'
    BY DEF Overlap
  <2> QED BY <1>1, <1>2, <1>3, <2>1 DEF NotOverlappedInv, Alone
<1>5. \A v \in Handlers : HalfUnpaired(v)' /\ NotYetShared(v)'
  BY <1>1, <1>2, <1>3 DEF NotOverlappedInv, HalfUnpaired, NotYetShared, SharesOf
<1>6. PairedHasOwner' /\ SharedOnce'
  BY <1>1 DEF NotOverlappedInv, PairedHasOwner, SharedOnce
<1> QED BY <1>4, <1>5, <1>6 DEF NotOverlappedInv

(* A request goes on, or ends, without having written a row.               *)
LEMMA RequestGoesOn ==
    ASSUME NotOverlappedInv, TableInv', NEW w \in Handlers,
           UNCHANGED <<devices, shares, overlapped>>, NEW r, req' = [req EXCEPT ![w] = r],
           r.at # "clearOwner", r.device \in {0, req[w].device},
           r.at = "createShare" => SharesOf(r.device, r.to) = {}
    PROVE  NotOverlappedInv'
<1>1. \A v \in Handlers : v # w => req'[v] = req[v]
  BY DEF NotOverlappedInv, TableInv, TypeOK
<1>2. req'[w] = r
  BY DEF NotOverlappedInv, TableInv, TypeOK
<1>3. Alone'
  BY <1>1, <1>2 DEF NotOverlappedInv, Alone
<1>4. \A v \in Handlers : HalfUnpaired(v)' /\ NotYetShared(v)'
  BY <1>1, <1>2 DEF NotOverlappedInv, HalfUnpaired, NotYetShared, SharesOf
<1>5. PairedHasOwner' /\ SharedOnce'
  BY DEF NotOverlappedInv, PairedHasOwner, SharedOnce
<1> QED BY <1>3, <1>4, <1>5 DEF NotOverlappedInv

(* A request writes the row of its device, and ends or has unpaired it.    *)
LEMMA RowWritten ==
    ASSUME NotOverlappedInv, TableInv', NEW w \in Handlers, NEW r,
           req' = [req EXCEPT ![w] = r], UNCHANGED <<shares, overlapped>>,
           req[w].device \in DOMAIN devices, NEW row,
           devices' = [devices EXCEPT ![req[w].device] = row],
           \/ r = Idle
           \/ r = [req[w] EXCEPT !.at = "clearOwner"] /\ ~row.paired,
           req[w].device \notin overlapped /\ row.paired => row.owner # NoUser
    PROVE  NotOverlappedInv'
<1> DEFINE d == req[w].device
<1>1. \A v \in Handlers : v # w => req'[v] = req[v]
  BY DEF NotOverlappedInv, TableInv, TypeOK
<1>2. req'[w] = r
  BY DEF NotOverlappedInv, TableInv, TypeOK
<1>3. r.device \in {0, d} /\ r.at # "createShare"
  <2>1. r = [req[w] EXCEPT !.at = "clearOwner"] => r.at = "clearOwner" /\ r.device = d
    BY DEF NotOverlappedInv, TableInv, TypeOK
  <2> QED BY <2>1 DEF Idle
<1>4. d # 0
  BY NoRowZero DEF NotOverlappedInv, TableInv, TypeOK
<1>5. /\ DOMAIN devices' = DOMAIN devices /\ devices'[d] = row
      /\ \A c \in DOMAIN devices : c # d => devices'[c] = devices[c]
  BY DEF NotOverlappedInv, TableInv, TypeOK
<1>6. Alone'
  BY <1>1, <1>2, <1>3 DEF NotOverlappedInv, Alone
<1>7. ASSUME NEW v \in Handlers PROVE HalfUnpaired(v)' /\ NotYetShared(v)'
  <2>1. CASE v = w
    <3>1. r.at = "clearOwner" => r.device = d /\ ~row.paired
      BY DEF Idle, NotOverlappedInv, TableInv, TypeOK
    <3> QED BY <1>2, <1>3, <1>5, <2>1, <3>1 DEF HalfUnpaired, NotYetShared
  <2>2. CASE v # w
    <3>1. NotYetShared(v)'
      BY <1>1, <2>2 DEF NotOverlappedInv, NotYetShared, SharesOf
    <3>2. HalfUnpaired(v)'
      <4>1. CASE req[v].device = d
        BY <1>1, <1>4, <2>2, <4>1 DEF NotOverlappedInv, Alone, HalfUnpaired
      <4>2. CASE req[v].device # d
        BY <1>1, <1>5, <2>2, <4>2 DEF NotOverlappedInv, HalfUnpaired, TableInv, Staged
      <4> QED BY <4>1, <4>2
    <3> QED BY <3>1, <3>2
  <2> QED BY <2>1, <2>2
<1>8. PairedHasOwner'
  BY <1>5 DEF NotOverlappedInv, PairedHasOwner
<1>9. SharedOnce'
  BY DEF NotOverlappedInv, SharedOnce
<1> QED BY <1>6, <1>7, <1>8, <1>9 DEF NotOverlappedInv

LEMMA NotOverlappedStep == NotOverlappedInv /\ [Next]_vars => NotOverlappedInv'
<1> SUFFICES ASSUME NotOverlappedInv, [Next]_vars PROVE NotOverlappedInv'
  OBVIOUS
<1>0. TableInv /\ TableInv'
  BY TableStep DEF NotOverlappedInv
<1>1. CASE UNCHANGED vars
  BY <1>0, <1>1
  DEF vars, tables, NotOverlappedInv, Alone, HalfUnpaired, NotYetShared, SharesOf,
      PairedHasOwner, SharedOnce
<1>2. ASSUME NEW w \in Handlers, LoginStep(w) PROVE NotOverlappedInv'
  <2>1. CASE CreateUser(w)
    <3>1. req' = [req EXCEPT ![w] = [req[w] EXCEPT !.at = "rereadUser"]]
      BY <2>1, <1>0 DEF CreateUser, TableInv, TypeOK
    <3>2. [req[w] EXCEPT !.at = "rereadUser"].device = req[w].device
      BY <1>0 DEF TableInv, TypeOK
    <3>3. [req[w] EXCEPT !.at = "rereadUser"].at = "rereadUser"
      BY <1>0 DEF TableInv, TypeOK
    <3> HIDE <1>2
    <3> QED BY <1>0, <2>1, <3>1, <3>2, <3>3, RequestGoesOn DEF CreateUser
  <2>2. CASE RereadUser(w)
    <3>1. Idle.at = "idle" /\ Idle.device = 0
      BY DEF Idle
    <3> QED BY <1>0, <2>2, <3>1, RequestGoesOn DEF RereadUser, tables
  <2>3. ASSUME NEW a \in Accounts, FindUser(w, a) PROVE NotOverlappedInv'
    <3>1. CASE UNCHANGED req
      BY <1>0, <2>3, <3>1
      DEF FindUser, tables, NotOverlappedInv, Alone, HalfUnpaired, NotYetShared, SharesOf,
          PairedHasOwner, SharedOnce
    <3>2. CASE req' = [req EXCEPT ![w] = [Idle EXCEPT !.at = "createUser", !.key = a]]
      <4> DEFINE r == [Idle EXCEPT !.at = "createUser", !.key = a]
      <4>1. r.at = "createUser" /\ r.device = 0
        BY DEF Idle
      <4> QED BY <1>0, <2>3, <3>2, <4>1, RequestBegins DEF FindUser, tables
    <3> QED BY <2>3, <3>1, <3>2 DEF FindUser
  <2> QED BY <1>2, <2>1, <2>2, <2>3 DEF LoginStep
<1>3. ASSUME NEW w \in Handlers, RegisterStep(w) PROVE NotOverlappedInv'
  <2>1. CASE CreateDevice(w)
    <3>1. /\ DOMAIN devices \subseteq DOMAIN devices'
          /\ \A d \in DOMAIN devices : devices'[d] = devices[d]
          /\ \A d \in DOMAIN devices' \ DOMAIN devices : ~devices'[d].paired
      <4> DEFINE row == [serial |-> req[w].key, paired |-> FALSE, owner |-> NoUser]
      <4>1. row \in DeviceRows /\ devices \in Seq(DeviceRows)
        BY <1>0, <2>1 DEF TableInv, TypeOK, Staged, CreateDevice, DeviceRows
      <4> QED BY <2>1, <4>1, AppendRow DEF CreateDevice
    <3>2. /\ req' = [req EXCEPT ![w] = Idle] /\ Idle.at = "idle" /\ Idle.device = 0
          /\ UNCHANGED <<shares, overlapped>>
      BY <2>1 DEF CreateDevice, Idle
    <3>3. Alone'
      BY <1>0, <3>2 DEF NotOverlappedInv, Alone, TableInv, TypeOK
    <3>4. \A v \in Handlers : HalfUnpaired(v)' /\ NotYetShared(v)'
      BY <1>0, <3>1, <3>2
      DEF NotOverlappedInv, HalfUnpaired, NotYetShared, SharesOf, TableInv, TypeOK, Staged
    <3>5. PairedHasOwner' /\ SharedOnce'
      BY <3>1, <3>2 DEF NotOverlappedInv, PairedHasOwner, SharedOnce
    <3> QED BY <1>0, <3>3, <3>4, <3>5 DEF NotOverlappedInv
  <2>2. ASSUME NEW s \in Serials, FindSerial(w, s) PROVE NotOverlappedInv'
    <3> DEFINE r == [Idle EXCEPT !.at = "createDevice", !.key = s]
    <3>1. r.at = "createDevice" /\ r.device = 0
      BY DEF Idle
    <3> QED BY <1>0, <2>2, <3>1, RequestBegins DEF FindSerial, tables
  <2> QED BY <1>3, <2>1, <2>2 DEF RegisterStep
<1>4. ASSUME NEW w \in Handlers, NEW u \in LoggedIn, NEW d \in DOMAIN devices,
             \/ FindDevice(w, u, d) \/ CheckUnpair(w, u, d)
             \/ \E to \in DOMAIN users : CheckShare(w, u, d, to)
      PROVE  NotOverlappedInv'
  <2>1. CASE FindDevice(w, u, d)
    <3> DEFINE r == [Idle EXCEPT !.at = "pair", !.user = u, !.device = d]
    <3>1. r.at = "pair" /\ r.device = d
      BY DEF Idle
    <3> QED BY <1>0, <2>1, <3>1, RequestBegins DEF FindDevice, tables
  <2>2. CASE CheckUnpair(w, u, d)
    <3> DEFINE r == [Idle EXCEPT !.at = "unpair", !.user = u, !.device = d]
    <3>1. r.at = "unpair" /\ r.device = d
      BY DEF Idle
    <3> QED BY <1>0, <2>2, <3>1, RequestBegins DEF CheckUnpair, tables
  <2>3. ASSUME NEW to \in DOMAIN users, CheckShare(w, u, d, to) PROVE NotOverlappedInv'
    <3> DEFINE r == [Idle EXCEPT !.at = "findShare", !.user = u, !.device = d, !.to = to]
    <3>1. r.at = "findShare" /\ r.device = d
      BY DEF Idle
    <3> QED BY <1>0, <2>3, <3>1, RequestBegins DEF CheckShare, tables
  <2> QED BY <1>4, <2>1, <2>2, <2>3
<1>5. ASSUME NEW w \in Handlers, FindShare(w) PROVE NotOverlappedInv'
  <2> DEFINE r == IF SharesOf(req[w].device, req[w].to) = {}
                  THEN [req[w] EXCEPT !.at = "createShare"] ELSE Idle
  <2>1. req' = [req EXCEPT ![w] = r]
    BY <1>5 DEF FindShare
  <2>2. r.at \in {"createShare", "idle"} /\ r.device \in {0, req[w].device}
    BY <1>0 DEF TableInv, TypeOK, Idle
  <2>3. r.at = "createShare" => SharesOf(r.device, r.to) = {}
    BY <1>0 DEF TableInv, TypeOK, Idle
  <2> HIDE DEF r
  <2> QED BY <1>0, <1>5, <2>1, <2>2, <2>3, RequestGoesOn DEF FindShare, tables
<1>6. ASSUME NEW w \in Handlers, RequestFails(w) PROVE NotOverlappedInv'
  <2>1. Idle.at = "idle" /\ Idle.device = 0
    BY DEF Idle
  <2> QED BY <1>0, <1>6, <2>1, RequestGoesOn DEF RequestFails, tables
<1>7. ASSUME NEW w \in Handlers, CreateShare(w) PROVE NotOverlappedInv'
  <2> DEFINE d  == req[w].device
             to == req[w].to
             row == [device |-> d, to |-> to]
  <2>1. /\ row \in [device : DOMAIN devices, to : DOMAIN users]
        /\ shares \in Seq([device : DOMAIN devices, to : DOMAIN users])
        /\ shares' = Append(shares, row)
    BY <1>0, <1>7 DEF TableInv, TypeOK, Staged, CreateShare
  <2>2. /\ DOMAIN shares' = DOMAIN shares \union {Len(shares) + 1}
        /\ \A i \in DOMAIN shares : shares'[i] = shares[i]
        /\ shares'[Len(shares) + 1] = row
    BY <2>1, AppendRow
  <2>3. /\ req' = [req EXCEPT ![w] = Idle] /\ Idle.at = "idle" /\ Idle.device = 0
        /\ UNCHANGED <<devices, overlapped>>
    BY <1>7 DEF CreateShare, Idle
  <2>4. d # 0
    BY <1>0, <2>1, NoRowZero DEF TableInv, TypeOK
  <2>5. Alone'
    BY <1>0, <2>3 DEF NotOverlappedInv, Alone, TableInv, TypeOK
  <2>6. ASSUME NEW v \in Handlers PROVE HalfUnpaired(v)' /\ NotYetShared(v)'
    <3>1. CASE v = w
      BY <1>0, <2>3, <3>1 DEF HalfUnpaired, NotYetShared, TableInv, TypeOK
    <3>2. CASE v # w
      <4>1. req'[v] = req[v]
        BY <1>0, <2>3, <3>2 DEF TableInv, TypeOK
      <4>2. req[v].device = d => d \in overlapped
        BY <2>4, <3>2 DEF NotOverlappedInv, Alone
      <4> QED BY <2>2, <2>3, <4>1, <4>2
              DEF NotOverlappedInv, HalfUnpaired, NotYetShared, SharesOf
    <3> QED BY <3>1, <3>2
  <2>7. SharedOnce'
    <3>1. d \notin overlapped => \A i \in DOMAIN shares : shares[i] # row
      BY <1>7 DEF NotOverlappedInv, NotYetShared, SharesOf, CreateShare
    <3> QED BY <2>2, <2>3, <3>1 DEF NotOverlappedInv, SharedOnce
  <2>8. PairedHasOwner'
    BY <2>3 DEF NotOverlappedInv, PairedHasOwner
  <2> QED BY <1>0, <2>5, <2>6, <2>7, <2>8 DEF NotOverlappedInv
<1>8. ASSUME NEW w \in Handlers, Pair(w) PROVE NotOverlappedInv'
  <2> DEFINE d == req[w].device
             row == [devices[d] EXCEPT !.paired = TRUE, !.owner = req[w].user]
  <2>1. d \in DOMAIN devices /\ req[w].user \in DOMAIN users
    BY <1>0, <1>8 DEF Pair, TableInv, Staged
  <2>2. devices[d] \in DeviceRows
    BY <1>0, <2>1 DEF TableInv, TypeOK
  <2>3. row.owner # NoUser
    BY <1>0, <2>1, <2>2, NoRowZero DEF DeviceRows, TableInv, TypeOK, NoUser
  <2>4. devices' = [devices EXCEPT ![d] = row]
    BY <1>0, <1>8, <2>1 DEF Pair, TableInv, TypeOK, DeviceRows
  <2> QED BY <1>0, <1>8, <2>1, <2>3, <2>4, RowWritten DEF Pair
<1>9. ASSUME NEW w \in Handlers, Unpair(w) PROVE NotOverlappedInv'
  <2> DEFINE d == req[w].device
             row == [devices[d] EXCEPT !.paired = FALSE]
  <2>1. d \in DOMAIN devices
    BY <1>0, <1>9 DEF Unpair, TableInv, Staged
  <2>2. devices[d] \in DeviceRows
    BY <1>0, <2>1 DEF TableInv, TypeOK
  <2>3. ~row.paired
    BY <2>2 DEF DeviceRows
  <2>4. devices' = [devices EXCEPT ![d] = row]
    BY <1>0, <1>9, <2>1 DEF Unpair, TableInv, TypeOK, DeviceRows
  <2>5. req' = [req EXCEPT ![w] = [req[w] EXCEPT !.at = "clearOwner"]]
    BY <1>0, <1>9 DEF Unpair, TableInv, TypeOK
  <2> QED BY <1>0, <1>9, <2>1, <2>3, <2>4, <2>5, RowWritten DEF Unpair
<1>10. ASSUME NEW w \in Handlers, ClearOwner(w) PROVE NotOverlappedInv'
  <2> DEFINE d == req[w].device
             row == [devices[d] EXCEPT !.owner = NoUser]
  <2>1. d \in DOMAIN devices
    BY <1>0, <1>10 DEF ClearOwner, TableInv, Staged
  <2>2. devices[d] \in DeviceRows
    BY <1>0, <2>1 DEF TableInv, TypeOK
  <2>3. d \notin overlapped => ~row.paired
    BY <1>10, <2>2 DEF DeviceRows, ClearOwner, NotOverlappedInv, HalfUnpaired
  <2>4. devices' = [devices EXCEPT ![d] = row]
    BY <1>0, <1>10, <2>1 DEF ClearOwner, TableInv, TypeOK, DeviceRows
  <2> QED BY <1>0, <1>10, <2>1, <2>3, <2>4, RowWritten DEF ClearOwner
<1> QED
  BY <1>1, <1>2, <1>3, <1>4, <1>5, <1>6, <1>7, <1>8, <1>9, <1>10 DEF Next, DeviceStep

(* A paired device has an owner, however unpairings fail half-way, as long *)
(* as no two requests overlap on it.                                       *)
THEOREM PairedDevicesHaveOwners == Spec => []PairedHasOwner
<1>1. NotOverlappedInv => PairedHasOwner
  BY DEF NotOverlappedInv
<1> QED BY <1>1, InitNotOverlapped, NotOverlappedStep, PTL DEF Spec

(* A device is shared with a user once, as long as no two requests overlap *)
(* on it.                                                                  *)
THEOREM DevicesSharedOnce == Spec => []SharedOnce
<1>1. NotOverlappedInv => SharedOnce
  BY DEF NotOverlappedInv
<1> QED BY <1>1, InitNotOverlapped, NotOverlappedStep, PTL DEF Spec

(* A paired device without owner is repaired by a new pairing only.        *)
LEMMA OwnerlessStep ==
    ASSUME TableInv, TableInv', [Next]_vars, NEW d \in DOMAIN devices,
           Ownerless(d), ~Repairing(d)
    PROVE  /\ Ownerless(d)'
           /\ Repairing(d)' =>
                \E w \in Handlers : req'[w].device = d /\ req'[w].at = "pair"
<1>1. /\ req \in [Handlers -> [at : Stages, key : Accounts \union Serials \union {NoKey},
                               user : {NoUser} \union DOMAIN users,
                               device : {0} \union DOMAIN devices,
                               to : {NoUser} \union DOMAIN users]]
      /\ devices \in Seq(DeviceRows)
  BY DEF TableInv, TypeOK
<1>2. Ownerless(d)'
  <2>1. CASE UNCHANGED devices
    BY <2>1 DEF Ownerless
  <2>2. ASSUME NEW w \in Handlers, Pair(w) \/ Unpair(w) PROVE Ownerless(d)'
    <3>1. req[w].device # d
      BY <2>2 DEF Pair, Unpair, Repairing
    <3> QED BY <1>1, <2>2, <3>1 DEF Pair, Unpair, Ownerless
  <2>3. ASSUME NEW w \in Handlers, ClearOwner(w) PROVE Ownerless(d)'
    <3>1. devices[d] \in DeviceRows
      BY <1>1
    <3>2. req[w].device \in DOMAIN devices
      BY <2>3 DEF ClearOwner, TableInv, Staged
    <3> QED BY <1>1, <2>3, <3>1, <3>2 DEF ClearOwner, Ownerless, DeviceRows
  <2>4. ASSUME NEW w \in Handlers, CreateDevice(w) PROVE Ownerless(d)'
    <3>1. devices'[d] = devices[d]
      BY <1>1, <2>4 DEF CreateDevice
    <3> QED BY <3>1 DEF Ownerless
  <2>5. \/ UNCHANGED devices
        \/ \E w \in Handlers : Pair(w) \/ Unpair(w) \/ ClearOwner(w) \/ CreateDevice(w)
    <3>1. ASSUME NEW w \in Handlers, LoginStep(w) PROVE UNCHANGED devices
      BY <3>1 DEF LoginStep, FindUser, CreateUser, RereadUser, tables
    <3>2. ASSUME NEW w \in Handlers, RegisterStep(w)
          PROVE  UNCHANGED devices \/ CreateDevice(w)
      BY <3>2 DEF RegisterStep, FindSerial, tables
    <3>3. ASSUME NEW w \in Handlers, DeviceStep(w)
          PROVE  UNCHANGED devices \/ Pair(w) \/ Unpair(w) \/ ClearOwner(w)
      BY <3>3 DEF DeviceStep, FindDevice, CheckUnpair, CheckShare, FindShare, CreateShare, tables
    <3>4. ASSUME NEW w \in Handlers, RequestFails(w) PROVE UNCHANGED devices
      BY <3>4 DEF RequestFails, tables
    <3> QED BY <3>1, <3>2, <3>3, <3>4 DEF Next, vars, tables
  <2> QED BY <2>1, <2>2, <2>3, <2>4, <2>5
<1>3. ASSUME NEW v \in Handlers, req'[v].device = d, req'[v].at \in {"pair", "unpair"}
      PROVE  req'[v].at = "pair"
  <2>1. req'[v] # req[v]
    BY <1>3 DEF Repairing
  <2>2. ASSUME NEW w \in Handlers, LoginStep(w) \/ RegisterStep(w)
        PROVE  req'[v].at = "pair"
    <3>1. CASE CreateUser(w) \/ RereadUser(w) \/ CreateDevice(w)
      BY <1>1, <1>3, <2>1, <3>1 DEF CreateUser, RereadUser, CreateDevice, Idle
    <3>2. ASSUME NEW a, FindUser(w, a) PROVE req'[v].at = "pair"
      <4> DEFINE r == [Idle EXCEPT !.at = "createUser", !.key = a]
      <4>1. r.at = "createUser"
        BY DEF Idle
      <4>2. req' = [req EXCEPT ![w] = r]
        BY <2>1, <3>2 DEF FindUser
      <4> QED BY <1>1, <1>3, <2>1, <4>1, <4>2
    <3>3. ASSUME NEW s, FindSerial(w, s) PROVE req'[v].at = "pair"
      <4> DEFINE r == [Idle EXCEPT !.at = "createDevice", !.key = s]
      <4>1. r.at = "createDevice"
        BY DEF Idle
      <4>2. req' = [req EXCEPT ![w] = r]
        BY <3>3 DEF FindSerial
      <4> QED BY <1>1, <1>3, <2>1, <4>1, <4>2
    <3> QED BY <2>2, <3>1, <3>2, <3>3 DEF LoginStep, RegisterStep
  <2>3. ASSUME NEW w \in Handlers,
               \/ Pair(w) \/ Unpair(w) \/ ClearOwner(w) \/ FindShare(w) \/ CreateShare(w)
               \/ RequestFails(w)
        PROVE  req'[v].at = "pair"
    BY <1>1, <1>3, <2>1, <2>3
    DEF Pair, Unpair, ClearOwner, FindShare, CreateShare, RequestFails, Idle
  <2>4. ASSUME NEW w \in Handlers, NEW u \in LoggedIn, NEW c \in DOMAIN devices,
               \/ FindDevice(w, u, c) \/ CheckUnpair(w, u, c)
               \/ \E to \in DOMAIN users : CheckShare(w, u, c, to)
        PROVE  req'[v].at = "pair"
    <3>1. CASE FindDevice(w, u, c)
      BY <1>1, <1>3, <2>1, <3>1 DEF FindDevice, Idle
    <3>2. CASE CheckUnpair(w, u, c)
      <4>1. c # d
        BY <3>2, LoggedInUser DEF CheckUnpair, Owns, Ownerless
      <4>2. v = w /\ req'[v].device = c
        BY <1>1, <1>3, <2>1, <3>2 DEF CheckUnpair, Idle
      <4> QED BY <1>3, <4>1, <4>2
    <3>3. CASE \E to \in DOMAIN users : CheckShare(w, u, c, to)
      BY <1>1, <1>3, <2>1, <3>3 DEF CheckShare, Idle
    <3> QED BY <2>4, <3>1, <3>2, <3>3
  <2>5. CASE UNCHANGED vars
    BY <2>1, <2>5 DEF vars
  <2> QED BY <2>2, <2>3, <2>4, <2>5 DEF Next, DeviceStep
<1> QED BY <1>2, <1>3 DEF Repairing

(* Nobody but a new pairing repairs a paired device that has lost its      *)
(* owner.                                                                  *)
THEOREM OwnerlessDevicesStay == Spec => OwnerlessStays
<1>1. TableInv /\ [Next]_vars =>
        [\A d \in DOMAIN devices : Ownerless(d) /\ ~Repairing(d) =>
           Ownerless(d)' /\ (Repairing(d)' => \E w \in Handlers :
                               req'[w].device = d /\ req'[w].at = "pair")]_vars
  BY TableStep, OwnerlessStep
<1> QED BY <1>1, InitTables, TableStep, PTL DEF Spec, OwnerlessStays
=============================================================================
