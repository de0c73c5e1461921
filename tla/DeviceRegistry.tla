--------------------------- MODULE DeviceRegistry ---------------------------
(***************************************************************************)
(* Users, devices and shares: login (controllers/v2/auth.go), registration *)
(* and pairing of devices (controllers/v2/pilot.go), unpairing and sharing *)
(* (controllers/v1/devices.go) behind requireDeviceOwner (middleware.go).  *)
(*                                                                         *)
(* Every request reads rows, decides, and writes rows, each in a statement *)
(* of its own and none in a transaction.  The tables are sequences of rows *)
(* and a row's id is its position; rows are never deleted.  A unique index *)
(* refuses an insert: users have one per provider's id and devices one on  *)
(* the serial, but the tag of device_shares ("uniqueIndex,OnUpdate:...")   *)
(* is none that gorm knows.                                                *)
(***************************************************************************)
EXTENDS Naturals, Sequences

CONSTANTS
    Handlers,             \* requests the server works on at a time
    Accounts,             \* a provider and the user's id there
    Serials,              \* of devices
    RegistrationEnabled,  \* config.Registration.Enabled
    NoKey

ASSUME RegistrationAssumption == RegistrationEnabled \in BOOLEAN

VARIABLES
    users,      \* the account of each user
    devices,    \* serial, is_paired and owner_id of each device
    shares,     \* the device and the user of each device share
    tokens,     \* history: logins answered with a token for a user
    req,        \* what each handler is about to do
    overlapped  \* history: devices that two requests worked on at once

tables == <<users, devices, shares>>
vars == <<tables, tokens, req, overlapped>>

NoUser == 0
Idle == [at |-> "idle", key |-> NoKey, user |-> NoUser, device |-> 0, to |-> NoUser]

UsersOf(a)      == {i \in DOMAIN users : users[i] = a}
DevicesOf(s)    == {d \in DOMAIN devices : devices[d].serial = s}
SharesOf(d, to) == {i \in DOMAIN shares : shares[i] = [device |-> d, to |-> to]}
First(S)        == CHOOSE i \in S : \A j \in S : i <= j

LoggedIn == {t.user : t \in tokens}

(* A request that meets another on its device.                             *)
Overlap(w, d) ==
    overlapped \union IF \E v \in Handlers \ {w} : req[v].device = d THEN {d} ELSE {}

Init ==
    /\ users = <<>> /\ devices = <<>> /\ shares = <<>>
    /\ tokens = {}
    /\ req = [w \in Handlers |-> Idle]
    /\ overlapped = {}

Token(a) == [account |-> a, user |-> First(UsersOf(a))]

-----------------------------------------------------------------------------
(* POSTAuth, once the provider has named the account.                      *)

FindUser(w, a) ==
    /\ req[w] = Idle
    /\ \/ /\ UsersOf(a) # {}
          /\ tokens' = tokens \union {Token(a)}
          /\ UNCHANGED req
       \/ /\ UsersOf(a) = {}
          /\ RegistrationEnabled
          /\ req' = [req EXCEPT ![w] = [Idle EXCEPT !.at = "createUser", !.key = a]]
          /\ UNCHANGED tokens
    /\ UNCHANGED <<tables, overlapped>>

(* Mutant of CreateUser: the index is missing.                             *)
CreateUserUnindexed(w) ==
    /\ req[w].at = "createUser"
    /\ users' = Append(users, req[w].key)
    /\ req' = [req EXCEPT ![w].at = "rereadUser"]
    /\ UNCHANGED <<devices, shares, tokens, overlapped>>

CreateUser(w) ==
    /\ req[w].at = "createUser"
    /\ UsersOf(req[w].key) = {}
    /\ users' = Append(users, req[w].key)
    /\ req' = [req EXCEPT ![w].at = "rereadUser"]
    /\ UNCHANGED <<devices, shares, tokens, overlapped>>

RereadUser(w) ==
    /\ req[w].at = "rereadUser"
    /\ tokens' = tokens \union {Token(req[w].key)}
    /\ req' = [req EXCEPT ![w] = Idle]
    /\ UNCHANGED <<tables, overlapped>>

-----------------------------------------------------------------------------
(* POSTPilotAuth.                                                          *)

(* A serial that is found is refused, but any error of the lookup is taken *)
(* for "not found": only the index decides.                                *)
FindSerial(w, s) ==
    /\ req[w] = Idle
    /\ RegistrationEnabled
    /\ req' = [req EXCEPT ![w] = [Idle EXCEPT !.at = "createDevice", !.key = s]]
    /\ UNCHANGED <<tables, tokens, overlapped>>

CreateDevice(w) ==
    /\ req[w].at = "createDevice"
    /\ DevicesOf(req[w].key) = {}
    /\ devices' = Append(devices, [serial |-> req[w].key, paired |-> FALSE, owner |-> NoUser])
    /\ req' = [req EXCEPT ![w] = Idle]
    /\ UNCHANGED <<users, shares, tokens, overlapped>>

-----------------------------------------------------------------------------
(* POSTPilotPair: a user shows a device's token; who owned the device      *)
(* before plays no part.                                                   *)

FindDevice(w, u, d) ==
    /\ req[w] = Idle
    /\ req' = [req EXCEPT ![w] = [Idle EXCEPT !.at = "pair", !.user = u, !.device = d]]
    /\ overlapped' = Overlap(w, d)
    /\ UNCHANGED <<tables, tokens>>

Pair(w) ==
    /\ req[w].at = "pair"
    /\ devices' = [devices EXCEPT ![req[w].device].paired = TRUE,
                                  ![req[w].device].owner  = req[w].user]
    /\ req' = [req EXCEPT ![w] = Idle]
    /\ UNCHANGED <<users, shares, tokens, overlapped>>

-----------------------------------------------------------------------------
(* requireDeviceOwner, in front of unpairing and sharing: it looks at the  *)
(* owner when the request begins, and nobody does afterwards.              *)

(* Mutant of Owns: a device without owner is anybody's.                    *)
OwnsOrNobody(u, d) == devices[d].owner \in {u, NoUser}

Owns(u, d) == devices[d].owner = u

(* POSTDeviceUnpair: two updates of the row.                               *)
CheckUnpair(w, u, d) ==
    /\ req[w] = Idle
    /\ Owns(u, d)
    /\ req' = [req EXCEPT ![w] = [Idle EXCEPT !.at = "unpair", !.user = u, !.device = d]]
    /\ overlapped' = Overlap(w, d)
    /\ UNCHANGED <<tables, tokens>>

(* Mutant of Unpair: the owner is cleared first.                           *)
UnpairClearsOwner(w) ==
    /\ req[w].at = "unpair"
    /\ devices' = [devices EXCEPT ![req[w].device].owner = NoUser]
    /\ req' = [req EXCEPT ![w].at = "clearOwner"]
    /\ UNCHANGED <<users, shares, tokens, overlapped>>

Unpair(w) ==
    /\ req[w].at = "unpair"
    /\ devices' = [devices EXCEPT ![req[w].device].paired = FALSE]
    /\ req' = [req EXCEPT ![w].at = "clearOwner"]
    /\ UNCHANGED <<users, shares, tokens, overlapped>>

ClearOwner(w) ==
    /\ req[w].at = "clearOwner"
    /\ devices' = [devices EXCEPT ![req[w].device].owner = NoUser]
    /\ req' = [req EXCEPT ![w] = Idle]
    /\ UNCHANGED <<users, shares, tokens, overlapped>>

(* POSTDeviceAddUser, with a user it has found: FirstOrCreate is a select  *)
(* and an insert.                                                          *)
CheckShare(w, u, d, to) ==
    /\ req[w] = Idle
    /\ Owns(u, d)
    /\ req' = [req EXCEPT ![w] =
                 [Idle EXCEPT !.at = "findShare", !.user = u, !.device = d, !.to = to]]
    /\ overlapped' = Overlap(w, d)
    /\ UNCHANGED <<tables, tokens>>

(* Mutant of FindShare: Create instead of FirstOrCreate.                   *)
FindShareSkipped(w) ==
    /\ req[w].at = "findShare"
    /\ req' = [req EXCEPT ![w].at = "createShare"]
    /\ UNCHANGED <<tables, tokens, overlapped>>

FindShare(w) ==
    /\ req[w].at = "findShare"
    /\ req' = [req EXCEPT ![w] = IF SharesOf(@.device, @.to) = {}
                                 THEN [@ EXCEPT !.at = "createShare"] ELSE Idle]
    /\ UNCHANGED <<tables, tokens, overlapped>>

CreateShare(w) ==
    /\ req[w].at = "createShare"
    /\ shares' = Append(shares, [device |-> req[w].device, to |-> req[w].to])
    /\ req' = [req EXCEPT ![w] = Idle]
    /\ UNCHANGED <<users, devices, tokens, overlapped>>

-----------------------------------------------------------------------------
(* Any statement may fail, an insert because of an index: the request is   *)
(* answered with an error, and what it has written stays.                  *)
RequestFails(w) ==
    /\ req[w] # Idle
    /\ req' = [req EXCEPT ![w] = Idle]
    /\ UNCHANGED <<tables, tokens, overlapped>>

LoginStep(w) == CreateUser(w) \/ RereadUser(w) \/ \E a \in Accounts : FindUser(w, a)

RegisterStep(w) == CreateDevice(w) \/ \E s \in Serials : FindSerial(w, s)

DeviceStep(w) ==
    \/ Pair(w) \/ Unpair(w) \/ ClearOwner(w) \/ FindShare(w) \/ CreateShare(w)
    \/ \E u \in LoggedIn, d \in DOMAIN devices :
         \/ FindDevice(w, u, d)
         \/ CheckUnpair(w, u, d)
         \/ \E to \in DOMAIN users : CheckShare(w, u, d, to)

Next == \E w \in Handlers : LoginStep(w) \/ RegisterStep(w) \/ DeviceStep(w) \/ RequestFails(w)

Spec == Init /\ [][Next]_vars

-----------------------------------------------------------------------------
Stages == {"idle", "createUser", "rereadUser", "createDevice", "pair", "unpair",
           "clearOwner", "findShare", "createShare"}

DeviceRows == [serial : Serials, paired : BOOLEAN, owner : {NoUser} \union DOMAIN users]

TypeOK ==
    /\ users \in Seq(Accounts)
    /\ devices \in Seq(DeviceRows)
    /\ shares \in Seq([device : DOMAIN devices, to : DOMAIN users])
    /\ tokens \subseteq [account : Accounts, user : DOMAIN users]
    /\ req \in [Handlers -> [at : Stages, key : Accounts \union Serials \union {NoKey},
                             user : {NoUser} \union DOMAIN users,
                             device : {0} \union DOMAIN devices,
                             to : {NoUser} \union DOMAIN users]]
    /\ overlapped \subseteq DOMAIN devices

(* However first logins of one account overlap, and whichever of their     *)
(* statements fail, all tokens given for the account name the same user,   *)
(* the only one it has; a serial has one device.                           *)
RegisteredOnce ==
    /\ \A i, j \in DOMAIN users : users[i] = users[j] => i = j
    /\ \A c, d \in DOMAIN devices : devices[c].serial = devices[d].serial => c = d
    /\ \A t \in tokens : users[t.user] = t.account

(* A paired device has an owner, also when an unpairing failed half-way,   *)
(* unless requests overlapped on the device (a pairing between the two     *)
(* updates of an unpairing loses its owner).                               *)
PairedHasOwner ==
    \A d \in DOMAIN devices \ overlapped : devices[d].paired => devices[d].owner # NoUser

(* A device is shared with a user once, unless requests overlapped on it.  *)
SharedOnce ==
    \A i, j \in DOMAIN shares :
        shares[i] = shares[j] /\ shares[i].device \notin overlapped => i = j

(* A paired device that has lost its owner stays that way until somebody   *)
(* pairs it again: nobody passes the owner check, so no request to unpair  *)
(* it that begins afterwards repairs the row.                              *)
Ownerless(d) == devices[d].paired /\ devices[d].owner = NoUser

Repairing(d) == \E w \in Handlers : req[w].device = d /\ req[w].at \in {"pair", "unpair"}

OwnerlessStays ==
    [][\A d \in DOMAIN devices : Ownerless(d) /\ ~Repairing(d) =>
         Ownerless(d)' /\ (Repairing(d)' => \E w \in Handlers :
                             req'[w].device = d /\ req'[w].at = "pair")]_vars
=============================================================================
