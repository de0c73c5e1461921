# Formal models of rtz-server

rtz-server is a self-hosted replacement for the comma.ai connect backend: openpilot
devices ("dongles") pair with it, keep a websocket open for remote procedure calls,
and upload driving logs; users look at their devices, routes and saved places through
a REST API. This directory holds TLA+ models of its stateful parts, the TLC runs that
check them on small instances, and TLAPS proofs for every instance.

Run `tlc -config X.cfg M` for a run and `tlapm M.tla` for a proof module.

## 1. Inventory

| component | source | state | operations | what is hard |
|---|---|---|---|---|
| Log queue | `internal/logparser/queue.go` | buffered channel, busy marks per dongle, job counter | `AddLog`, dispatcher loop `Start`, job goroutines, `Stop` | the dispatcher sends into the channel it alone receives from; the busy mark is stored by the job, tested by the dispatcher; close while others send |
| Route ingestion | `queue.go` `processLog`, `db/models/route.go`, `db/models/int64_array.go` | one row per route | read row, fold a segment into it, save all columns | read and save are not one transaction; concurrent creation; uint64 wall-clock arithmetic |
| Log parser | `internal/logparser/parser.go` | accumulator over log events | `DecodeSegmentData` | first/last event rules, partial files |
| Upload handler | `controllers/v1.4/upload.go` | files, boot/crash rows | `PUTUpload`, `GETUploadURL` | truncating create, failure between steps, hand-over to the queue |
| Storage | `internal/storage/*.go` | file tree or S3 objects | open, create, mkdir, close | S3 writes only on `Close` |
| Athena RPC | `internal/server/websocket/*.go`, `internal/utils/channel_watcher.go`, `controllers/athena.go` | dongle -> channel pair, subscribers per call id, NATS subscriptions | `Call`, `OnConnect`, `OnMessage`, `OnDisconnect`, `Stop`, NATS callback | answers racing timeouts, reconnects racing disconnects, sends on closed channels |
| Websocket handler | `internal/websocket/{ws,writer}.go` | one handler object holding "the" connection | `CreateHandler`, `handle`, writer | the connection field is shared by all connections of the endpoint |
| Device registry | `controllers/v2/pilot.go`, `controllers/v1/devices.go`, `db/models/device*.go`, `middleware.go` | devices, owners, shares | pilot auth, pair, unpair, add user, patch, list | check-then-act over rows without transactions |
| Navigation | `controllers/v1/navigation.go`, `db/models/location.go` | pending destination on the device row, saved locations | set, take, delete destination; put, list, delete locations | remote call followed by a database fallback; delete-then-create |
| User accounts | `controllers/v2/auth.go`, `db/models/user.go` | users per OAuth provider | find-or-create at login | two first logins at once |
| Route listing | `controllers/v1/route_files.go`, `controllers/v1/devices.go`, `controllers/v1/me.go` | none (reads rows and upload directories) | list segments with their times, playlist, serve a file | segments are numbered from 1 in parse order in the row, from 0 by the device in the directories; units guessed from the magnitude |
| Lifecycle | `cmd/cmd.go`, `internal/server/server.go` | servers, queue, storage, NATS | start, concurrent stops | the stops run at once, and nothing waits for a job or for the goroutine an upload leaves behind |
| Authentication | `internal/server/middleware.go`, `utils/jwt.go` | none | token checks per route | pure per-request logic |
| Identifiers | `utils/checksum.go`, `db/models/device.go` | none | Luhn check of the serial, dongle id | pure functions |
| Configuration | `internal/config/config.go` | none after start | load, validate | long but sequential |
| Metrics, database setup, Mapbox proxy, OAuth clients, generated schema | `internal/metrics`, `internal/db/db.go`, `controllers/mapbox.go`, `internal/apis`, `internal/cereal` | counters, connection | pure I/O | not modelled |

How they interact: `PUTUpload` writes a file to the storage and starts a goroutine that
calls `LogQueue.AddLog`; a job of the queue reads the file back, decodes it and merges
it into the route's row, which the route listing and the dashboard read. `HandleRPC`
and `POSTSetDestination` call `RPCWebsocket.Call`, which reaches the device through the
channel pair that `OnConnect` registered, or through NATS when another instance holds
the websocket; the device's answer comes back through `OnMessage` to the channel
watcher, which calls the subscriber that `Call` registered.

What makes each component correct:

* **Log queue** - no more jobs than slots; an accepted log is never lost or processed
  twice; every accepted log is processed while the queue does not overflow; busy marks
  disappear with the job that set them; `Stop` ends.
* **Route ingestion** - the three segment arrays keep the same length, numbers are
  1..n, clock values are set once, no segment is lost.
* **Uploads and storage** - what is answered with success is stored whole and parsed;
  a job takes a part for the log only while the file is being uploaded again.
* **Route listing** - a listed segment has the times of its log; playlist and listing
  agree; a listed file is served.
* **Athena RPC** - a caller gets the answer to its own call or an error, always one of
  them; a channel is not closed twice; over NATS, a call runs on the device once, and a
  subscription does not outlive its session.
* **Websocket handler** - a connection reads and writes its own socket, and is closed.
* **Lifecycle** - the process ends, and loses only the jobs that were running.
* **Device registry** - a paired device has an owner; one share per device and user.
* **Navigation** - a waiting destination is not lost and not outlived by an older one; one
  home and one work location per device.

## 2. The modules

| module | models | kind |
|---|---|---|
| `LogQueue` | `queue.go`: channel, dispatcher, jobs, `Stop` | state machine |
| `LogPipeline` | `LogQueue` with each job's `processLog`: read the row, save the row | composition |
| `Shutdown` | `LogPipeline` with the uploads that feed it and the signal handler of `cmd.go` | composition |
| `SegmentStore` | what uploading promises: each log merged once and for good, or failed | abstract specification |
| `Uploads` | `PUTUpload`, the two storage drivers, and the job that opens the file later | state machine |
| `RouteIngest` | the columns one log's segment gives its route | operators, fed in any order |
| `RouteListing` | what the API makes of the row of `RouteIngest` and of the uploads: listing, playlist, files | operators over its states |
| `LogParser` | `DecodeSegmentData` | pass over events, against definitions on whole logs |
| `AthenaRpc` | `websocket.go`, `rpc.go`, `channel_watcher.go` on one instance without NATS | state machine |
| `NatsRpc` | the NATS branch of `rpc.go` and `websocket.go` between instances | state machine |
| `DeviceRegistry` | login, registration, pairing, unpairing and sharing as statements of concurrent requests on rows | state machine |
| `Navigation` | `navigation.go`: a device's waiting destination and its saved locations | state machine |
| `WsHandler` | `ws.go`, `writer.go`: all requests of the endpoint over one handler object | state machine |
| `PipelineProofs` | - | theorems about `LogQueue` and `Shutdown` |
| `RouteProofs` | - | theorems about `LogParser`, `RouteIngest` and `RouteListing` |
| `UploadsProofs`, `AthenaRpcProofs`, `NatsRpcProofs`, `WsHandlerProofs`, `DeviceRegistryProofs`, `NavigationProofs` | - | theorems about the module in the name |
| `MC*` | the instances TLC checks | |

In every state machine a variable is a piece of the program's state or the place a
goroutine has reached, and an action is what one goroutine does between two points at
which another can interfere. Mutants, next to the definitions they change, are the
plausible bugs the properties are known to catch; no specification uses them.

### LogQueue

`queue`, `senders`, `closed` are the Go channel: buffer, blocked senders in order,
closed flag. `dispatcher` and `held` are the `Start` loop and its loop variable; `job`
follows each log from `AddLog` through the statements of its job goroutine;
`activeJobs` and `activeJobsCount` are the fields of those names; `panicked` is the
death of the process by a send on the closed channel, which nothing recovers there.
`Receive`, `LoadActive`, `Spawn`/`NoFreeSlot`, `Requeue` are the loop body, `EndLoop` and
`ReportClosed` its end and the handshake with `Stop`; `MarkActive`, `UnmarkActive`,
`ReleaseSlot` the job. The dispatcher's send into a full buffer is an action that is
disabled: only the panic when `Stop` closes the channel can follow.

### LogPipeline, SegmentStore

A row is the sequence of the logs merged into it. `ReadRoute` copies it into the job's
`snapshot`, `SaveRoute` writes the copy with the job's segment over whatever is there,
`InsertRefused` is the unique index on `route_id`, `IngestFails` any earlier error.
`ReturnFromIngest` conjoins `UnmarkActive` of the queue with the end of `processLog`.
`SegmentStore` has one step per log; `ImplementsSegmentStore` maps `fate` to how far the
job is.

### Shutdown

`upload` follows the request that brings each log: `UploadArrives`, `UploadEnds`, and
`CallAddLog`, the goroutine it leaves behind. `Signal` is the handler of `cmd.go` waking up;
`StopListening`/`HttpEnds`, `StopQueue` and `CloseStorage` are the three goroutines it starts,
in any order; `Exit` is the end of `errGrp.Wait` and of `main`. `HttpEnds` needs no idle
server: `Shutdown` gives up after 240 s. From `Exit` on nothing runs (`Alive`).

### Uploads

`file` is what is at each path, as the set of chunks that are there: two requests for one
path write the same bytes at their own offsets, and `Create` truncates. With S3 nothing is
there before `CloseFile`. `put` follows `PUTUpload` (`Create`, `Write`, `CloseFile`,
`CheckHeader`, `HandOver` or `InsertLogRow`; `UploadFails` is a broken connection or a failed
statement), `job` the queue's job (`OpenLog`, `ReadLog`, `Merge`, `IngestFails`), which `LogQueue`
schedules. The job reads to the end of the file as it finds it. `DecodeSegmentData` takes
`io.EOF` for the end of the log, so what decides is whether the decompression and the capnp
decoder miss what is not there: they do not after a prefix that is a compressed log of its
own. `CleanEnds` lists those prefixes of each qlog (code outside `src/`): for `.zst` the empty
file, and the end of a frame that ends with a message; for `.bz2`, whose reader reports an
unexpected end of an empty file, it may be none. After a clean end the job is `decoded`, and
the short or empty segment is merged like any other. `CloseStorage` is the stop function of `cmd.go`, which closes the storage while
the queue is still drained; `Restart` loses requests and jobs.

### RouteIngest, LogParser

`RouteIngest!Merge` is the middle of `processLog`: clock, start, segment arrays, end, in
the code's order and with its guards. Wall times are computed modulo `Modulus` (for
2^64) and converted to the signed column type. `LogParser!Handle` is the switch of
`DecodeSegmentData`; a broken event returns no data. What `RouteIngest` assumes of a segment
(`SegmentAssumption`) is what the parser is proved to return (`SegmentOK`); it takes
`EventAssumption` for that, that no clocks event has a wall time at boot time 0.

### RouteListing

It has no variables of its own: its operators are read off the row that `RouteIngest` has
reached and off any tree of uploaded files. `Files` and `Matches` are
`summarizeUploadedRoute` and `segmentFromUploadDir`, `Listed` and `ListedInterval`
`routeSegmentMetadata` with `normalizeAPITime`, `PlaylistDuration` the loop of
`GETRouteQCameraM3U8`, `Served` the search of `GETRouteFile`. The two numberings are as the
code has them: the row's from 1, the directories' from 0.

### AthenaRpc

A session is the channel pair, the open flag, the pump and the watcher of one
connection. `registered` is `c.dongles`. `TakeSession`, `ClearOpen`, `CloseInbound`,
`CloseOutbound` are the statements of `OnDisconnect`; `LoadMisses`/`LoadFinds`,
`CheckOpen`, `Subscribe`, `SendInbound`, `Timeout` those of `Call`; `LoadTarget`,
`CheckTarget`, `SendOutbound` those of an `OnMessage` goroutine. A send on a closed
channel is an action of its own: recovered by gin in `Call`, the end of the process in
the other goroutines (`crash`). Connections of one dongle may overlap: nothing makes a
device's new connection wait for the end of the old one's handler. Each handler is
taken to read its own socket, and a device to answer a call once, with its id.

### NatsRpc

One device with connections on any instances. `place` is the instance a connection came to;
`subscribed`, `pending` and `callback` are its subscription, the messages that wait for it
(dropped beyond `PendingLimit`) and the one callback it runs at a time. `StoreSession` and
`SubscribeNats` are `OnConnect`, `TakeSession`, `Unsubscribe`, `CloseSession` `OnDisconnect`;
`GiveUp`, `SendRequest`, `RequestTimesOut`, `RequestFails` the retry loop of `Call`; `TakeRequest`,
`CheckOpen`, `SendInbound`, `CallbackTimesOut`, `Answer` the callback. A message is `live` while
its call still waits for a response to that very request; `Respond` delivers to live ones
only, and a NAK takes the retry back. `watcher` says whether a session's watcher is inside
the subscriber of the callback that runs or of one that has returned, whose channel is
closed. `Crash` is the end of one instance by a panic nothing recovers, with what NATS
and the memory lose by it.

### WsHandler

`AthenaRpc`'s assumption, examined: `CreateHandler` makes one object, whose `conn` field
every request sets and every loop reads. `current` is that field.

### DeviceRegistry

`users`, `devices` and `shares` are the tables as sequences of rows, `req` what each
request is about to do: `POSTAuth` is `FindUser`, `CreateUser`, `RereadUser`; `POSTPilotAuth`
is `FindSerial`, `CreateDevice`; `POSTPilotPair` is `FindDevice`, `Pair`; `POSTDeviceUnpair` is
`CheckUnpair` (with the owner check of the middleware), `Unpair`, `ClearOwner`;
`POSTDeviceAddUser` is `CheckShare`, `FindShare`, `CreateShare`. A unique index is the guard
of the insert; the index named in the tag of `device_shares` is none, since gorm splits
tags at semicolons. `RequestFails` ends a request between two statements. `tokens` and
`overlapped` are history variables. The three providers of a login have the same code
and one account space here.

### Navigation

`row` is the destination columns of one device's row; `AskDestination`, `CallSucceeds`,
`CallRefused`, `Clear`, `Save` are `POSTSetDestination`, `ReadNext` and `TakeNext`
`GETNavigationNext`, `DropNext` `DELETENavigationNext`. The answer of the remote call is any
of those `AthenaRpc` allows. A destination is one datum: that `Updates` leaves empty columns
as they were is not modelled. `PutLocation`, `DeleteLabelled`, `InsertLocation` are `PUTNavigationLocations`,
`DeleteLocation` `DELETENavigationLocation`. The other variables are histories.

## 3. The runs

| run | instance | shows |
|---|---|---|
| `shutdown` | 3 uploads of one route, depth 1, 1 slot, the signal at any time | see below |
| `log_queue_one_job` | 3 logs, 2 slots | **violation**: two jobs of one dongle run at once |
| `log_pipeline_overlap` | 4 logs of two devices with one route id, 2 slots, depth 4 | never more jobs than slots; rows hold only saved logs of one device, none twice; every accepted log is ingested or the queue stops |
| `uploads` | a qlog uploaded twice, a boot log once, 3 chunks, both drivers, shutdown and restarts at any time | the last request to create a file decides whether it is whole; a job takes a part of a log, or an empty file, for the whole, or meets an error in it, only on the filesystem while a later upload of the file is under way or given up; every upload answered with success is parsed unless the process stops |
| `route_ingest` | up to 3 segments of a set with early and late clocks, no clock, half a clock, or the empty segment of an emptied log; segments 0, 1 and 3 each without uploads, with a qlog, or with a video too | arrays aligned, times exact across the uint64 wrap-around, start and end taken from the right segments; a listed segment has the times of its log in milliseconds; the playlist's durations are the listing's, as long as no listed segment before lacks uploads |
| `log_parser` | logs of up to 4 events | end time and clock pair are those of the log read as a whole; distance is the length of the path through the valid fixes |
| `rpc` | 2 overlapping connections, 1 call, 1 `forwardLogs` | see below |
| `nats_rpc` | 2 connections, on the other instance or moving to the caller's, 1 call, 1 retry | see below |
| `ws_overlap` | 2 devices, 1 message and 1 call each | a request only ever uses its own or a newer connection; the newest is closed at the end; requests end |
| `ws_cross` | the same | **violation**: a call is written to another device's socket |
| `device_registry` | 2 requests at a time, 2 accounts, 1 device | see below |
| `navigation` | 2 requests at a time, 4 destinations and locations together | see below |

`shutdown` shows that a sent log is in one place; that the dispatcher blocks on itself only
when more logs wait than the depth; that with one slot the pipeline implements
`SegmentStore`; that an exit in order cuts off only jobs in their slots; that a panic of
the closed channel needs an accepted upload without a job; and that after the signal the
process ends, also with a blocked dispatcher (closing the channel makes it panic).

`device_registry` shows that tokens of an account name its one user and a serial has one
device whatever overlaps or fails; that a paired device has an owner and a share is
single as long as no two requests work on the device at once; and that a paired device
that lost its owner is repaired by pairing it again only.

`navigation` shows that a waiting destination is lost only if it was saved between the
read and the update of a `GET next`; that a confirmed destination is never followed by an
older one; that
home and work are single unless saves of them overlapped with none alone since, and that a
saved label keeps a location unless an insert failed or the last one was deleted.

`rpc` shows that the map holds only open sessions and none is closed twice, however
connections overlap; that a waiting call's subscriber is registered or being called; that
a connected device is reported
missing only after another connection of it has ended late; and that a call which found
the device returns, unless its session was orphaned by such an overlap.

`nats_rpc` shows that a subscription refuses every call only if another connection's
disconnect took its session before `OnConnect` had subscribed; that a waiting callback's
subscriber is registered or being called; that an answered call is given to the device
once more only if it had a second connection; and that the call and each callback end,
the call unless such a subscription refuses it for ever (a NAK is retried without limit),
the callback unless its session was orphaned as in `rpc`.

**Bounds.** Two slots, two connections, two devices are what each hazard needs: a
lost update takes two jobs (and a third that has made the row), an evicted session two
connections. A queue of depth one with three logs has a full buffer, a log in the
dispatcher's hand and a running job or a waiting sender at once. In `nats_rpc` connections are numbered as
they come, both to the other instance or one there and the next to the caller's (with both
on the caller's the call is `AthenaRpc`'s); one retry gives two copies of a call under way, with one
waiting in each subscription. The safety properties that matter most are proved without
bounds (section 4). `MaxFed`, `MaxEvents`, `MaxSent`, `MaxCalls`, `MaxSaves`, `MaxOwed` and
`PendingLimit` are the only bounds in guards (`MaxRetries` is the code's constant, 3 there);
three segments have a first, a middle and a last, four events a pair of each kind. Of
three chunks a reader of the qlog misses the rest after none and after two, not after one:
the emptied file, a frame's end, and a cut within a frame.
Deadlock is checked in `navigation` and `uploads` only: the other systems stop when their
uploads, calls and connections are over.

**Fairness.** Weak fairness of the steps of running goroutines: the Go scheduler runs
what can run, `processLog` has I/O that returns or fails, the timers (120 s of `Call`, 5 s and
30 s over NATS, 240 s of the shutdown) fire, a read on a closed socket returns. A choice
among a goroutine's outcomes is left free. Uploads and how long they take, the shutdown
signal, requests, connections and what devices send are never forced.

**Disagreements found.**

* `OneJobPerDongle` (`queue.go:67`): the dispatcher tests the busy mark, but the job stores it,
  later. The comment at line 59 promises one job per dongle. Two such jobs of one route
  lose a segment: with two slots the pipeline does not implement `SegmentStore`, which is
  how the mutant of `ImplementsSegmentStore` breaks it. With one slot it does (proved).
* `CallsReachTheirDevice` (`ws.go:105`): the connection field is shared by all requests of
  the endpoint.

Met while modelling, without a sentence in the repository that denies it: a device that
reconnects before its old handler has ended loses its new session to the old handler's
`OnDisconnect` (`MissNeedsLateDisconnect` says this is the only way); an answer after the 120 s
timeout ends the process, also one that comes over NATS; so does a message handled, or a
NATS call sent, while its session is being closed; a `.zst` qlog that is uploaded again while
the job of the first upload is queued has been emptied (`upload.go:144`), and the job merges an
empty segment into the route (`parser.go:60`, then `queue.go:190`), to which the second job
adds the whole one; where the second upload breaks off, the empty or short segment is all the
route gets. `ShortWhileRewritten` says that this is the only way.

## 4. The proofs

Safety only, for every value of the constants that the named assumptions allow.

* `PipelineProofs`, the queue. `IInv` is inductive. `EachSentLogHeldOnce` is not inductive without the
  type of the dispatcher's hand (`held` is empty exactly where the loop holds nothing) and
  without a bijection argument: lemmas say what moving one log does to the set of sent
  logs and to the lengths. `JobsFitSlots` needs `SlotsCounted` (the counter equals the
  number of jobs between spawn and release). `StopLeavesNoQueuedLog` needs `ShutdownOrder` and
  `SendersWait`. Assumed: positive depth and slots, `NoLog` is no log.
* `PipelineProofs`, the process. Every step of the process is one of the queue or leaves it alone, so
  `IInv` holds of it too. `ProcessInv` ties the job's place to `processLog`'s and to the
  upload that sent the log. `RowsInv` says that a row, and the copy a job has read, are
  lists of saved logs of one route and one device; copies matter because `SaveRoute` writes
  them back. `OneSlotImplements` is the refinement of `SegmentStore` for one slot:
  `FreshCopies` (a job's copy is still the row) is inductive because two jobs between read
  and save would both be in the one slot, which `SlotsCounted` excludes.
* `UploadsProofs`. `FileInv` relates a path's file to the request that created it last and to
  how far that has written, `JobInv` a job to the answered upload and the object it reads.
  `LatestInv`: a path that was created has an upload that created it last, so that a job
  which misses a piece has one to blame; it is another upload, and not stored, since its
  file would be whole (`ShortReads`).
* `AthenaRpcProofs`. `SessionInv`: a session belongs either to the map, under its own
  connection's dongle, or to the one `OnDisconnect` that took it; what is closed was
  taken. Without the second half two disconnects could share a session. It carries
  `MissNeedsLateDisconnect` too: only a connection that leaves empties an entry of the map.
  `AnswerInv`:
  between `Subscribe` and its return a call is known to exactly one of its session's
  subscriber table and its watcher, and no answer exists before the pump had the call.
* `NatsRpcProofs`. `QueueInv`: a copy of a call is `live`, in a subscription or in a callback,
  only while its call waits for that very request, which its retry counter has counted (so
  that a NAK can take it back). With it: `Heard` - from its subscription to its return a
  callback's call is in the table, or the watcher is inside this callback's subscriber and
  no earlier one's with the same id; `OverlapInv` - a session that was closed while its
  handler serves was taken by another connection of its instance, since a handler that took
  its own has unsubscribed before; `SoleInv` - while the device has had one connection its
  subscription holds the copies of a call in the order of the attempts (`LiveIsLast`), so
  that none is left behind an answered one (`AnsweredIsGone`). `InOrder` is not inductive
  for a connection next to another, whose subscription gets copies of its own.
* `WsHandlerProofs`. `CurrentInv`: `h.conn` is the connection that upgraded last, the requests
  past their upgrade are those in `upgrades`, and the newest has not ended while it is open.
  What a request reads or a writer writes is thereby not older than its own connection.
* `RouteProofs`, the parser. `ParserInv` relates the accumulators to the log: the clock pair to the
  first clocks event with a wall time, the last position to the last valid fix, the distance
  to `PathLength`. That sums are what their recursive definition says is an induction, which
  the library states over an operator; `NatSetInduction` gets it for a set instead, from
  the pigeonhole theorem. Assumed: `EventAssumption`.
* `RouteProofs`, the row. `RowInv` keeps the arrays' lengths equal to the number of segments fed
  and the clock's halves consistent (a wall time is never without its boot time), which
  `SetOnce` needs. `HistoryInv` says what the columns are in terms of the segments fed so
  far, with the existence of the first and last ones that the properties choose. The unsigned
  arithmetic is exact modulo any even `Modulus` if all times fit the signed column
  (`TimesFit`, the premise of `TimesExact`). Assumed: `SegmentAssumption`, what the parser
  returns.
* `RouteProofs`, the listing. On top of these: the listing's interval of a stored segment, the
  agreement of playlist and listing for any finite tree of uploads, and that a listed file
  is served if no two directories of the route carry one segment number.
* `DeviceRegistryProofs`. `TableInv` adds to the types what a request carries at each stage;
  with the index (`RegisteredOnce`) a lookup finds the one user of an account.
  `NotOverlappedInv` adds, for devices outside `overlapped`, what a half-done request relies
  on: nobody else works on the device (`Alone`), it is not paired when the owner is cleared
  (`HalfUnpaired`), no such share exists when one is inserted (`NotYetShared`). Nothing is
  assumed of the sets.
* `NavigationProofs`. `TakesTheWaiting`: what a `GET next` has read still waits, or was saved
  meanwhile. `OpenIsUnanswered`: a destination whose request runs was not confirmed before
  any other was asked for, so its `Save` is not stale. `SavedAlone` and `Kept`, label by
  label: a save that overlaps none finds no other location when it inserts, and a label
  without a location has an insert under way.

Model-checked only: liveness (`EveryLogIsIngested`, `ShutdownEnds`, `AnsweredIsParsed`,
`CallReturns`, `CallEnds`, `CallbackEnds`, `RequestsEnd`), which the prover does not handle under
fairness. Every invariant and every step property of the passing runs is a theorem.

## 5. Not modelled

* **Authentication, HandleRPC, middleware**: decisions of one request on what it carries,
  without state. Where a check reads a row that another request may change (ownership
  before unpairing and sharing) it is part of `DeviceRegistry`.
* **Configuration, database setup, metrics, Mapbox proxy, OAuth clients, generated
  schema**: sequential start-up, I/O, or counters that nothing reads.
* **Identifiers, integer array column**: pure functions (the Luhn check, the text form
  of an array). An IMEI that is no integer is answered 400 without a return
  (`pilot.go:140`); the handler goes on with 0.
* **Device registry**: the alias (one update) and the time of the last ping (one update, no
  reader but `POSTSetDestination`, which may find it either way).
* **Athena RPC**: `RPCWebsocket.Stop`, which asks devices to close, and the early return of
  `OnDisconnect` while NATS drains. The channel of 1024 between pump and writer
  (`ws.go:128`) is unbounded.
* **Lifecycle**: opening the listeners, the drain of NATS.
* **Route listing**: URLs, the highest segment per file type, the query by time range.
* **Navigation**: a destination is one datum; that `Updates` leaves empty columns as they
  were is not modelled.
* Wall-clock time: a timeout may come at any moment the code allows one.

## 6. Plan

Done: the log queue, ingestion, uploads and storage, the shutdown, the parser, the
listing, RPC on one instance and over NATS, the websocket handler, the device registry,
accounts, navigation, saved locations; proofs of the safety of all of these. Left, in this
order:

1. `RPCWebsocket.Stop` and the NATS drain, composed with `Shutdown`.
2. The bounded channel between pump and writer, composed with `AthenaRpc`.

The number of runs and of properties is kept small: what is proved for every instance
and says little more about one (`MarksHaveJobs`, `SegmentOK`, `StopLeavesNoQueuedLog`,
`BlockedForGood`, `LateAnswerNeedsTimeout`, `SetOnce`, most type invariants) is not checked
again by a run.
