---------------------------- MODULE RouteListing ----------------------------
(***************************************************************************)
(* What the API says of a route: internal/server/controllers/v1/           *)
(* route_files.go, with the segment listing of devices.go and the playlist *)
(* of me.go.  Each answer joins the route's row, whose segments are        *)
(* numbered from 1 in the order their logs were parsed (RouteIngest), with *)
(* the directories of uploaded files, which carry the device's own         *)
(* numbers, from 0.                                                        *)
(*                                                                         *)
(* A sorted slice of distinct segments is its set; an index into it is the *)
(* number of smaller members.                                              *)
(***************************************************************************)
EXTENDS RouteIngest

CONSTANTS
    NanosPerMilli,  \* 10^6
    NanosFrom,      \* 10^15: greater times are taken for nanoseconds
    Minute,         \* defaultSegmentDurationMillis
    ZeroTime,       \* UnixMilli of a time.Time that is not set
    TypeOf,         \* uploadFileTypeByName
    Base,           \* the route: its counter, or Short, and its hash
    Short,          \* "the row has no counter": an older one
    Trees           \* the uploads of the device that may be found

ASSUME UnitsAssumption == {NanosPerMilli, Minute} \subseteq Nat \ {0} /\ NanosFrom \in Nat
ASSUME ZeroTimeAssumption == ZeroTime \in Int

(* The directory of a segment is <counter>--<hash>--<segment>; the number  *)
(* may have leading zeros.  A tree is a finite set of files.               *)
ASSUME TreesAssumption == \A tree \in Trees :
    /\ IsFiniteSet(tree)
    /\ \A f \in tree : f = [dir |-> f.dir, name |-> f.name] /\ f.dir.segment \in Nat

-----------------------------------------------------------------------------
(* Uploaded files.                                                         *)

(* segmentFromUploadDir, where it does not refuse the name.                *)
Matches(dir) ==
    /\ dir.hash = Base.hash
    /\ Base.counter \in {Short, dir.counter}

(* summarizeUploadedRoute.                                                 *)
Files(tree)    == {f \in tree : Matches(f.dir) /\ f.name \in DOMAIN TypeOf}
Segment(f)     == f.dir.segment
UploadedSegments(tree) == {Segment(f) : f \in Files(tree)}
QCameras(tree) == {f \in Files(tree) : TypeOf[f.name] = "qcameras"}

(* GETRouteFile: the file is sought in the first directory of its segment. *)
SegmentDir(tree, s) ==
    CHOOSE dir \in {f.dir : f \in tree} : Matches(dir) /\ dir.segment = s

Served(tree, s, name) ==
    /\ name \in DOMAIN TypeOf
    /\ \E f \in tree : Matches(f.dir) /\ Segment(f) = s
    /\ [dir |-> SegmentDir(tree, s), name |-> name] \in tree

-----------------------------------------------------------------------------
(* routeSegmentMetadata.                                                   *)

Listed(r, uploaded) ==
    LET all == {r.numbers[i] : i \in DOMAIN r.numbers} \union uploaded
    IN  IF all = {} THEN {0} ELSE all

(* normalizeAPITime.                                                       *)
Normalized(t) == IF t > NanosFrom THEN t \div NanosPerMilli ELSE t

StoredInterval(r, i) == [start |-> Normalized(r.starts[i]), end |-> Normalized(r.ends[i])]

(* A minute for each segment from the start of the route on, but not       *)
(* beyond its end.                                                         *)
DefaultInterval(r, s) ==
    LET routeStart == IF r.startTime = 0 THEN ZeroTime ELSE r.startTime \div NanosPerMilli
        routeEnd   == r.endTime \div NanosPerMilli
        start      == routeStart + s * Minute
        clipped    == r.allProcessed /\ routeEnd \in start + 1 .. start + Minute
    IN  [start |-> start, end |-> IF clipped THEN routeEnd ELSE start + Minute]

(* Mutant of SegmentEntry: the number is taken for a zero-based index.     *)
SegmentEntryByIndex(r, s) == {i \in DOMAIN r.numbers : i = s + 1}

(* routeSegmentIndex: the arrays of a row have equal lengths.              *)
SegmentEntry(r, s) == {i \in DOMAIN r.numbers : r.numbers[i] = s}

ListedInterval(r, s) ==
    LET usable == {i \in SegmentEntry(r, s) :
                     LET at == StoredInterval(r, i) IN at.start > 0 /\ at.end > at.start}
    IN  IF usable = {} THEN DefaultInterval(r, s)
        ELSE StoredInterval(r, CHOOSE i \in usable : \A j \in usable : i <= j)

-----------------------------------------------------------------------------
(* GETRouteQCameraM3U8.                                                    *)

Index(s, segments) == Cardinality({n \in segments : n < s})
Nth(k, segments)   == CHOOSE s \in segments : Index(s, segments) = k

Duration(at) == at.end - at.start

(* Mutant of PlaylistDuration: the index among the qcamera files.          *)
PlaylistDurationByFile(r, tree, s) ==
    LET uploaded == UploadedSegments(tree)
        k == Index(s, {Segment(f) : f \in QCameras(tree)})
    IN  Duration(ListedInterval(r, Nth(k, Listed(r, uploaded))))

(* The index of the file's segment among the uploaded ones is used in the  *)
(* arrays of all listed ones.                                              *)
PlaylistDuration(r, tree, s) ==
    LET uploaded == UploadedSegments(tree)
    IN  Duration(ListedInterval(r, Nth(Index(s, uploaded), Listed(r, uploaded))))

-----------------------------------------------------------------------------
(* The listing gives a stored segment exactly the wall-clock interval, in  *)
(* milliseconds, of the log it was parsed from - through the row's         *)
(* nanosecond arrays, the numbering by parse order and the guess of the    *)
(* unit - if the route had a clock by then, and the clock was set later    *)
(* than NanosFrom: earlier times are taken for milliseconds.               *)
ExactMillis(seg) ==
    LET clock == fed[FirstClocked]
        millis(boot) == (clock.clockWall + boot - clock.clockMono) \div NanosPerMilli
    IN  [start |-> millis(seg.init), end |-> millis(seg.end)]

ListedTimesExact ==
    Clocked # {} /\ (\A i \in HalfClocked : i > FirstClocked) =>
      \A i \in FirstClocked..Len(fed) :
         /\ route.starts[i] > NanosFrom /\ route.ends[i] > NanosFrom
         /\ ExactMillis(fed[i]).start \in 1 .. ExactMillis(fed[i]).end - 1
         => ListedInterval(route, i) = ExactMillis(fed[i])

(* The playlist gives a video file the duration that the listing gives its *)
(* segment, although the two index different lists, as long as every       *)
(* segment listed before it has uploads.                                   *)
PlaylistMatchesListing ==
    \A tree \in Trees : \A f \in QCameras(tree) :
       LET uploaded == UploadedSegments(tree)
           s == Segment(f)
       IN  (\A n \in Listed(route, uploaded) : n < s => n \in uploaded) =>
             PlaylistDuration(route, tree, s) = Duration(ListedInterval(route, s))
=============================================================================
