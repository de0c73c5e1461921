----------------------------- MODULE LogParser ------------------------------
(***************************************************************************)
(* DecodeSegmentData of internal/logparser/parser.go: one pass over the    *)
(* events of a log.  An event that cannot be decoded ends the pass with an *)
(* error and no data, however much was read before; a log that just ends   *)
(* is complete.  The state machine reads one event per step.               *)
(*                                                                         *)
(* Positions are points on a line, so the ECEF distance is the absolute    *)
(* difference; the geodetic position is kept apart because it may be       *)
(* missing (then 0, 0) where the ECEF one is valid.                        *)
(***************************************************************************)
EXTENDS Integers, Sequences, FiniteSets, SequencesExt

CONSTANTS
    Events,     \* events a log may hold, each with its LogMonoTime "mono"
    MaxEvents   \* bound: length of a log

(* Times and positions are numbers, and an event with a wall time is never *)
(* at boot time 0.                                                         *)
ASSUME EventAssumption == \A e \in Events :
    /\ e.mono \in Nat
    /\ e.which = "position" =>
          e.valid \in BOOLEAN /\ e.ecef \in Int /\ e.geodetic \in Nat \X Nat
    /\ e.which = "clocks" => e.wall \in Nat /\ (e.wall # 0 => e.mono # 0)

EmptySegment ==
    [end |-> 0, clockWall |-> 0, clockMono |-> 0, init |-> 0, meta |-> {},
     startOfRoute |-> FALSE, endOfRoute |-> FALSE, positions |-> <<>>,
     distance |-> 0]

Distance(p, q) == IF p.ecef <= q.ecef THEN q.ecef - p.ecef ELSE p.ecef - q.ecef

(* Mutant of WithPosition: every fix is measured from the first one.       *)
WithPositionFromStart(seg, e) ==
    IF ~e.valid THEN seg
    ELSE [seg EXCEPT
            !.distance  = IF seg.positions = <<>> THEN @
                          ELSE @ + Distance(Head(seg.positions), e),
            !.positions = Append(@, [ecef |-> e.ecef, geodetic |-> e.geodetic])]

(* liveLocationKalmanDEPRECATED; a fix that is not valid is skipped.       *)
WithPosition(seg, e) ==
    IF ~e.valid THEN seg
    ELSE [seg EXCEPT
            !.distance  = IF seg.positions = <<>> THEN @
                          ELSE @ + Distance(Last(seg.positions), e),
            !.positions = Append(@, [ecef |-> e.ecef, geodetic |-> e.geodetic])]

WithSentinel(seg, e) ==
    [seg EXCEPT !.startOfRoute = @ \/ e.type = "startOfRoute",
                !.endOfRoute   = @ \/ e.type = "endOfRoute"]

(* Mutant of WithClocks: the last clocks event wins.                       *)
WithLastClocks(seg, e) ==
    [seg EXCEPT !.clockWall = e.wall, !.clockMono = e.mono]

(* clocks: the first event with a wall time; one without leaves its boot   *)
(* time behind until then.                                                 *)
WithClocks(seg, e) ==
    IF seg.clockWall # 0 THEN seg
    ELSE [seg EXCEPT !.clockWall = e.wall, !.clockMono = e.mono]

(* initData: the version, git, device and car columns are one value here.  *)
WithInitData(seg, e) == [seg EXCEPT !.init = e.mono, !.meta = {e.version}]

Handle(seg, e) ==
    CASE e.which = "position" -> WithPosition(seg, e)
      [] e.which = "sentinel" -> WithSentinel(seg, e)
      [] e.which = "clocks"   -> WithClocks(seg, e)
      [] e.which = "initData" -> WithInitData(seg, e)
      [] OTHER                -> seg

-----------------------------------------------------------------------------
VARIABLES log, segmentData, result

vars == <<log, segmentData, result>>

ParserInit == log = <<>> /\ segmentData = EmptySegment /\ result = "reading"

(* Mutant of ReadEvent: the end time is that of handled events only.       *)
ReadEventHandledEnd(e) ==
    /\ result = "reading"
    /\ Len(log) < MaxEvents
    /\ e.which # "broken"
    /\ log' = Append(log, e)
    /\ segmentData' = IF e.which = "other" THEN segmentData
                      ELSE Handle([segmentData EXCEPT !.end = e.mono], e)
    /\ UNCHANGED result

ReadEvent(e) ==
    /\ result = "reading"
    /\ Len(log) < MaxEvents
    /\ e.which # "broken"
    /\ log' = Append(log, e)
    /\ segmentData' = Handle([segmentData EXCEPT !.end = e.mono], e)
    /\ UNCHANGED result

ReadBroken(e) ==
    /\ result = "reading"
    /\ Len(log) < MaxEvents
    /\ e.which = "broken"
    /\ log' = Append(log, e)
    /\ segmentData' = EmptySegment
    /\ result' = "error"

(* io.EOF ends the log, wherever the file ends for its reader (Uploads).   *)
EndOfFile ==
    /\ result = "reading"
    /\ result' = "ok"
    /\ UNCHANGED <<log, segmentData>>

ParserNext == EndOfFile \/ \E e \in Events : ReadEvent(e) \/ ReadBroken(e)

ParserSpec == ParserInit /\ [][ParserNext]_vars

-----------------------------------------------------------------------------
(* What RouteIngest is given (its SegmentAssumption): the columns are      *)
(* numbers, positions are pairs, and a segment with a wall time has the    *)
(* boot time that belongs to it.                                           *)
SegmentOK ==
    /\ {segmentData.init, segmentData.end, segmentData.clockWall, segmentData.clockMono,
        segmentData.distance} \subseteq Nat
    /\ segmentData.clockWall # 0 => segmentData.clockMono # 0
    /\ \A i \in DOMAIN segmentData.positions : segmentData.positions[i].geodetic \in Nat \X Nat
    /\ segmentData.endOfRoute \in BOOLEAN

(* The other data read off the log as a whole, without an accumulator.     *)

WallClocks == {i \in DOMAIN log : log[i].which = "clocks" /\ log[i].wall # 0}

(* The segment ends with the last event of any kind; its clock pair is the *)
(* first clocks event with a wall time, both halves from the same event.   *)
TimesOfLog ==
    result # "error" /\ log # <<>> =>
        /\ segmentData.end = Last(log).mono
        /\ \A i \in WallClocks : (\A j \in WallClocks : i <= j) =>
              segmentData.clockWall = log[i].wall /\ segmentData.clockMono = log[i].mono
        /\ WallClocks = {} => segmentData.clockWall = 0

(* The distance is the length of the path through the valid fixes, from    *)
(* each to the next, which no invalid fix between them breaks or shortens. *)
Fixes(s) == {i \in DOMAIN s : s[i].which = "position" /\ s[i].valid}

Leg(s, i) ==
    LET before == {j \in Fixes(s) : j < i}
    IN  IF i \in Fixes(s) /\ before # {} THEN Distance(s[Max(before)], s[i]) ELSE 0

SumUpTo(legs) ==
    LET sum[n \in 0 .. Len(legs)] == IF n = 0 THEN 0 ELSE sum[n - 1] + legs[n]
    IN  sum

PathLength(s) == SumUpTo([i \in 1 .. Len(s) |-> Leg(s, i)])[Len(s)]

DistanceOfPath ==
    result # "error" =>
        /\ segmentData.distance = PathLength(log)
        /\ Len(segmentData.positions) = Cardinality(Fixes(log))
=============================================================================
