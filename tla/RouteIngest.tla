---------------------------- MODULE RouteIngest -----------------------------
(***************************************************************************)
(* What one log's segment makes of its route's row: the middle of          *)
(* processLog in internal/logparser/queue.go and the boot-time arithmetic  *)
(* of internal/db/models/route.go.  The state machine feeds segments to    *)
(* one route, one after the other, in any order.                           *)
(*                                                                         *)
(* Times are nanosecond counts: uint64 in the log, int64 in the columns.   *)
(* Modulus stands for 2^64.  A time.Time that IsZero is 0, as are unset    *)
(* clocks.  Distances are in one unit (the code converts metres to miles). *)
(***************************************************************************)
EXTENDS Integers, Sequences, FiniteSets

CONSTANTS
    Modulus,    \* 2^64
    Segments,   \* the results of DecodeSegmentData that may be fed
    MaxFed      \* bound: how many segments a route gets

ASSUME ModulusAssumption == Modulus \in Nat \ {0} /\ Modulus % 2 = 0

(* Times are counts; an event with a wall time is never at boot time 0.    *)
ASSUME SegmentAssumption == \A seg \in Segments :
    /\ {seg.init, seg.end, seg.clockWall, seg.clockMono, seg.distance} \subseteq Nat
    /\ seg.clockWall # 0 => seg.clockMono # 0
    /\ seg.positions \in Seq(Nat \X Nat)
    /\ seg.endOfRoute \in BOOLEAN

MaxInt64 == (Modulus \div 2) - 1

ToInt64(u) == IF u <= MaxInt64 THEN u ELSE u - Modulus

NoPosition == <<0, 0>>

(* The columns processLog sets; a new route also copies the git columns    *)
(* and InitLogMonoTime of its first segment, which nothing changes later.  *)
NewRoute(seg) ==
    [clockWall |-> 0, clockMono |-> 0, initMono |-> seg.init,
     startTime |-> 0, startPos |-> NoPosition,
     endTime   |-> 0, endPos   |-> NoPosition, allProcessed |-> FALSE,
     starts |-> <<>>, ends |-> <<>>, numbers |-> <<>>, length |-> 0]

(* Mutant of WallTime: signed arithmetic that stops at zero.               *)
SaturatingWallTime(route, boot) ==
    IF route.clockWall + boot < route.clockMono THEN 0
    ELSE (route.clockWall + boot - route.clockMono) % Modulus

(* GetWallTimeFromBootTime, in uint64 arithmetic.                          *)
WallTime(route, boot) == (route.clockWall + boot - route.clockMono) % Modulus

WithClock(route, seg) ==
    [route EXCEPT !.clockWall = IF @ = 0 THEN seg.clockWall ELSE @,
                  !.clockMono = IF @ = 0 THEN seg.clockMono ELSE @]

(* Mutant of WithStart: the time is taken from the segment's end.          *)
WithStartFromEnd(route, seg) ==
    LET wall == WallTime(route, seg.end)
    IN  [route EXCEPT
           !.startTime = IF @ = 0 /\ seg.init # 0 /\ wall \in 1..MaxInt64
                         THEN wall ELSE @,
           !.startPos  = IF @ = NoPosition /\ seg.positions # <<>>
                         THEN Head(seg.positions) ELSE @]

WithStart(route, seg) ==
    LET wall == WallTime(route, seg.init)
    IN  [route EXCEPT
           !.startTime = IF @ = 0 /\ seg.init # 0 /\ wall \in 1..MaxInt64
                         THEN wall ELSE @,
           !.startPos  = IF @ = NoPosition /\ seg.positions # <<>>
                         THEN Head(seg.positions) ELSE @]

(* Mutant of WithSegment: the number is taken after the append.            *)
WithSegmentMisnumbered(route, seg) ==
    [route EXCEPT
       !.starts  = Append(@, ToInt64(WallTime(route, seg.init))),
       !.ends    = Append(@, ToInt64(WallTime(route, seg.end))),
       !.numbers = Append(@, Len(route.starts)),
       !.length  = @ + seg.distance]

(* The segment's number is one more than how many the route has: the       *)
(* number in the upload's path is not used.                                *)
WithSegment(route, seg) ==
    [route EXCEPT
       !.starts  = Append(@, ToInt64(WallTime(route, seg.init))),
       !.ends    = Append(@, ToInt64(WallTime(route, seg.end))),
       !.numbers = Append(@, Len(@) + 1),
       !.length  = @ + seg.distance]

(* Mutant of WithEnd: only the first end of route counts.                  *)
WithFirstEnd(route, seg) ==
    IF ~seg.endOfRoute \/ route.allProcessed THEN route
    ELSE [route EXCEPT
            !.endPos  = IF seg.positions = <<>> THEN @
                        ELSE seg.positions[Len(seg.positions)],
            !.endTime = ToInt64(WallTime(route, seg.end)),
            !.allProcessed = TRUE]

WithEnd(route, seg) ==
    IF ~seg.endOfRoute THEN route
    ELSE [route EXCEPT
            !.endPos  = IF seg.positions = <<>> THEN @
                        ELSE seg.positions[Len(seg.positions)],
            !.endTime = ToInt64(WallTime(route, seg.end)),
            !.allProcessed = TRUE]

Merge(route, seg) ==
    WithEnd(WithSegment(WithStart(WithClock(route, seg), seg), seg), seg)

-----------------------------------------------------------------------------
VARIABLES
    route,  \* the row
    fed     \* the segments merged into it

Init == \E seg \in Segments : route = NewRoute(seg) /\ fed = <<>>

(* The route is created by its first segment.                              *)
Feed(seg) ==
    /\ Len(fed) < MaxFed
    /\ route' = Merge(IF fed = <<>> THEN NewRoute(seg) ELSE route, seg)
    /\ fed' = Append(fed, seg)

Next == \E seg \in Segments : Feed(seg)

Spec == Init /\ [][Next]_<<route, fed>>

-----------------------------------------------------------------------------
Fed == 1..Len(fed)

(* The three segment arrays, which route listing zips by index, always     *)
(* have one entry per segment, numbered from 1 in the order of merging.    *)
SegmentArraysAligned ==
    /\ Len(route.starts) = Len(fed)
    /\ Len(route.ends) = Len(fed)
    /\ route.numbers = [i \in Fed |-> i]

(* From the first segment that brings a clock on, segment times are exact: *)
(* the wall time of boot plus the time since boot, for a start before the  *)
(* clock event too, where the uint64 difference wraps around.  The row sets *)
(* the two halves of the clock one by one, so this needs that no earlier   *)
(* segment's clock events all lacked the wall time.                        *)
Clocked == {i \in Fed : fed[i].clockWall # 0}

HalfClocked == {i \in Fed : fed[i].clockWall = 0 /\ fed[i].clockMono # 0}

FirstClocked == CHOOSE i \in Clocked : \A j \in Clocked : i <= j

SegmentTimesExact ==
    Clocked # {} /\ (\A i \in HalfClocked : i > FirstClocked) =>
      LET clock == fed[FirstClocked]
          exact(boot) == clock.clockWall + boot - clock.clockMono
      IN  \A i \in FirstClocked..Len(fed) :
             /\ route.starts[i] = exact(fed[i].init)
             /\ route.ends[i] = exact(fed[i].end)

(* The route's start time is the start of its first segment that has a     *)
(* usable one, as the segment array has it, and never of a later one.      *)
Usable == {i \in Fed : fed[i].init # 0 /\ route.starts[i] > 0}

StartIsFirstSegments ==
    IF Usable = {} THEN Fed # {} => route.startTime = 0
    ELSE route.startTime = route.starts[CHOOSE i \in Usable : \A j \in Usable : i <= j]

(* The route's end time is the end of the latest merged segment that saw   *)
(* the end of the route, and the route is complete exactly if there is one.*)
Final == {i \in Fed : fed[i].endOfRoute}

EndIsLastFinalSegments ==
    /\ Fed # {} => (route.allProcessed <=> Final # {})
    /\ Final # {} =>
         route.endTime = route.ends[CHOOSE i \in Final : \A j \in Final : i >= j]

(* Clock, start time and start position are set once.                      *)
SetOnce ==
    [][ fed # <<>> =>
          /\ route.clockWall # 0 => /\ route'.clockWall = route.clockWall
                                    /\ route'.clockMono = route.clockMono
          /\ route.startTime # 0 => route'.startTime = route.startTime
          /\ route.startPos # NoPosition => route'.startPos = route.startPos
      ]_<<route, fed>>
=============================================================================
