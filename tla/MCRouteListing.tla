--------------------------- MODULE MCRouteListing ---------------------------
(* Segments of a short route: boot times 2..6, a wall clock that was set   *)
(* after boot (5 at boot time 4), one near the epoch whose route starts    *)
(* before time zero, only the boot half of one, or none in the log.        *)
(* Also the segment of an emptied log: no times, no positions.             *)
(* The uploads of the segments 0, 1 and 3: none, a qlog, or both files.    *)
EXTENDS RouteListing

Clocks == {<<0, 0>>, <<0, 2>>, <<5, 4>>, <<1, 3>>}

Emptied == [init |-> 0, end |-> 0, clockWall |-> 0, clockMono |-> 0,
            positions |-> <<>>, distance |-> 0, endOfRoute |-> FALSE]

MCSegments ==
    {Emptied} \union
    {[init |-> times[1], end |-> times[2],
      clockWall |-> clock[1], clockMono |-> clock[2],
      positions |-> pos, distance |-> Len(pos), endOfRoute |-> last] :
        times \in {<<0, 2>>, <<2, 4>>, <<4, 6>>}, clock \in Clocks,
        pos \in {<<>>, <<<<0, 0>>, <<1, 1>>>>},
        last \in BOOLEAN}

MCZeroTime == -9

CONSTANTS d, h

MCBase == [counter |-> Short, hash |-> h]

MCTypeOf == [name \in {"qlog", "qcamera"} |-> IF name = "qlog" THEN "qlogs" ELSE "qcameras"]

MCDirs == {[counter |-> d, hash |-> h, segment |-> s, zeros |-> 0] : s \in {0, 1, 3}}

MCTrees ==
    {tree \in SUBSET [dir : MCDirs, name : DOMAIN MCTypeOf] :
        \A f \in tree : [f EXCEPT !.name = "qlog"] \in tree}
=============================================================================
