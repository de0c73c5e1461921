---------------------------- MODULE RouteProofs -----------------------------
(***************************************************************************)
(* Proofs about what becomes of a log: LogParser's pass over its events,   *)
(* for logs of any length over any set of events, RouteIngest's merge of   *)
(* the segments into a row, for any segments and any word size, and        *)
(* RouteListing's answers, for any rows and any uploads.                   *)
(***************************************************************************)
EXTENDS RouteListing, LogParser, FiniteSetTheorems, SequenceTheorems, TLAPS

(***************************************************************************)
(* The parser.                                                             *)
(*                                                                         *)
(* What the pass has accumulated is compared with the log read as a whole, *)
(* so the sum along the path has to be unfolded: the first part shows that *)
(* sums of a sequence exist and what a further term does to them.          *)
(***************************************************************************)

(* Induction for a set of numbers.  Had it gaps, the gaps below one of     *)
(* them would be moved down by n - 1 into fewer gaps: two of them would    *)
(* meet.                                                                   *)
LEMMA NatSetInduction ==
    ASSUME NEW S, 0 \in S, \A n \in Nat : n \in S => n + 1 \in S
    PROVE  Nat \subseteq S
<1> SUFFICES ASSUME NEW x \in Nat, x \notin S PROVE FALSE
  OBVIOUS
<1> DEFINE U == {n \in 0..x : n \notin S}
           down == [n \in U |-> n - 1]
<1>1. ASSUME NEW n \in U PROVE n \in Nat /\ n # 0 /\ n - 1 \in U /\ n - 1 # x
  <2>1. n \in Nat /\ n # 0 /\ n - 1 \in Nat /\ n - 1 \in 0..x /\ (n - 1) + 1 = n
    OBVIOUS
  <2>2. n - 1 \notin S
    BY <2>1
  <2> QED BY <2>1, <2>2
<1>2. x \in U
  OBVIOUS
<1>3. IsFiniteSet(U)
  <2>1. IsFiniteSet(0..x)
    BY FS_Interval
  <2> QED BY <2>1, FS_Subset
<1>4. IsFiniteSet(U \ {x}) /\ Cardinality(U \ {x}) = Cardinality(U) - 1
  BY <1>2, <1>3, FS_RemoveElement
<1>5. Cardinality(U \ {x}) < Cardinality(U)
  BY <1>3, <1>4, FS_CardinalityType
<1>6. down \in [U -> U \ {x}]
  BY <1>1
<1>7. PICK m, n \in U : m # n /\ down[m] = down[n]
  <2> HIDE DEF U, down
  <2> QED BY <1>3, <1>4, <1>5, <1>6, FS_PigeonHole
<1>8. m - 1 = n - 1
  BY <1>7
<1> QED BY <1>1, <1>7, <1>8

(* A set of numbers below a bound has a greatest element.                  *)
LEMMA MaxOfBounded ==
    ASSUME NEW S, S \subseteq Nat, S # {}, NEW b \in Nat, \A n \in S : n <= b
    PROVE  Max(S) \in S /\ \A n \in S : Max(S) >= n
<1>1. \E x \in S : \A n \in S : x >= n
  <2> SUFFICES ASSUME \A x \in S : \E n \in S : ~(x >= n) PROVE FALSE
    OBVIOUS
  <2> DEFINE T == {k \in Nat : \A n \in S : n + k <= b}
  <2>1. 0 \in T
    OBVIOUS
  <2>2. ASSUME NEW k \in Nat, k \in T PROVE k + 1 \in T
    <3>1. ASSUME NEW n \in S PROVE n + k # b
      <4>1. PICK m \in S : ~(n >= m)
        OBVIOUS
      <4>2. m + k <= b /\ m \in Nat /\ n \in Nat
        BY <2>2
      <4> QED BY <4>1, <4>2
    <3>2. ASSUME NEW n \in S PROVE n + (k + 1) <= b
      <4>1. n + k <= b /\ n + k # b /\ n \in Nat
        BY <2>2, <3>1, <3>2
      <4> QED BY <4>1
    <3> QED BY <3>2
  <2> HIDE DEF T
  <2>3. b + 1 \in T
    BY <2>1, <2>2, NatSetInduction
  <2>4. PICK n \in S : n + (b + 1) <= b
    BY <2>3 DEF T
  <2>5. n \in Nat
    OBVIOUS
  <2> QED BY <2>4, <2>5
<1> QED BY <1>1 DEF Max

-----------------------------------------------------------------------------
(* Sums.                                                                   *)

(* The sums of the first terms, up to the m-th.                            *)
PartialSums(legs, m) ==
    {f \in [0..m -> Int] : /\ f[0] = 0
                           /\ \A i \in 1..m : f[i] = f[i - 1] + legs[i]}

LEMMA SumsExist ==
    ASSUME NEW legs \in Seq(Int)
    PROVE  \A m \in 0..Len(legs) : PartialSums(legs, m) # {}
<1> DEFINE S == {m \in Nat : m <= Len(legs) => PartialSums(legs, m) # {}}
<1>1. 0 \in S
  <2>1. [i \in 0..0 |-> 0] \in PartialSums(legs, 0)
    BY DEF PartialSums
  <2> QED BY <2>1
<1>2. ASSUME NEW m \in Nat, m \in S PROVE m + 1 \in S
  <2> SUFFICES ASSUME m + 1 <= Len(legs) PROVE PartialSums(legs, m + 1) # {}
    OBVIOUS
  <2>1. m <= Len(legs) /\ legs[m + 1] \in Int
    OBVIOUS
  <2>2. PICK f : f \in PartialSums(legs, m)
    BY <1>2, <2>1
  <2> DEFINE g == [i \in 0..(m + 1) |-> IF i <= m THEN f[i] ELSE f[m] + legs[m + 1]]
  <2>3. f \in [0..m -> Int] /\ f[0] = 0 /\ \A i \in 1..m : f[i] = f[i - 1] + legs[i]
    BY <2>2 DEF PartialSums
  <2>4. g \in [0..(m + 1) -> Int] /\ g[0] = 0
    BY <2>1, <2>3
  <2>5. ASSUME NEW i \in 1..(m + 1) PROVE g[i] = g[i - 1] + legs[i]
    <3>1. i - 1 \in 0..m /\ i \in 0..(m + 1) /\ i - 1 \in 0..(m + 1) /\ (i \in 1..m \/ i = m + 1)
      OBVIOUS
    <3>2. g[i - 1] = f[i - 1]
      BY <3>1
    <3>3. g[i] = f[i - 1] + legs[i]
      BY <2>3, <3>1
    <3> QED BY <3>2, <3>3
  <2>6. g \in PartialSums(legs, m + 1)
    BY <2>4, <2>5 DEF PartialSums
  <2> QED BY <2>6
<1> HIDE DEF S
<1>3. Nat \subseteq S
  BY <1>1, <1>2, NatSetInduction
<1> QED BY <1>3 DEF S

(* Sequences that begin with the same n terms have the same n-th sum.      *)
LEMMA SumsAgree ==
    ASSUME NEW legs, NEW more, NEW m \in Nat, NEW l \in Nat,
           NEW f \in PartialSums(legs, m), NEW g \in PartialSums(more, l),
           NEW n \in Nat, n <= m, n <= l, \A i \in 1..n : legs[i] = more[i]
    PROVE  f[n] = g[n]
<1> DEFINE S == {i \in Nat : i <= n => f[i] = g[i]}
<1>1. /\ f[0] = 0 /\ \A i \in 1..m : f[i] = f[i - 1] + legs[i]
      /\ g[0] = 0 /\ \A i \in 1..l : g[i] = g[i - 1] + more[i]
  BY DEF PartialSums
<1>2. 0 \in S
  BY <1>1
<1>3. ASSUME NEW i \in Nat, i \in S PROVE i + 1 \in S
  <2> SUFFICES ASSUME i + 1 <= n PROVE f[i + 1] = g[i + 1]
    OBVIOUS
  <2>1. i + 1 \in 1..m /\ i + 1 \in 1..l /\ i + 1 \in 1..n /\ (i + 1) - 1 = i
    OBVIOUS
  <2>2. f[i] = g[i]
    BY <1>3
  <2> QED BY <1>1, <2>1, <2>2
<1> HIDE DEF S
<1>4. Nat \subseteq S
  BY <1>2, <1>3, NatSetInduction
<1> QED BY <1>4 DEF S

(* The recursive function is what it says it is.                           *)
LEMMA SumUpToIsSums ==
    ASSUME NEW legs \in Seq(Int)
    PROVE  SumUpTo(legs) \in PartialSums(legs, Len(legs))
<1> DEFINE N == Len(legs)
           Step(f) == [n \in 0..N |-> IF n = 0 THEN 0 ELSE f[n - 1] + legs[n]]
<1>0. N \in Nat
  OBVIOUS
<1>1. PICK f : f \in PartialSums(legs, N)
  BY <1>0, SumsExist
<1>2. f = Step(f)
  BY <1>0, <1>1 DEF PartialSums
<1>3. SumUpTo(legs) = CHOOSE g : g = Step(g)
  BY DEF SumUpTo
<1>4. SumUpTo(legs) = Step(SumUpTo(legs))
  BY <1>2, <1>3
<1> DEFINE s == SumUpTo(legs)
<1> HIDE DEF s
<1>5. s = [n \in 0..N |-> IF n = 0 THEN 0 ELSE s[n - 1] + legs[n]]
  BY <1>4 DEF s
<1>6. s[0] = 0 /\ \A n \in 1..N : s[n] = s[n - 1] + legs[n]
  BY <1>0, <1>5
<1> DEFINE S == {n \in Nat : n <= N => s[n] \in Int}
<1>7. 0 \in S
  BY <1>6
<1>8. ASSUME NEW n \in Nat, n \in S PROVE n + 1 \in S
  <2> SUFFICES ASSUME n + 1 <= N PROVE s[n + 1] \in Int
    OBVIOUS
  <2>1. n + 1 \in 1..N /\ (n + 1) - 1 = n /\ s[n] \in Int /\ legs[n + 1] \in Int
    BY <1>0, <1>8
  <2> HIDE DEF N
  <2> QED BY <1>6, <2>1
<1>9. Nat \subseteq S
  <2> HIDE DEF S
  <2> QED BY <1>7, <1>8, NatSetInduction
<1>10. s \in [0..N -> Int]
  BY <1>0, <1>5, <1>9
<1> QED BY <1>6, <1>10 DEF PartialSums, s

(* One more term.                                                          *)
LEMMA SumOfMore ==
    ASSUME NEW legs \in Seq(Int), NEW d \in Int, NEW more \in Seq(Int),
           Len(more) = Len(legs) + 1, more[Len(more)] = d,
           \A i \in 1..Len(legs) : more[i] = legs[i]
    PROVE  /\ SumUpTo(legs)[Len(legs)] \in Int
           /\ SumUpTo(more)[Len(more)] = SumUpTo(legs)[Len(legs)] + d
<1> DEFINE n == Len(legs)
           f == SumUpTo(legs)
           g == SumUpTo(more)
<1>1. n \in Nat /\ Len(legs) = n /\ Len(more) = n + 1
  OBVIOUS
<1>2. f \in PartialSums(legs, n) /\ g \in PartialSums(more, n + 1)
  BY <1>1, SumUpToIsSums
<1>3. more[n + 1] = d /\ \A i \in 1..n : legs[i] = more[i]
  BY <1>1
<1> HIDE DEF f, g, n
<1>4. f[n] = g[n]
  <2>1. n + 1 \in Nat /\ n <= n /\ n <= n + 1
    BY <1>1
  <2> QED BY <1>1, <1>2, <1>3, <2>1, SumsAgree
<1>5. f[n] \in Int
  <2>1. f \in [0..n -> Int] /\ n \in 0..n
    BY <1>1, <1>2 DEF PartialSums
  <2> QED BY <2>1
<1>6. g[n + 1] = g[n] + d
  <2>1. n + 1 \in 1..(n + 1) /\ (n + 1) - 1 = n
    BY <1>1
  <2>2. \A i \in 1..(n + 1) : g[i] = g[i - 1] + more[i]
    BY <1>2 DEF PartialSums
  <2>3. g[n + 1] = g[(n + 1) - 1] + more[n + 1]
    BY <2>1, <2>2
  <2> QED BY <1>3, <2>1, <2>3
<1> QED BY <1>1, <1>4, <1>5, <1>6 DEF f, g

-----------------------------------------------------------------------------
(* The inductive invariant.                                                *)

Positions == [ecef : Int, geodetic : Nat \X Nat]

SegmentRows ==
    [end : Nat, clockWall : Nat, clockMono : Nat, init : Nat,
     meta : SUBSET {e.version : e \in Events}, startOfRoute : BOOLEAN, endOfRoute : BOOLEAN,
     positions : Seq(Positions), distance : Nat]

Types ==
    /\ log \in Seq(Events)
    /\ segmentData \in SegmentRows
    /\ segmentData.clockWall # 0 => segmentData.clockMono # 0

(* A pass that has not failed has the times of the log ...                 *)
Times(seg, s) ==
    LET wall == {i \in 1..Len(s) : s[i].which = "clocks" /\ s[i].wall # 0} IN
    /\ s # <<>> => seg.end = s[Len(s)].mono
    /\ seg.clockWall = 0 => wall = {}
    /\ seg.clockWall # 0 => \E i \in wall :
          /\ \A j \in wall : i <= j
          /\ seg.clockWall = s[i].wall /\ seg.clockMono = s[i].mono

(* ... and its path, to the last fix.                                      *)
Path(seg, s) ==
    /\ Len(seg.positions) = Cardinality(Fixes(s))
    /\ seg.distance = PathLength(s)
    /\ seg.positions = <<>> => Fixes(s) = {}
    /\ seg.positions # <<>> => \E i \in Fixes(s) :
          /\ \A j \in Fixes(s) : j <= i
          /\ Last(seg.positions).ecef = s[i].ecef

ParserInv ==
    /\ Types
    /\ result # "error" => Times(segmentData, log) /\ Path(segmentData, log)

-----------------------------------------------------------------------------
(* One event.                                                              *)

LEMMA EmptyTypes == EmptySegment \in SegmentRows
<1>1. <<>> \in Seq(Positions)
  OBVIOUS
<1> QED BY <1>1 DEF EmptySegment, SegmentRows

LEMMA DistanceType ==
    ASSUME NEW p, NEW q, p.ecef \in Int, q.ecef \in Int
    PROVE  Distance(p, q) \in Nat
BY DEF Distance

LEMMA SegmentParts ==
    ASSUME NEW seg \in SegmentRows
    PROVE  /\ {seg.end, seg.clockWall, seg.clockMono, seg.init, seg.distance} \subseteq Nat
           /\ seg.positions \in Seq(Positions)
           /\ seg.endOfRoute \in BOOLEAN
BY DEF SegmentRows

LEMMA PositionTypes ==
    ASSUME NEW seg \in SegmentRows, NEW e \in Events, e.which = "position", e.valid
    PROVE  LET p == [ecef |-> e.ecef, geodetic |-> e.geodetic]
               d == IF seg.positions = <<>> THEN seg.distance
                    ELSE seg.distance + Distance(Last(seg.positions), e) IN
           /\ WithPosition(seg, e) =
                [seg EXCEPT !.distance = d, !.positions = Append(seg.positions, p)]
           /\ p \in Positions /\ d \in Nat
           /\ WithPosition(seg, e) \in SegmentRows
<1> DEFINE p == [ecef |-> e.ecef, geodetic |-> e.geodetic]
           d == IF seg.positions = <<>> THEN seg.distance
                ELSE seg.distance + Distance(Last(seg.positions), e)
           s == seg.positions
<1>1. WithPosition(seg, e) = [seg EXCEPT !.distance = d, !.positions = Append(s, p)]
  BY DEF WithPosition
<1>2. p \in Positions /\ e.ecef \in Int
  BY EventAssumption DEF Positions
<1>3. s \in Seq(Positions) /\ seg.distance \in Nat
  BY SegmentParts
<1>4. ASSUME s # <<>> PROVE Last(s).ecef \in Int
  <2>1. Last(s) \in Positions
    <3>1. Len(s) \in 1..Len(s)
      BY <1>3, <1>4, EmptySeq
    <3> QED BY <1>3, <3>1 DEF Last
  <2> QED BY <2>1 DEF Positions
<1>5. d \in Nat
  BY <1>2, <1>3, <1>4, DistanceType
<1>6. Append(s, p) \in Seq(Positions)
  BY <1>2, <1>3
<1> HIDE DEF d, p, s
<1>7. [seg EXCEPT !.distance = d, !.positions = Append(s, p)] \in SegmentRows
  BY <1>5, <1>6 DEF SegmentRows
<1> QED BY <1>1, <1>2, <1>5, <1>7 DEF d, p, s

(* What an event does to the segment, by its kind.                         *)
LEMMA HandleEffect ==
    ASSUME NEW seg \in SegmentRows, NEW e \in Events
    PROVE  LET new == Handle(seg, e) IN
           /\ new \in SegmentRows
           /\ new.end = seg.end
           /\ IF e.which = "clocks" /\ seg.clockWall = 0
                THEN new.clockWall = e.wall /\ new.clockMono = e.mono
                ELSE new.clockWall = seg.clockWall /\ new.clockMono = seg.clockMono
           /\ ~(e.which = "position" /\ e.valid) =>
                new.positions = seg.positions /\ new.distance = seg.distance
<1> USE EventAssumption
<1>1. CASE e.which = "position"
  <2>1. Handle(seg, e) = WithPosition(seg, e)
    BY <1>1 DEF Handle
  <2>2. CASE e.valid
    <3> DEFINE p == [ecef |-> e.ecef, geodetic |-> e.geodetic]
               d == IF seg.positions = <<>> THEN seg.distance
                    ELSE seg.distance + Distance(Last(seg.positions), e)
    <3>1. /\ WithPosition(seg, e) =
               [seg EXCEPT !.distance = d, !.positions = Append(seg.positions, p)]
          /\ WithPosition(seg, e) \in SegmentRows
      BY <1>1, <2>2, PositionTypes
    <3> HIDE DEF d, p
    <3>2. /\ WithPosition(seg, e).end = seg.end
          /\ WithPosition(seg, e).clockWall = seg.clockWall
          /\ WithPosition(seg, e).clockMono = seg.clockMono
      BY <3>1 DEF SegmentRows
    <3> QED BY <1>1, <2>1, <2>2, <3>1, <3>2
  <2>3. CASE ~e.valid
    BY <1>1, <2>1, <2>3 DEF WithPosition
  <2> QED BY <2>2, <2>3
<1>2. CASE e.which = "sentinel"
  BY <1>2 DEF Handle, WithSentinel, SegmentRows
<1>3. CASE e.which = "clocks"
  BY <1>3 DEF Handle, WithClocks, SegmentRows
<1>4. CASE e.which = "initData"
  BY <1>4 DEF Handle, WithInitData, SegmentRows
<1>5. CASE e.which \notin {"position", "sentinel", "clocks", "initData"}
  BY <1>5 DEF Handle
<1> QED BY <1>1, <1>2, <1>3, <1>4, <1>5

(* The clock pair is that of the first clocks event with a wall time.      *)
LEMMA TimesOfMore ==
    ASSUME NEW s \in Seq(Events), NEW e \in Events, NEW seg \in SegmentRows, Times(seg, s)
    PROVE  Times(Handle([seg EXCEPT !.end = e.mono], e), Append(s, e))
<1> DEFINE t == Append(s, e)
           seg1 == [seg EXCEPT !.end = e.mono]
           new == Handle(seg1, e)
           wall == {i \in 1..Len(s) : s[i].which = "clocks" /\ s[i].wall # 0}
           more == {i \in 1..Len(t) : t[i].which = "clocks" /\ t[i].wall # 0}
           n == Len(s) + 1
<1> USE EventAssumption
<1>1. /\ Len(s) \in Nat /\ Len(t) = n /\ t[n] = e /\ t # <<>>
      /\ \A i \in 1..Len(s) : t[i] = s[i]
  OBVIOUS
<1>2. /\ seg1 \in SegmentRows /\ seg1.end = e.mono
      /\ seg1.clockWall = seg.clockWall /\ seg1.clockMono = seg.clockMono
  BY DEF SegmentRows
<1>3. /\ new.end = e.mono
      /\ IF e.which = "clocks" /\ seg.clockWall = 0
           THEN new.clockWall = e.wall /\ new.clockMono = e.mono
           ELSE new.clockWall = seg.clockWall /\ new.clockMono = seg.clockMono
  <2> HIDE DEF seg1
  <2> QED BY <1>2, HandleEffect
<1>4. /\ seg.clockWall = 0 => wall = {}
      /\ seg.clockWall # 0 => \E i \in wall :
            /\ \A j \in wall : i <= j
            /\ seg.clockWall = s[i].wall /\ seg.clockMono = s[i].mono
  BY DEF Times
<1>5. more = wall \union (IF e.which = "clocks" /\ e.wall # 0 THEN {n} ELSE {})
  BY <1>1
<1>6. \A i \in wall : i \in 1..Len(s) /\ i <= n /\ t[i] = s[i]
  BY <1>1
<1> HIDE DEF wall, more, new, t, n
<1>7. new.clockWall = 0 => more = {}
  BY <1>3, <1>4, <1>5
<1>8. ASSUME new.clockWall # 0
      PROVE  \E i \in more : /\ \A j \in more : i <= j
                             /\ new.clockWall = t[i].wall /\ new.clockMono = t[i].mono
  <2>1. CASE seg.clockWall = 0
    <3>1. e.which = "clocks" /\ new.clockWall = e.wall /\ new.clockMono = e.mono
      BY <1>3, <1>8, <2>1
    <3>2. more = {n}
      BY <1>4, <1>5, <1>8, <2>1, <3>1
    <3>3. n <= n
      BY <1>1 DEF n
    <3> QED BY <1>1, <3>1, <3>2, <3>3
  <2>2. CASE seg.clockWall # 0
    <3>1. PICK i \in wall : /\ \A j \in wall : i <= j
                            /\ seg.clockWall = s[i].wall /\ seg.clockMono = s[i].mono
      BY <1>4, <2>2
    <3>2. new.clockWall = t[i].wall /\ new.clockMono = t[i].mono
      BY <1>3, <1>6, <2>2, <3>1
    <3>3. i \in more /\ \A j \in more : i <= j
      BY <1>5, <1>6, <3>1
    <3> QED BY <3>2, <3>3
  <2> QED BY <2>1, <2>2
<1> QED BY <1>1, <1>3, <1>7, <1>8 DEF Times, more, new, t

(* The legs of the log read so far are those of the longer log, whose last *)
(* leg comes from the last fix before it.                                  *)
LEMMA FixesOfMore ==
    ASSUME NEW s \in Seq(Events), NEW e \in Events
    PROVE  LET n == Len(s) + 1
               t == Append(s, e) IN
           /\ Fixes(s) \subseteq 1..Len(s)
           /\ Fixes(t) = IF e.which = "position" /\ e.valid THEN Fixes(s) \union {n}
                         ELSE Fixes(s)
           /\ \A i \in 1..Len(s) : Leg(t, i) = Leg(s, i)
<1> DEFINE n == Len(s) + 1
           t == Append(s, e)
           before(i) == {j \in Fixes(s) : j < i}
<1>1. /\ Len(s) \in Nat /\ DOMAIN s = 1..Len(s) /\ DOMAIN t = 1..n /\ t[n] = e
      /\ \A i \in 1..Len(s) : t[i] = s[i]
  OBVIOUS
<1> HIDE DEF t
<1>2. Fixes(s) \subseteq 1..Len(s)
  BY <1>1 DEF Fixes
<1>3. Fixes(t) = IF e.which = "position" /\ e.valid THEN Fixes(s) \union {n} ELSE Fixes(s)
  BY <1>1 DEF Fixes
<1>4. ASSUME NEW i \in 1..Len(s) PROVE Leg(t, i) = Leg(s, i)
  <2>1. i \in Fixes(t) <=> i \in Fixes(s)
    BY <1>1, <1>3
  <2>2. {j \in Fixes(t) : j < i} = before(i)
    BY <1>1, <1>2, <1>3
  <2>3. ASSUME before(i) # {} PROVE t[Max(before(i))] = s[Max(before(i))]
    <3>1. before(i) \subseteq Nat /\ \A j \in before(i) : j <= i
      BY <1>1, <1>2
    <3>2. Max(before(i)) \in before(i)
      <4>1. i \in Nat
        BY <1>1
      <4> HIDE DEF before
      <4> QED BY <2>3, <3>1, <4>1, MaxOfBounded
    <3> QED BY <1>1, <1>2, <3>2
  <2>4. t[i] = s[i]
    BY <1>1
  <2> HIDE DEF before
  <2>5. Leg(t, i) = IF i \in Fixes(s) /\ before(i) # {}
                    THEN Distance(t[Max(before(i))], t[i]) ELSE 0
    BY <2>1, <2>2 DEF Leg
  <2>6. Leg(s, i) = IF i \in Fixes(s) /\ before(i) # {}
                    THEN Distance(s[Max(before(i))], s[i]) ELSE 0
    BY DEF Leg, before
  <2> QED BY <2>3, <2>4, <2>5, <2>6
<1> QED BY <1>1, <1>2, <1>3, <1>4 DEF t

(* A fix that comes after all others is one more, and the last before it   *)
(* is the one the path has ended at.                                       *)
LEMMA NoLonger ==
    ASSUME NEW s \in Seq(Events), NEW e \in Events, ~(e.which = "position" /\ e.valid)
    PROVE  Leg(Append(s, e), Len(s) + 1) = 0
<1>1. Len(s) + 1 \notin Fixes(Append(s, e))
  <2>1. Append(s, e)[Len(s) + 1] = e
    OBVIOUS
  <2> QED BY <2>1 DEF Fixes
<1> QED BY <1>1 DEF Leg

LEMMA LastLeg ==
    ASSUME NEW s \in Seq(Events), NEW e \in Events, e.which = "position", e.valid,
           NEW last \in Fixes(s), \A j \in Fixes(s) : j <= last
    PROVE  Leg(Append(s, e), Len(s) + 1) = Distance(s[last], e)
<1> DEFINE n == Len(s) + 1
           t == Append(s, e)
           before == {j \in Fixes(t) : j < n}
<1>1. n \in Nat /\ t[n] = e /\ \A i \in 1..Len(s) : t[i] = s[i] /\ i < n
  OBVIOUS
<1>2. Fixes(s) \subseteq 1..Len(s) /\ Fixes(t) = Fixes(s) \union {n}
  BY FixesOfMore
<1> HIDE DEF t
<1>3. before = Fixes(s)
  BY <1>1, <1>2
<1>4. Max(before) = last
  <2>1. Max(before) \in before /\ \A j \in before : Max(before) >= j
    <3>1. before \subseteq Nat /\ before # {} /\ \A j \in before : j <= n
      BY <1>1, <1>2, <1>3
    <3> HIDE DEF before, n
    <3> QED BY <1>1, <3>1, MaxOfBounded
  <2>2. last \in before /\ last \in Nat /\ \A j \in before : j \in Nat /\ j <= last
    BY <1>2, <1>3
  <2> DEFINE max == Max(before)
  <2> HIDE DEF before, max
  <2>3. max \in before /\ max >= last
    BY <2>1, <2>2 DEF max
  <2>4. max \in Nat /\ max <= last
    BY <2>2, <2>3
  <2>5. max = last
    BY <2>2, <2>3, <2>4
  <2> QED BY <2>5 DEF max
<1>5. n \in Fixes(t) /\ before # {}
  BY <1>2, <1>3
<1> HIDE DEF before, n
<1>6. Leg(t, n) = Distance(t[last], t[n])
  BY <1>4, <1>5 DEF Leg, before
<1> QED BY <1>1, <1>2, <1>6 DEF t, n

LEMMA FirstLeg ==
    ASSUME NEW s \in Seq(Events), NEW e \in Events, Fixes(s) = {}
    PROVE  Leg(Append(s, e), Len(s) + 1) = 0
<1> DEFINE n == Len(s) + 1
           t == Append(s, e)
<1>1. n \in Nat /\ Fixes(t) \subseteq {n}
  BY FixesOfMore
<1>2. {j \in Fixes(t) : j < n} = {}
  BY <1>1
<1> QED BY <1>2 DEF Leg

(* Legs are natural numbers, so their sum grows by the last one.           *)
LEMMA LegType ==
    ASSUME NEW s \in Seq(Events), NEW i \in 1..Len(s)
    PROVE  Leg(s, i) \in Nat
<1> DEFINE before == {j \in Fixes(s) : j < i}
<1>1. ASSUME NEW j \in Fixes(s) PROVE s[j].ecef \in Int /\ j \in Nat
  BY EventAssumption DEF Fixes
<1>2. ASSUME before # {} PROVE Max(before) \in Fixes(s)
  <2>1. before \subseteq Nat /\ i \in Nat /\ \A j \in before : j <= i
    BY <1>1
  <2>2. Max(before) \in before
    <3> HIDE DEF before
    <3> QED BY <1>2, <2>1, MaxOfBounded
  <2> QED BY <2>2
<1>3. CASE i \in Fixes(s) /\ before # {}
  BY <1>1, <1>2, <1>3, DistanceType DEF Leg
<1>4. CASE ~(i \in Fixes(s) /\ before # {})
  BY <1>4 DEF Leg
<1> QED BY <1>3, <1>4

LEMMA LengthOfMore ==
    ASSUME NEW s \in Seq(Events), NEW e \in Events
    PROVE  PathLength(Append(s, e)) = PathLength(s) + Leg(Append(s, e), Len(s) + 1)
<1> DEFINE n == Len(s)
           t == Append(s, e)
           legs == [i \in 1..n |-> Leg(s, i)]
           more == [i \in 1..(n + 1) |-> Leg(t, i)]
<1>1. n \in Nat /\ t \in Seq(Events) /\ Len(t) = n + 1
  OBVIOUS
<1>2. \A i \in 1..n : Leg(t, i) = Leg(s, i)
  BY FixesOfMore
<1> HIDE DEF t
<1>3. (\A i \in 1..n : Leg(s, i) \in Int) /\ \A i \in 1..(n + 1) : Leg(t, i) \in Int
  <2>1. \A i \in 1..n : Leg(s, i) \in Nat
    BY LegType
  <2>2. \A i \in 1..(n + 1) : Leg(t, i) \in Nat
    BY <1>1, LegType
  <2> QED BY <2>1, <2>2
<1> HIDE DEF n
<1>4. legs \in Seq(Int) /\ Len(legs) = n /\ more \in Seq(Int) /\ Len(more) = n + 1
  BY <1>1, <1>3
<1>5. more[n + 1] = Leg(t, n + 1) /\ \A i \in 1..n : more[i] = legs[i]
  BY <1>1, <1>2
<1>6. Leg(t, n + 1) \in Int
  BY <1>1, <1>3
<1>7. PathLength(s) = SumUpTo(legs)[n] /\ PathLength(t) = SumUpTo(more)[n + 1]
  BY <1>1 DEF PathLength, n
<1> HIDE DEF legs, more
<1>8. SumUpTo(more)[Len(more)] = SumUpTo(legs)[Len(legs)] + Leg(t, n + 1)
  <2>1. Len(more) = Len(legs) + 1 /\ more[Len(more)] = Leg(t, n + 1)
        /\ \A i \in 1..Len(legs) : more[i] = legs[i]
    BY <1>4, <1>5
  <2> QED BY <1>4, <1>6, <2>1, SumOfMore
<1> QED BY <1>4, <1>7, <1>8 DEF n, t

LEMMA LastOfMore ==
    ASSUME NEW S, NEW s \in Seq(S), NEW p \in S
    PROVE  /\ Len(Append(s, p)) = Len(s) + 1 /\ Append(s, p) # <<>>
           /\ Last(Append(s, p)) = p
<1>1. Append(s, p)[Len(s) + 1] = p /\ Len(Append(s, p)) = Len(s) + 1
  OBVIOUS
<1>2. Append(s, p) # <<>>
  BY AppendProperties
<1> QED BY <1>1, <1>2 DEF Last

LEMMA PathOfMore ==
    ASSUME NEW s \in Seq(Events), NEW e \in Events, NEW seg \in SegmentRows, Path(seg, s)
    PROVE  Path(Handle([seg EXCEPT !.end = e.mono], e), Append(s, e))
<1> DEFINE t == Append(s, e)
           n == Len(s) + 1
           seg1 == [seg EXCEPT !.end = e.mono]
           new == Handle(seg1, e)
<1> USE EventAssumption
<1>1. n \in Nat /\ t[n] = e /\ \A i \in 1..Len(s) : t[i] = s[i] /\ i <= n /\ i # n
  OBVIOUS
<1>2. /\ seg1 \in SegmentRows /\ seg1.positions = seg.positions /\ seg1.distance = seg.distance
  BY DEF SegmentRows
<1>3. seg.distance = PathLength(s) /\ seg.distance \in Nat /\ seg.positions \in Seq(Positions)
  BY SegmentParts DEF Path
<1>4. /\ Fixes(s) \subseteq 1..Len(s)
      /\ Fixes(t) = IF e.which = "position" /\ e.valid THEN Fixes(s) \union {n} ELSE Fixes(s)
  BY FixesOfMore
<1>5. PathLength(t) = PathLength(s) + Leg(t, n)
  BY LengthOfMore
<1> HIDE DEF seg1, t, n
<1>6. ASSUME ~(e.which = "position" /\ e.valid) PROVE Path(new, t)
  <2>1. new.positions = seg.positions /\ new.distance = seg.distance
    BY <1>2, <1>6, HandleEffect
  <2>2. PathLength(t) = PathLength(s)
    BY <1>3, <1>5, <1>6, NoLonger DEF t, n
  <2> HIDE DEF new
  <2>3. Fixes(t) = Fixes(s) /\ \A i \in Fixes(s) : t[i] = s[i]
    BY <1>1, <1>4, <1>6
  <2> QED BY <2>1, <2>2, <2>3 DEF Path
<1>7. ASSUME e.which = "position", e.valid PROVE Path(new, t)
  <2> DEFINE p == [ecef |-> e.ecef, geodetic |-> e.geodetic]
             d == IF seg1.positions = <<>> THEN seg1.distance
                  ELSE seg1.distance + Distance(Last(seg1.positions), e)
  <2>1. new = [seg1 EXCEPT !.distance = d, !.positions = Append(seg1.positions, p)]
        /\ p \in Positions
    <3>1. new = WithPosition(seg1, e)
      BY <1>7 DEF Handle
    <3> QED BY <1>2, <1>7, <3>1, PositionTypes
  <2>2. new.distance = d /\ new.positions = Append(seg.positions, p)
    BY <1>2, <2>1 DEF SegmentRows
  <2>3. /\ Len(new.positions) = Len(seg.positions) + 1 /\ new.positions # <<>>
        /\ Last(new.positions).ecef = e.ecef
    <3>1. p.ecef = e.ecef
      OBVIOUS
    <3> HIDE DEF new, d, p
    <3>2. /\ Len(Append(seg.positions, p)) = Len(seg.positions) + 1
          /\ Append(seg.positions, p) # <<>> /\ Last(Append(seg.positions, p)) = p
      BY <1>3, <2>1, LastOfMore
    <3> QED BY <2>2, <3>1, <3>2
  <2>4. Cardinality(Fixes(t)) = Cardinality(Fixes(s)) + 1
    <3>1. IsFiniteSet(1..Len(s))
      BY FS_Interval
    <3>2. IsFiniteSet(Fixes(s)) /\ n \notin Fixes(s)
      BY <1>1, <1>4, <3>1, FS_Subset
    <3> QED BY <1>4, <1>7, <3>2, FS_AddElement
  <2>5. d = PathLength(t)
    <3>1. CASE seg.positions = <<>>
      <4>1. Leg(t, n) = 0
        BY <3>1, FirstLeg DEF Path, t, n
      <4> QED BY <1>2, <1>3, <1>5, <3>1, <4>1
    <3>2. CASE seg.positions # <<>>
      <4>1. PICK i \in Fixes(s) : /\ \A j \in Fixes(s) : j <= i
                                  /\ Last(seg.positions).ecef = s[i].ecef
        BY <3>2 DEF Path
      <4>2. Leg(t, n) = Distance(s[i], e)
        BY <1>7, <4>1, LastLeg DEF t, n
      <4>3. Distance(Last(seg.positions), e) = Distance(s[i], e)
        BY <4>1 DEF Distance
      <4> QED BY <1>2, <1>3, <1>5, <3>2, <4>2, <4>3
    <3> QED BY <3>1, <3>2
  <2>6. n \in Fixes(t) /\ \A j \in Fixes(t) : j <= n
    BY <1>1, <1>4, <1>7
  <2> HIDE DEF new, d, p
  <2> QED BY <1>1, <2>2, <2>3, <2>4, <2>5, <2>6 DEF Path
<1> QED BY <1>6, <1>7 DEF t, new, seg1

-----------------------------------------------------------------------------
(* The pass.                                                               *)

LEMMA InitParser == ParserInit => ParserInv
<1> SUFFICES ASSUME ParserInit PROVE ParserInv
  OBVIOUS
<1>1. log = <<>> /\ segmentData = EmptySegment /\ log \in Seq(Events)
  BY DEF ParserInit
<1>2. Types
  BY <1>1, EmptyTypes DEF Types, EmptySegment
<1>3. Times(segmentData, log)
  BY <1>1 DEF Times, EmptySegment
<1>4. Path(segmentData, log)
  <2>1. Fixes(log) = {}
    BY <1>1 DEF Fixes
  <2>2. PathLength(log) = 0
    <3> DEFINE legs == [i \in 1..0 |-> Leg(log, i)]
    <3>1. Len(log) = 0 /\ legs \in Seq(Int) /\ Len(legs) = 0
      BY <1>1
    <3>2. PathLength(log) = SumUpTo(legs)[0]
      BY <3>1 DEF PathLength
    <3> HIDE DEF legs
    <3>3. SumUpTo(legs) \in PartialSums(legs, 0)
      BY <3>1, SumUpToIsSums
    <3> QED BY <3>2, <3>3 DEF PartialSums
  <2>3. Cardinality(Fixes(log)) = 0
    BY <2>1, FS_EmptySet
  <2> QED BY <1>1, <2>1, <2>2, <2>3 DEF Path, EmptySegment
<1> QED BY <1>2, <1>3, <1>4 DEF ParserInv

LEMMA NextParser == ParserInv /\ [ParserNext]_vars => ParserInv'
<1> SUFFICES ASSUME ParserInv, [ParserNext]_vars PROVE ParserInv'
  OBVIOUS
<1>1. CASE UNCHANGED vars
  BY <1>1 DEF vars, ParserInv, Types
<1>2. CASE EndOfFile
  BY <1>2 DEF EndOfFile, ParserInv, Types
<1>3. ASSUME NEW e \in Events, ReadEvent(e) PROVE ParserInv'
  <2> DEFINE seg == [segmentData EXCEPT !.end = e.mono]
  <2>1. /\ log' = Append(log, e) /\ segmentData' = Handle(seg, e)
        /\ result # "error" /\ log \in Seq(Events) /\ segmentData \in SegmentRows
    BY <1>3 DEF ReadEvent, ParserInv, Types
  <2>2. /\ seg \in SegmentRows
        /\ seg.clockWall = segmentData.clockWall /\ seg.clockMono = segmentData.clockMono
    BY <2>1, EventAssumption DEF SegmentRows
  <2>3. Types'
    <3>1. log' \in Seq(Events)
      BY <2>1
    <3> HIDE DEF seg
    <3>2. segmentData' \in SegmentRows
      BY <2>1, <2>2, HandleEffect
    <3>3. IF e.which = "clocks" /\ segmentData.clockWall = 0
            THEN segmentData'.clockWall = e.wall /\ segmentData'.clockMono = e.mono
            ELSE /\ segmentData'.clockWall = segmentData.clockWall
                 /\ segmentData'.clockMono = segmentData.clockMono
      BY <2>1, <2>2, HandleEffect
    <3>4. segmentData'.clockWall # 0 => segmentData'.clockMono # 0
      BY <3>3, EventAssumption DEF ParserInv, Types
    <3> QED BY <3>1, <3>2, <3>4 DEF Types
  <2>4. Times(segmentData', log') /\ Path(segmentData', log')
    BY <2>1, TimesOfMore, PathOfMore DEF ParserInv
  <2> QED BY <2>3, <2>4 DEF ParserInv
<1>4. ASSUME NEW e \in Events, ReadBroken(e) PROVE ParserInv'
  <2>1. log' \in Seq(Events) /\ segmentData' = EmptySegment /\ result' = "error"
    BY <1>4 DEF ReadBroken, ParserInv, Types
  <2>2. Types'
    BY <2>1, EmptyTypes DEF Types, EmptySegment
  <2> QED BY <2>1, <2>2 DEF ParserInv
<1> QED BY <1>1, <1>2, <1>3, <1>4 DEF ParserNext

LEMMA ParserAlways == ParserSpec => []ParserInv
BY InitParser, NextParser, PTL DEF ParserSpec

(* SegmentOK: what a pass leaves is what RouteIngest assumes of a segment. *)
THEOREM SegmentIsOK == ParserSpec => []SegmentOK
<1>1. ParserInv => SegmentOK
  <2> SUFFICES ASSUME Types PROVE SegmentOK
    BY DEF ParserInv
  <2>1. \A i \in DOMAIN segmentData.positions : segmentData.positions[i].geodetic \in Nat \X Nat
    <3>1. segmentData.positions \in Seq(Positions)
      BY SegmentParts DEF Types
    <3>2. \A i \in DOMAIN segmentData.positions : segmentData.positions[i] \in Positions
      BY <3>1
    <3> QED BY <3>2 DEF Positions
  <2> QED BY <2>1, SegmentParts DEF Types, SegmentOK
<1> QED BY <1>1, ParserAlways, PTL

(* TimesOfLog: however many clocks events come, with or without a wall     *)
(* time, the pair is that of the first one that has it.                    *)
THEOREM TimesAreOfLog == ParserSpec => []TimesOfLog
<1>1. ParserInv => TimesOfLog
  <2> SUFFICES ASSUME ParserInv, result # "error", log # <<>> PROVE TimesOfLog
    BY DEF TimesOfLog
  <2>1. log \in Seq(Events) /\ segmentData \in SegmentRows /\ Times(segmentData, log)
    BY DEF ParserInv, Types
  <2>2. WallClocks = {i \in 1..Len(log) : log[i].which = "clocks" /\ log[i].wall # 0}
    BY <2>1 DEF WallClocks
  <2>3. segmentData.end = Last(log).mono
    BY <2>1 DEF Times, Last
  <2>4. ASSUME NEW i \in WallClocks, \A j \in WallClocks : i <= j
        PROVE  segmentData.clockWall = log[i].wall /\ segmentData.clockMono = log[i].mono
    <3>1. segmentData.clockWall # 0
      BY <2>1, <2>2 DEF Times
    <3>2. PICK k \in WallClocks :
             /\ \A j \in WallClocks : k <= j
             /\ segmentData.clockWall = log[k].wall /\ segmentData.clockMono = log[k].mono
      BY <2>1, <2>2, <3>1 DEF Times
    <3>3. i \in Nat /\ k \in Nat /\ i <= k /\ k <= i
      BY <2>2, <2>4, <3>2
    <3> QED BY <3>2, <3>3
  <2>5. WallClocks = {} => segmentData.clockWall = 0
    BY <2>1, <2>2 DEF Times
  <2> QED BY <2>3, <2>4, <2>5 DEF TimesOfLog
<1> QED BY <1>1, ParserAlways, PTL

(* DistanceOfPath: the distance that was accumulated fix by fix is the     *)
(* length of the path through the valid fixes of the log, and every one of *)
(* them is kept.                                                           *)
THEOREM DistanceIsOfPath == ParserSpec => []DistanceOfPath
<1>1. ParserInv => DistanceOfPath
  BY DEF ParserInv, Path, DistanceOfPath
<1> QED BY <1>1, ParserAlways, PTL

-----------------------------------------------------------------------------
(***************************************************************************)
(* The row: the shape of the segment arrays and what is set once.          *)
(***************************************************************************)

Rows == [clockWall : Nat, clockMono : Nat, initMono : Nat,
         startTime : Int, startPos : Nat \X Nat,
         endTime : Int, endPos : Nat \X Nat, allProcessed : BOOLEAN,
         starts : Seq(Int), ends : Seq(Int), numbers : Seq(Int), length : Nat]

USE ModulusAssumption

LEMMA WallTimeType ==
    ASSUME NEW row \in Rows, NEW boot \in Nat
    PROVE  WallTime(row, boot) \in Nat
<1> DEFINE sum == row.clockWall + boot - row.clockMono
<1>1. sum \in Int
  BY DEF Rows
<1>2. sum % Modulus \in 0..(Modulus - 1)
  <2> HIDE DEF sum
  <2> QED BY <1>1
<1> QED BY <1>2 DEF WallTime

LEMMA ToInt64Type ==
    ASSUME NEW u \in Nat
    PROVE  ToInt64(u) \in Int
BY DEF ToInt64, MaxInt64

LEMMA NewRouteType ==
    ASSUME NEW seg \in Segments
    PROVE  /\ NewRoute(seg) \in Rows
           /\ NewRoute(seg).numbers = <<>>
           /\ NewRoute(seg).starts = <<>> /\ NewRoute(seg).ends = <<>>
           /\ NewRoute(seg).clockWall = 0
BY SegmentAssumption DEF NewRoute, Rows, NoPosition

Paired(row) == row.clockWall # 0 => row.clockMono # 0

(* Each part of Merge keeps the row's type and the columns of the others.  *)
LEMMA WithClockRow ==
    ASSUME NEW row \in Rows, Paired(row), NEW seg \in Segments
    PROVE  LET next == WithClock(row, seg) IN
           /\ next \in Rows /\ Paired(next)
           /\ next.starts = row.starts /\ next.ends = row.ends /\ next.numbers = row.numbers
           /\ next.startTime = row.startTime /\ next.startPos = row.startPos
           /\ row.clockWall # 0 => /\ next.clockWall = row.clockWall
                                   /\ next.clockMono = row.clockMono
BY SegmentAssumption DEF WithClock, Rows, Paired

LEMMA WithStartRow ==
    ASSUME NEW row \in Rows, Paired(row), NEW seg \in Segments
    PROVE  LET next == WithStart(row, seg) IN
           /\ next \in Rows /\ Paired(next)
           /\ next.starts = row.starts /\ next.ends = row.ends /\ next.numbers = row.numbers
           /\ next.clockWall = row.clockWall /\ next.clockMono = row.clockMono
           /\ row.startTime # 0 => next.startTime = row.startTime
           /\ row.startPos # NoPosition => next.startPos = row.startPos
<1>1. WallTime(row, seg.init) \in Nat
  BY WallTimeType, SegmentAssumption
<1>2. seg.positions # <<>> => Head(seg.positions) \in Nat \X Nat
  BY SegmentAssumption
<1> DEFINE t == IF row.startTime = 0 /\ seg.init # 0
                   /\ WallTime(row, seg.init) \in 1..MaxInt64
                THEN WallTime(row, seg.init) ELSE row.startTime
           p == IF row.startPos = NoPosition /\ seg.positions # <<>>
                THEN Head(seg.positions) ELSE row.startPos
<1>3. WithStart(row, seg) = [row EXCEPT !.startTime = t, !.startPos = p]
  BY DEF WithStart
<1>4. /\ t \in Int /\ (row.startTime # 0 => t = row.startTime)
      /\ p \in Nat \X Nat /\ (row.startPos # NoPosition => p = row.startPos)
  BY <1>1, <1>2 DEF Rows
<1> HIDE DEF t, p
<1> QED BY <1>3, <1>4 DEF Rows, Paired

LEMMA WithSegmentRow ==
    ASSUME NEW row \in Rows, Paired(row), NEW seg \in Segments
    PROVE  LET next == WithSegment(row, seg) IN
           /\ next \in Rows /\ Paired(next)
           /\ Len(next.starts) = Len(row.starts) + 1
           /\ Len(next.ends) = Len(row.ends) + 1
           /\ next.numbers = Append(row.numbers, Len(row.numbers) + 1)
           /\ next.clockWall = row.clockWall /\ next.clockMono = row.clockMono
           /\ next.startTime = row.startTime /\ next.startPos = row.startPos
<1>1. /\ ToInt64(WallTime(row, seg.init)) \in Int
      /\ ToInt64(WallTime(row, seg.end)) \in Int
  BY WallTimeType, ToInt64Type, SegmentAssumption
<1> DEFINE s == ToInt64(WallTime(row, seg.init))
           e == ToInt64(WallTime(row, seg.end))
<1>2. WithSegment(row, seg) =
        [row EXCEPT !.starts = Append(row.starts, s), !.ends = Append(row.ends, e),
                    !.numbers = Append(row.numbers, Len(row.numbers) + 1),
                    !.length = row.length + seg.distance]
  BY DEF WithSegment
<1> HIDE DEF s, e
<1>3. /\ Append(row.starts, s) \in Seq(Int) /\ Append(row.ends, e) \in Seq(Int)
      /\ Append(row.numbers, Len(row.numbers) + 1) \in Seq(Int)
      /\ Len(Append(row.starts, s)) = Len(row.starts) + 1
      /\ Len(Append(row.ends, e)) = Len(row.ends) + 1
      /\ row.length + seg.distance \in Nat
  <2>1. s \in Int /\ e \in Int
    BY <1>1 DEF s, e
  <2>2. /\ row.starts \in Seq(Int) /\ row.ends \in Seq(Int) /\ row.numbers \in Seq(Int)
        /\ row.length \in Nat /\ seg.distance \in Nat
    BY SegmentAssumption DEF Rows
  <2>3. row.length + seg.distance \in Nat
    BY <2>2
  <2>4. Len(row.numbers) + 1 \in Int
    BY <2>2
  <2> QED BY <2>1, <2>2, <2>3, <2>4
<1> DEFINE next == WithSegment(row, seg)
<1>4. /\ next.starts = Append(row.starts, s) /\ next.ends = Append(row.ends, e)
      /\ next.numbers = Append(row.numbers, Len(row.numbers) + 1)
      /\ next.clockWall = row.clockWall /\ next.clockMono = row.clockMono
  BY <1>2 DEF Rows
<1>5. next \in Rows
  BY <1>2, <1>3 DEF Rows
<1> QED BY <1>2, <1>3, <1>4, <1>5 DEF Rows, Paired

LEMMA WithEndRow ==
    ASSUME NEW row \in Rows, Paired(row), NEW seg \in Segments
    PROVE  LET next == WithEnd(row, seg) IN
           /\ next \in Rows /\ Paired(next)
           /\ next.starts = row.starts /\ next.ends = row.ends /\ next.numbers = row.numbers
           /\ next.clockWall = row.clockWall /\ next.clockMono = row.clockMono
           /\ next.startTime = row.startTime /\ next.startPos = row.startPos
<1>1. ToInt64(WallTime(row, seg.end)) \in Int
  BY WallTimeType, ToInt64Type, SegmentAssumption
<1>2. seg.positions # <<>> => seg.positions[Len(seg.positions)] \in Nat \X Nat
  BY SegmentAssumption
<1> QED BY <1>1, <1>2 DEF WithEnd, Rows, Paired

(* What one merge does to a row: processLog from the read to the save.     *)
LEMMA MergeRow ==
    ASSUME NEW row \in Rows, Paired(row), NEW seg \in Segments
    PROVE  LET next == Merge(row, seg) IN
           /\ next \in Rows /\ Paired(next)
           /\ Len(next.starts) = Len(row.starts) + 1
           /\ Len(next.ends) = Len(row.ends) + 1
           /\ next.numbers = Append(row.numbers, Len(row.numbers) + 1)
           /\ row.clockWall # 0 => /\ next.clockWall = row.clockWall
                                   /\ next.clockMono = row.clockMono
           /\ row.startTime # 0 => next.startTime = row.startTime
           /\ row.startPos # NoPosition => next.startPos = row.startPos
<1> DEFINE clocked == WithClock(row, seg)
           started == WithStart(clocked, seg)
           grown   == WithSegment(started, seg)
<1>1. clocked \in Rows /\ Paired(clocked)
  BY WithClockRow
<1>2. started \in Rows /\ Paired(started)
  BY <1>1, WithStartRow
<1>3. grown \in Rows /\ Paired(grown)
  BY <1>2, WithSegmentRow
<1>4. Merge(row, seg) = WithEnd(grown, seg)
  BY DEF Merge
<1> HIDE DEF clocked
<1>5. /\ clocked.starts = row.starts /\ clocked.ends = row.ends
      /\ clocked.numbers = row.numbers
      /\ clocked.startTime = row.startTime /\ clocked.startPos = row.startPos
      /\ row.clockWall # 0 => /\ clocked.clockWall = row.clockWall
                              /\ clocked.clockMono = row.clockMono
  BY WithClockRow DEF clocked
<1> HIDE DEF started
<1>6. /\ started.starts = clocked.starts /\ started.ends = clocked.ends
      /\ started.numbers = clocked.numbers
      /\ started.clockWall = clocked.clockWall /\ started.clockMono = clocked.clockMono
      /\ clocked.startTime # 0 => started.startTime = clocked.startTime
      /\ clocked.startPos # NoPosition => started.startPos = clocked.startPos
  BY <1>1, WithStartRow DEF started
<1> HIDE DEF grown
<1>7. /\ Len(grown.starts) = Len(started.starts) + 1
      /\ Len(grown.ends) = Len(started.ends) + 1
      /\ grown.numbers = Append(started.numbers, Len(started.numbers) + 1)
      /\ grown.clockWall = started.clockWall /\ grown.clockMono = started.clockMono
      /\ grown.startTime = started.startTime /\ grown.startPos = started.startPos
  BY <1>2, WithSegmentRow DEF grown
<1> QED BY <1>3, <1>4, <1>5, <1>6, <1>7, WithEndRow

-----------------------------------------------------------------------------
RowInv ==
    /\ route \in Rows /\ Paired(route)
    /\ fed \in Seq(Segments)
    /\ SegmentArraysAligned

LEMMA InitRow == Init => RowInv
<1> SUFFICES ASSUME Init PROVE RowInv
  OBVIOUS
<1>1. PICK seg \in Segments : route = NewRoute(seg) /\ fed = <<>>
  BY DEF Init
<1> QED BY <1>1, NewRouteType DEF RowInv, SegmentArraysAligned, Fed, Paired

LEMMA FeedRow ==
    ASSUME RowInv, NEW seg \in Segments, Feed(seg)
    PROVE  RowInv'
<1> DEFINE row == IF fed = <<>> THEN NewRoute(seg) ELSE route
<1>1. /\ row \in Rows /\ Paired(row)
      /\ Len(row.starts) = Len(fed) /\ Len(row.ends) = Len(fed)
      /\ row.numbers = [i \in 1..Len(fed) |-> i]
  BY NewRouteType DEF RowInv, Paired, SegmentArraysAligned, Fed
<1>2. route' = Merge(row, seg) /\ fed' = Append(fed, seg)
  BY DEF Feed
<1> HIDE DEF row
<1>3. /\ route' \in Rows /\ Paired(route')
      /\ Len(route'.starts) = Len(fed) + 1 /\ Len(route'.ends) = Len(fed) + 1
      /\ route'.numbers = Append(row.numbers, Len(row.numbers) + 1)
  BY <1>1, <1>2, MergeRow
<1>4. fed' \in Seq(Segments) /\ Len(fed') = Len(fed) + 1 /\ Len(fed) \in Nat
  BY <1>2 DEF RowInv
<1>5. route'.numbers = [i \in 1..Len(fed') |-> i]
  <2>1. row.numbers \in Seq(Int) /\ Len(row.numbers) = Len(fed)
    BY <1>1, <1>4 DEF Rows
  <2> QED BY <1>1, <1>3, <1>4, <2>1
<1> QED BY <1>3, <1>4, <1>5 DEF RowInv, SegmentArraysAligned, Fed, Paired

LEMMA NextRow == RowInv /\ [Next]_<<route, fed>> => RowInv'
<1> SUFFICES ASSUME RowInv, [Next]_<<route, fed>> PROVE RowInv'
  OBVIOUS
<1>1. CASE UNCHANGED <<route, fed>>
  BY <1>1 DEF RowInv, SegmentArraysAligned, Fed
<1>2. CASE Next
  BY <1>2, FeedRow DEF Next
<1> QED BY <1>1, <1>2

(* SegmentArraysAligned: processLog keeps the three arrays of a route in   *)
(* step, for routes of any length.                                         *)
THEOREM ArraysAligned == Spec => []SegmentArraysAligned
<1>1. RowInv => SegmentArraysAligned
  BY DEF RowInv
<1> QED BY <1>1, InitRow, NextRow, PTL DEF Spec

(* SetOnce: no later segment changes the clock pair, start time or start   *)
(* position of a route.                                                    *)
THEOREM ClockAndStartSetOnce == Spec => SetOnce
<1>1. RowInv /\ [Next]_<<route, fed>> =>
        [ fed # <<>> =>
            /\ route.clockWall # 0 => /\ route'.clockWall = route.clockWall
                                      /\ route'.clockMono = route.clockMono
            /\ route.startTime # 0 => route'.startTime = route.startTime
            /\ route.startPos # NoPosition => route'.startPos = route.startPos
        ]_<<route, fed>>
  BY MergeRow DEF RowInv, Next, Feed
<1> QED BY <1>1, InitRow, NextRow, PTL DEF Spec, SetOnce

-----------------------------------------------------------------------------
(* The values of the columns, not only their shape.                        *)

LEMMA WallTimeWord ==
    ASSUME NEW row \in Rows, NEW boot \in Nat
    PROVE  WallTime(row, boot) \in 0..(Modulus - 1)
<1> DEFINE sum == row.clockWall + boot - row.clockMono
<1>1. sum \in Int
  BY DEF Rows
<1>2. sum % Modulus \in 0..(Modulus - 1)
  <2> HIDE DEF sum
  <2> QED BY <1>1
<1> QED BY <1>2 DEF WallTime

(* The guard on the start time is that the column's entry is positive.     *)
LEMMA PositiveWord ==
    ASSUME NEW u \in 0..(Modulus - 1)
    PROVE  /\ u \in 1..MaxInt64 <=> ToInt64(u) > 0
           /\ u \in 1..MaxInt64 => ToInt64(u) = u
BY DEF ToInt64, MaxInt64

(* A time that fits into the signed column is stored as it is, although it *)
(* is computed with the unsigned word.                                     *)
FitsColumn(t) == t \in Int /\ -(Modulus \div 2) <= t /\ t <= MaxInt64

LEMMA WordOfTime ==
    ASSUME NEW t, FitsColumn(t)
    PROVE  ToInt64(t % Modulus) = t
<1>1. t \in Int /\ Modulus \in Nat \ {0} /\ Modulus % 2 = 0
  BY DEF FitsColumn
<1>2. CASE t >= 0
  <2>1. t % Modulus = t
    BY <1>1, <1>2 DEF FitsColumn, MaxInt64
  <2> QED BY <2>1, <1>2 DEF FitsColumn, ToInt64
<1>3. CASE t < 0
  <2>1. t + Modulus \in 0..(Modulus - 1) /\ t + Modulus > MaxInt64
    BY <1>1, <1>3 DEF FitsColumn, MaxInt64
  <2>2. t % Modulus = t + Modulus
    BY <1>1, <2>1
  <2>3. ToInt64(t + Modulus) = t + Modulus - Modulus
    BY <2>1, <1>1 DEF ToInt64, MaxInt64
  <2> QED BY <2>2, <2>3, <1>1
<1> QED BY <1>1, <1>2, <1>3

LEMMA MergeColumns ==
    ASSUME NEW row \in Rows, Paired(row), NEW seg \in Segments
    PROVE  LET next == Merge(row, seg)
               s == ToInt64(WallTime(next, seg.init))
               e == ToInt64(WallTime(next, seg.end)) IN
           /\ next.clockWall = IF row.clockWall = 0 THEN seg.clockWall ELSE row.clockWall
           /\ next.clockMono = IF row.clockMono = 0 THEN seg.clockMono ELSE row.clockMono
           /\ next.starts = Append(row.starts, s) /\ next.ends = Append(row.ends, e)
           /\ next.startTime = IF row.startTime = 0 /\ seg.init # 0 /\ s > 0
                               THEN s ELSE row.startTime
           /\ next.endTime = IF seg.endOfRoute THEN e ELSE row.endTime
           /\ next.allProcessed = (row.allProcessed \/ seg.endOfRoute)
<1> DEFINE clocked == WithClock(row, seg)
           started == WithStart(clocked, seg)
           grown   == WithSegment(started, seg)
           next    == WithEnd(grown, seg)
           wall    == WallTime(clocked, seg.init)
<1>1. clocked \in Rows /\ Paired(clocked)
  BY WithClockRow
<1>2. started \in Rows /\ Paired(started)
  BY <1>1, WithStartRow
<1>3. grown \in Rows /\ Paired(grown)
  BY <1>2, WithSegmentRow
<1>4. next \in Rows
  BY <1>3, WithEndRow
<1>5. Merge(row, seg) = next
  BY DEF Merge
<1>6. wall \in 0..(Modulus - 1)
  BY <1>1, WallTimeWord, SegmentAssumption
<1>7. /\ clocked.clockWall = IF row.clockWall = 0 THEN seg.clockWall ELSE row.clockWall
      /\ clocked.clockMono = IF row.clockMono = 0 THEN seg.clockMono ELSE row.clockMono
      /\ clocked.starts = row.starts /\ clocked.ends = row.ends
      /\ clocked.startTime = row.startTime
      /\ clocked.endTime = row.endTime /\ clocked.allProcessed = row.allProcessed
  BY DEF WithClock, Rows
<1> HIDE DEF clocked
<1>8. /\ started.clockWall = clocked.clockWall /\ started.clockMono = clocked.clockMono
      /\ started.starts = clocked.starts /\ started.ends = clocked.ends
      /\ started.endTime = clocked.endTime /\ started.allProcessed = clocked.allProcessed
  BY <1>1 DEF WithStart, Rows
<1>9. started.startTime = IF clocked.startTime = 0 /\ seg.init # 0 /\ wall \in 1..MaxInt64
                          THEN wall ELSE clocked.startTime
  BY <1>1 DEF WithStart, Rows
<1> HIDE DEF started
<1>10. /\ grown.clockWall = started.clockWall /\ grown.clockMono = started.clockMono
       /\ grown.starts = Append(started.starts, ToInt64(WallTime(started, seg.init)))
       /\ grown.ends = Append(started.ends, ToInt64(WallTime(started, seg.end)))
       /\ grown.startTime = started.startTime /\ grown.endTime = started.endTime
       /\ grown.allProcessed = started.allProcessed
  BY <1>2 DEF WithSegment, Rows
<1> HIDE DEF grown
<1>11. /\ next.clockWall = grown.clockWall /\ next.clockMono = grown.clockMono
       /\ next.starts = grown.starts /\ next.ends = grown.ends
       /\ next.startTime = grown.startTime
       /\ next.endTime = IF seg.endOfRoute THEN ToInt64(WallTime(grown, seg.end))
                         ELSE grown.endTime
       /\ next.allProcessed = (grown.allProcessed \/ seg.endOfRoute)
  BY <1>3, SegmentAssumption DEF WithEnd, Rows
<1> HIDE DEF next
<1>12. \A boot : /\ WallTime(next, boot) = WallTime(clocked, boot)
                 /\ WallTime(started, boot) = WallTime(clocked, boot)
                 /\ WallTime(grown, boot) = WallTime(clocked, boot)
  BY <1>8, <1>10, <1>11 DEF WallTime
<1>13. wall \in 1..MaxInt64 <=> ToInt64(wall) > 0
  BY <1>6, PositiveWord
<1>14. wall \in 1..MaxInt64 => ToInt64(wall) = wall
  BY <1>6, PositiveWord
<1> QED BY <1>5, <1>7, <1>8, <1>9, <1>10, <1>11, <1>12, <1>13, <1>14

(* What the columns say of the segments that were merged.  The CHOOSEs of  *)
(* the properties need their least and greatest elements to exist, which   *)
(* each step shows for its own sets.                                       *)
HasFirst(S) == S # {} => \E i \in S : \A j \in S : i <= j
HasLast(S)  == S # {} => \E i \in S : \A j \in S : i >= j

ClockOfRoute ==
    IF Clocked = {}
    THEN fed # <<>> => /\ route.clockWall = 0
                       /\ HalfClocked = {} => route.clockMono = 0
    ELSE (\A i \in HalfClocked : i > FirstClocked) =>
           /\ route.clockWall = fed[FirstClocked].clockWall
           /\ route.clockMono = fed[FirstClocked].clockMono

(* Every time of every segment on every clock fits the columns.            *)
TimesFit ==
    \A clock, seg \in Segments : clock.clockWall # 0 =>
        /\ FitsColumn(clock.clockWall + seg.init - clock.clockMono)
        /\ FitsColumn(clock.clockWall + seg.end - clock.clockMono)

HistoryInv ==
    /\ HasFirst(Usable) /\ HasFirst(Clocked) /\ HasLast(Final)
    /\ fed = <<>> => route.startTime = 0 /\ ~route.allProcessed
    /\ StartIsFirstSegments
    /\ EndIsLastFinalSegments
    /\ ClockOfRoute
    /\ TimesFit => SegmentTimesExact

LEMMA InitHistory == Init => HistoryInv
<1> SUFFICES ASSUME Init PROVE HistoryInv
  OBVIOUS
<1>1. PICK seg \in Segments : route = NewRoute(seg) /\ fed = <<>>
  BY DEF Init
<1>2. Fed = {}
  BY <1>1 DEF Fed
<1> QED
  BY <1>1, <1>2 DEF HistoryInv, HasFirst, HasLast, Usable, Clocked, Final, NewRoute,
     StartIsFirstSegments, EndIsLastFinalSegments, ClockOfRoute, SegmentTimesExact

(* The row before the merge, and the new segment n after it.               *)
LEMMA FeedColumns ==
    ASSUME RowInv, HistoryInv, NEW seg \in Segments, Feed(seg), NEW n, n = Len(fed) + 1
    PROVE  /\ Len(fed) \in Nat /\ Fed' = Fed \union {n} /\ Fed = 1..(n - 1) /\ fed'[n] = seg
           /\ \A i \in Fed : /\ fed'[i] = fed[i]
                             /\ route'.starts[i] = route.starts[i]
                             /\ route'.ends[i] = route.ends[i]
           /\ route'.starts[n] = ToInt64(WallTime(route', seg.init))
           /\ route'.ends[n] = ToInt64(WallTime(route', seg.end))
           /\ route'.startTime =
                IF (fed = <<>> \/ route.startTime = 0) /\ seg.init # 0 /\ route'.starts[n] > 0
                THEN route'.starts[n] ELSE IF fed = <<>> THEN 0 ELSE route.startTime
           /\ seg.endOfRoute => route'.endTime = route'.ends[n]
           /\ ~seg.endOfRoute /\ fed # <<>> => route'.endTime = route.endTime
           /\ route'.allProcessed = ((fed # <<>> /\ route.allProcessed) \/ seg.endOfRoute)
           /\ route'.clockWall = IF fed = <<>> \/ route.clockWall = 0
                                 THEN seg.clockWall ELSE route.clockWall
           /\ route'.clockMono = IF fed = <<>> \/ route.clockMono = 0
                                 THEN seg.clockMono ELSE route.clockMono
<1> DEFINE row == IF fed = <<>> THEN NewRoute(seg) ELSE route
<1>1. /\ row \in Rows /\ Paired(row)
      /\ Len(row.starts) = Len(fed) /\ Len(row.ends) = Len(fed)
      /\ row.starts \in Seq(Int) /\ row.ends \in Seq(Int)
  BY NewRouteType DEF RowInv, Paired, SegmentArraysAligned, Rows
<1>2. route' = Merge(row, seg) /\ fed' = Append(fed, seg)
  BY DEF Feed
<1>3. fed = <<>> => /\ row.startTime = 0 /\ row.clockWall = 0 /\ row.clockMono = 0
                    /\ row.allProcessed = FALSE
  BY DEF NewRoute
<1>4. fed # <<>> => row = route
  OBVIOUS
<1>a. fed = <<>> => Len(fed) = 0
  BY DEF RowInv
<1> HIDE DEF row
<1>5. /\ route'.clockWall = IF row.clockWall = 0 THEN seg.clockWall ELSE row.clockWall
      /\ route'.clockMono = IF row.clockMono = 0 THEN seg.clockMono ELSE row.clockMono
      /\ route'.starts = Append(row.starts, ToInt64(WallTime(route', seg.init)))
      /\ route'.ends = Append(row.ends, ToInt64(WallTime(route', seg.end)))
      /\ route'.startTime =
           IF row.startTime = 0 /\ seg.init # 0 /\ ToInt64(WallTime(route', seg.init)) > 0
           THEN ToInt64(WallTime(route', seg.init)) ELSE row.startTime
      /\ route'.endTime = IF seg.endOfRoute THEN ToInt64(WallTime(route', seg.end))
                          ELSE row.endTime
      /\ route'.allProcessed = (row.allProcessed \/ seg.endOfRoute)
  BY <1>1, <1>2, MergeColumns
<1>6. fed \in Seq(Segments) /\ Len(fed) \in Nat /\ n \in Nat
  BY DEF RowInv
<1>7. route' \in Rows
  BY <1>1, <1>2, MergeRow
<1>8. /\ ToInt64(WallTime(route', seg.init)) \in Int
      /\ ToInt64(WallTime(route', seg.end)) \in Int
  BY <1>7, WallTimeType, ToInt64Type, SegmentAssumption
<1>9. /\ route'.starts[n] = ToInt64(WallTime(route', seg.init))
      /\ route'.ends[n] = ToInt64(WallTime(route', seg.end))
      /\ \A i \in 1..Len(fed) : /\ route'.starts[i] = row.starts[i]
                                /\ route'.ends[i] = row.ends[i]
  <2>1. ASSUME NEW column \in Seq(Int), Len(column) = Len(fed), NEW t \in Int
        PROVE  /\ Append(column, t)[n] = t
               /\ \A i \in 1..Len(fed) : Append(column, t)[i] = column[i]
    BY <2>1, <1>6
  <2> QED BY <1>1, <1>5, <1>8, <2>1
<1>10. /\ fed'[n] = seg /\ \A i \in 1..Len(fed) : fed'[i] = fed[i]
       /\ Len(fed') = n
  BY <1>2, <1>6
<1>11. Fed' = Fed \union {n} /\ Fed = 1..(n - 1) /\ Fed = 1..Len(fed)
  BY <1>6, <1>10 DEF Fed
<1>12. \A i \in Fed : /\ fed'[i] = fed[i]
                      /\ route'.starts[i] = route.starts[i]
                      /\ route'.ends[i] = route.ends[i]
  <2>1. CASE fed = <<>>
    BY <2>1, <1>a, <1>11
  <2>2. CASE fed # <<>>
    BY <2>2, <1>4, <1>9, <1>10, <1>11
  <2> QED BY <2>1, <2>2
<1>13. seg.endOfRoute \in BOOLEAN
  BY SegmentAssumption
<1> QED BY <1>3, <1>4, <1>5, <1>6, <1>9, <1>10, <1>11, <1>12, <1>13

(* The least or greatest member of a set that grows by a greater one.      *)
FirstOf(S) == CHOOSE i \in S : \A j \in S : i <= j
LastOf(S)  == CHOOSE i \in S : \A j \in S : i >= j

LEMMA FirstIs ==
    ASSUME NEW S \in SUBSET Nat, NEW m \in S, \A j \in S : m <= j
    PROVE  HasFirst(S) /\ FirstOf(S) = m
<1>1. \A i \in S : (\A j \in S : i <= j) => i = m
  OBVIOUS
<1> QED BY <1>1 DEF HasFirst, FirstOf

LEMMA LastIs ==
    ASSUME NEW S \in SUBSET Nat, NEW m \in S, \A j \in S : m >= j
    PROVE  HasLast(S) /\ LastOf(S) = m
<1>1. \A i \in S : (\A j \in S : i >= j) => i = m
  OBVIOUS
<1> QED BY <1>1 DEF HasLast, LastOf

LEMMA FirstGrows ==
    ASSUME NEW n \in Nat, NEW S \in SUBSET (1..(n - 1)), HasFirst(S),
           NEW T, T = S \/ T = S \union {n}
    PROVE  /\ HasFirst(T)
           /\ S # {} => FirstOf(S) \in S /\ FirstOf(T) = FirstOf(S)
           /\ S = {} /\ T # {} => FirstOf(T) = n
<1>1. /\ T \in SUBSET Nat /\ S \in SUBSET Nat /\ S \subseteq T
      /\ \A j \in T : j \in S \/ j = n
      /\ \A j \in S : j < n
  <2>1. CASE T = S
    BY <2>1
  <2>2. CASE T = S \union {n}
    BY <2>2
  <2> QED BY <2>1, <2>2
<1>2. CASE S = {}
  <2>1. CASE T = {}
    BY <1>2, <2>1 DEF HasFirst
  <2>2. CASE T # {}
    <3>1. T = {n}
      BY <1>2, <2>2
    <3> QED BY <3>1, <1>1, <1>2, FirstIs
  <2> QED BY <2>1, <2>2
<1>3. CASE S # {}
  <2>1. PICK m \in S : \A j \in S : m <= j
    BY <1>3 DEF HasFirst
  <2>2. m \in T /\ \A j \in T : m <= j
    BY <2>1, <1>1
  <2>3. FirstOf(S) = m
    BY <2>1, <1>1, FirstIs
  <2>4. FirstOf(T) = m /\ HasFirst(T)
    BY <2>2, <1>1, FirstIs
  <2> QED BY <1>3, <2>1, <2>3, <2>4
<1> QED BY <1>2, <1>3

LEMMA LastGrows ==
    ASSUME NEW n \in Nat, NEW S \in SUBSET (1..(n - 1)), NEW T, T = S \union {n}
    PROVE  HasLast(T) /\ LastOf(T) = n
<1>1. T \in SUBSET Nat /\ n \in T /\ \A j \in T : n >= j
  OBVIOUS
<1> QED BY <1>1, LastIs

LEMMA FeedStart ==
    ASSUME RowInv, HistoryInv, NEW seg \in Segments, Feed(seg)
    PROVE  HasFirst(Usable)' /\ StartIsFirstSegments'
<1>n. PICK n : n = Len(fed) + 1
  OBVIOUS
<1>1. /\ n \in Nat /\ Fed' = Fed \union {n} /\ Fed = 1..(n - 1) /\ fed'[n] = seg
      /\ \A i \in Fed : fed'[i] = fed[i] /\ route'.starts[i] = route.starts[i]
      /\ route'.startTime =
           IF (fed = <<>> \/ route.startTime = 0) /\ seg.init # 0 /\ route'.starts[n] > 0
           THEN route'.starts[n] ELSE IF fed = <<>> THEN 0 ELSE route.startTime
  BY <1>n, FeedColumns
<1>2. fed = <<>> => Fed = {} /\ route.startTime = 0
  BY DEF RowInv, Fed, HistoryInv
<1>3. Usable' = IF seg.init # 0 /\ route'.starts[n] > 0 THEN Usable \union {n} ELSE Usable
  BY <1>1 DEF Usable
<1>4. Usable \subseteq 1..(n - 1) /\ HasFirst(Usable)
  BY <1>1 DEF Usable, HistoryInv
<1> DEFINE first == FirstOf(Usable)
           next  == FirstOf(Usable')
<1>5. /\ HasFirst(Usable')
      /\ Usable # {} => next = first /\ first \in Usable
      /\ Usable = {} /\ Usable' # {} => next = n
  BY <1>1, <1>3, <1>4, FirstGrows
<1>6. StartIsFirstSegments <=>
        IF Usable = {} THEN Fed # {} => route.startTime = 0
        ELSE route.startTime = route.starts[first]
  BY DEF StartIsFirstSegments, FirstOf
<1>7. StartIsFirstSegments' <=>
        IF Usable' = {} THEN Fed' # {} => route'.startTime = 0
        ELSE route'.startTime = route'.starts[next]
  BY DEF StartIsFirstSegments, FirstOf
<1>8. StartIsFirstSegments
  BY DEF HistoryInv
<1>9. Fed = {} => fed = <<>>
  BY DEF Fed, RowInv
<1>10. CASE Usable = {}
  <2>1. fed = <<>> \/ route.startTime = 0
    BY <1>10, <1>6, <1>8, <1>9
  <2>2. Usable' # {} => Usable' = {n} /\ seg.init # 0 /\ route'.starts[n] > 0
    BY <1>3, <1>10
  <2>3. Usable' = {} => ~(seg.init # 0 /\ route'.starts[n] > 0)
    BY <1>3
  <2> HIDE DEF next
  <2>4. StartIsFirstSegments'
    BY <2>1, <2>2, <2>3, <1>1, <1>5, <1>7, <1>10, <1>2
  <2> QED BY <2>4, <1>5 DEF HasFirst
<1>11. CASE Usable # {}
  <2> HIDE DEF first, next
  <2>1. first \in Usable /\ next = first /\ Usable' # {}
    BY <1>3, <1>5, <1>11
  <2>2. route.startTime = route.starts[first] /\ route.starts[first] > 0 /\ first \in Fed
    BY <2>1, <1>6, <1>8, <1>11 DEF Usable
  <2>3. fed # <<>> /\ route.startTime # 0
    BY <2>2, <1>2
  <2>4. route'.startTime = route.startTime /\ route'.starts[first] = route.starts[first]
    BY <2>2, <2>3, <1>1
  <2>5. StartIsFirstSegments'
    BY <2>1, <2>2, <2>4, <1>7
  <2> QED BY <2>5, <1>5 DEF HasFirst
<1> QED BY <1>10, <1>11

LEMMA FeedEnd ==
    ASSUME RowInv, HistoryInv, NEW seg \in Segments, Feed(seg)
    PROVE  HasLast(Final)' /\ EndIsLastFinalSegments'
<1>n. PICK n : n = Len(fed) + 1
  OBVIOUS
<1>1. /\ n \in Nat /\ Fed' = Fed \union {n} /\ Fed = 1..(n - 1) /\ fed'[n] = seg
      /\ \A i \in Fed : fed'[i] = fed[i] /\ route'.ends[i] = route.ends[i]
      /\ seg.endOfRoute => route'.endTime = route'.ends[n]
      /\ ~seg.endOfRoute /\ fed # <<>> => route'.endTime = route.endTime
      /\ route'.allProcessed = ((fed # <<>> /\ route.allProcessed) \/ seg.endOfRoute)
  BY <1>n, FeedColumns
<1>2. Final' = IF seg.endOfRoute THEN Final \union {n} ELSE Final
  BY <1>1 DEF Final
<1>3. Final \subseteq Fed
  BY DEF Final
<1>4. fed = <<>> <=> Fed = {}
  BY DEF Fed, RowInv
<1> DEFINE last == LastOf(Final)
           next == LastOf(Final')
<1>5. /\ Fed # {} => (route.allProcessed <=> Final # {})
      /\ Final # {} => route.endTime = route.ends[last]
      /\ HasLast(Final)
  BY DEF HistoryInv, EndIsLastFinalSegments, LastOf
<1>6. EndIsLastFinalSegments' <=>
        /\ Fed' # {} => (route'.allProcessed <=> Final' # {})
        /\ Final' # {} => route'.endTime = route'.ends[next]
  BY DEF EndIsLastFinalSegments, LastOf
<1>7. CASE seg.endOfRoute
  <2>1. next = n /\ HasLast(Final') /\ Final' # {}
    BY <1>1, <1>2, <1>3, <1>7, LastGrows
  <2> HIDE DEF next
  <2>2. EndIsLastFinalSegments'
    BY <2>1, <1>1, <1>6, <1>7
  <2> QED BY <2>1, <2>2 DEF HasLast
<1>8. CASE ~seg.endOfRoute
  <2>1. Final' = Final
    BY <1>2, <1>8
  <2>2. next = last
    BY <2>1
  <2>3. Final # {} => last \in Final
    BY <1>5 DEF HasLast, LastOf
  <2> HIDE DEF next, last
  <2>4. EndIsLastFinalSegments'
    BY <2>1, <2>2, <2>3, <1>1, <1>3, <1>4, <1>5, <1>6, <1>8
  <2> QED BY <2>1, <2>4, <1>5 DEF HasLast
<1> QED BY <1>7, <1>8

LEMMA FeedClock ==
    ASSUME RowInv, HistoryInv, NEW seg \in Segments, Feed(seg)
    PROVE  /\ HasFirst(Clocked)' /\ ClockOfRoute'
           /\ TimesFit => SegmentTimesExact'
<1>n. PICK n : n = Len(fed) + 1
  OBVIOUS
<1>1. /\ n \in Nat /\ Fed' = Fed \union {n} /\ Fed = 1..(n - 1) /\ fed'[n] = seg
      /\ \A i \in Fed : /\ fed'[i] = fed[i]
                        /\ route'.starts[i] = route.starts[i]
                        /\ route'.ends[i] = route.ends[i]
      /\ route'.starts[n] = ToInt64(WallTime(route', seg.init))
      /\ route'.ends[n] = ToInt64(WallTime(route', seg.end))
      /\ route'.clockWall = IF fed = <<>> \/ route.clockWall = 0
                            THEN seg.clockWall ELSE route.clockWall
      /\ route'.clockMono = IF fed = <<>> \/ route.clockMono = 0
                            THEN seg.clockMono ELSE route.clockMono
  BY <1>n, FeedColumns
<1>2. /\ Clocked' = IF seg.clockWall # 0 THEN Clocked \union {n} ELSE Clocked
      /\ HalfClocked' = IF seg.clockWall = 0 /\ seg.clockMono # 0
                        THEN HalfClocked \union {n} ELSE HalfClocked
      /\ Clocked \in SUBSET (1..(n - 1)) /\ HalfClocked \in SUBSET (1..(n - 1))
  BY <1>1 DEF Clocked, HalfClocked
<1>3. HasFirst(Clocked) /\ ClockOfRoute /\ (TimesFit => SegmentTimesExact)
  BY DEF HistoryInv
<1>4. FirstClocked = FirstOf(Clocked) /\ FirstClocked' = FirstOf(Clocked')
  BY DEF FirstClocked, FirstOf
<1>5. /\ HasFirst(Clocked')
      /\ Clocked # {} => FirstClocked \in Clocked /\ FirstClocked' = FirstClocked
      /\ Clocked = {} /\ Clocked' # {} => FirstClocked' = n
  BY <1>1, <1>2, <1>3, <1>4, FirstGrows
<1>6. Paired(route) /\ (fed = <<>> <=> Fed = {})
  BY DEF RowInv, Fed
<1>7. seg.clockWall \in Nat /\ seg.clockMono \in Nat
  BY SegmentAssumption
<1>8. ClockOfRoute'
  <2>1. ClockOfRoute' <=>
          IF Clocked' = {}
          THEN fed' # <<>> => /\ route'.clockWall = 0
                              /\ HalfClocked' = {} => route'.clockMono = 0
          ELSE (\A i \in HalfClocked' : i > FirstClocked') =>
                 /\ route'.clockWall = fed'[FirstClocked'].clockWall
                 /\ route'.clockMono = fed'[FirstClocked'].clockMono
    BY DEF ClockOfRoute
  <2>2. CASE Clocked' = {}
    <3>1. seg.clockWall = 0 /\ Clocked = {}
      BY <2>2, <1>2
    <3>2. fed # <<>> => route.clockWall = 0 /\ (HalfClocked = {} => route.clockMono = 0)
      BY <3>1, <1>3 DEF ClockOfRoute
    <3>3. HalfClocked' = {} => seg.clockMono = 0 /\ HalfClocked = {}
      BY <1>2, <3>1
    <3> QED BY <2>1, <2>2, <3>1, <3>2, <3>3, <1>1
  <2>3. CASE Clocked = {} /\ Clocked' # {}
    <3>1. seg.clockWall # 0 /\ FirstClocked' = n
      BY <2>3, <1>2, <1>5
    <3>2. HalfClocked' = HalfClocked /\ (HalfClocked # {} => \E i \in HalfClocked : ~(i > n))
      <4>1. \A i \in HalfClocked : ~(i > n)
        BY <1>1, <1>2
      <4> QED BY <3>1, <4>1, <1>2
    <3>3. fed # <<>> => route.clockWall = 0 /\ (HalfClocked = {} => route.clockMono = 0)
      BY <2>3, <1>3 DEF ClockOfRoute
    <3> QED BY <2>1, <2>3, <3>1, <3>2, <3>3, <1>1
  <2>4. CASE Clocked # {}
    <3>1. FirstClocked \in Clocked /\ FirstClocked' = FirstClocked /\ Clocked' # {}
      BY <2>4, <1>2, <1>5
    <3>2. /\ FirstClocked \in Fed /\ fed[FirstClocked].clockWall # 0
          /\ fed'[FirstClocked] = fed[FirstClocked]
      BY <3>1, <1>1 DEF Clocked
    <3>3. SUFFICES ASSUME \A i \in HalfClocked' : i > FirstClocked
                   PROVE  /\ route'.clockWall = fed[FirstClocked].clockWall
                          /\ route'.clockMono = fed[FirstClocked].clockMono
      BY <2>1, <3>1, <3>2
    <3>4. \A i \in HalfClocked : i > FirstClocked
      BY <3>3, <1>2
    <3>5. /\ route.clockWall = fed[FirstClocked].clockWall
          /\ route.clockMono = fed[FirstClocked].clockMono
      BY <3>4, <2>4, <1>3 DEF ClockOfRoute
    <3>6. fed # <<>> /\ route.clockWall # 0 /\ route.clockMono # 0
      BY <3>2, <3>5, <1>6 DEF Paired
    <3> QED BY <3>5, <3>6, <1>1
  <2> QED BY <2>2, <2>3, <2>4
<1>9. ASSUME TimesFit PROVE SegmentTimesExact'
  <2> DEFINE c == fed'[FirstClocked']
  <2>1. SUFFICES ASSUME Clocked' # {}, \A i \in HalfClocked' : i > FirstClocked',
                        NEW i \in FirstClocked' .. Len(fed')
                 PROVE  /\ route'.starts[i] = c.clockWall + fed'[i].init - c.clockMono
                        /\ route'.ends[i] = c.clockWall + fed'[i].end - c.clockMono
    BY DEF SegmentTimesExact
  <2>2. FirstClocked' \in Clocked'
    BY <2>1, <1>1, <1>2, <1>5
  <2>3. /\ Len(fed') = n /\ FirstClocked' \in Fed' /\ c.clockWall # 0
        /\ Fed' = 1..n
    BY <2>2, <1>1, <1>n DEF Clocked, Fed, Feed, RowInv
  <2>4. c \in Segments
    <3>1. fed' \in Seq(Segments)
      BY FeedRow DEF RowInv
    <3> QED BY <3>1, <2>3
  <2>5. route'.clockWall = c.clockWall /\ route'.clockMono = c.clockMono
    BY <1>8, <2>1 DEF ClockOfRoute
  <2>6. CASE i = n
    <3>1. /\ route'.starts[n] = ToInt64((c.clockWall + seg.init - c.clockMono) % Modulus)
          /\ route'.ends[n] = ToInt64((c.clockWall + seg.end - c.clockMono) % Modulus)
      BY <2>5, <1>1 DEF WallTime
    <3>2. /\ FitsColumn(c.clockWall + seg.init - c.clockMono)
          /\ FitsColumn(c.clockWall + seg.end - c.clockMono)
      BY <1>9, <2>3, <2>4 DEF TimesFit
    <3> HIDE DEF c
    <3> QED BY <2>6, <3>1, <3>2, <1>1, WordOfTime
  <2>7. CASE i # n
    <3>1. i \in Fed /\ i < n /\ FirstClocked' <= i
      BY <2>3, <2>7, <1>1, <2>1
    <3>2. Clocked # {}
      BY <3>1, <1>5, <2>1, <1>1
    <3>3. /\ FirstClocked \in Clocked /\ FirstClocked' = FirstClocked
          /\ i \in FirstClocked .. Len(fed) /\ FirstClocked \in Fed
      BY <3>1, <3>2, <1>5, <1>1, <1>n DEF Clocked, Fed
    <3>4. \A h \in HalfClocked : h > FirstClocked
      BY <3>3, <2>1, <1>2
    <3>5. /\ route.starts[i] = fed[FirstClocked].clockWall + fed[i].init - fed[FirstClocked].clockMono
          /\ route.ends[i] = fed[FirstClocked].clockWall + fed[i].end - fed[FirstClocked].clockMono
      BY <1>3, <1>9, <3>2, <3>3, <3>4 DEF SegmentTimesExact
    <3> QED BY <3>1, <3>3, <3>5, <1>1
  <2> QED BY <2>6, <2>7
<1> QED BY <1>5, <1>8, <1>9 DEF HasFirst

LEMMA NextHistory == RowInv /\ HistoryInv /\ [Next]_<<route, fed>> => HistoryInv'
<1> SUFFICES ASSUME RowInv, HistoryInv, [Next]_<<route, fed>> PROVE HistoryInv'
  OBVIOUS
<1>1. CASE UNCHANGED <<route, fed>>
  <2>1. Fed' = Fed /\ fed' = fed /\ route' = route
    BY <1>1 DEF Fed
  <2>2. /\ Usable' = Usable /\ Clocked' = Clocked /\ HalfClocked' = HalfClocked
        /\ Final' = Final
    BY <2>1 DEF Usable, Clocked, HalfClocked, Final
  <2>3. FirstClocked' = FirstClocked
    BY <2>2 DEF FirstClocked
  <2>4. ClockOfRoute' /\ (TimesFit => SegmentTimesExact')
    BY <2>1, <2>2, <2>3 DEF HistoryInv, ClockOfRoute, SegmentTimesExact
  <2>5. StartIsFirstSegments' /\ EndIsLastFinalSegments'
    BY <2>1, <2>2 DEF HistoryInv, StartIsFirstSegments, EndIsLastFinalSegments
  <2>6. HasFirst(Usable)' /\ HasFirst(Clocked)' /\ HasLast(Final)'
    BY <2>2 DEF HistoryInv, HasFirst, HasLast
  <2> QED BY <2>1, <2>4, <2>5, <2>6 DEF HistoryInv
<1>2. ASSUME NEW seg \in Segments, Feed(seg) PROVE HistoryInv'
  <2>1. fed' # <<>>
    BY <1>2 DEF Feed, RowInv
  <2> QED BY <1>2, <2>1, FeedStart, FeedEnd, FeedClock DEF HistoryInv
<1> QED BY <1>1, <1>2 DEF Next

LEMMA HistoryAlways == Spec => []HistoryInv
BY InitRow, NextRow, InitHistory, NextHistory, PTL DEF Spec

(* The route starts where its first usable segment does, whatever clocks   *)
(* and wrapped times came before (processLog, queue.go).                   *)
THEOREM StartOfRoute == Spec => []StartIsFirstSegments
<1>1. HistoryInv => StartIsFirstSegments
  BY DEF HistoryInv
<1> QED BY <1>1, HistoryAlways, PTL

(* It ends where the last merged of its final segments does.               *)
THEOREM EndOfRoute == Spec => []EndIsLastFinalSegments
<1>1. HistoryInv => EndIsLastFinalSegments
  BY DEF HistoryInv
<1> QED BY <1>1, HistoryAlways, PTL

(* From the first clock on, the unsigned arithmetic of                     *)
(* GetWallTimeFromBootTime is exact for every time the signed column holds. *)
THEOREM TimesExact == TimesFit => (Spec => []SegmentTimesExact)
<1>1. TimesFit /\ HistoryInv => SegmentTimesExact
  BY DEF HistoryInv
<1>2. TimesFit => []TimesFit
  OBVIOUS
<1> QED BY <1>1, <1>2, HistoryAlways, PTL

-----------------------------------------------------------------------------
(***************************************************************************)
(* The listing and the playlist.                                           *)
(***************************************************************************)

(* A file that summarizeUploadedRoute lists is found by GETRouteFile, if   *)
(* no two directories have the same number for a segment of the route: the *)
(* counter in front of it, or leading zeros, can give two.                 *)
OneDirectory(tree) ==
    \A f, g \in tree : Matches(f.dir) /\ Matches(g.dir) /\ Segment(f) = Segment(g) => f.dir = g.dir

THEOREM ListedFilesServed ==
    ASSUME NEW tree \in Trees, OneDirectory(tree), NEW f \in Files(tree)
    PROVE  Served(tree, Segment(f), f.name)
<1>1. f \in tree /\ Matches(f.dir) /\ f.name \in DOMAIN TypeOf
  BY DEF Files
<1>2. f = [dir |-> f.dir, name |-> f.name]
  BY <1>1, TreesAssumption
<1>3. SegmentDir(tree, Segment(f)) = f.dir
  <2>1. f.dir \in {g.dir : g \in tree} /\ f.dir.segment = Segment(f)
    BY <1>1 DEF Segment
  <2>2. \A dir \in {g.dir : g \in tree} : Matches(dir) /\ dir.segment = Segment(f) => dir = f.dir
    BY <1>1 DEF OneDirectory, Segment
  <2> QED BY <1>1, <2>1, <2>2 DEF SegmentDir
<1> QED BY <1>1, <1>2, <1>3 DEF Served

-----------------------------------------------------------------------------
(* The index of a segment in a sorted slice tells it from all others.      *)
Slice(S) == IsFiniteSet(S) /\ S \subseteq Nat

LEMMA IndexGrows ==
    ASSUME NEW S, Slice(S), NEW a \in S, NEW b \in S, a < b
    PROVE  Index(a, S) < Index(b, S)
<1> DEFINE A == {n \in S : n < a}
           B == {n \in S : n < b}
<1>1. IsFiniteSet(A) /\ IsFiniteSet(B)
  <2>1. A \in SUBSET S /\ B \in SUBSET S /\ IsFiniteSet(S)
    BY DEF Slice
  <2> HIDE DEF A, B
  <2> QED BY <2>1, FS_Subset
<1>2. A \subseteq B /\ a \in B /\ a \notin A
  <2>1. \A n \in S : n \in Nat
    BY DEF Slice
  <2>2. \A n \in S : n < a => n < b
    BY <2>1
  <2> QED BY <2>1, <2>2
<1>3. Cardinality(A) < Cardinality(B)
  <2> HIDE DEF A, B
  <2>1. A # B
    BY <1>2
  <2>2. Cardinality(A) <= Cardinality(B) /\ (Cardinality(B) = Cardinality(A) => A = B)
    BY <1>1, <1>2, FS_Subset
  <2>3. Cardinality(A) \in Nat /\ Cardinality(B) \in Nat
    BY <1>1, FS_CardinalityType
  <2> QED BY <2>1, <2>2, <2>3
<1> QED BY <1>3 DEF Index

LEMMA IndexInNat ==
    ASSUME NEW S, Slice(S), NEW a
    PROVE  Index(a, S) \in Nat
<1> DEFINE A == {n \in S : n < a}
<1>1. A \in SUBSET S /\ IsFiniteSet(S)
  BY DEF Slice
<1>2. Cardinality(A) \in Nat
  <2> HIDE DEF A
  <2> QED BY <1>1, FS_Subset, FS_CardinalityType
<1> QED BY <1>2 DEF Index

LEMMA NthOfIndex ==
    ASSUME NEW S, Slice(S), NEW a \in S
    PROVE  Nth(Index(a, S), S) = a
<1>1. ASSUME NEW b \in S, Index(b, S) = Index(a, S) PROVE b = a
  <2>1. a \in Nat /\ b \in Nat
    BY DEF Slice
  <2>2. ~(a < b) /\ ~(b < a)
    BY <1>1, IndexGrows, IndexInNat
  <2> QED BY <2>1, <2>2
<1> QED BY <1>1 DEF Nth

LEMMA ListedSlice ==
    ASSUME RowInv, NEW tree \in Trees
    PROVE  /\ Slice(UploadedSegments(tree)) /\ Slice(Listed(route, UploadedSegments(tree)))
           /\ UploadedSegments(tree) \subseteq Listed(route, UploadedSegments(tree))
<1> DEFINE up      == UploadedSegments(tree)
           numbers == {route.numbers[i] : i \in DOMAIN route.numbers}
<1>1. Slice(up)
  <2> DEFINE number == [f \in Files(tree) |-> Segment(f)]
  <2>1. IsFiniteSet(Files(tree))
    <3>1. IsFiniteSet(tree) /\ Files(tree) \in SUBSET tree
      BY TreesAssumption DEF Files
    <3> QED BY <3>1, FS_Subset
  <2>2. IsFiniteSet(up)
    <3>1. number \in Surjection(Files(tree), up)
      BY DEF UploadedSegments, Surjection
    <3> HIDE DEF up, number
    <3> QED BY <2>1, <3>1, FS_Surjection
  <2>3. up \subseteq Nat
    BY TreesAssumption DEF UploadedSegments, Files, Segment
  <2> QED BY <2>2, <2>3 DEF Slice
<1>2. Slice(numbers)
  <2>1. numbers = 1..Len(fed) /\ Len(fed) \in Nat
    BY DEF RowInv, SegmentArraysAligned, Fed
  <2>2. IsFiniteSet(1..Len(fed))
    BY <2>1, FS_Interval
  <2> HIDE DEF numbers
  <2> QED BY <2>1, <2>2 DEF Slice
<1>3. Slice(numbers \union up)
  BY <1>1, <1>2, FS_Union DEF Slice
<1>4. Slice({0})
  <2>1. IsFiniteSet({0})
    BY FS_Singleton, Zenon
  <2> QED BY <2>1 DEF Slice
<1>5. Listed(route, up) = IF numbers \union up = {} THEN {0} ELSE numbers \union up
  BY DEF Listed
<1> HIDE DEF up, numbers
<1> QED BY <1>1, <1>3, <1>4, <1>5 DEF up

(* The playlist's index into the uploaded segments is good for the arrays  *)
(* of all listed ones (GETRouteQCameraM3U8) as long as the uploads have no *)
(* gap before the segment.                                                 *)
THEOREM PlaylistMatches == Spec => []PlaylistMatchesListing
<1>1. RowInv => PlaylistMatchesListing
  <2> SUFFICES ASSUME RowInv, NEW tree \in Trees, NEW f \in QCameras(tree),
                      \A n \in Listed(route, UploadedSegments(tree)) :
                          n < Segment(f) => n \in UploadedSegments(tree)
               PROVE  PlaylistDuration(route, tree, Segment(f))
                        = Duration(ListedInterval(route, Segment(f)))
    BY DEF PlaylistMatchesListing
  <2> DEFINE s   == Segment(f)
             up  == UploadedSegments(tree)
             all == Listed(route, up)
  <2>1. s \in up
    BY DEF QCameras, UploadedSegments
  <2>2. Slice(all) /\ s \in all /\ up \subseteq all
    BY <2>1, ListedSlice
  <2>3. {n \in up : n < s} = {n \in all : n < s}
    BY <2>2
  <2>4. Index(s, up) = Index(s, all)
    BY <2>3 DEF Index
  <2>5. Nth(Index(s, up), all) = s
    <3> HIDE DEF s, up, all
    <3> QED BY <2>2, <2>4, NthOfIndex
  <2> QED BY <2>5 DEF PlaylistDuration
<1> QED BY <1>1, InitRow, NextRow, PTL DEF Spec

-----------------------------------------------------------------------------
(* The listed interval of a stored segment is that of its log, through the *)
(* nanosecond arrays and normalizeAPITime, for any times the columns hold. *)
THEOREM ListedTimes == TimesFit => (Spec => []ListedTimesExact)
<1>1. TimesFit /\ RowInv /\ HistoryInv => ListedTimesExact
  <2> SUFFICES ASSUME TimesFit, RowInv, HistoryInv,
                      Clocked # {}, \A i \in HalfClocked : i > FirstClocked,
                      NEW i \in FirstClocked..Len(fed),
                      route.starts[i] > NanosFrom, route.ends[i] > NanosFrom,
                      ExactMillis(fed[i]).start \in 1 .. ExactMillis(fed[i]).end - 1
               PROVE  ListedInterval(route, i) = ExactMillis(fed[i])
    BY DEF ListedTimesExact
  <2>1. /\ route.starts[i] = fed[FirstClocked].clockWall + fed[i].init - fed[FirstClocked].clockMono
        /\ route.ends[i] = fed[FirstClocked].clockWall + fed[i].end - fed[FirstClocked].clockMono
    BY DEF HistoryInv, SegmentTimesExact
  <2>2. StoredInterval(route, i) = ExactMillis(fed[i])
    BY <2>1 DEF StoredInterval, Normalized, ExactMillis
  <2>3. SegmentEntry(route, i) = {i}
    <3>1. FirstClocked \in Fed
      BY DEF HistoryInv, HasFirst, FirstClocked, Clocked
    <3>2. i \in Fed
      BY <3>1 DEF Fed, RowInv
    <3> QED BY <3>2 DEF RowInv, SegmentArraysAligned, SegmentEntry
  <2>4. ExactMillis(fed[i]).start > 0 /\ ExactMillis(fed[i]).end > ExactMillis(fed[i]).start
    <3>1. ExactMillis(fed[i]).end = Normalized(route.ends[i])
      BY <2>2 DEF StoredInterval
    <3>2. route.ends[i] \in Int
      <4>1. route.ends \in Seq(Int) /\ Len(route.ends) = Len(fed)
        BY DEF RowInv, SegmentArraysAligned, Rows
      <4>2. FirstClocked \in Fed
        BY DEF HistoryInv, HasFirst, FirstClocked, Clocked
      <4> QED BY <4>1, <4>2 DEF Fed
    <3>3. ExactMillis(fed[i]).end \in Int
      BY <3>1, <3>2, UnitsAssumption DEF Normalized
    <3> QED BY <3>3
  <2>5. {j \in SegmentEntry(route, i) :
            LET at == StoredInterval(route, j) IN at.start > 0 /\ at.end > at.start} = {i}
    BY <2>2, <2>3, <2>4
  <2>6. (CHOOSE j \in {i} : \A k \in {i} : j <= k) = i
    OBVIOUS
  <2> QED BY <2>2, <2>5, <2>6 DEF ListedInterval
<1>2. TimesFit => []TimesFit
  OBVIOUS
<1> QED BY <1>1, <1>2, InitRow, NextRow, HistoryAlways, PTL DEF Spec
=============================================================================
