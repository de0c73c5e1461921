-------------------------- MODULE NavigationProofs --------------------------
(***************************************************************************)
(* Proofs about Navigation for any number of requests and of destinations. *)
(***************************************************************************)
EXTENDS Navigation, SequenceTheorems, TLAPS

(* What a request has in hand is a destination that was asked for, and     *)
(* what it replaces has a unique label.                                    *)
InHand ==
    /\ row.set => row.place \in Places
    /\ \A w \in Handlers :
          /\ req[w].at \in {"call", "save", "clear", "take"} => req[w].place \in Places
          /\ req[w].at = "unlabel" => req[w].label \in UniqueLabels

Typed == TypeOK /\ InHand

USE LabelAssumption

LEMMA AskedGrows ==
    ASSUME Typed, NEW S \in SUBSET Places, before' = Append(before, S)
    PROVE  /\ before' \in Seq(SUBSET Places')
           /\ Places' = Places \union {Len(before) + 1}
           /\ Len(before) + 1 \notin Places
           /\ before'[Len(before) + 1] = S
           /\ \A n \in Places : before'[n] = before[n]
<1>1. before \in Seq(SUBSET Places) /\ Len(before) \in Nat /\ Places = 1..Len(before)
  BY DEF Typed, TypeOK, Places
<1>2. Places' = 1..(Len(before) + 1)
  BY <1>1 DEF Places
<1>3. \A n \in Places : before[n] \in SUBSET Places
  BY <1>1
<1>4. /\ before'[Len(before) + 1] = S
      /\ \A n \in Places : before'[n] = before[n]
      /\ Len(before') = Len(before) + 1
  BY <1>1
<1>5. Places' = Places \union {Len(before) + 1} /\ Len(before) + 1 \notin Places
  BY <1>1, <1>2
<1>6. before' \in Seq(SUBSET Places')
  <2>1. before \in Seq(SUBSET Places') /\ S \in SUBSET Places'
    BY <1>1, <1>3, <1>5, SeqDef
  <2> QED BY <2>1
<1> QED BY <1>4, <1>5, <1>6

LEMMA LocationTypes ==
    ASSUME Typed
    PROVE  /\ Len(locations) \in Nat /\ DOMAIN locations = 1..Len(locations)
           /\ \A i \in DOMAIN locations :
                 /\ locations[i] \in [label : Labels, live : BOOLEAN]
                 /\ locations[i].label \in Labels /\ locations[i].live \in BOOLEAN
<1>1. locations \in Seq([label : Labels, live : BOOLEAN])
  BY DEF Typed, TypeOK
<1>2. Len(locations) \in Nat /\ DOMAIN locations = 1..Len(locations)
  BY <1>1
<1>3. \A i \in 1..Len(locations) : locations[i] \in [label : Labels, live : BOOLEAN]
  BY <1>1, ElementOfSeq
<1>4. \A i \in DOMAIN locations :
        /\ locations[i] \in [label : Labels, live : BOOLEAN]
        /\ locations[i].label \in Labels /\ locations[i].live \in BOOLEAN
  BY <1>2, <1>3
<1> QED BY <1>2, <1>4

LEMMA TypedInit == Init => Typed
BY DEF Init, Typed, TypeOK, InHand, Idle, Places, Stages, Labels

LEMMA TypedStep == Typed /\ [Next]_vars => Typed'
<1> SUFFICES ASSUME Typed, [Next]_vars PROVE Typed'
  OBVIOUS
<1> USE DEF Typed
<1>u. CASE UNCHANGED vars
  BY <1>u DEF vars, destinationVars, locationVars, TypeOK, InHand, Places
<1>w. Waiting \subseteq Places
  BY DEF Waiting, InHand
<1>1. ASSUME NEW w \in Handlers, AskDestination(w) PROVE Typed'
  <2>1. Places \ Open \in SUBSET Places
    OBVIOUS
  <2>2. before' = Append(before, Places \ Open)
    BY <1>1 DEF AskDestination
  <2>3. PICK stage \in {"call", "save"} :
          req' = [req EXCEPT ![w] = [Idle EXCEPT !.at = stage, !.place = Len(before) + 1]]
    BY <1>1 DEF AskDestination
  <2>4. /\ before' \in Seq(SUBSET Places')
        /\ Places' = Places \union {Len(before) + 1}
    BY <2>1, <2>2, AskedGrows
  <2>5. req' \in [Handlers -> [at : Stages, place : {0} \union Places', label : Labels]]
    BY <2>3, <2>4 DEF TypeOK, Idle, Stages, Labels
  <2>6. TypeOK'
    BY <1>1, <2>4, <2>5 DEF AskDestination, TypeOK, locationVars
  <2>7. InHand'
    BY <1>1, <2>3, <2>4 DEF AskDestination, TypeOK, InHand, Idle
  <2> QED BY <2>6, <2>7
<1>2. ASSUME NEW w \in Handlers, CallSucceeds(w) \/ CallRefused(w) PROVE Typed'
  <2>1. /\ \E stage \in {"clear", "save"} : req' = [req EXCEPT ![w].at = stage]
        /\ req[w].at = "call"
        /\ UNCHANGED <<destinationVars, locationVars>>
    BY <1>2 DEF CallSucceeds, CallRefused
  <2>2. PICK stage \in {"clear", "save"} : req' = [req EXCEPT ![w].at = stage]
    BY <2>1
  <2>3. TypeOK'
    <3>1. req' \in [Handlers -> [at : Stages, place : {0} \union Places, label : Labels]]
      BY <2>2 DEF TypeOK, Stages
    <3>2. UNCHANGED <<before, confirmed, settled, raced, row, locations, dropped, crowded>> /\ Places' = Places
      BY <2>1 DEF destinationVars, locationVars, Places
    <3> QED BY <3>1, <3>2 DEF TypeOK, Labels
  <2>4. InHand'
    BY <2>1, <2>2 DEF TypeOK, InHand, destinationVars, Places
  <2> QED BY <2>3, <2>4
<1>3. ASSUME NEW w \in Handlers, Clear(w) PROVE Typed'
  BY <1>3, <1>w DEF Clear, TypeOK, InHand, locationVars, Stages, Places, Idle, Labels
<1>4. ASSUME NEW w \in Handlers, Save(w) PROVE Typed'
  BY <1>4, <1>w DEF Save, TypeOK, InHand, locationVars, Stages, Places, Idle, Labels
<1>5. ASSUME NEW w \in Handlers, ReadNext(w) PROVE Typed'
  BY <1>5 DEF ReadNext, TypeOK, InHand, destinationVars, locationVars, Stages, Places, Idle, Labels
<1>6. ASSUME NEW w \in Handlers, TakeNext(w) PROVE Typed'
  BY <1>6 DEF TakeNext, TypeOK, InHand, locationVars, Stages, Places, Idle, Labels
<1>7. ASSUME NEW w \in Handlers, DropNext(w) PROVE Typed'
  BY <1>7, <1>w DEF DropNext, TypeOK, InHand, locationVars, Places
<1>8. ASSUME NEW w \in Handlers, NEW l \in Labels, PutLocation(w, l) PROVE Typed'
  BY <1>8 DEF PutLocation, TypeOK, InHand, destinationVars, Stages, Places, Idle, Labels
<1>9. ASSUME NEW w \in Handlers, DeleteLabelled(w) PROVE Typed'
  <2>1. locations' \in Seq([label : Labels, live : BOOLEAN])
    <3>1. locations' = [i \in DOMAIN locations |->
             [locations[i] EXCEPT !.live = @ /\ i \notin Replaced(req[w].label)]]
      BY <1>9 DEF DeleteLabelled
    <3>2. Len(locations) \in Nat /\ DOMAIN locations = 1..Len(locations)
      BY LocationTypes
    <3>3. \A i \in DOMAIN locations : locations[i] \in [label : Labels, live : BOOLEAN]
      BY LocationTypes
    <3>4. \A i \in 1..Len(locations) :
             [locations[i] EXCEPT !.live = @ /\ i \notin Replaced(req[w].label)]
               \in [label : Labels, live : BOOLEAN]
      BY <3>2, <3>3
    <3>5. locations' \in [1..Len(locations) -> [label : Labels, live : BOOLEAN]]
      BY <3>1, <3>2, <3>4
    <3>6. Seq([label : Labels, live : BOOLEAN])
            = UNION {[1..n -> [label : Labels, live : BOOLEAN]] : n \in Nat}
      BY SeqDef
    <3> QED BY <3>2, <3>5, <3>6
  <2>2. req' = [req EXCEPT ![w].at = "insert"] /\ UNCHANGED <<destinationVars, dropped>>
    BY <1>9 DEF DeleteLabelled
  <2>3. TypeOK'
    <3>1. req' \in [Handlers -> [at : Stages, place : {0} \union Places, label : Labels]]
      BY <2>2 DEF TypeOK, Stages
    <3>2. crowded' \subseteq UniqueLabels
      BY <1>9 DEF DeleteLabelled, TypeOK
    <3> QED BY <2>1, <2>2, <3>1, <3>2 DEF TypeOK, destinationVars, Places
  <2>4. InHand'
    BY <2>2 DEF TypeOK, InHand, destinationVars, Places
  <2> QED BY <2>3, <2>4
<1>10. ASSUME NEW w \in Handlers, InsertLocation(w) PROVE Typed'
  BY <1>10 DEF InsertLocation, TypeOK, InHand, destinationVars, Stages, Places, Idle, Labels
<1>11. ASSUME NEW w \in Handlers, RequestFails(w) PROVE Typed'
  BY <1>11 DEF RequestFails, TypeOK, InHand, destinationVars, Stages, Places, Idle, Labels
<1>12. ASSUME NEW i \in DOMAIN locations, DeleteLocation(i) PROVE Typed'
  <2>1. locations[i] \in [label : Labels, live : BOOLEAN] /\ locations[i].label \in Labels
    BY <1>12, LocationTypes
  <2>2. locations' \in Seq([label : Labels, live : BOOLEAN])
    <3>1. [locations[i] EXCEPT !.live = FALSE] \in [label : Labels, live : BOOLEAN]
      BY <2>1
    <3>2. locations' = [locations EXCEPT ![i] = [locations[i] EXCEPT !.live = FALSE]]
      BY <1>12 DEF DeleteLocation
    <3>3. locations \in Seq([label : Labels, live : BOOLEAN])
      BY DEF TypeOK
    <3> QED BY <3>1, <3>2, <3>3, <1>12, ExceptSeq
  <2> QED BY <1>12, <2>1, <2>2 DEF DeleteLocation, TypeOK, InHand, destinationVars, Places
<1> QED
  BY <1>u, <1>1, <1>2, <1>3, <1>4, <1>5, <1>6, <1>7, <1>8, <1>9, <1>10, <1>11, <1>12
     DEF Next, DestinationStep, LocationStep

(* Every variable keeps its type: what waits, is in hand, confirmed or     *)
(* settled was asked for (controllers/v1/navigation.go).                   *)
THEOREM TypeCorrect == Spec => []TypeOK
<1>1. Typed => TypeOK
  BY DEF Typed
<1> QED BY <1>1, TypedInit, TypedStep, PTL DEF Spec

-----------------------------------------------------------------------------
(* Destinations.                                                           *)

(* What a GET next has read is still the waiting destination, unless that  *)
(* was saved meanwhile.                                                    *)
TakesTheWaiting ==
    \A w \in Handlers : req[w].at = "take" /\ row.set =>
        row.place = req[w].place \/ row.place \in raced

LEMMA TakesInit == Init => TakesTheWaiting
BY DEF Init, TakesTheWaiting, Idle

LEMMA TakesStep == Typed /\ TakesTheWaiting /\ [Next]_vars => TakesTheWaiting'
<1> SUFFICES ASSUME Typed, TakesTheWaiting, [Next]_vars PROVE TakesTheWaiting'
  OBVIOUS
<1>t. /\ req \in [Handlers -> [at : Stages, place : {0} \union Places, label : Labels]]
      /\ row \in [set : BOOLEAN, place : {0} \union Places]
  BY DEF Typed, TypeOK
<1> USE DEF TakesTheWaiting
<1>u. CASE UNCHANGED vars
  BY <1>u DEF vars, destinationVars
<1>1. ASSUME NEW w \in Handlers, DestinationStep(w) PROVE TakesTheWaiting'
  <2>1. CASE AskDestination(w)
    BY <2>1, <1>t DEF AskDestination, Idle
  <2>2. CASE CallSucceeds(w)
    BY <2>2, <1>t DEF CallSucceeds, destinationVars
  <2>3. CASE CallRefused(w)
    BY <2>3, <1>t DEF CallRefused, destinationVars
  <2>4. CASE Clear(w)
    BY <2>4, <1>t DEF Clear
  <2>5. CASE Save(w)
    <3> SUFFICES ASSUME NEW v \in Handlers, req'[v].at = "take", row'.set
                 PROVE  row'.place \in raced'
      OBVIOUS
    <3>1. req[v].at = "take" /\ row'.place = req[w].place
      BY <2>5, <1>t DEF Save, Idle
    <3> QED BY <3>1, <2>5 DEF Save
  <2>6. CASE ReadNext(w)
    BY <2>6, <1>t DEF ReadNext, Idle, destinationVars
  <2>7. CASE TakeNext(w)
    BY <2>7, <1>t DEF TakeNext
  <2>8. CASE DropNext(w)
    BY <2>8, <1>t DEF DropNext
  <2> QED BY <1>1, <2>1, <2>2, <2>3, <2>4, <2>5, <2>6, <2>7, <2>8 DEF DestinationStep
<1>2. ASSUME NEW w \in Handlers, LocationStep(w) PROVE TakesTheWaiting'
  <2>1. /\ row' = row /\ raced' = raced
        /\ \A v \in Handlers : req'[v] = req[v] \/ req'[v].at # "take"
    <3>1. CASE \E l \in Labels : PutLocation(w, l)
      BY <3>1, <1>t DEF PutLocation, Idle, destinationVars
    <3>2. CASE DeleteLabelled(w)
      BY <3>2, <1>t DEF DeleteLabelled, destinationVars
    <3>3. CASE InsertLocation(w)
      BY <3>3, <1>t DEF InsertLocation, Idle, destinationVars
    <3> QED BY <1>2, <3>1, <3>2, <3>3 DEF LocationStep
  <2> QED BY <2>1
<1>3. ASSUME NEW w \in Handlers, RequestFails(w) PROVE TakesTheWaiting'
  BY <1>3, <1>t DEF RequestFails, Idle, destinationVars
<1>4. ASSUME NEW i \in DOMAIN locations, DeleteLocation(i) PROVE TakesTheWaiting'
  BY <1>4 DEF DeleteLocation, destinationVars
<1> QED BY <1>u, <1>1, <1>2, <1>3, <1>4 DEF Next

(* A waiting destination stays until it is handed out, dropped or replaced *)
(* (GETNavigationNext, DELETENavigationNext, POSTSetDestination), but one  *)
(* saved while a GET next was between its read and its update.             *)
THEOREM NoneLost == Spec => NothingLost
<1>1. Typed /\ TakesTheWaiting /\ [Next]_vars
        => [\A n \in Waiting \ raced : n \in Waiting' \union settled']_vars
  <2> SUFFICES ASSUME Typed, TakesTheWaiting, Next, NEW n \in Waiting \ raced
               PROVE  n \in Waiting' \union settled'
    OBVIOUS
  <2>1. row.set /\ n = row.place
    BY DEF Waiting
  <2>t. row \in [set : BOOLEAN, place : {0} \union Places]
    BY DEF Typed, TypeOK
  <2>2. CASE row' = row
    BY <2>1, <2>2 DEF Waiting
  <2>3. ASSUME NEW w \in Handlers, Clear(w) \/ Save(w) \/ DropNext(w)
        PROVE  n \in Waiting' \union settled'
    BY <2>3 DEF Clear, Save, DropNext
  <2>4. ASSUME NEW w \in Handlers, TakeNext(w) PROVE n \in Waiting' \union settled'
    BY <2>1, <2>4 DEF TakeNext, TakesTheWaiting
  <2>5. ASSUME NEW w \in Handlers, DestinationStep(w) PROVE n \in Waiting' \union settled'
    <3>1. \/ row' = row \/ Clear(w) \/ Save(w) \/ DropNext(w) \/ TakeNext(w)
      BY <2>5 DEF DestinationStep, AskDestination, CallSucceeds, CallRefused, ReadNext, destinationVars
    <3> QED BY <3>1, <2>2, <2>3, <2>4
  <2>6. ASSUME NEW w \in Handlers, LocationStep(w) \/ RequestFails(w) PROVE row' = row
    BY <2>6 DEF LocationStep, PutLocation, DeleteLabelled, InsertLocation, RequestFails, destinationVars
  <2>7. ASSUME NEW i \in DOMAIN locations, DeleteLocation(i) PROVE row' = row
    BY <2>7 DEF DeleteLocation, destinationVars
  <2> QED BY <2>2, <2>5, <2>6, <2>7 DEF Next
<1> QED BY <1>1, TypedInit, TypedStep, TakesInit, TakesStep, PTL DEF Spec, NothingLost

(* A destination whose request has not ended was not answered before any   *)
(* other was asked for.                                                    *)
OpenIsUnanswered ==
    \A n \in Places, w \in Handlers :
        req[w].at \in {"call", "save", "clear"} => req[w].place \notin before[n]

Fresh == OpenIsUnanswered /\ NothingStale

LEMMA FreshInit == Init => Fresh
BY DEF Init, Fresh, OpenIsUnanswered, NothingStale, Idle

LEMMA FreshStep == Typed /\ Fresh /\ [Next]_vars => Fresh'
<1> SUFFICES ASSUME Typed, Fresh, [Next]_vars PROVE Fresh'
  OBVIOUS
<1>t. /\ req \in [Handlers -> [at : Stages, place : {0} \union Places, label : Labels]]
      /\ row \in [set : BOOLEAN, place : {0} \union Places]
      /\ confirmed \subseteq Places
  BY DEF Typed, TypeOK
<1>h. \A w \in Handlers : req[w].at \in {"call", "save", "clear", "take"} => req[w].place \in Places
  BY DEF Typed, InHand
<1> USE DEF Fresh
<1>1. ASSUME NEW w \in Handlers, AskDestination(w) PROVE Fresh'
  <2> DEFINE new == Len(before) + 1
  <2>1. before' = Append(before, Places \ Open) /\ Places \ Open \in SUBSET Places
    BY <1>1 DEF AskDestination
  <2>2. /\ Places' = Places \union {new} /\ new \notin Places
        /\ before'[new] = Places \ Open
        /\ \A n \in Places : before'[n] = before[n]
    BY <2>1, AskedGrows
  <2>3. \A n \in Places : before[n] \subseteq Places
    <3>1. before \in Seq(SUBSET Places)
      BY DEF Typed, TypeOK
    <3>2. Places = 1..Len(before)
      BY <3>1 DEF Places
    <3> QED BY <3>1, <3>2, ElementOfSeq
  <2>4. /\ req'[w].place = new
        /\ \A v \in Handlers \ {w} : req'[v] = req[v]
        /\ row' = row /\ confirmed' = confirmed
    BY <1>1, <1>t DEF AskDestination, Idle
  <2> HIDE DEF new
  <2>5. OpenIsUnanswered'
    <3> SUFFICES ASSUME NEW n \in Places', NEW v \in Handlers,
                        req'[v].at \in {"call", "save", "clear"}
                 PROVE  req'[v].place \notin before'[n]
      BY DEF OpenIsUnanswered
    <3>1. CASE v = w
      BY <3>1, <2>2, <2>3, <2>4
    <3>2. CASE v # w /\ n = new
      <4>1. req[v].place \in Open
        BY <3>2, <2>4 DEF Open
      <4> QED BY <4>1, <3>2, <2>2, <2>4
    <3>3. CASE v # w /\ n \in Places
      BY <3>3, <2>2, <2>4 DEF OpenIsUnanswered
    <3> QED BY <3>1, <3>2, <3>3, <2>2
  <2>6. NothingStale'
    BY <2>2, <2>4, <1>t DEF NothingStale
  <2> QED BY <2>5, <2>6
<1>2. ASSUME NEW w \in Handlers, Save(w) PROVE Fresh'
  <2>1. /\ row'.place = req[w].place /\ req[w].at = "save" /\ req[w].place \in Places
        /\ confirmed' = confirmed \union {req[w].place} /\ before' = before /\ Places' = Places
        /\ req' = [req EXCEPT ![w] = Idle]
    BY <1>2, <1>h DEF Save, Places
  <2>2. OpenIsUnanswered'
    BY <2>1, <1>t DEF OpenIsUnanswered, Idle
  <2>3. NothingStale'
    BY <2>1, <1>t DEF OpenIsUnanswered, NothingStale
  <2> QED BY <2>2, <2>3
<1>3. ASSUME NEW w \in Handlers, Clear(w) \/ TakeNext(w) \/ DropNext(w) PROVE Fresh'
  <2>1. ~row'.set /\ before' = before /\ Places' = Places
    BY <1>3, <1>t DEF Clear, TakeNext, DropNext, Places
  <2>2. \A v \in Handlers : req'[v] = req[v] \/ req'[v] = Idle
    BY <1>3, <1>t DEF Clear, TakeNext, DropNext
  <2>3. OpenIsUnanswered'
    BY <2>1, <2>2 DEF OpenIsUnanswered, Idle
  <2> QED BY <2>1, <2>3 DEF NothingStale
<1>4. ASSUME UNCHANGED <<before, confirmed, row>>,
             \A v \in Handlers : \/ req'[v] = req[v]
                                 \/ req'[v].at \notin {"call", "save", "clear"}
                                 \/ req[v].at = "call" /\ req'[v].place = req[v].place
      PROVE  Fresh'
  BY <1>4 DEF OpenIsUnanswered, NothingStale, Places
<1>5. CASE UNCHANGED vars
  BY <1>4, <1>5 DEF vars, destinationVars
<1>6. ASSUME NEW w \in Handlers, DestinationStep(w) PROVE Fresh'
  <2>1. CASE CallSucceeds(w) \/ CallRefused(w)
    BY <2>1, <1>4, <1>t DEF CallSucceeds, CallRefused, destinationVars
  <2>2. CASE ReadNext(w)
    BY <2>2, <1>4, <1>t DEF ReadNext, destinationVars, Idle
  <2> QED BY <1>6, <1>1, <1>2, <1>3, <2>1, <2>2 DEF DestinationStep
<1>7. ASSUME NEW w \in Handlers, LocationStep(w) \/ RequestFails(w) PROVE Fresh'
  <2>1. CASE \E l \in Labels : PutLocation(w, l)
    BY <2>1, <1>4, <1>t DEF PutLocation, destinationVars, Idle
  <2>2. CASE DeleteLabelled(w)
    BY <2>2, <1>4, <1>t DEF DeleteLabelled, destinationVars
  <2>3. CASE InsertLocation(w) \/ RequestFails(w)
    BY <2>3, <1>4, <1>t DEF InsertLocation, RequestFails, destinationVars, Idle
  <2> QED BY <1>7, <2>1, <2>2, <2>3 DEF LocationStep
<1>8. ASSUME NEW i \in DOMAIN locations, DeleteLocation(i) PROVE Fresh'
  BY <1>8, <1>4 DEF DeleteLocation, destinationVars
<1> QED BY <1>5, <1>6, <1>7, <1>8 DEF Next

(* GET next never hands out a destination older than one that has been     *)
(* confirmed since, whatever calls and statements failed.                  *)
THEOREM NoneStale == Spec => []NothingStale
<1>1. Fresh => NothingStale
  BY DEF Fresh
<1> QED BY <1>1, TypedInit, TypedStep, FreshInit, FreshStep, PTL DEF Spec


-----------------------------------------------------------------------------
(* Locations.                                                              *)

(* Unless requests that save a label overlapped, one saves it, and when it *)
(* is about to insert there is no other.                                   *)
SavedAlone ==
    \A l \in UniqueLabels \ crowded :
       /\ \A v, w \in Saving(l) : v = w
       /\ \A w \in Saving(l) : req[w].at = "insert" => Live(l) = {}
       /\ \A i, j \in Live(l) : i = j

(* LabelKept, label by label.                                              *)
Used(l) == \E i \in DOMAIN locations : locations[i].label = l

Kept ==
    \A l \in UniqueLabels \ dropped :
       Used(l) => Live(l) # {} \/ \E w \in Saving(l) : req[w].at = "insert"

Labelled == SavedAlone /\ Kept

LEMMA LabelledInit == Init => Labelled
BY DEF Init, Labelled, SavedAlone, Kept, Used, Saving, Live, Idle

(* Steps that leave the locations and the requests to save one alone.      *)
LEMMA SavingUnchanged ==
    ASSUME Labelled, UNCHANGED locationVars,
           \A v \in Handlers : \/ req'[v] = req[v]
                               \/ {req[v].at, req'[v].at} \cap {"unlabel", "insert"} = {}
    PROVE  Labelled'
<1>1. \A l : Saving(l)' = Saving(l) /\ Live(l)' = Live(l) /\ Used(l)' = Used(l)
  BY DEF Saving, Live, Used, locationVars
<1>2. \A l : \A v \in Saving(l) : req'[v] = req[v]
  BY DEF Saving
<1>3. crowded' = crowded /\ dropped' = dropped /\ locations' = locations
  BY DEF locationVars
<1>4. SavedAlone'
  BY <1>1, <1>2, <1>3 DEF Labelled, SavedAlone
<1>5. Kept'
  BY <1>1, <1>2, <1>3 DEF Labelled, Kept
<1> QED BY <1>4, <1>5 DEF Labelled

LEMMA PutKeeps ==
    ASSUME Typed, Labelled, NEW w \in Handlers, NEW k \in Labels, PutLocation(w, k)
    PROVE  Labelled'
<1>t. req \in [Handlers -> [at : Stages, place : {0} \union Places, label : Labels]]
  BY DEF Typed, TypeOK
<1>1. /\ req'[w].label = k /\ req'[w].at = (IF k \in UniqueLabels THEN "unlabel" ELSE "insert")
      /\ \A v \in Handlers \ {w} : req'[v] = req[v]
      /\ req[w].at = "idle"
  BY <1>t DEF PutLocation, Idle
<1>2. locations' = locations /\ dropped' = dropped /\ crowded \subseteq crowded'
  BY DEF PutLocation
<1>3. \A l : Live(l)' = Live(l) /\ Used(l)' = Used(l)
  BY <1>2 DEF Live, Used
<1>4. \A l : Saving(l)' = IF l = k THEN Saving(l) \union {w} ELSE Saving(l)
  BY <1>1 DEF Saving
<1>5. \A l : w \notin Saving(l)
  BY <1>1 DEF Saving
<1>6. SavedAlone'
  <2> SUFFICES ASSUME NEW l \in UniqueLabels \ crowded'
               PROVE  /\ \A u, v \in Saving(l)' : u = v
                      /\ \A v \in Saving(l)' : req'[v].at = "insert" => Live(l)' = {}
                      /\ \A i, j \in Live(l)' : i = j
    BY DEF SavedAlone
  <2>1. l \in UniqueLabels \ crowded
    BY <1>2
  <2>2. CASE l = k
    <3>1. Saving(l) = {}
      BY <2>2 DEF PutLocation
    <3> QED BY <3>1, <2>1, <2>2, <1>1, <1>3, <1>4 DEF Labelled, SavedAlone
  <2>3. CASE l # k
    <3>1. Saving(l)' = Saving(l) /\ \A v \in Saving(l) : req'[v] = req[v]
      BY <2>3, <1>1, <1>4, <1>5 DEF Saving
    <3> QED BY <3>1, <2>1, <1>3 DEF Labelled, SavedAlone
  <2> QED BY <2>2, <2>3
<1>7. Kept'
  <2> SUFFICES ASSUME NEW l \in UniqueLabels \ dropped, Used(l), Live(l) = {}
               PROVE  \E v \in Saving(l)' : req'[v].at = "insert"
    BY <1>2, <1>3 DEF Kept
  <2>1. PICK v \in Saving(l) : req[v].at = "insert"
    BY DEF Labelled, Kept
  <2>2. v \in Handlers /\ v # w
    BY <2>1, <1>5 DEF Saving
  <2> QED BY <2>1, <2>2, <1>1, <1>4
<1> QED BY <1>6, <1>7 DEF Labelled

LEMMA DeleteLabelledKeeps ==
    ASSUME Typed, Labelled, NEW w \in Handlers, DeleteLabelled(w)
    PROVE  Labelled'
<1>k. PICK k : k = req[w].label
  OBVIOUS
<1>t. req \in [Handlers -> [at : Stages, place : {0} \union Places, label : Labels]]
  BY DEF Typed, TypeOK
<1>1. /\ req[w].at = "unlabel" /\ req'[w].at = "insert" /\ req'[w].label = k
      /\ \A v \in Handlers \ {w} : req'[v] = req[v]
      /\ k \in UniqueLabels
  BY <1>t, <1>k DEF DeleteLabelled, Typed, InHand
<1>2. /\ DOMAIN locations' = DOMAIN locations
      /\ \A i \in DOMAIN locations :
            /\ locations'[i].label = locations[i].label
            /\ locations'[i].live = (locations[i].live /\ i \notin Live(k))
  <2>1. \A i \in DOMAIN locations : locations[i] \in [label : Labels, live : BOOLEAN]
    BY LocationTypes
  <2>2. locations' = [i \in DOMAIN locations |->
                        [locations[i] EXCEPT !.live = @ /\ i \notin Live(k)]]
    BY <1>k DEF DeleteLabelled, Replaced
  <2> QED BY <2>1, <2>2
<1>3. \A l : /\ Live(l)' = IF l = k THEN {} ELSE Live(l)
             /\ Used(l)' = Used(l)
  <2>1. \A l : Live(l)' = IF l = k THEN {} ELSE Live(l)
    BY <1>2 DEF Live
  <2>2. \A l : Used(l)' = Used(l)
    BY <1>2 DEF Used
  <2> QED BY <2>1, <2>2
<1>4. \A l : Saving(l)' = Saving(l)
  <2> SUFFICES ASSUME NEW l, NEW v \in Handlers
               PROVE  (req'[v].at \in {"unlabel", "insert"} /\ req'[v].label = l)
                        <=> (req[v].at \in {"unlabel", "insert"} /\ req[v].label = l)
    BY DEF Saving
  <2>1. CASE v = w
    BY <2>1, <1>1, <1>k
  <2>2. CASE v # w
    BY <2>2, <1>1
  <2> QED BY <2>1, <2>2
<1>5. dropped' = dropped /\ crowded' = IF Saving(k) = {w} THEN crowded \ {k} ELSE crowded
  BY <1>k DEF DeleteLabelled
<1>6. w \in Saving(k)
  BY <1>1, <1>k DEF Saving
<1>7. SavedAlone'
  <2> SUFFICES ASSUME NEW l \in UniqueLabels \ crowded'
               PROVE  /\ \A u, v \in Saving(l)' : u = v
                      /\ \A v \in Saving(l)' : req'[v].at = "insert" => Live(l)' = {}
                      /\ \A i, j \in Live(l)' : i = j
    BY DEF SavedAlone
  <2>1. CASE l = k
    <3>1. \A u, v \in Saving(l) : u = v
      BY <2>1, <1>5 DEF Labelled, SavedAlone
    <3> QED BY <3>1, <2>1, <1>3, <1>4
  <2>2. CASE l # k
    <3>1. l \in UniqueLabels \ crowded
      BY <2>2, <1>5
    <3>2. \A v \in Saving(l) : req'[v] = req[v]
      BY <2>2, <1>1, <1>k DEF Saving
    <3> QED BY <3>1, <3>2, <2>2, <1>3, <1>4 DEF Labelled, SavedAlone
  <2> QED BY <2>1, <2>2
<1>8. Kept'
  <2> SUFFICES ASSUME NEW l \in UniqueLabels \ dropped, Used(l), l = k \/ Live(l) = {}
               PROVE  \E v \in Saving(l) : req'[v].at = "insert"
    BY <1>3, <1>4, <1>5 DEF Kept
  <2>1. CASE l = k
    BY <2>1, <1>1, <1>6
  <2>2. CASE l # k
    <3>1. PICK v \in Saving(l) : req[v].at = "insert"
      BY <2>2 DEF Labelled, Kept
    <3>2. v \in Handlers /\ v # w
      BY <3>1, <1>1 DEF Saving
    <3> QED BY <3>1, <3>2, <1>1
  <2> QED BY <2>1, <2>2
<1> QED BY <1>7, <1>8 DEF Labelled

LEMMA InsertKeeps ==
    ASSUME Typed, Labelled, NEW w \in Handlers, InsertLocation(w)
    PROVE  Labelled'
<1>k. PICK k, new : k = req[w].label /\ new = Len(locations) + 1
  OBVIOUS
<1>t. req \in [Handlers -> [at : Stages, place : {0} \union Places, label : Labels]]
  BY DEF Typed, TypeOK
<1>1. /\ req[w].at = "insert" /\ req'[w].at = "idle"
      /\ \A v \in Handlers \ {w} : req'[v] = req[v]
      /\ k \in Labels
  BY <1>t, <1>k DEF InsertLocation, Idle
<1>2. /\ DOMAIN locations' = DOMAIN locations \union {new} /\ new \notin DOMAIN locations
      /\ \A i \in DOMAIN locations : locations'[i] = locations[i]
      /\ locations'[new] = [label |-> k, live |-> TRUE]
  <2>1. locations \in Seq([label : Labels, live : BOOLEAN])
    BY DEF Typed, TypeOK
  <2>2. locations' = Append(locations, [label |-> k, live |-> TRUE])
    BY <1>k DEF InsertLocation
  <2>3. [label |-> k, live |-> TRUE] \in [label : Labels, live : BOOLEAN]
    BY <1>1
  <2> QED BY <2>1, <2>2, <2>3, <1>k
<1>3. crowded' = crowded /\ dropped' = dropped \ {k}
  BY <1>k DEF InsertLocation
<1>4. w \in Saving(k)
  BY <1>1, <1>k DEF Saving
<1>5. \A l : Saving(l)' = Saving(l) \ {w}
  BY <1>1 DEF Saving
<1>6. \A l : l # k => w \notin Saving(l)
  BY <1>k DEF Saving
<1>7. /\ Live(k)' = Live(k) \union {new}
      /\ \A l : l # k => Live(l)' = Live(l)
      /\ \A l : l # k => Used(l)' = Used(l)
  BY <1>2 DEF Live, Used
<1>8. SavedAlone'
  <2> SUFFICES ASSUME NEW l \in UniqueLabels \ crowded
               PROVE  /\ \A u, v \in Saving(l)' : u = v
                      /\ \A v \in Saving(l)' : req'[v].at = "insert" => Live(l)' = {}
                      /\ \A i, j \in Live(l)' : i = j
    BY <1>3 DEF SavedAlone
  <2>1. CASE l = k
    <3>1. Live(l) = {} /\ Saving(l) = {w}
      BY <2>1, <1>1, <1>4 DEF Labelled, SavedAlone
    <3>2. Saving(l)' = {}
      BY <3>1, <1>5
    <3>3. Live(l)' = {new}
      BY <3>1, <2>1, <1>7
    <3> QED BY <3>2, <3>3
  <2>2. CASE l # k
    <3>1. \A v \in Saving(l) : req'[v] = req[v]
      BY <2>2, <1>1, <1>6 DEF Saving
    <3>2. Saving(l)' = Saving(l)
      BY <2>2, <1>5, <1>6
    <3>3. Live(l)' = Live(l)
      BY <2>2, <1>7
    <3> QED BY <3>1, <3>2, <3>3 DEF Labelled, SavedAlone
  <2> QED BY <2>1, <2>2
<1>9. Kept'
  <2> SUFFICES ASSUME NEW l \in UniqueLabels \ dropped', Used(l)', Live(l)' = {}
               PROVE  \E v \in Saving(l)' : req'[v].at = "insert"
    BY DEF Kept
  <2>0. l # k /\ Used(l) /\ Live(l) = {} /\ l \notin dropped
    BY <1>3, <1>7
  <2>1. PICK v \in Saving(l) : req[v].at = "insert"
    BY <2>0 DEF Labelled, Kept
  <2>2. v \in Handlers /\ v # w
    BY <2>0, <2>1, <1>6 DEF Saving
  <2> QED BY <2>1, <2>2, <1>1, <1>5
<1> QED BY <1>8, <1>9 DEF Labelled

LEMMA FailKeeps ==
    ASSUME Typed, Labelled, NEW w \in Handlers, RequestFails(w)
    PROVE  Labelled'
<1>t. req \in [Handlers -> [at : Stages, place : {0} \union Places, label : Labels]]
  BY DEF Typed, TypeOK
<1>1. /\ req'[w].at = "idle"
      /\ \A v \in Handlers \ {w} : req'[v] = req[v]
  BY <1>t DEF RequestFails, Idle
<1>2. crowded' = crowded /\ dropped \subseteq dropped' /\ locations' = locations
  BY DEF RequestFails
<1>3. \A l : Live(l)' = Live(l) /\ Used(l)' = Used(l) /\ Saving(l)' = Saving(l) \ {w}
  BY <1>1, <1>2 DEF Live, Used, Saving
<1>4. SavedAlone'
  <2>1. \A l : \A v \in Saving(l)' : v \in Saving(l) /\ req'[v] = req[v]
    BY <1>1, <1>3 DEF Saving
  <2> QED BY <2>1, <1>2, <1>3 DEF Labelled, SavedAlone
<1>5. Kept'
  <2> SUFFICES ASSUME NEW l \in UniqueLabels \ dropped', Used(l), Live(l) = {}
               PROVE  \E v \in Saving(l)' : req'[v].at = "insert"
    BY <1>3 DEF Kept
  <2>1. PICK v \in Saving(l) : req[v].at = "insert"
    BY <1>2 DEF Labelled, Kept
  <2>2. v # w
    BY <2>1 DEF RequestFails, Saving
  <2> QED BY <2>1, <2>2, <1>1, <1>3 DEF Saving
<1> QED BY <1>4, <1>5 DEF Labelled

LEMMA DeleteKeeps ==
    ASSUME Typed, Labelled, NEW i \in DOMAIN locations, DeleteLocation(i)
    PROVE  Labelled'
<1>k. PICK k : k = locations[i].label
  OBVIOUS
<1>1. /\ DOMAIN locations' = DOMAIN locations
      /\ \A j \in DOMAIN locations : /\ locations'[j].label = locations[j].label
                                     /\ locations'[j].live = (j # i /\ locations[j].live)
  <2>1. \A j \in DOMAIN locations : locations[j] \in [label : Labels, live : BOOLEAN]
    BY LocationTypes
  <2>2. locations' = [locations EXCEPT ![i] = [locations[i] EXCEPT !.live = FALSE]]
    BY DEF DeleteLocation
  <2> QED BY <2>1, <2>2
<1>2. req' = req /\ crowded' = crowded
      /\ dropped' = IF Live(k) = {i} THEN dropped \union {k} ELSE dropped
  BY <1>k DEF DeleteLocation
<1>3. \A l : Live(l)' = Live(l) \ {i} /\ Used(l)' = Used(l) /\ Saving(l)' = Saving(l)
  BY <1>1, <1>2 DEF Live, Used, Saving
<1>4. i \in Live(k)
  BY <1>k DEF DeleteLocation, Live
<1>5. \A l : l # k => Live(l)' = Live(l)
  BY <1>3, <1>k DEF Live
<1>6. SavedAlone'
  BY <1>2, <1>3 DEF Labelled, SavedAlone
<1>7. Kept'
  <2> SUFFICES ASSUME NEW l \in UniqueLabels \ dropped', Used(l)
               PROVE  Live(l)' # {} \/ \E v \in Saving(l) : req[v].at = "insert"
    BY <1>2, <1>3 DEF Kept
  <2>1. CASE l = k
    BY <2>1, <1>2, <1>3, <1>4
  <2>2. CASE l # k
    BY <2>2, <1>2, <1>5 DEF Labelled, Kept
  <2> QED BY <2>1, <2>2
<1> QED BY <1>6, <1>7 DEF Labelled

LEMMA LabelledStep == Typed /\ Labelled /\ [Next]_vars => Labelled'
<1> SUFFICES ASSUME Typed, Labelled, [Next]_vars PROVE Labelled'
  OBVIOUS
<1>t. req \in [Handlers -> [at : Stages, place : {0} \union Places, label : Labels]]
  BY DEF Typed, TypeOK
<1>1. CASE UNCHANGED vars
  BY <1>1, SavingUnchanged DEF vars
<1>2. ASSUME NEW w \in Handlers, DestinationStep(w) PROVE Labelled'
  <2>1. CASE AskDestination(w)
    BY <2>1, <1>t, SavingUnchanged DEF AskDestination, Idle
  <2>2. CASE CallSucceeds(w) \/ CallRefused(w)
    BY <2>2, <1>t, SavingUnchanged DEF CallSucceeds, CallRefused
  <2>3. CASE Clear(w) \/ Save(w) \/ TakeNext(w)
    BY <2>3, <1>t, SavingUnchanged DEF Clear, Save, TakeNext, Idle
  <2>4. CASE ReadNext(w)
    BY <2>4, <1>t, SavingUnchanged DEF ReadNext, Idle
  <2>5. CASE DropNext(w)
    BY <2>5, SavingUnchanged DEF DropNext
  <2> QED BY <1>2, <2>1, <2>2, <2>3, <2>4, <2>5 DEF DestinationStep
<1>3. ASSUME NEW w \in Handlers, LocationStep(w) PROVE Labelled'
  BY <1>3, PutKeeps, DeleteLabelledKeeps, InsertKeeps DEF LocationStep
<1> QED BY <1>1, <1>2, <1>3, FailKeeps, DeleteKeeps DEF Next

LEMMA LabelledAlways == Spec => []Labelled
BY TypedInit, TypedStep, LabelledInit, LabelledStep, PTL DEF Spec

(* PUTNavigationLocations leaves one home and one work, however many       *)
(* requests, unless such requests overlapped.                              *)
THEOREM OneOfEachLabel == Spec => []LabelsUnique
<1>1. Labelled => LabelsUnique
  BY DEF Labelled, SavedAlone, LabelsUnique
<1> QED BY <1>1, LabelledAlways, PTL

(* Saving home again never loses it, unless the insert or the statement    *)
(* before it failed.                                                       *)
THEOREM LabelsKept == Spec => []LabelKept
<1>1. Labelled => LabelKept
  BY DEF Labelled, Kept, Used, LabelKept
<1> QED BY <1>1, LabelledAlways, PTL

=============================================================================
