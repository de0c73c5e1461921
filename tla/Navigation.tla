----------------------------- MODULE Navigation -----------------------------
(***************************************************************************)
(* A device's next destination and its saved locations                     *)
(* (controllers/v1/navigation.go).  A destination goes to the device in a  *)
(* call, or waits in the device's row until GET next takes it or DELETE    *)
(* next drops it.  Nothing is in a transaction: each handler is a sequence *)
(* of statements on the row of one device.                                 *)
(*                                                                         *)
(* Destinations are numbered in the order they are asked for; their texts  *)
(* and coordinates are left out.                                           *)
(***************************************************************************)
EXTENDS Naturals, Sequences

CONSTANTS
    Handlers,       \* requests the server works on at a time
    UniqueLabels,   \* "home" and "work"
    NoLabel,        \* a location without label
    MaxSaves        \* bound on destinations asked for and locations together

ASSUME LabelAssumption == NoLabel \notin UniqueLabels

VARIABLES
    before,     \* history: for each destination asked for, those answered by then
    confirmed,  \* history: answered with success
    settled,    \* history: returned, dropped or superseded
    raced,      \* history: saved while a GET next was between read and update
    row,        \* the destination columns of the device's row
    req,        \* what each handler is about to do
    locations,  \* label of each location row, and whether it is not deleted
    dropped,    \* history: labels whose last location was deleted or not saved
    crowded     \* history: labels saved by requests that overlapped

destinationVars == <<before, confirmed, settled, raced, row>>
locationVars    == <<locations, dropped, crowded>>
vars == <<destinationVars, req, locationVars>>

Idle == [at |-> "idle", place |-> 0, label |-> NoLabel]
Labels == UniqueLabels \union {NoLabel}
Places == DOMAIN before

(* The requests in progress that set a destination.                        *)
Open == {req[w].place : w \in {v \in Handlers : req[v].at \in {"call", "save", "clear"}}}

Init ==
    /\ before = <<>>
    /\ confirmed = {} /\ settled = {} /\ raced = {}
    /\ row = [set |-> FALSE, place |-> 0]
    /\ req = [w \in Handlers |-> Idle]
    /\ locations = <<>> /\ dropped = {} /\ crowded = {}

(* The destination waiting in the row, if any.                             *)
Waiting == IF row.set THEN {row.place} ELSE {}

-----------------------------------------------------------------------------
(* POSTSetDestination: whether the device is online is told by its last    *)
(* ping, so online or not is any of the two.                               *)
AskDestination(w) ==
    /\ req[w] = Idle
    /\ Len(before) + Len(locations) < MaxSaves
    /\ before' = Append(before, Places \ Open)
    /\ \E stage \in {"call", "save"} :
         req' = [req EXCEPT ![w] = [Idle EXCEPT !.at = stage, !.place = Len(before) + 1]]
    /\ UNCHANGED <<confirmed, settled, raced, row, locationVars>>

(* The device's answer.  A call that failed may yet have reached it.       *)
CallSucceeds(w) ==
    /\ req[w].at = "call"
    /\ req' = [req EXCEPT ![w].at = "clear"]
    /\ UNCHANGED <<destinationVars, locationVars>>

(* Mutant of CallRefused: what waits is cleared before the fallback.       *)
CallRefusedClears(w) ==
    /\ req[w].at = "call"
    /\ req' = [req EXCEPT ![w].at = "save"]
    /\ row' = [row EXCEPT !.set = FALSE]
    /\ UNCHANGED <<before, confirmed, settled, raced, locationVars>>

CallRefused(w) ==
    /\ req[w].at = "call"
    /\ req' = [req EXCEPT ![w].at = "save"]
    /\ UNCHANGED <<destinationVars, locationVars>>

(* Mutant of Clear: a destination that waits is not cleared.               *)
ClearForgotten(w) ==
    /\ req[w].at = "clear"
    /\ confirmed' = confirmed \union {req[w].place}
    /\ req' = [req EXCEPT ![w] = Idle]
    /\ UNCHANGED <<before, settled, raced, row, locationVars>>

Clear(w) ==
    /\ req[w].at = "clear"
    /\ settled' = settled \union Waiting
    /\ row' = [row EXCEPT !.set = FALSE]
    /\ confirmed' = confirmed \union {req[w].place}
    /\ req' = [req EXCEPT ![w] = Idle]
    /\ UNCHANGED <<before, raced, locationVars>>

(* Updates with a struct leaves the columns alone that would be zero.      *)
Save(w) ==
    /\ req[w].at = "save"
    /\ settled' = settled \union Waiting
    /\ row' = [set |-> TRUE, place |-> req[w].place]
    /\ confirmed' = confirmed \union {req[w].place}
    /\ raced' = raced \union IF \E v \in Handlers : req[v].at = "take"
                             THEN {req[w].place} ELSE {}
    /\ req' = [req EXCEPT ![w] = Idle]
    /\ UNCHANGED <<before, locationVars>>

-----------------------------------------------------------------------------
(* GETNavigationNext: read the row, clear it, answer with what was read.   *)

ReadNext(w) ==
    /\ req[w] = Idle
    /\ row.set
    /\ req' = [req EXCEPT ![w] = [Idle EXCEPT !.at = "take", !.place = row.place]]
    /\ UNCHANGED <<destinationVars, locationVars>>

TakeNext(w) ==
    /\ req[w].at = "take"
    /\ row' = [row EXCEPT !.set = FALSE]
    /\ settled' = settled \union {req[w].place}
    /\ req' = [req EXCEPT ![w] = Idle]
    /\ UNCHANGED <<before, confirmed, raced, locationVars>>

(* DELETENavigationNext: what it reads of the row plays no part.           *)
DropNext(w) ==
    /\ req[w] = Idle
    /\ row' = [row EXCEPT !.set = FALSE]
    /\ settled' = settled \union Waiting
    /\ UNCHANGED <<before, confirmed, raced, req, locationVars>>

-----------------------------------------------------------------------------
(* PUTNavigationLocations: a unique label is taken from its location, then *)
(* the new one is inserted.                                                *)
Saving(l) == {w \in Handlers : req[w].at \in {"unlabel", "insert"} /\ req[w].label = l}

Live(l) == {i \in DOMAIN locations : locations[i].live /\ locations[i].label = l}

PutLocation(w, l) ==
    /\ req[w] = Idle
    /\ Len(before) + Len(locations) < MaxSaves
    /\ req' = [req EXCEPT ![w] =
                 [Idle EXCEPT !.at = IF l \in UniqueLabels THEN "unlabel" ELSE "insert",
                              !.label = l]]
    /\ crowded' = crowded \union IF l \in UniqueLabels /\ Saving(l) # {} THEN {l} ELSE {}
    /\ UNCHANGED <<destinationVars, locations, dropped>>

(* Mutants of Replaced: none is; those of the other label are.             *)
ReplacedNone(l)  == {}
ReplacedOther(l) == UNION {Live(k) : k \in UniqueLabels \ {l}}

Replaced(l) == Live(l)

(* Afterwards the label is unique again if no other request is saving it.  *)
DeleteLabelled(w) ==
    /\ req[w].at = "unlabel"
    /\ LET l == req[w].label IN
         /\ locations' = [i \in DOMAIN locations |->
                            [locations[i] EXCEPT !.live = @ /\ i \notin Replaced(l)]]
         /\ crowded' = IF Saving(l) = {w} THEN crowded \ {l} ELSE crowded
    /\ req' = [req EXCEPT ![w].at = "insert"]
    /\ UNCHANGED <<destinationVars, dropped>>

InsertLocation(w) ==
    /\ req[w].at = "insert"
    /\ Len(before) + Len(locations) < MaxSaves
    /\ locations' = Append(locations, [label |-> req[w].label, live |-> TRUE])
    /\ dropped' = dropped \ {req[w].label}
    /\ req' = [req EXCEPT ![w] = Idle]
    /\ UNCHANGED <<destinationVars, crowded>>

(* DELETENavigationLocation: one statement, by id.                         *)
DeleteLocation(i) ==
    /\ locations[i].live
    /\ locations' = [locations EXCEPT ![i].live = FALSE]
    /\ dropped' = IF Live(locations[i].label) = {i}
                  THEN dropped \union {locations[i].label} ELSE dropped
    /\ UNCHANGED <<destinationVars, req, crowded>>

-----------------------------------------------------------------------------
(* A call or a statement fails: the request is answered with an error, and *)
(* what it has done stays.                                                 *)
RequestFails(w) ==
    /\ req[w] # Idle
    /\ dropped' = IF req[w].at = "insert" /\ Live(req[w].label) = {}
                  THEN dropped \union {req[w].label} ELSE dropped
    /\ req' = [req EXCEPT ![w] = Idle]
    /\ UNCHANGED <<destinationVars, locations, crowded>>

DestinationStep(w) ==
    \/ AskDestination(w) \/ CallSucceeds(w) \/ CallRefused(w) \/ Clear(w) \/ Save(w)
    \/ ReadNext(w) \/ TakeNext(w) \/ DropNext(w)

LocationStep(w) ==
    \/ \E l \in Labels : PutLocation(w, l)
    \/ DeleteLabelled(w) \/ InsertLocation(w)

Next ==
    \/ \E w \in Handlers : DestinationStep(w) \/ LocationStep(w) \/ RequestFails(w)
    \/ \E i \in DOMAIN locations : DeleteLocation(i)

Spec == Init /\ [][Next]_vars

-----------------------------------------------------------------------------
Stages == {"idle", "call", "clear", "save", "take", "unlabel", "insert"}

TypeOK ==
    /\ before \in Seq(SUBSET Places)
    /\ confirmed \subseteq Places /\ settled \subseteq Places /\ raced \subseteq Places
    /\ row \in [set : BOOLEAN, place : {0} \union Places]
    /\ req \in [Handlers -> [at : Stages, place : {0} \union Places, label : Labels]]
    /\ locations \in Seq([label : Labels, live : BOOLEAN])
    /\ dropped \subseteq Labels /\ crowded \subseteq UniqueLabels

(* A waiting destination goes on waiting until it is handed out, dropped   *)
(* or superseded, whatever fails and however requests overlap - except one *)
(* saved while a GET next was between its read and its update.             *)
NothingLost == [][\A n \in Waiting \ raced : n \in Waiting' \union settled']_vars

(* What waits is never older than a destination confirmed since: a device  *)
(* that asks for its next one does not go back.  Older is what had been    *)
(* answered before the other was asked for.                                *)
NothingStale == row.set => \A n \in confirmed : row.place \notin before[n]

(* A device has one home and one work, unless requests that saved the      *)
(* label overlapped and none has saved it alone since.                     *)
LabelsUnique ==
    \A l \in UniqueLabels \ crowded : \A i, j \in Live(l) : i = j

(* A label that was saved has a location, however requests overlap, but    *)
(* while a request replaces it, and after one failed to or the last one    *)
(* was deleted.                                                            *)
LabelKept ==
    \A i \in DOMAIN locations : LET l == locations[i].label IN
        l \in UniqueLabels \ dropped => Live(l) # {} \/ \E w \in Saving(l) : req[w].at = "insert"
=============================================================================
