---------------------------- MODULE MCNavigation ----------------------------
(* Two requests at a time, four destinations and locations; requests and   *)
(* the unique labels are alike.                                            *)
EXTENDS Navigation, TLC

Alike == Permutations(Handlers) \union Permutations(UniqueLabels)
=============================================================================
