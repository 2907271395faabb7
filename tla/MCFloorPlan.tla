----------------------------- MODULE MCFloorPlan -----------------------------
(* Symmetric instances of FloorPlan for TLC: every action treats printers,   *)
(* floors, places and requests alike, and the properties are invariants.     *)
EXTENDS FloorPlan, TLC

Symmetry == Permutations(Printer) \cup Permutations(Floor)
                \cup Permutations(Place) \cup Permutations(Request)

\* One floor is changed, and the other one stays empty.
OneFloorUsed == \E f \in Floor : db[f] \in {None, <<>>} /\ \A r \in Request : req[r].fs # {f}

PlacedAt(s, x) == s \in Seq([printer : Printer, place : {x}]) \cup {None}
OnePlaceUsed ==
    \E x \in Place : \A f \in Floor :
        PlacedAt(db[f], x) /\ \A r \in Request : PlacedAt(req[r].docs[f], x)

\* A floor stays in a history, and the properties say nothing of the floors there:
\* beyond states in which all are, there is little left to check.
NoneExcepted == clashing \cup orphaned \cup shifted = {}
SomeClear == suspect # Floor /\ clashing \cup orphaned # Floor

\* States that are followed: with a printer left, with up to two positions on a
\* floor, and either both places of one floor, or one place on both floors.
Followed ==
    /\ known # {}
    /\ \A f \in Floor : db[f] = None \/ Len(db[f]) <= 2
    /\ \/ OneFloorUsed /\ NoneExcepted
       \/ OnePlaceUsed /\ SomeClear
=============================================================================
