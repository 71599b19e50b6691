--------------------------- MODULE MCWalkthrough ---------------------------
(* Walkthrough with rooms of one building, none of which exists when the     *)
(* page is opened; other users may add them at any time.                     *)
EXTENDS Walkthrough, TLC

CONSTANTS r1, r2, b1

MCBuildingOf == [r \in Rooms |-> b1]

MCSymmetry == Permutations(Rooms)

MCInit == Init /\ rooms = {} /\ configs = {}

MCSpec == MCInit /\ [][Next]_vars
=============================================================================
