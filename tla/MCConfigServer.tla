--------------------------- MODULE MCConfigServer ---------------------------
(* ConfigServer with few documents and one or two requests at a time.        *)
EXTENDS ConfigServer

CONSTANTS w1, w2, i1, i2, v1, v2, u1, u2

MCSymmetry == Permutations(Worker) \cup Permutations(Vals)

(* Every request received has been answered and no more will come.           *)
AllAnswered == requests = MaxRequests /\ AllIdle /\ UNCHANGED vars

(* The database holds the same documents of every kind when the server       *)
(* starts.                                                                   *)
MCInit == Init /\ \A k, l \in Kinds : db[k] = db[l]

MCSpec == MCInit /\ [][Next \/ AllAnswered]_vars
=============================================================================
