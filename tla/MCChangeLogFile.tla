-------------------------- MODULE MCChangeLogFile --------------------------
(* Three calls of Write and two lines of the websocket code.                 *)
EXTENDS ChangeLogFile, TLC

CONSTANTS c1, c2, c3

MCSymmetry == Permutations(Call)

AllWritten == lines = MaxLines /\ (\A c \in Call : pc[c] = "done") /\ UNCHANGED vars

MCSpec == Init /\ [][Next \/ AllWritten]_vars
=============================================================================
