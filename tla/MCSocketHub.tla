---------------------------- MODULE MCSocketHub ----------------------------
(* SocketHub with small channels and a few connections.                      *)
EXTENDS SocketHub

CONSTANTS c1, c2, c3

(* All work done: every event published and fanned out, every connection     *)
(* over.  Only here may the system stop; TLC reports a deadlock if it stops  *)
(* anywhere else, with some goroutine blocked on a channel for ever.         *)
Finished ==
  /\ published = MaxEvents
  /\ broadcast = <<>> /\ register = <<>> /\ unregister = <<>>
  /\ todo = {}
  /\ \A c \in Client : reader[c] = "done" /\ writer[c] = "done"
  /\ UNCHANGED vars

MCSpec == Init /\ [][Next \/ Finished]_vars
=============================================================================
