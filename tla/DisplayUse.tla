----------------------------- MODULE DisplayUse -----------------------------
(* What the boxes of the panel page promise its user: in each preset every   *)
(* display is off, controlled, or may be shared to, one of the three; it is  *)
(* heard from the moment it is controlled, and no longer when it is not.     *)
(* Whether it is heard may be changed apart.  Presets are added, never taken *)
(* away.                                                                     *)
CONSTANTS Names, Displays

VARIABLES use,    \* use[n][d], for the presets n there are
          heard   \* the pairs <<n, d>> that are heard

useVars == <<use, heard>>

Uses == {"off", "controlled", "shared"}

UseInit ==
  /\ \E listed \in SUBSET Names : use \in [listed -> [Displays -> Uses]]
  /\ heard \subseteq (DOMAIN use) \X Displays

AddName(n) ==
  /\ n \notin DOMAIN use
  /\ use' = [m \in (DOMAIN use) \cup {n} |->
               IF m = n THEN [d \in Displays |-> "off"] ELSE use[m]]
  /\ UNCHANGED heard

Put(n, d, u) == use' = [use EXCEPT ![n][d] = u]

Control(n, d) ==
  /\ use[n][d] # "controlled"
  /\ Put(n, d, "controlled") /\ heard' = heard \cup {<<n, d>>}

(* A display that was not controlled stays as audible as it was.             *)
Leave(n, d, u) ==
  /\ u # "controlled" /\ use[n][d] # u
  /\ Put(n, d, u)
  /\ heard' = IF use[n][d] = "controlled" THEN heard \ {<<n, d>>} ELSE heard

Hear(n, d) ==
  /\ heard' \in {heard \cup {<<n, d>>}, heard \ {<<n, d>>}}
  /\ UNCHANGED use

UseNext ==
  \/ \E n \in Names : AddName(n)
  \/ \E n \in DOMAIN use, d \in Displays :
       \/ Control(n, d) \/ Hear(n, d)
       \/ \E u \in Uses : Leave(n, d, u)

UseSpec == UseInit /\ [][UseNext]_useVars
=============================================================================
