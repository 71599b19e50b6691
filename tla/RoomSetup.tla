------------------------------ MODULE RoomSetup ------------------------------
(* What the walkthrough promises its user, without calls, answers or steps:  *)
(* a submission writes what the page describes and nothing else, it touches  *)
(* no room but a new one or one this page has created, and it ends by        *)
(* telling how it went; when it tells that all succeeded, all of it is       *)
(* there.  Others add rooms meanwhile, and writing may fail anywhere, so     *)
(* that what is there may be less than what was described, and more than     *)
(* what is told.                                                             *)
CONSTANTS Rooms, Buildings, Undefined, Submissions

VARIABLES
  rooms, buildings, devices, configs,        \* the database
  locBuilding, locRoom, fullRoomDeviceList,  \* what the page describes
  made, overwrote,                           \* rooms created and updated here
  stage,    \* stage[s]: "idle", "running", "told" or "over"
  said      \* said[s]: what the user is told of submission s, or "nothing"

docs      == <<rooms, buildings, devices, configs>>
described == <<locBuilding, locRoom, fullRoomDeviceList>>
history   == <<made, overwrote>>
setupVars == <<docs, described, history, stage, said>>

SetupInit ==
  /\ rooms \subseteq Rooms /\ buildings \subseteq Buildings
  /\ devices = {} /\ configs \subseteq Rooms
  /\ locBuilding = Undefined /\ locRoom = Undefined /\ fullRoomDeviceList = {}
  /\ made = {} /\ overwrote = {}
  /\ stage = [s \in Submissions |-> "idle"]
  /\ said = [s \in Submissions |-> "nothing"]

Quiet == \A s \in Submissions : stage[s] \notin {"running", "told"}

Describe ==
  /\ Quiet
  /\ locBuilding' \in Buildings \cup {Undefined}
  /\ locRoom' \in Rooms \cup {Undefined}
  /\ fullRoomDeviceList' \subseteq Rooms \cup {Undefined}
  /\ UNCHANGED <<docs, history, stage, said>>

OthersAdd(r) ==
  /\ rooms' = rooms \cup {r}
  /\ UNCHANGED <<buildings, devices, configs, described, history, stage, said>>

Begin(s) ==
  /\ stage[s] = "idle" /\ \A t \in Submissions : stage[t] # "told"
  /\ stage' = [stage EXCEPT ![s] = "running"]
  /\ UNCHANGED <<docs, described, history, said>>

(* Building, room, devices and configuration, each in a step of its own;     *)
(* only a configuration is taken without an ID.                              *)
WriteBuilding ==
  /\ locBuilding # Undefined
  /\ buildings' = buildings \cup {locBuilding}
  /\ UNCHANGED <<rooms, devices, configs, history>>

CreateRoom ==
  /\ locRoom \notin rooms \cup {Undefined}
  /\ rooms' = rooms \cup {locRoom} /\ made' = made \cup {locRoom}
  /\ UNCHANGED <<buildings, devices, configs, overwrote>>

UpdateRoom ==
  /\ locRoom \in rooms \cap made
  /\ overwrote' = overwrote \cup {locRoom}
  /\ UNCHANGED <<docs, made>>

WriteDevices ==
  /\ \E new \in SUBSET (fullRoomDeviceList \ {Undefined}) : devices' = devices \cup new
  /\ UNCHANGED <<rooms, buildings, configs, history>>

WriteConfig ==
  /\ configs' = configs \cup {locRoom}
  /\ UNCHANGED <<rooms, buildings, devices, history>>

Write(s) ==
  /\ stage[s] = "running"
  /\ WriteBuilding \/ CreateRoom \/ UpdateRoom \/ WriteDevices \/ WriteConfig
  /\ UNCHANGED <<described, stage, said>>

AllThere ==
  /\ locBuilding \in buildings /\ locRoom \in rooms \cap configs
  /\ fullRoomDeviceList \subseteq devices

Tell(s, how) ==
  /\ stage[s] = "running"
  /\ how = "All Information Succeeded" => AllThere
  /\ stage' = [stage EXCEPT ![s] = "told"]
  /\ said' = [said EXCEPT ![s] = how]
  /\ UNCHANGED <<docs, described, history>>

Dismiss(s) ==
  /\ stage[s] = "told"
  /\ stage' = [stage EXCEPT ![s] = "over"]
  /\ said' = [said EXCEPT ![s] = "nothing"]
  /\ UNCHANGED <<docs, described, history>>

Verdicts == {"All Information Succeeded", "All Information Failed", "Some Information Failed"}

SetupNext ==
  \/ Describe
  \/ \E r \in Rooms : OthersAdd(r)
  \/ \E s \in Submissions :
       Begin(s) \/ Write(s) \/ Dismiss(s) \/ \E how \in Verdicts : Tell(s, how)

SetupSpec == SetupInit /\ [][SetupNext]_setupVars
=============================================================================
