---------------------------- MODULE Walkthrough ----------------------------
(* The walkthrough page (walkthrough.component.ts and .html): five steps in  *)
(* a linear stepper in which one user describes a new room, then Finish,     *)
(* which submits the building, the room, its devices and its UI              *)
(* configuration one after the other, each from the callback of the call     *)
(* before it.                                                                *)
(*                                                                           *)
(* Steps are numbered from 0 as the stepper numbers them: location, building *)
(* and room, devices, UI configuration, submit.  Documents are reduced to    *)
(* their IDs, and the devices of a list to the rooms whose ID they carry.    *)
(* Finish stays enabled, so several submissions may be in progress: at[s] is *)
(* what submission s waits for.  The server is ConfigServer's: adding fails  *)
(* when the document exists, updating when the body's or the path's does     *)
(* not; any call may fail, and any answer may be lost on its way.            *)
EXTENDS Integers, FiniteSets

CONSTANTS Rooms, Buildings,  \* IDs that may be typed
          BuildingOf,        \* the part of a room ID before the dash
          Undefined,         \* the ID of new Room() and new Building()
          MaxFinish,         \* bound: how often Finish is pressed
          Untouched          \* what the user leaves alone while a submission
                             \* is in progress

Submissions == 1..MaxFinish

ASSUME WalkAssumption ==
  /\ Undefined \notin Rooms \cup Buildings
  /\ BuildingOf \in [Rooms -> Buildings]
  /\ MaxFinish \in Nat
  /\ Untouched \subseteq {"step", "location", "devices"}

VARIABLES
  rooms,       \* the database: the room documents, and
  buildings,   \* the buildings,
  devices,     \* the rooms whose devices have been created,
  configs,     \* the rooms that have a UI configuration
  buildingList, allRoomList,     \* as loaded when the page was opened
  step, reached,                 \* the stepper: selected and furthest step
  locBuilding, locRoom,          \* the IDs of the documents being described
  buildingExists, roomExists, configExists,
  BuildingIDToUpdate, RoomIDToUpdate,
  fullRoomDeviceList,            \* the rooms whose ID its devices carry
  at,          \* at[s]: the call submission s waits for
  call,        \* call[s]: that call, as it was sent
  answer,      \* answer[s]: what is on its way back, or Pending
  results,     \* results[s]: the outcomes pushed so far
  made,        \* history: the rooms this page has created
  overwrote    \* history: the rooms this page has updated

db    == <<rooms, buildings, devices, configs>>
lists == <<buildingList, allRoomList>>
place == <<step, reached>>
loc   == <<locBuilding, locRoom>>
flags == <<buildingExists, roomExists, configExists, BuildingIDToUpdate,
           RoomIDToUpdate>>
subs  == <<at, call, answer, results>>
hist  == <<made, overwrote>>
vars  == <<db, lists, place, loc, flags, fullRoomDeviceList, subs, hist>>

RoomIds == Rooms \cup {Undefined}
BldgIds == Buildings \cup {Undefined}
Calls   == {"building", "room", "devices", "config"}
Pending == [arrived |-> FALSE, ok |-> {}, failed |-> {}]
NoCall  == [op |-> "none"]

Init ==
  /\ rooms \in SUBSET Rooms /\ buildings \in SUBSET Buildings
  /\ devices = {} /\ configs \in SUBSET Rooms
  /\ buildingList = {} /\ allRoomList = {}
  /\ step = 0 /\ reached = 0
  /\ locBuilding = Undefined /\ locRoom = Undefined
  /\ buildingExists = FALSE /\ roomExists = FALSE /\ configExists = FALSE
  /\ BuildingIDToUpdate = Undefined /\ RoomIDToUpdate = Undefined
  /\ fullRoomDeviceList = {}
  /\ at = [s \in Submissions |-> "idle"]
  /\ call = [s \in Submissions |-> NoCall]
  /\ answer = [s \in Submissions |-> Pending]
  /\ results = [s \in Submissions |-> {}]
  /\ made = {} /\ overwrote = {}

-----------------------------------------------------------------------------
(* What happens around the user: the lists arrive, late or never, and other  *)
(* users add rooms.                                                          *)

LoadBuildings ==
  /\ buildingList = {}
  /\ buildingList' = buildings
  /\ UNCHANGED <<db, allRoomList, place, loc, flags, fullRoomDeviceList, subs, hist>>

LoadRooms ==
  /\ allRoomList = {}
  /\ allRoomList' = rooms
  /\ UNCHANGED <<db, buildingList, place, loc, flags, fullRoomDeviceList, subs, hist>>

OtherAddsRoom(r) ==
  /\ r \notin rooms
  /\ rooms' = rooms \cup {r}
  /\ UNCHANGED <<buildings, devices, configs, lists, place, loc, flags,
                 fullRoomDeviceList, subs, hist>>

-----------------------------------------------------------------------------
(* The user.  An open result dialog takes the page out of reach.             *)

InProgress(s) == at[s] \in Calls
DialogOpen    == \E s \in Submissions : at[s] = "shown"
CanUse(what)  ==
  ~DialogOpen /\ (what \in Untouched => \A s \in Submissions : ~InProgress(s))

(* The linear stepper goes to a step when every step before it is complete:  *)
(* the first one unless roomExists, the others once they have been visited.  *)
MayGo(i) == i \in 0..4 /\ (i = 0 \/ ~roomExists) /\ i <= reached + 1

MoveTo(i) ==
  /\ step' = i
  /\ reached' = IF i > reached THEN i ELSE reached

(* A Next or Back button, or a step's header.                                *)
GoTo(i) ==
  /\ CanUse("step") /\ MayGo(i) /\ i # step
  /\ MoveTo(i)
  /\ UNCHANGED <<db, lists, loc, flags, fullRoomDeviceList, subs, hist>>

(* Mutant of ValidateLocation: roomExists is not reset.                      *)
ValidateLocationKeepsRoom(r) ==
  LET b == BuildingOf[r] IN
  /\ CanUse("location") /\ step = 0
  /\ locBuilding' = b /\ locRoom' = r
  /\ buildingExists' = (b \in buildingList)
  /\ BuildingIDToUpdate' = IF b \in buildingList THEN b ELSE BuildingIDToUpdate
  /\ roomExists' = (roomExists \/ r \in allRoomList)
  /\ RoomIDToUpdate' = IF r \in allRoomList THEN r ELSE RoomIDToUpdate
  /\ IF (buildingExists' /\ roomExists') \/ ~MayGo(1)
       THEN UNCHANGED place
       ELSE MoveTo(1)
  /\ UNCHANGED <<db, lists, configExists, fullRoomDeviceList, subs, hist>>

(* ValidateLocation looks the typed room up in the lists and moves on unless *)
(* building and room both exist.  stepper.next() still sees the roomExists   *)
(* of the last change detection.                                             *)
ValidateLocation(r) ==
  LET b == BuildingOf[r] IN
  /\ CanUse("location") /\ step = 0
  /\ locBuilding' = b /\ locRoom' = r
  /\ buildingExists' = (b \in buildingList)
  /\ BuildingIDToUpdate' = IF b \in buildingList THEN b ELSE BuildingIDToUpdate
  /\ roomExists' = (r \in allRoomList)
  /\ RoomIDToUpdate' = IF r \in allRoomList THEN r ELSE RoomIDToUpdate
  /\ IF (buildingExists' /\ roomExists') \/ ~MayGo(1)
       THEN UNCHANGED place
       ELSE MoveTo(1)
  /\ UNCHANGED <<db, lists, configExists, fullRoomDeviceList, subs, hist>>

(* The forms of the second step edit the two documents, IDs included; the    *)
(* form of the room is closed when roomExists.                               *)
EditLocation ==
  /\ CanUse("location") /\ step = 1 /\ locRoom # Undefined
  /\ \/ locBuilding' \in Buildings /\ UNCHANGED locRoom
     \/ ~roomExists /\ locRoom' \in Rooms /\ UNCHANGED locBuilding
  /\ UNCHANGED <<db, lists, place, flags, fullRoomDeviceList, subs, hist>>

(* UpdateAccordion: choosing a template makes the list anew with IDs of the  *)
(* room; changing the number of devices keeps the devices there are and      *)
(* gives new ones IDs of the room.  A template may have no devices.          *)
UpdateAccordion ==
  /\ CanUse("devices") /\ step = 2
  /\ fullRoomDeviceList' \in
       {{}, {locRoom}, fullRoomDeviceList \cup {locRoom}}
  /\ UNCHANGED <<db, lists, place, loc, flags, subs, hist>>

-----------------------------------------------------------------------------
(* The submission.                                                           *)

Send(s, c, req) ==
  /\ at' = [at EXCEPT ![s] = c]
  /\ call' = [call EXCEPT ![s] = req]
  /\ answer' = [answer EXCEPT ![s] = Pending]

AddOrUpdate(exists, idToUpdate, id) ==
  IF exists THEN [op |-> "update", path |-> idToUpdate, body |-> id]
            ELSE [op |-> "add", path |-> id, body |-> id]

(* SubmitBuilding, with an empty list of results.                            *)
Finish(s) ==
  /\ ~DialogOpen /\ step = 4
  /\ at[s] = "idle" /\ \A t \in Submissions : t < s => at[t] # "idle"
  /\ Send(s, "building", AddOrUpdate(buildingExists, BuildingIDToUpdate, locBuilding))
  /\ UNCHANGED <<db, lists, place, loc, flags, fullRoomDeviceList, results, hist>>

Existing(s) == CASE at[s] = "building" -> buildings
                 [] at[s] = "room" -> rooms
                 [] at[s] = "config" -> configs

(* The server carries the call out.  A document with an undefined ID is not  *)
(* accepted, but the path of a UI configuration is not checked.              *)
Acceptable(s) ==
  LET c == call[s] IN
  IF c.op = "add"
    THEN /\ c.body \notin Existing(s)
         /\ c.body # Undefined \/ at[s] = "config"
    ELSE {c.path, c.body} \subseteq Existing(s)

Answers(s, ok, failed) ==
  answer' = [answer EXCEPT ![s] =
               [arrived |-> TRUE, ok |-> ok, failed |-> failed]]

ServerAccepts(s) ==
  LET id == call[s].body IN
  /\ InProgress(s) /\ at[s] # "devices" /\ ~answer[s].arrived
  /\ Acceptable(s)
  /\ buildings' = IF at[s] = "building" THEN buildings \cup {id} ELSE buildings
  /\ rooms' = IF at[s] = "room" THEN rooms \cup {id} ELSE rooms
  /\ configs' = IF at[s] = "config" THEN configs \cup {id} ELSE configs
  /\ made' = IF at[s] = "room" /\ call[s].op = "add" THEN made \cup {id} ELSE made
  /\ overwrote' = IF at[s] = "room" /\ call[s].op = "update"
                    THEN overwrote \cup {call[s].path} ELSE overwrote
  /\ Answers(s, {id}, {}) \/ Answers(s, {}, {id})
  /\ UNCHANGED <<devices, lists, place, loc, flags, fullRoomDeviceList, at,
                 call, results>>

(* Devices are accepted or refused one by one, those without a room's ID     *)
(* always refused; the answer may again be lost.                             *)
ServerTakesDevices(s) ==
  /\ at[s] = "devices" /\ ~answer[s].arrived
  /\ \E new \in SUBSET (call[s].body \ (devices \cup {Undefined})) :
       /\ devices' = devices \cup new
       /\ \/ Answers(s, new, call[s].body \ new)
          \/ Answers(s, {}, call[s].body \cup {Undefined})
  /\ UNCHANGED <<rooms, buildings, configs, lists, place, loc, flags,
                 fullRoomDeviceList, at, call, results, hist>>

ServerRefuses(s) ==
  /\ InProgress(s) /\ at[s] # "devices" /\ ~answer[s].arrived
  /\ Answers(s, {}, {call[s].body})
  /\ UNCHANGED <<db, lists, place, loc, flags, fullRoomDeviceList, at, call,
                 results, hist>>

(* The callbacks.  Each pushes its results and makes the next call, after a  *)
(* success as after an error, from the state of the page as it is then.      *)

Outcomes(s) ==
  {TRUE : x \in answer[s].ok} \cup {FALSE : x \in answer[s].failed}

Pushed(s) == results' = [results EXCEPT ![s] = @ \cup Outcomes(s)]

Arrived(s, c) == at[s] = c /\ answer[s].arrived
Succeeded(s)  == answer[s].failed = {}

(* Mutant of AfterBuilding: the error callback does not go on.               *)
AfterBuildingStops(s) ==
  /\ Arrived(s, "building") /\ Succeeded(s)
  /\ Pushed(s)
  /\ buildingExists' = TRUE /\ BuildingIDToUpdate' = locBuilding
  /\ Send(s, "room", AddOrUpdate(roomExists, RoomIDToUpdate, locRoom))
  /\ UNCHANGED <<db, lists, place, loc, roomExists, configExists,
                 RoomIDToUpdate, fullRoomDeviceList, hist>>

AfterBuilding(s) ==
  /\ Arrived(s, "building")
  /\ Pushed(s)
  /\ IF Succeeded(s) /\ call[s].op = "add"
       THEN buildingExists' = TRUE /\ BuildingIDToUpdate' = locBuilding
       ELSE UNCHANGED <<buildingExists, BuildingIDToUpdate>>
  /\ Send(s, "room", AddOrUpdate(roomExists, RoomIDToUpdate, locRoom))
  /\ UNCHANGED <<db, lists, place, loc, roomExists, configExists,
                 RoomIDToUpdate, fullRoomDeviceList, hist>>

(* Mutant of AfterRoom: a room that cannot be added is taken to exist.       *)
AfterRoomTakesIt(s) ==
  /\ Arrived(s, "room")
  /\ Pushed(s)
  /\ roomExists' = TRUE /\ RoomIDToUpdate' = locRoom
  /\ Send(s, "devices", [op |-> "add", body |-> fullRoomDeviceList])
  /\ UNCHANGED <<db, lists, place, loc, buildingExists, configExists,
                 BuildingIDToUpdate, fullRoomDeviceList, hist>>

AfterRoom(s) ==
  /\ Arrived(s, "room")
  /\ Pushed(s)
  /\ IF Succeeded(s) /\ call[s].op = "add"
       THEN roomExists' = TRUE /\ RoomIDToUpdate' = locRoom
       ELSE UNCHANGED <<roomExists, RoomIDToUpdate>>
  /\ Send(s, "devices", [op |-> "add", body |-> fullRoomDeviceList])
  /\ UNCHANGED <<db, lists, place, loc, buildingExists, configExists,
                 BuildingIDToUpdate, fullRoomDeviceList, hist>>

(* Mutant of AfterDevices: the configuration goes to the room last updated.  *)
AfterDevicesElsewhere(s) ==
  /\ Arrived(s, "devices")
  /\ Pushed(s)
  /\ Send(s, "config", AddOrUpdate(configExists, RoomIDToUpdate, RoomIDToUpdate))
  /\ UNCHANGED <<db, lists, place, loc, flags, fullRoomDeviceList, hist>>

AfterDevices(s) ==
  /\ Arrived(s, "devices")
  /\ Pushed(s)
  /\ Send(s, "config", AddOrUpdate(configExists, locRoom, locRoom))
  /\ UNCHANGED <<db, lists, place, loc, flags, fullRoomDeviceList, hist>>

(* ShowResults opens the dialog.  WriteTempChanges makes an Observable that  *)
(* nobody subscribes to, so it sends nothing.                                *)
AfterConfig(s) ==
  /\ Arrived(s, "config")
  /\ Pushed(s)
  /\ configExists' = (configExists \/ (Succeeded(s) /\ call[s].op = "add"))
  /\ Send(s, "shown", NoCall)
  /\ UNCHANGED <<db, lists, place, loc, buildingExists, roomExists,
                 BuildingIDToUpdate, RoomIDToUpdate, fullRoomDeviceList, hist>>

CloseDialog(s) ==
  /\ at[s] = "shown"
  /\ at' = [at EXCEPT ![s] = "closed"]
  /\ results' = [results EXCEPT ![s] = {}]
  /\ UNCHANGED <<db, lists, place, loc, flags, fullRoomDeviceList, call,
                 answer, hist>>

(* The dialog ShowResults opens for a list of results.                       *)
Dialog(s) == CASE results[s] = {TRUE} -> "All Information Succeeded"
               [] results[s] = {FALSE} -> "All Information Failed"
               [] results[s] = {TRUE, FALSE} -> "Some Information Failed"

Server(s)   == ServerAccepts(s) \/ ServerTakesDevices(s) \/ ServerRefuses(s)
Callback(s) == AfterBuilding(s) \/ AfterRoom(s) \/ AfterDevices(s) \/ AfterConfig(s)

Next ==
  \/ LoadBuildings \/ LoadRooms
  \/ \E r \in Rooms : OtherAddsRoom(r) \/ ValidateLocation(r)
  \/ \E i \in 0..4 : GoTo(i)
  \/ EditLocation \/ UpdateAccordion
  \/ \E s \in Submissions :
       Finish(s) \/ Server(s) \/ Callback(s) \/ CloseDialog(s)

Spec == Init /\ [][Next]_vars

-----------------------------------------------------------------------------
(* The flags that choose between adding and updating are true to the         *)
(* database, across stale lists, retries and lost answers: what they say     *)
(* exists does, and the room to be updated is the room on the page.          *)
FlagsTrue ==
  /\ buildingExists => BuildingIDToUpdate \in buildings
  /\ roomExists => RoomIDToUpdate = locRoom /\ locRoom \in rooms

(* walkthrough.component.ts 118: the walkthrough is not for rooms that       *)
(* exist.  However often Finish is pressed and whatever other users add, it  *)
(* updates no room but those this page has created.                          *)
NotOverwritten == overwrote \subseteq made

(* A submission that has begun always has a next step, whichever of its     *)
(* calls fail and whatever the user types meanwhile: with four calls before  *)
(* the dialog, every press of Finish ends in one.                            *)
NeverStuck ==
  \A s \in Submissions : InProgress(s) => ENABLED (Server(s) \/ Callback(s))

(* Finish keeps what RoomSetup promises: it writes what is on the page and   *)
(* nothing else, creates the room or updates one this page has created, and  *)
(* tells of success only what is true, for a user who touches neither the    *)
(* location nor the devices before the dialog, whatever other users add,     *)
(* however calls fail and answers are lost, in one submission or two that    *)
(* overlap.                                                                  *)
StageOf(s) == CASE InProgress(s) -> "running"
                [] at[s] = "shown" -> "told"
                [] at[s] = "closed" -> "over"
                [] OTHER -> "idle"

SaidIn(s) == IF at[s] = "shown" THEN Dialog(s) ELSE "nothing"

Setup == INSTANCE RoomSetup WITH
  stage <- [s \in Submissions |-> StageOf(s)],
  said  <- [s \in Submissions |-> SaidIn(s)]

ImplementsRoomSetup == Setup!SetupSpec
=============================================================================
