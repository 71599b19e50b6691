---------------------------- MODULE RoomBuilder -----------------------------
(* The drag and drop room builder (dnd.component.ts and .html): a location   *)
(* is typed, device types are dragged into groups, devices are named and     *)
(* numbered as they come, dragged on, and removed one by one or with their   *)
(* group.  Nothing is submitted yet.                                         *)
(*                                                                           *)
(* A device is a number, its fields are in device; groups have numbers too.  *)
(* The lists of a group are bags: they are sorted after every change, and    *)
(* only asked for a device.  devicesToAdd is a sequence, because the next    *)
(* number comes from the last device in it.  Drag and drop itself is a       *)
(* library: it runs the handler of the drop zone, then that of what was      *)
(* dragged, and only the innermost zone that accepts the device.             *)
EXTENDS Integers, Sequences, FiniteSets, FiniteSetsExt

CONSTANTS
  TypedRooms, RoomsThere,     \* locations that may be typed; rooms that exist
  BuildingPart, BuildingsThere,
  DeviceTypes, PiTypes,       \* PiTypes: those with the role ControlProcessor
  BaseName,                   \* BaseName[t]: D.DefaultDeviceNames[t]
  NameIncludes,               \* <<b, c>>: the base name b includes the base name c
  IDRank,                     \* IDRank[r][b]: how the letters of an ID sort
  RoomDigits,                 \* RoomDigits[r]: the digits of a room ID
  MaxDevices, MaxGroups,      \* bounds: devices dragged in, groups made
  NoRoom

DeviceNo == 1..MaxDevices
GroupNo  == 1..MaxGroups
Bases    == {BaseName[t] : t \in DeviceTypes}

ASSUME BuilderAssumption ==
  /\ MaxDevices \in Nat /\ MaxGroups \in Nat
  /\ NoRoom \notin TypedRooms
  /\ PiTypes \subseteq DeviceTypes
  /\ \A b \in Bases : <<b, b>> \in NameIncludes
  /\ \A r \in TypedRooms :
       RoomDigits[r] \in Nat /\ \A b \in Bases : IDRank[r][b] \in Int

VARIABLES
  loaded,                 \* the lists that have arrived
  place,                  \* building of the page
  room,                   \* room._id
  newBuilding, newRoom,
  groupList,              \* number of a group to the bag of its devices
  devicesToAdd,
  device,                 \* number of a device to its fields, while it is in use
  devicesMade,
  groupsMade,
  namedIn                 \* history: the rooms devices were named in

location    == <<place, room, newBuilding, newRoom>>
builderVars == <<loaded, location, groupList, devicesToAdd, device, devicesMade, groupsMade, namedIn>>

InitBuilder ==
  /\ loaded = {}
  /\ place = NoRoom /\ room = NoRoom
  /\ newBuilding = TRUE /\ newRoom = TRUE
  /\ groupList = [g \in {} |-> <<>>]
  /\ devicesToAdd = <<>>
  /\ device = [d \in {} |-> <<>>]
  /\ devicesMade = 0
  /\ groupsMade = 0
  /\ namedIn = {}

LoadList(l) ==
  /\ l \notin loaded
  /\ loaded' = loaded \cup {l}
  /\ UNCHANGED <<location, groupList, devicesToAdd, device, devicesMade, groupsMade, namedIn>>

(* A location is typed.  The building is looked for once, newRoom never      *)
(* becomes true again, and a list that has not arrived has nothing in it.    *)
ValidateLocation(r) ==
  LET b == BuildingPart[r]
      exists == "rooms" \in loaded /\ r \in RoomsThere
      listed == "buildings" \in loaded /\ b \in BuildingsThere
  IN /\ place' = IF listed \/ place = NoRoom THEN b ELSE place
     /\ newBuilding' = (newBuilding /\ ~listed)
     /\ newRoom' = (newRoom /\ ~exists)
     /\ room' = IF newRoom' THEN r ELSE room
     /\ UNCHANGED <<loaded, groupList, devicesToAdd, device, devicesMade, groupsMade, namedIn>>

-----------------------------------------------------------------------------
(* Names and numbers.                                                        *)

(* Mutant of Number: the number of the devices there are.                    *)
NumberByCount(b) ==
  Cardinality({i \in DOMAIN devicesToAdd : <<device[devicesToAdd[i]].base, b>> \in NameIncludes}) + 1

(* AssignDeviceNumber: one more than the last device whose name includes the *)
(* base name.                                                                *)
Number(b) ==
  LET same == {i \in DOMAIN devicesToAdd : <<device[devicesToAdd[i]].base, b>> \in NameIncludes}
  IN IF same = {} THEN 1 ELSE device[devicesToAdd[Max(same)]].number + 1

(* The power of ten that makes room for the digits of n.                     *)
Shift(n) ==
  LET s[m \in 0..n] == IF m < 10 THEN 10 ELSE 10 * s[m \div 10]
  IN s[n]

(* sortAlphaNum: by the letters of the ID, then by the number its digits     *)
(* make, those of the room before those of the device.                       *)
NotAfter(d, e) ==
  LET Letters(x) == IDRank[x.room][x.base]
      Digits(x)  == RoomDigits[x.room] * Shift(x.number) + x.number
  IN \/ Letters(d) < Letters(e)
     \/ Letters(d) = Letters(e) /\ Digits(d) <= Digits(e)

(* What is left, sorted; devices with one ID may come in any order.          *)
Without(list, ds) ==
  LET left == {list[i] : i \in DOMAIN list} \ ds
  IN {l \in [1..Cardinality(left) -> left] :
       /\ {l[i] : i \in DOMAIN l} = left
       /\ \A i, j \in DOMAIN l : i < j => NotAfter(device[l[i]], device[l[j]])}

(* DeleteDevice, for each of ds.                                             *)
Delete(ds) ==
  /\ devicesToAdd' \in IF ds = {} THEN {devicesToAdd} ELSE Without(devicesToAdd, ds)
  /\ device' = [d \in DOMAIN device \ ds |-> device[d]]

-----------------------------------------------------------------------------
(* Groups.                                                                   *)

Empty == [d \in DeviceNo |-> 0]
With(bag, d) == [bag EXCEPT ![d] = @ + 1]

(* Mutant of Less: the device is taken out of the list entirely.             *)
LessAll(bag, d) == [bag EXCEPT ![d] = 0]

(* RemoveFromGroup: the first of its occurrences, if any.                    *)
Less(bag, d) == [bag EXCEPT ![d] = IF @ = 0 THEN 0 ELSE @ - 1]

InGroup(g) == {d \in DeviceNo : groupList[g][d] > 0}

CanDrag == newRoom

(* AddGroup, when a device is dropped beside the groups.                     *)
Grown(groups) == [g \in DOMAIN groups \cup {groupsMade + 1} |->
                   IF g \in DOMAIN groups THEN groups[g] ELSE Empty]

(* AddDeviceToGroup for a new device.  Without a room it throws, after a     *)
(* group has been made for it.                                               *)
Place(t, g, groups) ==
  LET d == devicesMade + 1
      new == [base |-> BaseName[t], number |-> Number(BaseName[t]), room |-> room,
              pi |-> t \in PiTypes]
  IN
  IF room = NoRoom
    THEN groupList' = groups /\ UNCHANGED <<devicesToAdd, device, devicesMade, namedIn>>
    ELSE /\ d \in DeviceNo
         /\ devicesMade' = d
         /\ device' = [e \in DOMAIN device \cup {d} |-> IF e = d THEN new ELSE device[e]]
         /\ devicesToAdd' = Append(devicesToAdd, d)
         /\ groupList' = [groups EXCEPT ![g] = With(@, d)]
         /\ namedIn' = namedIn \cup {room}

DragType(t, g) ==
  /\ CanDrag /\ "types" \in loaded
  /\ g \in DOMAIN groupList
  /\ Place(t, g, groupList)
  /\ UNCHANGED <<loaded, location, groupsMade>>

DragTypeBeside(t) ==
  /\ CanDrag /\ "types" \in loaded
  /\ t \in PiTypes /\ groupsMade < MaxGroups
  /\ groupsMade' = groupsMade + 1
  /\ Place(t, groupsMade + 1, Grown(groupList))
  /\ UNCHANGED <<loaded, location>>

(* Dropped on a group, be it its own, a device is added there, then removed  *)
(* from the group it was dragged out of.                                     *)
Moved(groups, from, to, d) ==
  LET added == [groups EXCEPT ![to] = With(@, d)]
  IN [added EXCEPT ![from] = Less(@, d)]

DragDevice(d, from, to) ==
  /\ CanDrag
  /\ {from, to} \subseteq DOMAIN groupList /\ d \in InGroup(from)
  /\ groupList' = Moved(groupList, from, to, d)
  /\ UNCHANGED <<loaded, location, devicesToAdd, device, devicesMade, groupsMade, namedIn>>

DragDeviceBeside(d, from) ==
  /\ CanDrag
  /\ from \in DOMAIN groupList /\ d \in InGroup(from) /\ device[d].pi
  /\ groupsMade < MaxGroups
  /\ groupsMade' = groupsMade + 1
  /\ groupList' = Moved(Grown(groupList), from, groupsMade + 1, d)
  /\ UNCHANGED <<loaded, location, devicesToAdd, device, devicesMade, namedIn>>

(* The button of a device.                                                   *)
RemoveDevice(d, g) ==
  /\ CanDrag
  /\ g \in DOMAIN groupList /\ d \in InGroup(g)
  /\ groupList' = [groupList EXCEPT ![g] = Less(@, d)]
  /\ Delete({d})
  /\ UNCHANGED <<loaded, location, devicesMade, groupsMade, namedIn>>

DeleteGroup(g) ==
  /\ CanDrag
  /\ g \in DOMAIN groupList
  /\ Delete(InGroup(g))
  /\ groupList' = [h \in DOMAIN groupList \ {g} |-> groupList[h]]
  /\ UNCHANGED <<loaded, location, devicesMade, groupsMade, namedIn>>

NextBuilder ==
  \/ \E l \in {"types", "buildings", "rooms"} : LoadList(l)
  \/ \E r \in TypedRooms : ValidateLocation(r)
  \/ \E t \in DeviceTypes : DragTypeBeside(t) \/ \E g \in GroupNo : DragType(t, g)
  \/ \E d \in DeviceNo, g \in GroupNo :
       \/ DragDeviceBeside(d, g)
       \/ RemoveDevice(d, g)
       \/ \E to \in GroupNo : DragDevice(d, g, to)
  \/ \E g \in GroupNo : DeleteGroup(g)

BuilderSpec == InitBuilder /\ [][NextBuilder]_builderVars

-----------------------------------------------------------------------------
(* Type invariant of the builder.                                            *)
BuilderTypeOK ==
  /\ room \in TypedRooms \cup {NoRoom}
  /\ DOMAIN device \subseteq 1..devicesMade
  /\ DOMAIN groupList \subseteq 1..groupsMade
  /\ \A g \in DOMAIN groupList : groupList[g] \in [DeviceNo -> Nat]

(* A device to add is in one group, once, and a group holds nothing else,    *)
(* however devices are dragged about, on their own group too, and groups     *)
(* deleted: two lists that four handlers keep, none of them both.            *)
OneGroup ==
  /\ \A i, j \in DOMAIN devicesToAdd : devicesToAdd[i] = devicesToAdd[j] => i = j
  /\ \A d \in DeviceNo :
       LET groups == {g \in DOMAIN groupList : groupList[g][d] > 0} IN
       IF \E i \in DOMAIN devicesToAdd : devicesToAdd[i] = d
         THEN \E g \in groups : groups = {g} /\ groupList[g][d] = 1
         ELSE groups = {}

(* Two devices to add never have one ID, though numbers are given by the     *)
(* last device of a list that deletions reorder: as long as they are named   *)
(* in one room and no other base name includes theirs ("HDMI" includes "D"). *)
IDsUnique ==
  Cardinality(namedIn) <= 1 =>
    \A i, j \in DOMAIN devicesToAdd :
      LET d == device[devicesToAdd[i]]  e == device[devicesToAdd[j]] IN
      (/\ i # j /\ d.base = e.base /\ d.number = e.number)
        => \E b \in Bases \ {d.base} : <<b, d.base>> \in NameIncludes
=============================================================================
