----------------------------- MODULE DevicePage -----------------------------
(* The device page on its own (device.component.ts and .html): a form to add *)
(* a device and a form to edit one, beside the server.                       *)
(*                                                                           *)
(* The two forms have devices, rooms and lists of their own, but share their *)
(* handlers: UpdateID and DeviceTypeChange work on both, whichever form the  *)
(* event came from.  A device ID is a room and a name, <<r, "">> before a    *)
(* name is typed; a host name is the ID it was made of.  A port is an object *)
(* that several devices may hold: <<owner, id>> in the heap wire, owned by a *)
(* type, by a device of the edit list (named by the ID it was loaded under), *)
(* or by the device to add.  Roles are those of the type; tags, display      *)
(* names and the resolved address are left out.                              *)
(*                                                                           *)
(* The answer of a list may be lost, and answers come in any order.  hurries *)
(* counts the user's choices of a room while a list is due.                  *)
EXTENDS Integers, FiniteSets, Functions

CONSTANTS
  Rooms, Buildings, BuildingOf,   \* BuildingOf[r]: the building of a room
  Names,                          \* the last parts of IDs that devices have
  FreshNames,                     \* names nobody's device has, for renaming
  Types, PortsOf,                 \* PortsOf[t]: the IDs of the ports of a type
  Sources, Destinations,          \* the types with source, with destination
  MayFeed,                        \* <<s, t>>: the roles of s and t fit a source on t
  FixedAddress,                   \* the types in D.DefaultAddress
  DefaultPorts,                   \* DefaultPorts[t][p]: what names of source and
                                  \* destination include, as D.DefaultPorts has it
  Includes,                       \* <<name, part>>: the name includes that part
  NumberOf,                       \* NumberOf[n]: the number in a name
  StoredAtFirst,                  \* the documents of the database
  Add, None, Fixed,               \* an owner; undefined; "0.0.0.0"
  MaxActs, MaxHurry               \* bounds: acts of the user, hurried choices

DocIDs  == Rooms \X Names
FormIDs == Rooms \X (Names \cup FreshNames \cup {""})
PortIDs == UNION {PortsOf[t] : t \in Types}
NoWire  == [source |-> None, destination |-> None]
Owners  == {Add} \cup Types \cup DocIDs
HostOf(id) == <<id>>

ASSUME DeviceAssumption ==
  /\ None \notin Rooms \cup Types \cup FormIDs /\ Add \notin Types \cup DocIDs
  /\ FreshNames \cap Names = {} /\ "" \notin Names \cup FreshNames
  /\ DOMAIN StoredAtFirst \subseteq DocIDs
  /\ \A d \in DOMAIN StoredAtFirst :
       /\ StoredAtFirst[d].type \in Types \cup {None}
       /\ StoredAtFirst[d].address \in {None, Fixed, HostOf(d)}
       /\ DOMAIN StoredAtFirst[d].wires \subseteq PortIDs
       /\ \A p \in DOMAIN StoredAtFirst[d].wires :
            StoredAtFirst[d].wires[p] \in [source : FormIDs \cup {None},
                                           destination : FormIDs \cup {None}]

VARIABLES
  stored,                         \* the database: ID to document
  typesLoaded,                    \* has the list of types arrived
  addBuilding, addRoomList, addRoom, addDeviceList, addDevice, addType,
  editBuilding, editRoomList, editRoom, editDeviceList,
  chosen, blank,                  \* editDevice: one of the list, or a new Device
  editType, IDToUpdate,
  sources, destinations,          \* the IDs offered by each form
  wire,                           \* the heap: what a port names
  calls,                          \* lists asked for
  sent, carried,                  \* history: creates sent, updates carried out
  acts, hurries

addForm  == <<addBuilding, addRoomList, addRoom, addDeviceList, addDevice, addType>>
editForm == <<editBuilding, editRoomList, editRoom, editDeviceList, chosen, blank,
              editType, IDToUpdate>>
offers   == <<sources, destinations>>
history  == <<sent, carried>>
deviceVars     == <<stored, typesLoaded, addForm, editForm, offers, wire, calls, history,
              acts, hurries>>

NewDevice == [id |-> None, name |-> "", type |-> None, address |-> None, ports |-> {}]

editDevice == IF chosen = None THEN blank ELSE editDeviceList[chosen]

Edit(d) ==
  IF chosen = None
    THEN blank' = d /\ UNCHANGED editDeviceList
    ELSE editDeviceList' = [editDeviceList EXCEPT ![chosen] = d] /\ UNCHANGED blank

NoDevices == [d \in {} |-> NewDevice]

InitDevices ==
  /\ stored = StoredAtFirst
  /\ typesLoaded = FALSE
  /\ addBuilding = None /\ addRoomList = {} /\ addRoom = None
  /\ addDeviceList = NoDevices /\ addDevice = NewDevice /\ addType = None
  /\ editBuilding = None /\ editRoomList = {} /\ editRoom = None
  /\ editDeviceList = NoDevices /\ chosen = None /\ blank = NewDevice
  /\ editType = None /\ IDToUpdate = None
  /\ sources = [add |-> {}, edit |-> {}]
  /\ destinations = [add |-> {}, edit |-> {}]
  /\ wire = [o \in Owners \X PortIDs |-> NoWire]
  /\ calls = {}
  /\ sent = {} /\ carried = {}
  /\ acts = 0 /\ hurries = 0

Act == acts < MaxActs /\ acts' = acts + 1

-----------------------------------------------------------------------------
(* Lists the server answers with.                                            *)

LoadTypes ==
  /\ ~typesLoaded
  /\ typesLoaded' = TRUE
  /\ UNCHANGED <<stored, addForm, editForm, offers, wire, calls, history, acts, hurries>>

DevicesIn(r) == {d \in DOMAIN stored : d[1] = r}

(* A listed device is as its document; its ports are objects of its own.     *)
Listed(r) ==
  [d \in DevicesIn(r) |->
    [id |-> d, name |-> d[2], type |-> stored[d].type, address |-> stored[d].address,
     ports |-> {<<d, p>> : p \in DOMAIN stored[d].wires}]]

Lost(c) ==
  /\ c \in calls
  /\ calls' = calls \ {c}
  /\ UNCHANGED <<stored, typesLoaded, addForm, editForm, offers, wire, history, acts, hurries>>

Answer(c) ==
  /\ c \in calls
  /\ calls' = calls \ {c}
  /\ CASE c.list = "addRooms" ->
            /\ addRoomList' = {r \in Rooms : BuildingOf[r] = c.of}
            /\ UNCHANGED <<editRoomList, addDeviceList, editDeviceList, wire>>
       [] c.list = "editRooms" ->
            /\ editRoomList' = {r \in Rooms : BuildingOf[r] = c.of}
            /\ UNCHANGED <<addRoomList, addDeviceList, editDeviceList, wire>>
       [] c.list = "addDevices" ->
            /\ addDeviceList' = Listed(c.of)
            /\ UNCHANGED <<addRoomList, editRoomList, editDeviceList, wire>>
       [] c.list = "editDevices" ->
            /\ editDeviceList' = Listed(c.of)
            /\ wire' = [o \in DOMAIN wire |->
                         IF o[1] \in DevicesIn(c.of) /\ o[2] \in DOMAIN stored[o[1]].wires
                           THEN stored[o[1]].wires[o[2]] ELSE wire[o]]
            /\ UNCHANGED <<addRoomList, editRoomList, addDeviceList>>
  /\ UNCHANGED <<stored, typesLoaded, addBuilding, addRoom, addDevice, addType,
                 editBuilding, editRoom, chosen, blank, editType, IDToUpdate, offers,
                 history, acts, hurries>>

Ask(list, of) == calls' = calls \cup {[list |-> list, of |-> of]}

(* A choice while a list of the same form is due is a hurried one.           *)
Hurry(lists) ==
  IF \E c \in calls : c.list \in lists
    THEN hurries < MaxHurry /\ hurries' = hurries + 1
    ELSE UNCHANGED hurries

-----------------------------------------------------------------------------
(* The ID of a device follows its room and name, and so does an address that *)
(* has the room in it.                                                       *)

NamesRoom(address, r) == address \notin {None, Fixed} /\ address[1] # None /\ address[1][1] = r

(* Mutant of WithID: the address is made once.                               *)
WithIDAddressOnce(d, r) ==
  IF r = None THEN d
  ELSE [d EXCEPT !.id = <<r, d.name>>, !.address = IF @ = None THEN HostOf(<<r, d.name>>) ELSE @]

WithID(d, r) ==
  IF r = None THEN d
  ELSE [d EXCEPT !.id = <<r, d.name>>,
                 !.address = IF @ = None \/ NamesRoom(@, r) THEN HostOf(<<r, d.name>>) ELSE @]

UpdateID(add, edit) ==
  /\ addDevice' = WithID(add, addRoom)
  /\ Edit(WithID(edit, editRoom))

GetAddRoomList(b) ==
  /\ Act
  /\ b # addBuilding /\ Hurry({"addRooms", "addDevices"})
  /\ addBuilding' = b /\ addRoom' = None /\ addDevice' = NewDevice /\ addRoomList' = {}
  /\ Ask("addRooms", b)
  /\ UNCHANGED <<stored, typesLoaded, addDeviceList, addType, editForm, offers, wire,
                 history>>

GetEditRoomList(b) ==
  /\ Act
  /\ b # editBuilding /\ Hurry({"editRooms", "editDevices"})
  /\ editBuilding' = b /\ editRoom' = None /\ chosen' = None /\ blank' = NewDevice
  /\ editRoomList' = {}
  /\ Ask("editRooms", b)
  /\ UNCHANGED <<stored, typesLoaded, addForm, editDeviceList, editType, IDToUpdate,
                 offers, wire, history>>

(* Mutant of GetAddDeviceList: what was filled in is kept for the new room.  *)
GetAddDeviceListKeeps(r) ==
  /\ Act
  /\ r \in addRoomList /\ r # addRoom /\ Hurry({"addRooms", "addDevices"})
  /\ addRoom' = r
  /\ addDevice' = WithID(addDevice, r)
  /\ Edit(WithID(editDevice, editRoom))
  /\ addDeviceList' = NoDevices
  /\ Ask("addDevices", r)
  /\ UNCHANGED <<stored, typesLoaded, addBuilding, addRoomList, addType, editBuilding,
                 editRoomList, editRoom, chosen, editType, IDToUpdate, offers, wire, history>>

GetAddDeviceList(r) ==
  /\ Act
  /\ r \in addRoomList /\ r # addRoom /\ Hurry({"addRooms", "addDevices"})
  /\ addRoom' = r
  /\ addDevice' = WithID(NewDevice, r)
  /\ Edit(WithID(editDevice, editRoom))
  /\ addDeviceList' = NoDevices
  /\ Ask("addDevices", r)
  /\ UNCHANGED <<stored, typesLoaded, addBuilding, addRoomList, addType, editBuilding,
                 editRoomList, editRoom, chosen, editType, IDToUpdate, offers, wire, history>>

(* Mutant of GetEditDeviceList: the device of the former room is kept.       *)
GetEditDeviceListKeeps(r) ==
  /\ Act
  /\ r \in editRoomList /\ r # editRoom /\ Hurry({"editRooms", "editDevices"})
  /\ editRoom' = r
  /\ editDeviceList' = NoDevices
  /\ Ask("editDevices", r)
  /\ UNCHANGED <<stored, typesLoaded, addForm, editBuilding, editRoomList, editType, chosen,
                 blank, IDToUpdate, offers, wire, history>>

(* The device shown is a new one; IDToUpdate stays.                          *)
GetEditDeviceList(r) ==
  /\ Act
  /\ r \in editRoomList /\ r # editRoom /\ Hurry({"editRooms", "editDevices"})
  /\ editRoom' = r /\ chosen' = None /\ blank' = NewDevice
  /\ editDeviceList' = NoDevices
  /\ Ask("editDevices", r)
  /\ UNCHANGED <<stored, typesLoaded, addForm, editBuilding, editRoomList, editType,
                 IDToUpdate, offers, wire, history>>

(* Leaving the field of a name, changed or not.                              *)
NameToAdd(n) ==
  /\ Act /\ addRoom # None
  /\ UpdateID([addDevice EXCEPT !.name = n], editDevice)
  /\ UNCHANGED <<stored, typesLoaded, addBuilding, addRoomList, addRoom, addDeviceList,
                 addType, editBuilding, editRoomList, editRoom, chosen, editType, IDToUpdate,
                 offers, wire, calls, history, hurries>>

NameToEdit(n) ==
  /\ Act /\ editDevice.id # None
  /\ UpdateID(addDevice, [editDevice EXCEPT !.name = n])
  /\ UNCHANGED <<stored, typesLoaded, addBuilding, addRoomList, addRoom, addDeviceList,
                 addType, editBuilding, editRoomList, editRoom, chosen, editType, IDToUpdate,
                 offers, wire, calls, history, hurries>>

-----------------------------------------------------------------------------
(* The lists of devices a port may name, and the default wiring.             *)

IDsOfTypes(list, types) == {list[d].id : d \in {e \in DOMAIN list : list[e].type \in types}}
Itself(d, type, types)  == IF type \in types THEN {d.id} \ {None} ELSE {}

(* A listed device that has lost its type makes the second half throw, which *)
(* leaves the edit form the IDs of those before it.                          *)
ListsThrow(list, type) == type # None /\ \E d \in DOMAIN list : list[d].type = None

Offer(addD, typeA, list, editD, typeE) ==
  \E seen \in IF ListsThrow(list, typeE) THEN SUBSET DOMAIN list ELSE {DOMAIN list} :
    LET For(types) ==
          [add  |-> IF typeA = None THEN {}
                    ELSE IDsOfTypes(addDeviceList, types) \cup Itself(addD, typeA, types),
           edit |-> IF typeE = None THEN {}
                    ELSE IDsOfTypes(Restrict(list, seen), types)
                           \cup IF ListsThrow(list, typeE) THEN {} ELSE Itself(editD, typeE, types)]
    IN /\ sources' = For(Sources)
       /\ destinations' = For(Destinations)

(* UpdateMissingPorts: the ports of the type, its own where it has them.     *)
MissingPorts(d) ==
  IF d.ports = {} THEN {}
  ELSE {o \in d.ports : o[2] \in PortsOf[d.type]}
         \cup {<<d.type, p>> : p \in PortsOf[d.type] \ {o[2] : o \in d.ports}}

(* Mutant of IDOf: the ID of the device chosen before.                       *)
IDOfFormer(d) == IF IDToUpdate = None THEN editDeviceList[d].id ELSE IDToUpdate

IDOf(d) == editDeviceList[d].id

(* Choosing a device.  Before the types are there, or when the device has    *)
(* none, the handler throws half way: the device is left without a type.     *)
EditDeviceChanges(d) ==
  LET dev   == editDeviceList[d]
      known == typesLoaded /\ dev.type # None
      lists == known /\ ~ListsThrow(editDeviceList, dev.type)
      now   == [dev EXCEPT !.type = IF known THEN @ ELSE None,
                           !.ports = IF lists THEN MissingPorts(dev) ELSE @]
  IN /\ Act
     /\ \A c \in calls : c.list \notin {"editRooms", "editDevices"}
     /\ editRoom # None /\ d \in DOMAIN editDeviceList /\ d # chosen
     /\ chosen' = d
     /\ IDToUpdate' = IDOf(d)
     /\ editType' = IF known THEN dev.type ELSE None
     /\ editDeviceList' = [editDeviceList EXCEPT ![d] = now]
     /\ IF known THEN Offer(addDevice, addType, editDeviceList, dev, dev.type)
                 ELSE UNCHANGED offers
     /\ UNCHANGED <<stored, typesLoaded, addForm, editBuilding, editRoomList, editRoom,
                    blank, wire, calls, history, hurries>>

-----------------------------------------------------------------------------
(* A device with the ports and the address its type gives it.                *)

(* Mutant of OfTypeToAdd: the ports are those of the type, not copies.       *)
OfTypeToAddShared(d) ==
  [d EXCEPT !.ports = IF d.type = None THEN {} ELSE {<<d.type, p>> : p \in PortsOf[d.type]},
            !.address = IF d.type \in FixedAddress THEN Fixed ELSE HostOf(d.id)]

OfTypeToAdd(d) ==
  [d EXCEPT !.ports = IF d.type = None THEN {} ELSE {<<Add, p>> : p \in PortsOf[d.type]},
            !.address = IF d.type \in FixedAddress THEN Fixed ELSE HostOf(d.id)]

OfTypeToEdit(d) ==
  [d EXCEPT !.ports = IF d.type = None THEN {} ELSE {<<d.type, p>> : p \in PortsOf[d.type]},
            !.address = IF d.type \in FixedAddress THEN Fixed ELSE HostOf(d.id)]

(* Both forms are worked on, whichever type was changed.  The ports of the   *)
(* device to add are made anew; the edited device takes those of its type.   *)
DeviceTypeChange(add, edit) ==
  LET addNow  == OfTypeToAdd(add)
      editNow == IF edit.id = None THEN edit ELSE OfTypeToEdit(edit)
      typeE   == IF edit.id = None THEN editType ELSE edit.type
      list    == IF chosen = None THEN editDeviceList
                 ELSE [editDeviceList EXCEPT ![chosen] = editNow]
  IN /\ addDevice' = addNow /\ addType' = add.type
     /\ Edit(editNow) /\ editType' = typeE
     /\ Offer(addNow, add.type, list, editNow, typeE)

Fresh(heap) == [o \in DOMAIN heap |-> IF o[1] = Add THEN NoWire ELSE heap[o]]

(* SetDefaultPortConfigurations: of the IDs offered, one whose name has both *)
(* the part and the number wanted.  A type without defaults throws.          *)
Fits(ids, part, n) ==
  LET fit == {id \in ids : <<id[2], part>> \in Includes
                             /\ (NumberOf[n] = "" \/ <<id[2], NumberOf[n]>> \in Includes)}
  IN IF fit = {} THEN {None} ELSE fit

DefaultWiring(d, srcs, dests) ==
  IF d.type \notin DOMAIN DefaultPorts THEN {Fresh(wire)}
  ELSE {[o \in DOMAIN wire |-> IF o \in d.ports THEN wired[o] ELSE Fresh(wire)[o]] :
        wired \in
          {w \in [d.ports -> [source : srcs \cup {None}, destination : dests \cup {None}]] :
            \A o \in d.ports :
              /\ w[o].source \in Fits(srcs, DefaultPorts[d.type][o[2]].source, d.name)
              /\ w[o].destination
                   \in Fits(dests, DefaultPorts[d.type][o[2]].destination, d.name)}}

ChooseAddType(t) ==
  /\ Act
  /\ typesLoaded /\ addRoom # None /\ t # addDevice.type
  /\ DeviceTypeChange([addDevice EXCEPT !.type = t], editDevice)
  /\ wire' \in IF ListsThrow(editDeviceList', editType') THEN {Fresh(wire)}
               ELSE DefaultWiring(addDevice', sources'.add, destinations'.add)
  /\ UNCHANGED <<stored, typesLoaded, addBuilding, addRoomList, addRoom, addDeviceList,
                 editBuilding, editRoomList, editRoom, chosen, IDToUpdate, calls, history,
                 hurries>>

ChooseEditType(t) ==
  /\ Act
  /\ typesLoaded /\ editDevice.id # None /\ t # editDevice.type
  /\ DeviceTypeChange(addDevice, [editDevice EXCEPT !.type = t])
  /\ wire' = Fresh(wire)
  /\ UNCHANGED <<stored, typesLoaded, addBuilding, addRoomList, addRoom, addDeviceList,
                 editBuilding, editRoomList, editRoom, chosen, IDToUpdate, calls, history,
                 hurries>>

-----------------------------------------------------------------------------
(* Ports wired by hand.  A source must pass IsValidSource, which looks both  *)
(* IDs up in the list and throws, for the whole form, on one that is not     *)
(* there; a device not yet created never is.                                 *)

ValidSources(list, ids, host) ==
  LET WithThe(id) == {d \in DOMAIN list : list[d].id = id}
  IN IF \E id \in ids \cup {host} : WithThe(id) = {} THEN {}
     ELSE {id \in ids : \E s \in WithThe(id), h \in WithThe(host) :
                         <<list[s].type, list[h].type>> \in MayFeed}

Wire(o, srcs, dests) ==
  \/ \E s \in srcs \cup {None} : wire' = [wire EXCEPT ![o].source = s]
  \/ \E d \in dests \cup {None} : wire' = [wire EXCEPT ![o].destination = d]

WireToAdd(o) ==
  /\ Act
  /\ addType # None /\ o \in addDevice.ports
  /\ Offer(addDevice, addType, editDeviceList, editDevice, editType)
  /\ Wire(o, ValidSources(addDeviceList, sources'.add, addDevice.id), destinations'.add)
  /\ UNCHANGED <<stored, typesLoaded, addForm, editForm, calls, history, hurries>>

WireToEdit(o) ==
  /\ Act
  /\ o \in editDevice.ports
  /\ Wire(o, ValidSources(editDeviceList, sources.edit, editDevice.id), destinations.edit)
  /\ UNCHANGED <<stored, typesLoaded, addForm, editForm, offers, calls, history, hurries>>

-----------------------------------------------------------------------------
(* Submission.  The database refuses to add what exists and devices without  *)
(* a name or type; the handler of an update refuses when no document has the *)
(* ID of the body, the database when none has that of the path.  Any call    *)
(* may fail.                                                                 *)

Body(d) ==
  [type |-> d.type, address |-> d.address,
   wires |-> [p \in {o[2] : o \in d.ports} |-> wire[CHOOSE o \in d.ports : o[2] = p]]]

(* The documents of others, and that of this device.                         *)
SaveDevice(others, d) ==
  [id \in DOMAIN others \cup {d.id} |-> IF id = d.id THEN Body(d) ELSE others[id]]

CreateDevice ==
  /\ Act /\ addRoom # None
  /\ sent' = sent \cup {[id |-> addDevice.id, doc |-> Body(addDevice)]}
  /\ \/ UNCHANGED stored
     \/ /\ addDevice.name # "" /\ addDevice.type # None
        /\ addDevice.id \notin DOMAIN stored
        /\ stored' = SaveDevice(stored, addDevice)
  /\ UNCHANGED <<typesLoaded, addForm, editForm, offers, wire, calls, carried, hurries>>

UpdateDevice ==
  /\ Act /\ editDevice.id # None
  /\ \/ UNCHANGED <<stored, carried>>
     \/ /\ editDevice.type # None
        /\ editDevice.id \in DOMAIN stored /\ IDToUpdate \in DOMAIN stored
        /\ stored' = SaveDevice(Restrict(stored, DOMAIN stored \ {IDToUpdate}), editDevice)
        /\ carried' = carried \cup {[path |-> IDToUpdate, body |-> editDevice.id, from |-> chosen]}
  /\ UNCHANGED <<typesLoaded, addForm, editForm, offers, wire, calls, sent, hurries>>

NextDevices ==
  \/ LoadTypes
  \/ \E c \in calls : Answer(c) \/ Lost(c)
  \/ \E b \in Buildings : GetAddRoomList(b) \/ GetEditRoomList(b)
  \/ \E r \in Rooms : GetAddDeviceList(r) \/ GetEditDeviceList(r)
  \/ \E n \in Names : NameToAdd(n)
  \/ \E n \in FreshNames \cup {editDevice.name} : NameToEdit(n)
  \/ \E d \in DocIDs : EditDeviceChanges(d)
  \/ \E t \in Types : ChooseAddType(t) \/ ChooseEditType(t)
  \/ \E o \in DOMAIN wire : WireToAdd(o) \/ WireToEdit(o)
  \/ CreateDevice \/ UpdateDevice

DeviceSpec == InitDevices /\ [][NextDevices]_deviceVars

-----------------------------------------------------------------------------
(* Type invariant of the two forms, the heap and the history.                *)
Devices ==
  [id : FormIDs \cup {None}, name : Names \cup FreshNames \cup {""}, type : Types \cup {None},
   address : {None, Fixed} \cup {HostOf(id) : id \in FormIDs \cup {None}},
   ports : SUBSET (Owners \X PortIDs)]

DevicesTypeOK ==
  /\ DOMAIN stored \subseteq DocIDs
  /\ addDevice \in Devices /\ blank \in Devices
  /\ DOMAIN addDeviceList \subseteq DocIDs /\ DOMAIN editDeviceList \subseteq DocIDs
  /\ \A d \in DOMAIN editDeviceList : editDeviceList[d] \in Devices
  /\ chosen \in DOMAIN editDeviceList \cup {None}
  /\ IDToUpdate \in FormIDs \cup {None}
  /\ wire \in [Owners \X PortIDs -> [source : FormIDs \cup {None},
                                     destination : FormIDs \cup {None}]]

(* An update the server carries out goes to the document the device shown    *)
(* was loaded from, and names it, whatever was chosen before and in whatever *)
(* room (IDToUpdate and the room an ID is made of are kept apart from the    *)
(* list), if the user lets lists arrive and renames only to names nobody     *)
(* has.                                                                      *)
OwnDocument ==
  hurries = 0 => \A u \in carried : u.path = u.from /\ u.body = u.from

(* A device whose address is a host name has that of its own ID, in both     *)
(* forms, through renaming, changes of type and of room (UpdateID and        *)
(* DeviceTypeChange), if the user lets lists arrive.                         *)
AddressFollows ==
  hurries = 0 =>
    \A d \in {addDevice, editDevice} :
      d.id # None => d.address \in {None, Fixed, HostOf(d.id)}

(* A device submitted to be created has exactly the ports of its type, and   *)
(* they name devices of its own room, whatever was wired and edited before   *)
(* it (the two forms reset, share and refill ports), if the user lets lists  *)
(* arrive.                                                                   *)
CreatedInRoom ==
  hurries = 0 =>
    \A c \in sent :
      /\ DOMAIN c.doc.wires = IF c.doc.type = None THEN {} ELSE PortsOf[c.doc.type]
      /\ \A p \in DOMAIN c.doc.wires :
           \A id \in {c.doc.wires[p].source, c.doc.wires[p].destination} \ {None} :
             id[1] = c.id[1]

(* Nothing done in the add form changes what a port of a type or of a listed *)
(* device names: such a port changes only as one of the device being edited, *)
(* or when its list is loaded anew.                                          *)
AddApart ==
  [][\A o \in DOMAIN wire :
       wire'[o] # wire[o] /\ o[1] # Add =>
         o \in editDevice.ports \/ editDeviceList' # editDeviceList]_deviceVars
=============================================================================
