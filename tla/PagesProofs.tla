---------------------------- MODULE PagesProofs -----------------------------
(* What is proved of three of the pages on their own, for any documents in   *)
(* the database and any number of acts of the user: of the building and room *)
(* pages (FormPages), that updates go to the document they are of; of the    *)
(* device page (DevicePage), the four properties its run checks; of the room *)
(* builder (RoomBuilder), that devices are in one group and IDs unique.      *)
EXTENDS MCPages, RoomEventsProofs, FiniteSetTheorems

-----------------------------------------------------------------------------
(* The building and room pages.                                              *)

(* A document of a form is named by the ID it was loaded from or by one      *)
(* nobody has, and has its own configuration until one is chosen for it.     *)
OfItsOwn(doc) ==
  /\ doc \in [id : {doc.id}, name : {doc.name}, tags : {doc.tags}, object : {doc.object},
              own : {doc.own}, from : {doc.from}, came : {doc.came}, picked : {doc.picked}]
  /\ doc.id \in RenamedIDs \cup {doc.from}
  /\ doc.picked = NotChosen => doc.object = 0 /\ doc.own = doc.came

(* The inductive invariant.  IDToUpdate is the ID the document on the form   *)
(* was loaded from, or one nobody has.                                       *)
FormInv ==
  /\ DOMAIN docs \cap RenamedIDs = {}
  /\ configs \in Seq(Range(ConfigNames))
  /\ OfItsOwn(editDoc)
  /\ \A d \in DOMAIN formList : formList[d].from = d /\ OfItsOwn(formList[d])
  /\ formID \in RenamedIDs \cup {editDoc.from}
  /\ UpdatesOwnDocument

LEMMA NamedIsOwn ==
  ASSUME NEW doc, OfItsOwn(doc)
  PROVE  OfItsOwn(Named(doc)) /\ Named(doc).from = doc.from
BY DEF OfItsOwn, Named

LEMMA SetEditKeeps ==
  ASSUME FormInv, NEW doc, OfItsOwn(doc), doc.from = editDoc.from, SetEdit(doc)
  PROVE  /\ OfItsOwn(editDoc)' /\ editDoc'.from = editDoc.from
         /\ \A d \in DOMAIN formList' : formList'[d].from = d /\ OfItsOwn(formList'[d])
<1>1. editDoc' = doc
  BY DEF SetEdit
<1>2. \A d \in DOMAIN formList' : formList'[d].from = d /\ OfItsOwn(formList'[d])
  <2>1. \A d \in DOMAIN formList : formList[d].from = d /\ OfItsOwn(formList[d])
    BY DEF FormInv
  <2>2. CASE ~inList
    BY <2>1, <2>2 DEF SetEdit
  <2>3. CASE inList
    <3>1. formList' = [formList EXCEPT ![doc.from] = doc]
      BY <2>3 DEF SetEdit
    <3>2. DOMAIN formList' = DOMAIN formList
      BY <3>1
    <3> SUFFICES ASSUME NEW d \in DOMAIN formList
                 PROVE  formList'[d].from = d /\ OfItsOwn(formList'[d])
      BY <3>2
    <3>3. formList'[d] = IF d = doc.from THEN doc ELSE formList[d]
      BY <3>1
    <3> QED
      BY <2>1, <3>3
  <2> QED
    BY <2>2, <2>3
<1>3. OfItsOwn(editDoc')
  BY <1>1
<1>4. OfItsOwn(editDoc)'
  BY <1>3 DEF OfItsOwn
<1> QED
  BY <1>1, <1>2, <1>4

(* The renaming of configurations makes none that is not in the list, and    *)
(* keeps their number.                                                       *)
LEMMA UpdateConfigurationStays ==
  ASSUME NEW S, NEW names \in Seq(S), NEW objects
  PROVE  /\ UpdateConfiguration(names, objects) \in Seq(S)
         /\ Len(UpdateConfiguration(names, objects)) = Len(names)
<1> DEFINE first == [i \in DOMAIN names |-> IF i \in objects THEN names[1] ELSE names[i]]
<1>1. Len(names) \in Nat /\ DOMAIN names = 1..Len(names)
  OBVIOUS
<1>2. \A i \in 1..Len(names) : first[i] \in S
  BY <1>1
<1>3. \A i \in 1..Len(names) : (IF i < Len(names) THEN i + 1 ELSE i) \in 1..Len(names)
  BY <1>1
<1> HIDE DEF first
<1>4. [i \in 1..Len(names) |-> first[IF i < Len(names) THEN i + 1 ELSE i]] \in [1..Len(names) -> S]
  BY <1>2, <1>3
<1>5. UpdateConfiguration(names, objects)
        = [i \in 1..Len(names) |-> first[IF i < Len(names) THEN i + 1 ELSE i]]
  BY <1>1, Zenon DEF UpdateConfiguration, first
<1>6. UpdateConfiguration(names, objects) \in Seq(S)
  BY <1>1, <1>4, <1>5, SeqDef
<1>7. DOMAIN UpdateConfiguration(names, objects) = 1..Len(names)
  BY <1>5
<1> QED
  BY <1>1, <1>6, <1>7

(* Listed documents are as they were loaded.                                 *)
LEMMA LoadedAreOwn ==
  ASSUME NEW ids
  PROVE  \A d \in DOMAIN Loaded(ids) : Loaded(ids)[d].from = d /\ OfItsOwn(Loaded(ids)[d])
BY DEF Loaded, OfItsOwn

LEMMA NewDocIsOwn == OfItsOwn(NewDoc)
BY DEF NewDoc, OfItsOwn

LEMMA FormInitHolds == InitForm => FormInv
<1> SUFFICES ASSUME InitForm PROVE FormInv
  OBVIOUS
<1>1. DOMAIN docs \cap RenamedIDs = {}
  BY FormAssumption DEF InitForm
<1>2. configs \in Seq(Range(ConfigNames))
  BY DEF InitForm
<1>3. OfItsOwn(editDoc) /\ formID = NotChosen /\ editDoc.from = NotChosen
  BY NewDocIsOwn DEF InitForm, NewDoc
<1>4. \A d \in DOMAIN formList : formList[d].from = d /\ OfItsOwn(formList[d])
  BY DEF InitForm, NoDocs
<1>5. UpdatesOwnDocument
  BY DEF InitForm, UpdatesOwnDocument
<1> QED
  BY <1>1, <1>2, <1>3, <1>4, <1>5 DEF FormInv

(* The steps that leave the document on the form alone.                      *)
LEMMA OtherStepsKeep ==
  ASSUME FormInv, UNCHANGED <<editDoc, updates>>,
         DOMAIN docs' \cap RenamedIDs = {},
         configs' \in Seq(Range(ConfigNames)),
         \A d \in DOMAIN formList' : formList'[d].from = d /\ OfItsOwn(formList'[d]),
         formID' \in {formID, editDoc.id}
  PROVE  FormInv'
<1>1. OfItsOwn(editDoc)'
  BY DEF FormInv, OfItsOwn
<1>2. \A d \in DOMAIN formList' : (formList[d].from = d /\ OfItsOwn(formList[d]))'
  BY DEF OfItsOwn
<1>3. formID' \in RenamedIDs \cup {editDoc'.from}
  BY DEF FormInv, OfItsOwn
<1>4. UpdatesOwnDocument'
  BY DEF FormInv, UpdatesOwnDocument
<1> QED
  BY <1>1, <1>2, <1>3, <1>4 DEF FormInv

LEMMA AnswersKeep ==
  ASSUME FormInv, NEW q \in requests,
         \/ BuildingsAnswered(q) \/ ConfigsAnswered(q)
         \/ RoomsAnswered(q) \/ UpdateAnswered(q) \/ FormLost(q)
  PROVE  FormInv'
<1>1. CASE BuildingsAnswered(q)
  <2>1. \A d \in DOMAIN formList' : formList'[d].from = d /\ OfItsOwn(formList'[d])
    BY <1>1, LoadedAreOwn DEF BuildingsAnswered, FormInv
  <2> QED
    BY <1>1, <2>1, OtherStepsKeep DEF BuildingsAnswered, FormInv
<1>2. CASE ConfigsAnswered(q)
  BY <1>2, FormAssumption, OtherStepsKeep DEF ConfigsAnswered, FormInv
<1>3. CASE RoomsAnswered(q)
  <2>1. \A d \in DOMAIN formList' : formList'[d].from = d /\ OfItsOwn(formList'[d])
    BY <1>3, LoadedAreOwn DEF RoomsAnswered
  <2> QED
    BY <1>3, <2>1, OtherStepsKeep DEF RoomsAnswered, FormInv
<1>4. CASE UpdateAnswered(q)
  BY <1>4, OtherStepsKeep DEF UpdateAnswered, FormInv
<1>5. CASE FormLost(q)
  BY <1>5, OtherStepsKeep DEF FormLost, FormInv
<1> QED
  BY <1>1, <1>2, <1>3, <1>4, <1>5

LEMMA CreateKeeps ==
  ASSUME FormInv, CreateBuilding \/ CreateRoom
  PROVE  FormInv'
<1>1. UNCHANGED <<editDoc, updates, configs, formList, formID>>
  BY DEF CreateBuilding, CreateRoom
<1>2. Create(addDoc)
  BY DEF CreateBuilding, CreateRoom
<1>3. DOMAIN docs' \cap RenamedIDs = {}
  <2>1. CASE docs' = docs
    BY <2>1 DEF FormInv
  <2>2. CASE addDoc.id \in NewIDs /\ docs' = Save(docs, addDoc)
    BY <2>2, FormAssumption DEF FormInv, Save
  <2> QED
    BY <1>2, <2>1, <2>2 DEF Create
<1> QED
  BY <1>1, <1>3, OtherStepsKeep DEF FormInv

(* The document on the form is replaced by one of the list.                  *)
LEMMA ChosenKeeps ==
  ASSUME FormInv, NEW d \in DOMAIN formList, ChooseBuilding(d) \/ ChooseRoom(d)
  PROVE  FormInv'
<1>1. formList[d].from = d /\ OfItsOwn(formList[d])
  BY DEF FormInv
<1>2. OfItsOwn(Named(formList[d])) /\ Named(formList[d]).from = d
  BY <1>1, NamedIsOwn
<1>3. /\ editDoc' \in {formList[d], Named(formList[d])} /\ formID' = formList[d].id
      /\ \/ formList' = formList
         \/ formList' = [formList EXCEPT ![d] = Named(formList[d])]
      /\ UNCHANGED <<docs, configs, updates>>
  BY DEF ChooseBuilding, ChooseRoom
<1>4. OfItsOwn(editDoc)'
  <2>1. OfItsOwn(editDoc')
    BY <1>1, <1>2, <1>3
  <2> QED
    BY <2>1 DEF OfItsOwn
<1>5. formID' \in RenamedIDs \cup {editDoc'.from}
  BY <1>1, <1>2, <1>3 DEF OfItsOwn
<1>6. \A e \in DOMAIN formList' : formList'[e].from = e /\ OfItsOwn(formList'[e])
  BY <1>2, <1>3 DEF FormInv
<1>7. \A e \in DOMAIN formList' : (formList[e].from = e /\ OfItsOwn(formList[e]))'
  BY <1>6 DEF OfItsOwn
<1>8. UpdatesOwnDocument'
  BY <1>3 DEF FormInv, UpdatesOwnDocument
<1> QED
  BY <1>3, <1>4, <1>5, <1>7, <1>8 DEF FormInv

(* It is changed where it is.                                                *)
LEMMA EditKeeps ==
  ASSUME FormInv, NEW doc, OfItsOwn(doc), doc.from = editDoc.from, SetEdit(doc),
         configs' \in Seq(Range(ConfigNames)), UNCHANGED <<docs, formID, updates>>
  PROVE  FormInv'
<1>1. /\ OfItsOwn(editDoc)' /\ editDoc'.from = editDoc.from
      /\ \A d \in DOMAIN formList' : formList'[d].from = d /\ OfItsOwn(formList'[d])
  BY SetEditKeeps
<1>2. \A e \in DOMAIN formList' : (formList[e].from = e /\ OfItsOwn(formList[e]))'
  BY <1>1 DEF OfItsOwn
<1>3. UpdatesOwnDocument'
  BY DEF FormInv, UpdatesOwnDocument
<1> QED
  BY <1>1, <1>2, <1>3 DEF FormInv

LEMMA FieldsKeep ==
  ASSUME FormInv,
         \/ \E d \in NewIDs : TypeAddID(d)
         \/ \E d \in (RenamedIDs \cup {editDoc.from}) \ {NotChosen} : TypeEditID(d)
         \/ \E add \in BOOLEAN : BuildingChip(add) \/ RoomChip(add)
  PROVE  FormInv'
<1> DEFINE Kept(doc) == OfItsOwn(doc) /\ doc.from = editDoc.from
<1>1. OfItsOwn(editDoc) /\ Kept(Named(editDoc))
  BY NamedIsOwn DEF FormInv
<1>2. UNCHANGED <<docs, formID, updates, configs>> /\ configs' \in Seq(Range(ConfigNames))
  BY DEF FormInv, TypeAddID, TypeEditID, BuildingChip, RoomChip
<1>3. ASSUME NEW d \in NewIDs, TypeAddID(d)
      PROVE  FormInv'
  <2>1. CASE UNCHANGED <<editDoc, formList>>
    BY <1>2, <2>1, OtherStepsKeep DEF FormInv
  <2>2. CASE SetEdit(Named(editDoc))
    BY <1>1, <1>2, <2>2, EditKeeps
  <2> QED
    BY <1>3, <2>1, <2>2 DEF TypeAddID
<1>4. ASSUME NEW d \in RenamedIDs \cup {editDoc.from}, TypeEditID(d)
      PROVE  FormInv'
  <2> DEFINE doc == [editDoc EXCEPT !.id = d]
  <2>1. Kept(doc)
    BY <1>1 DEF OfItsOwn
  <2>2. SetEdit(doc)
    BY <1>4 DEF TypeEditID
  <2> HIDE DEF doc
  <2> QED
    BY <1>2, <2>1, <2>2, EditKeeps
<1>5. ASSUME NEW add \in BOOLEAN, BuildingChip(add) \/ RoomChip(add)
      PROVE  FormInv'
  <2>1. CASE add
    BY <1>2, <1>5, <2>1, OtherStepsKeep DEF BuildingChip, RoomChip, FormInv
  <2>2. CASE ~add
    <3>1. PICK t : SetEdit([editDoc EXCEPT !.tags = t])
      BY <1>5, <2>2 DEF BuildingChip, RoomChip
    <3> DEFINE doc == [editDoc EXCEPT !.tags = t]
    <3>2. Kept(doc)
      BY <1>1 DEF OfItsOwn
    <3> HIDE DEF doc
    <3> QED
      BY <1>2, <3>1, <3>2, EditKeeps DEF doc
  <2> QED
    BY <2>1, <2>2
<1> QED
  BY <1>3, <1>4, <1>5

LEMMA PickForEditKeeps ==
  ASSUME FormInv, NEW i \in DOMAIN configs, PickForEdit(i)
  PROVE  FormInv'
<1> DEFINE doc   == [editDoc EXCEPT !.object = Len(configs), !.picked = configs[i]]
           names == IF editDoc.object = 0 THEN configs
                    ELSE [configs EXCEPT ![editDoc.object] = configs[i]]
<1>1. configs[i] \in Range(ConfigNames) /\ configs[i] # NotChosen
  BY FormAssumption DEF FormInv
<1>2. OfItsOwn(doc) /\ doc.from = editDoc.from
  BY <1>1 DEF FormInv, OfItsOwn
<1>3. names \in Seq(Range(ConfigNames))
  <2> DEFINE S == Range(ConfigNames)
  <2> HIDE DEF S
  <2>1. configs[i] \in S /\ configs \in Seq(S)
    BY <1>1 DEF FormInv, S
  <2>2. Len(configs) \in Nat /\ configs \in [1..Len(configs) -> S]
    BY <2>1
  <2>3. names \in [1..Len(configs) -> S]
    BY <2>1, <2>2
  <2> HIDE DEF names
  <2>4. names \in Seq(S)
    BY <2>2, <2>3, SeqDef
  <2> QED
    BY <2>4 DEF S
<1>4. /\ configs' = UpdateConfiguration(names, {editDoc.object, addDoc.object})
      /\ SetEdit(doc) /\ UNCHANGED <<docs, formID, updates>>
  BY DEF PickForEdit
<1>5. configs' \in Seq(Range(ConfigNames))
  BY <1>3, <1>4, UpdateConfigurationStays
<1> HIDE DEF doc
<1> QED
  BY <1>2, <1>4, <1>5, EditKeeps

(* The document that an update names, twice, is the one the form's was       *)
(* loaded from, because no other document has an ID it may have.             *)
LEMMA UpdateKeeps ==
  ASSUME FormInv, UpdateBuilding \/ UpdateRoom
  PROVE  FormInv'
<1>1. Update(editDoc)
  BY DEF UpdateBuilding, UpdateRoom
<1>2. UNCHANGED <<formList, editDoc, formID, configs>>
  BY <1>1 DEF Update
<1>3. CASE UNCHANGED <<docs, updates>>
  BY <1>2, <1>3, OtherStepsKeep DEF FormInv
<1>4. CASE /\ {formID, editDoc.id} \subseteq DOMAIN docs
           /\ docs' = Save(Restrict(docs, DOMAIN docs \ {formID}), editDoc)
           /\ updates' = updates \cup {[path |-> formID, body |-> editDoc.id,
                                        from |-> editDoc.from, config |-> Config(editDoc),
                                        came |-> editDoc.came, picked |-> editDoc.picked]}
  <2>1. formID = editDoc.from /\ editDoc.id = editDoc.from
    BY <1>4 DEF FormInv, OfItsOwn
  <2>2. editDoc.picked = NotChosen => Config(editDoc) = editDoc.came
    BY DEF FormInv, OfItsOwn, Config
  <2>3. UpdatesOwnDocument'
    BY <1>4, <2>1, <2>2 DEF FormInv, UpdatesOwnDocument
  <2>4. DOMAIN docs' \cap RenamedIDs = {}
    BY <1>4 DEF FormInv, Save, Restrict
  <2> QED
    BY <1>2, <2>3, <2>4 DEF FormInv, OfItsOwn
<1> QED
  BY <1>1, <1>3, <1>4 DEF Update

LEMMA FormStep == FormInv /\ [NextForm]_formVars => FormInv'
<1> SUFFICES ASSUME FormInv, [NextForm]_formVars PROVE FormInv'
  OBVIOUS
<1>1. CASE \E q \in requests : \/ BuildingsAnswered(q) \/ ConfigsAnswered(q)
                               \/ RoomsAnswered(q) \/ UpdateAnswered(q) \/ FormLost(q)
  BY <1>1, AnswersKeep
<1>2. CASE \E d \in DOMAIN docs : ChooseBuilding(d) \/ ChooseRoom(d)
  <2>1. PICK d : ChooseBuilding(d) \/ ChooseRoom(d)
    BY <1>2
  <2>2. d \in DOMAIN formList
    BY <2>1 DEF ChooseBuilding, ChooseRoom
  <2> QED
    BY <2>1, <2>2, ChosenKeeps
<1>3. CASE \E b \in FormBuildings : ChooseAddBuilding(b) \/ ChooseEditBuilding(b)
  <2>1. /\ formList' = NoDocs /\ UNCHANGED <<docs, configs, editDoc, formID, updates>>
    BY <1>3 DEF ChooseAddBuilding, ChooseEditBuilding, AskRooms
  <2> QED
    BY <2>1, OtherStepsKeep DEF NoDocs, FormInv
<1>4. CASE \/ \E d \in NewIDs : TypeAddID(d)
           \/ \E d \in (RenamedIDs \cup {editDoc.from}) \ {NotChosen} : TypeEditID(d)
           \/ \E add \in BOOLEAN : BuildingChip(add) \/ RoomChip(add)
  BY <1>4, FieldsKeep
<1>5. CASE \E i \in DOMAIN configs : PickForAdd(i)
  BY <1>5, OtherStepsKeep DEF PickForAdd, FormInv
<1>6. CASE \E i \in DOMAIN configs : PickForEdit(i)
  BY <1>6, PickForEditKeeps
<1>7. CASE CreateBuilding \/ CreateRoom
  BY <1>7, CreateKeeps
<1>8. CASE UpdateBuilding \/ UpdateRoom
  BY <1>8, UpdateKeeps
<1>9. CASE UNCHANGED formVars
  BY <1>9, OtherStepsKeep DEF formVars, FormInv
<1> QED
  BY <1>1, <1>2, <1>3, <1>4, <1>5, <1>6, <1>7, <1>8, <1>9 DEF NextForm

LEMMA FormInvHolds == FormSpec => []FormInv
<1>1. FormInv /\ [NextForm]_formVars => FormInv'
  BY FormStep
<1> QED
  BY <1>1, FormInitHolds, PTL DEF FormSpec

(* An update that the server carries out goes to the document the one on the *)
(* form was loaded from, names it, and keeps its configuration unless one    *)
(* was chosen there (building.component.ts, room.component.ts: IDToUpdate is *)
(* set when a document is chosen and when an update is answered).            *)
THEOREM FormsUpdateOwnDocument == FormSpec => []UpdatesOwnDocument
<1>1. FormInv => UpdatesOwnDocument
  BY DEF FormInv
<1> QED
  BY <1>1, FormInvHolds, PTL
-----------------------------------------------------------------------------
(* The device page.                                                          *)

IsDevice(d) ==
  /\ d \in [id : {d.id}, name : {d.name}, type : Types \cup {None}, address : {d.address},
            ports : {d.ports}]
  /\ d.name \in Names \cup FreshNames \cup {""}

(* A device of room r with the ID of its name and, if it has a host name,    *)
(* that of its ID.                                                           *)
InRoom(d, r) ==
  /\ d.id = <<r, d.name>>
  /\ d.address \in {None, Fixed, HostOf(d.id)}

(* The device to add has the ports of its type, of its own, and no room      *)
(* means no ID and no type.                                                  *)
PortsToAdd(t) == IF t = None THEN {} ELSE {<<Add, p>> : p \in PortsOf[t]}

AddForm ==
  /\ addRoom \in Rooms \cup {None}
  /\ IsDevice(addDevice) /\ addDevice.name \in Names \cup {""}
  /\ addDevice.ports = PortsToAdd(addDevice.type)
  /\ IF addRoom = None THEN addDevice.id = None /\ addDevice.type = None
                       ELSE InRoom(addDevice, addRoom)

(* A port of the device to add is a port in the heap.                        *)
IsWire(w) == w \in [source : {w.source}, destination : {w.destination}]
Heap ==
  /\ DOMAIN wire = Owners \X PortIDs
  /\ \A p \in PortIDs : IsWire(wire[<<Add, p>>])

(* A list of devices still due is not the one the edit form has.             *)
ListsDue ==
  \A c \in calls :
    /\ c \in [list : {"addRooms", "editRooms", "addDevices", "editDevices"}, of : {c.of}]
    /\ c.list = "editDevices" => \A d \in DOMAIN editDeviceList : d[1] # c.of

(* What holds as long as the user lets lists arrive.                         *)

(* A list due is that of the room of its form, and nothing is chosen from it.*)
DueForRoom ==
  \A c \in calls :
    /\ c.list = "editDevices" => editRoom # None /\ c.of = editRoom /\ chosen = None
    /\ c.list = "addDevices" => addRoom # None /\ c.of = addRoom

AddListOfRoom ==
  addRoom # None =>
    \A d \in DOMAIN addDeviceList : addDeviceList[d].id = d /\ d[1] = addRoom

WiresInRoom ==
  \A o \in addDevice.ports :
    \A id \in {wire[o].source, wire[o].destination} \ {None} : id[1] = addRoom

(* A device the edit form may show: of its room, named as its document is    *)
(* (n) or as nobody's is, and with none of the ports of the device to add.   *)
Editable(e, n) ==
  /\ IsDevice(e) /\ InRoom(e, editRoom) /\ e.name \in FreshNames \cup {n}
  /\ \A o \in e.ports : o[1] # Add

EditForm ==
  /\ editRoom \in Rooms \cup {None}
  /\ DOMAIN editDeviceList \subseteq DocIDs
  /\ editRoom = None => chosen = None /\ blank = NewDevice
  /\ editRoom # None =>
       /\ blank = NewDevice \/ Editable(blank, "")
       /\ \A d \in DOMAIN editDeviceList : d[1] = editRoom /\ Editable(editDeviceList[d], d[2])
  /\ chosen # None =>
       chosen \in DOMAIN editDeviceList /\ IDToUpdate \in {chosen} \cup Rooms \X FreshNames

Documents ==
  \A d \in DOMAIN stored :
    stored[d].type \in Types \cup {None} /\ stored[d].address \in {None, Fixed, HostOf(d)}

Waiting == DueForRoom /\ AddListOfRoom /\ WiresInRoom /\ EditForm /\ Documents

DeviceInv ==
  /\ hurries \in Nat
  /\ DOMAIN stored \subseteq DocIDs
  /\ AddForm /\ Heap /\ ListsDue
  /\ hurries = 0 => Waiting
  /\ OwnDocument /\ CreatedInRoom
-----------------------------------------------------------------------------
(* What single handlers do.                                                  *)

LEMMA NewDeviceIs ==
  /\ IsDevice(NewDevice) /\ NewDevice.id = None /\ NewDevice.name = "" /\ NewDevice.type = None
  /\ NewDevice.address = None /\ NewDevice.ports = {}
BY DEF IsDevice, NewDevice

(* An ID and an address follow the name and the room.                        *)
LEMMA WithIDFollows ==
  ASSUME NEW d, IsDevice(d), NEW r \in Rooms,
         \/ d.address \in {None, Fixed}
         \/ \E n \in Names \cup FreshNames \cup {""} : d.address = HostOf(<<r, n>>)
  PROVE  /\ IsDevice(WithID(d, r)) /\ InRoom(WithID(d, r), r)
         /\ WithID(d, r).name = d.name /\ WithID(d, r).type = d.type
         /\ WithID(d, r).ports = d.ports
<1> DEFINE w == [d EXCEPT !.id = <<r, d.name>>,
                          !.address = IF @ = None \/ NamesRoom(@, r)
                                      THEN HostOf(<<r, d.name>>) ELSE @]
<1>1. WithID(d, r) = w
  BY DeviceAssumption DEF WithID
<1>2. /\ w.id = <<r, d.name>> /\ w.name = d.name /\ w.type = d.type /\ w.ports = d.ports
      /\ w.address = IF d.address = None \/ NamesRoom(d.address, r)
                     THEN HostOf(<<r, d.name>>) ELSE d.address
  BY DEF IsDevice
<1>3. IsDevice(w)
  BY <1>2 DEF IsDevice
<1>4. w.address \in {None, Fixed, HostOf(<<r, d.name>>)}
  <2>1. CASE d.address \in {None, Fixed}
    BY <1>2, <2>1
  <2>2. ASSUME NEW n \in Names \cup FreshNames \cup {""}, d.address = HostOf(<<r, n>>),
               d.address \notin {None, Fixed}
        PROVE  w.address = HostOf(<<r, d.name>>)
    <3>1. <<r, n>> \in FormIDs
      BY DEF FormIDs
    <3>2. <<r, n>> # None
      BY <3>1, DeviceAssumption
    <3>3. NamesRoom(d.address, r)
      <4>1. PICK i : i = <<r, n>>
        OBVIOUS
      <4>2. i # None /\ i[1] = r
        BY <3>2, <4>1
      <4>3. PICK a : a = d.address
        OBVIOUS
      <4>4. a = <<i>>
        BY <2>2, <4>1, <4>3 DEF HostOf
      <4>5. a[1] = i
        BY <4>4
      <4> QED
        BY <2>2, <4>2, <4>3, <4>5 DEF NamesRoom
    <3> QED
      BY <1>2, <3>3
  <2> QED
    BY <2>1, <2>2
<1> HIDE DEF w
<1> QED
  BY <1>1, <1>2, <1>3, <1>4 DEF InRoom

(* Of a device of the room it is the same but for a new name.                *)
LEMMA RenamedInRoom ==
  ASSUME NEW d, IsDevice(d), NEW r \in Rooms, InRoom(d, r),
         NEW n \in Names \cup FreshNames \cup {""}
  PROVE  LET w == WithID([d EXCEPT !.name = n], r) IN
         IsDevice(w) /\ InRoom(w, r) /\ w.name = n /\ w.type = d.type /\ w.ports = d.ports
<1> DEFINE e == [d EXCEPT !.name = n]
<1>1. IsDevice(e) /\ e.name = n /\ e.type = d.type /\ e.ports = d.ports /\ e.address = d.address
  BY DEF IsDevice
<1>2. \/ e.address \in {None, Fixed}
      \/ \E m \in Names \cup FreshNames \cup {""} : e.address = HostOf(<<r, m>>)
  BY <1>1 DEF IsDevice, InRoom
<1> HIDE DEF e
<1>3. /\ IsDevice(WithID(e, r)) /\ InRoom(WithID(e, r), r)
      /\ WithID(e, r).name = e.name /\ WithID(e, r).type = e.type
      /\ WithID(e, r).ports = e.ports
  BY <1>1, <1>2, WithIDFollows
<1> QED
  BY <1>1, <1>3 DEF e

LEMMA SameInRoom ==
  ASSUME NEW d, IsDevice(d), NEW r \in Rooms, InRoom(d, r) \/ d.address = None
  PROVE  LET w == WithID(d, r) IN
         /\ IsDevice(w) /\ InRoom(w, r)
         /\ w.name = d.name /\ w.type = d.type /\ w.ports = d.ports
<1>1. \/ d.address \in {None, Fixed}
      \/ \E m \in Names \cup FreshNames \cup {""} : d.address = HostOf(<<r, m>>)
  BY DEF IsDevice, InRoom
<1> QED
  BY <1>1, WithIDFollows

LEMMA OfTypeToAddIs ==
  ASSUME NEW d, IsDevice(d)
  PROVE  LET w == OfTypeToAdd(d) IN
         /\ IsDevice(w) /\ w.id = d.id /\ w.name = d.name /\ w.type = d.type
         /\ w.ports = PortsToAdd(d.type)
         /\ w.address \in {Fixed, HostOf(d.id)}
BY DEF IsDevice, OfTypeToAdd, PortsToAdd

LEMMA OfTypeToEditIs ==
  ASSUME NEW d, IsDevice(d)
  PROVE  LET w == OfTypeToEdit(d) IN
         /\ IsDevice(w) /\ w.id = d.id /\ w.name = d.name /\ w.type = d.type
         /\ \A o \in w.ports : o[1] # Add
         /\ w.address \in {Fixed, HostOf(d.id)}
<1> DEFINE ports == IF d.type = None THEN {} ELSE {<<d.type, p>> : p \in PortsOf[d.type]}
           host  == IF d.type \in FixedAddress THEN Fixed ELSE HostOf(d.id)
           w     == [d EXCEPT !.ports = ports, !.address = host]
<1>1. \A o \in ports : o[1] # Add
  <2>1. d.type # None => d.type # Add
    BY DeviceAssumption DEF IsDevice
  <2> QED
    BY <2>1
<1>2. host \in {Fixed, HostOf(d.id)}
  OBVIOUS
<1>3. OfTypeToEdit(d) = w
  BY Zenon DEF OfTypeToEdit
<1> HIDE DEF ports, host
<1>4. /\ IsDevice(w) /\ w.id = d.id /\ w.name = d.name /\ w.type = d.type
      /\ w.ports = ports /\ w.address = host
  BY DEF IsDevice
<1> HIDE DEF w
<1> QED
  BY <1>1, <1>2, <1>3, <1>4

LEMMA AnswerDoes ==
  ASSUME ListsDue, NEW c \in calls, Answer(c)
  PROVE  /\ calls' = calls \ {c}
         /\ UNCHANGED <<stored, addRoom, addDevice, editRoom, chosen, blank, IDToUpdate,
                        sent, carried, hurries>>
         /\ \/ UNCHANGED addDeviceList
            \/ c.list = "addDevices" /\ addDeviceList' = Listed(c.of)
         /\ \/ UNCHANGED <<editDeviceList, wire>>
            \/ /\ c.list = "editDevices" /\ editDeviceList' = Listed(c.of)
               /\ wire' = [o \in DOMAIN wire |->
                    IF o[1] \in DevicesIn(c.of) /\ o[2] \in DOMAIN stored[o[1]].wires
                      THEN stored[o[1]].wires[o[2]] ELSE wire[o]]
<1>1. c.list \in {"addRooms", "editRooms", "addDevices", "editDevices"}
  BY DEF ListsDue
<1> QED
  BY <1>1 DEF Answer, history

LEMMA ListedIs ==
  ASSUME DOMAIN stored \subseteq DocIDs, NEW r
  PROVE  /\ DOMAIN Listed(r) = DevicesIn(r)
         /\ \A d \in DevicesIn(r) :
              /\ d \in DocIDs /\ d \in DOMAIN stored /\ d[1] = r
              /\ Listed(r)[d].id = d
BY DEF Listed, DevicesIn

LEMMA HurryCounts ==
  ASSUME hurries \in Nat, NEW lists, Hurry(lists)
  PROVE  /\ hurries' \in Nat
         /\ hurries' = 0 => hurries = 0 /\ \A c \in calls : c.list \notin lists
BY DEF Hurry
-----------------------------------------------------------------------------
(* The edit form, while the user waits.                                      *)

(* What Edit may be given.                                                   *)
EditableNow(e) ==
  IF editRoom = None THEN e = NewDevice
  ELSE IF chosen = None THEN e = NewDevice \/ Editable(e, "")
  ELSE Editable(e, chosen[2])

LEMMA EditShown ==
  ASSUME EditForm
  PROVE  /\ EditableNow(editDevice) /\ IsDevice(editDevice)
         /\ editRoom # None /\ editDevice.id # None =>
              IsDevice(editDevice) /\ InRoom(editDevice, editRoom)
         /\ editDevice.id # None => editRoom \in Rooms
<1>1. CASE editRoom = None
  BY <1>1, NewDeviceIs DEF EditForm, EditableNow, editDevice
<1>2. CASE editRoom # None /\ chosen = None
  BY <1>2, NewDeviceIs DEF EditForm, EditableNow, editDevice, Editable
<1>3. CASE editRoom # None /\ chosen # None
  BY <1>3 DEF EditForm, EditableNow, editDevice, Editable
<1> QED
  BY <1>1, <1>2, <1>3

LEMMA EditStays ==
  ASSUME EditForm, NEW e, EditableNow(e), Edit(e), UNCHANGED <<editRoom, chosen, IDToUpdate>>
  PROVE  EditForm'
<1>1. CASE chosen = None
  <2>1. blank' = e /\ UNCHANGED editDeviceList
    BY <1>1 DEF Edit
  <2> QED
    BY <1>1, <2>1 DEF EditForm, EditableNow, Editable, IsDevice, InRoom
<1>2. CASE chosen # None
  <2>1. editDeviceList' = [editDeviceList EXCEPT ![chosen] = e] /\ UNCHANGED blank
    BY <1>2 DEF Edit
  <2>2. DOMAIN editDeviceList' = DOMAIN editDeviceList
    BY <2>1
  <2>3. editRoom \in Rooms /\ editRoom # None /\ Editable(e, chosen[2])
    BY <1>2 DEF EditForm, EditableNow
  <2>4. \A d \in DOMAIN editDeviceList' :
           d[1] = editRoom /\ Editable(editDeviceList'[d], d[2])
    <3> SUFFICES ASSUME NEW d \in DOMAIN editDeviceList
                 PROVE  d[1] = editRoom /\ Editable(editDeviceList'[d], d[2])
      BY <2>2
    <3>1. editDeviceList'[d] = IF d = chosen THEN e ELSE editDeviceList[d]
      BY <2>1
    <3>2. d[1] = editRoom /\ Editable(editDeviceList[d], d[2])
      BY <2>3 DEF EditForm
    <3> QED
      BY <2>3, <3>1, <3>2
  <2>5. \A d \in DOMAIN editDeviceList' : (d[1] = editRoom /\ Editable(editDeviceList[d], d[2]))'
    BY <2>4 DEF Editable, InRoom, IsDevice
  <2>6. blank = NewDevice \/ Editable(blank, "")
    BY <2>3 DEF EditForm
  <2>7. (blank = NewDevice \/ Editable(blank, ""))'
    BY <2>1, <2>6 DEF Editable, InRoom, IsDevice, NewDevice
  <2> QED
    BY <1>2, <2>2, <2>3, <2>5, <2>7 DEF EditForm
<1> QED
  BY <1>1, <1>2

LEMMA UpdatedEditable ==
  ASSUME EditForm, NEW e, EditableNow(e)
  PROVE  EditableNow(WithID(e, editRoom))
<1>1. CASE editRoom = None
  BY <1>1 DEF EditableNow, WithID
<1>2. CASE editRoom # None
  <2>1. editRoom \in Rooms
    BY <1>2 DEF EditForm
  <2>2. CASE e = NewDevice
    <3>1. /\ IsDevice(WithID(e, editRoom)) /\ InRoom(WithID(e, editRoom), editRoom)
          /\ WithID(e, editRoom).name = "" /\ WithID(e, editRoom).ports = {}
      BY <2>1, <2>2, NewDeviceIs, SameInRoom
    <3>2. chosen = None
      <4>1. ASSUME chosen # None PROVE FALSE
        <5>1. InRoom(e, editRoom)
          BY <1>2, <4>1 DEF EditableNow, Editable
        <5>2. e.id = None /\ e.name = ""
          BY <2>2, NewDeviceIs
        <5>3. <<editRoom, "">> = None
          BY <5>1, <5>2 DEF InRoom
        <5>4. <<editRoom, "">> \in FormIDs
          BY <2>1 DEF FormIDs
        <5> QED
          BY <5>3, <5>4, DeviceAssumption
      <4> QED
        BY <4>1
    <3> QED
      BY <1>2, <3>1, <3>2 DEF EditableNow, Editable
  <2>3. CASE e # NewDevice
    <3>1. PICK n : n = IF chosen = None THEN "" ELSE chosen[2]
      OBVIOUS
    <3>2. Editable(e, n)
      BY <1>2, <2>3, <3>1 DEF EditableNow
    <3>3. /\ IsDevice(WithID(e, editRoom)) /\ InRoom(WithID(e, editRoom), editRoom)
          /\ WithID(e, editRoom).name = e.name /\ WithID(e, editRoom).ports = e.ports
      BY <2>1, <3>2, SameInRoom DEF Editable
    <3>4. Editable(WithID(e, editRoom), n)
      BY <3>2, <3>3 DEF Editable
    <3> QED
      BY <1>2, <3>1, <3>4 DEF EditableNow
  <2> QED
    BY <2>2, <2>3
<1> QED
  BY <1>1, <1>2

(* A device with an ID is not a new one.                                     *)
LEMMA EditableWithID ==
  ASSUME EditForm, NEW e, EditableNow(e), e.id # None
  PROVE  /\ editRoom \in Rooms /\ editRoom # None
         /\ Editable(e, IF chosen = None THEN "" ELSE chosen[2])
BY NewDeviceIs DEF EditForm, EditableNow

LEMMA RenamedEditable ==
  ASSUME EditForm, editDevice.id # None, NEW n \in FreshNames \cup {editDevice.name}
  PROVE  EditableNow(WithID([editDevice EXCEPT !.name = n], editRoom))
<1>1. PICK e : e = editDevice
  OBVIOUS
<1>2. PICK m : m = IF chosen = None THEN "" ELSE chosen[2]
  OBVIOUS
<1>3. editRoom \in Rooms /\ editRoom # None /\ Editable(e, m)
  BY <1>1, <1>2, EditShown, EditableWithID
<1>4. IsDevice(e) /\ InRoom(e, editRoom) /\ n \in Names \cup FreshNames \cup {""}
  BY <1>1, <1>3 DEF Editable, IsDevice
<1> DEFINE w == WithID([e EXCEPT !.name = n], editRoom)
<1>5. IsDevice(w) /\ InRoom(w, editRoom) /\ w.name = n /\ w.ports = e.ports
  BY <1>3, <1>4, RenamedInRoom
<1> HIDE DEF w
<1>6. Editable(w, m)
  BY <1>1, <1>3, <1>5 DEF Editable
<1>7. EditableNow(w)
  BY <1>2, <1>3, <1>6 DEF EditableNow
<1> QED
  BY <1>1, <1>7 DEF w

LEMMA TypedEditable ==
  ASSUME EditForm, editDevice.id # None, NEW t \in Types
  PROVE  /\ EditableNow([editDevice EXCEPT !.type = t])
         /\ [editDevice EXCEPT !.type = t].id # None
<1>1. PICK e : e = editDevice
  OBVIOUS
<1>2. PICK m : m = IF chosen = None THEN "" ELSE chosen[2]
  OBVIOUS
<1>3. editRoom \in Rooms /\ editRoom # None /\ Editable(e, m)
  BY <1>1, <1>2, EditShown, EditableWithID
<1>4. Editable([e EXCEPT !.type = t], m) /\ [e EXCEPT !.type = t].id = e.id
  BY <1>3 DEF Editable, IsDevice, InRoom
<1> QED
  BY <1>1, <1>2, <1>3, <1>4 DEF EditableNow

LEMMA OfTypeEditable ==
  ASSUME EditForm, NEW e, EditableNow(e)
  PROVE  EditableNow(IF e.id = None THEN e ELSE OfTypeToEdit(e))
<1>1. CASE e.id = None
  BY <1>1
<1>2. CASE e.id # None
  <2>1. PICK m : m = IF chosen = None THEN "" ELSE chosen[2]
    OBVIOUS
  <2>2. editRoom \in Rooms /\ editRoom # None /\ Editable(e, m)
    BY <1>2, <2>1, EditableWithID
  <2> DEFINE w == OfTypeToEdit(e)
  <2>3. /\ IsDevice(w) /\ w.id = e.id /\ w.name = e.name
        /\ \A o \in w.ports : o[1] # Add
        /\ w.address \in {Fixed, HostOf(e.id)}
    BY <2>2, OfTypeToEditIs DEF Editable
  <2> HIDE DEF w
  <2>4. Editable(w, m)
    BY <2>2, <2>3 DEF Editable, InRoom
  <2>5. EditableNow(w)
    BY <2>1, <2>2, <2>4 DEF EditableNow
  <2> QED
    BY <1>2, <2>5 DEF w
<1> QED
  BY <1>1, <1>2
-----------------------------------------------------------------------------
(* What every step keeps, hasty users or not.                                *)

LEMMA DeviceInitHolds == InitDevices => DeviceInv
<1> SUFFICES ASSUME InitDevices PROVE DeviceInv
  OBVIOUS
<1>1. hurries \in Nat /\ DOMAIN stored \subseteq DocIDs
  BY DeviceAssumption DEF InitDevices
<1>2. AddForm
  BY NewDeviceIs DEF InitDevices, AddForm, PortsToAdd
<1>3. Heap
  <2>1. wire = [o \in Owners \X PortIDs |-> NoWire]
    BY DEF InitDevices
  <2>2. \A p \in PortIDs : <<Add, p>> \in Owners \X PortIDs
    BY DEF Owners
  <2>3. \A p \in PortIDs : wire[<<Add, p>>] = NoWire
    BY <2>1, <2>2
  <2> QED
    BY <2>1, <2>3 DEF Heap, IsWire, NoWire
<1>4. ListsDue
  BY DEF InitDevices, ListsDue
<1>5. DueForRoom /\ AddListOfRoom /\ WiresInRoom
  BY NewDeviceIs DEF InitDevices, DueForRoom, AddListOfRoom, WiresInRoom
<1>6. EditForm
  BY DEF InitDevices, EditForm, NoDevices
<1>7. Documents
  BY DeviceAssumption DEF InitDevices, Documents
<1>8. OwnDocument /\ CreatedInRoom
  BY DEF InitDevices, OwnDocument, CreatedInRoom
<1> QED
  BY <1>1, <1>2, <1>3, <1>4, <1>5, <1>6, <1>7, <1>8 DEF DeviceInv, Waiting

LEMMA HurriesStep ==
  ASSUME hurries \in Nat, [NextDevices]_deviceVars
  PROVE  hurries' \in Nat /\ (hurries' = 0 => hurries = 0)
<1>1. CASE UNCHANGED hurries
  BY <1>1
<1>2. CASE \E b \in Buildings : GetAddRoomList(b) \/ GetEditRoomList(b)
  BY <1>2, HurryCounts DEF GetAddRoomList, GetEditRoomList
<1>3. CASE \E r \in Rooms : GetAddDeviceList(r) \/ GetEditDeviceList(r)
  BY <1>3, HurryCounts DEF GetAddDeviceList, GetEditDeviceList
<1>4. ASSUME NEW c \in calls, Answer(c) \/ Lost(c) PROVE UNCHANGED hurries
  BY <1>4 DEF Answer, Lost
<1>5. LoadTypes \/ CreateDevice \/ UpdateDevice \/ UNCHANGED deviceVars => UNCHANGED hurries
  BY DEF LoadTypes, CreateDevice, UpdateDevice, deviceVars
<1>6. \A n : NameToAdd(n) \/ NameToEdit(n) => UNCHANGED hurries
  BY DEF NameToAdd, NameToEdit
<1>7. \A d : EditDeviceChanges(d) => UNCHANGED hurries
  BY DEF EditDeviceChanges
<1>8. \A t : ChooseAddType(t) \/ ChooseEditType(t) => UNCHANGED hurries
  BY DEF ChooseAddType, ChooseEditType
<1>9. \A o : WireToAdd(o) \/ WireToEdit(o) => UNCHANGED hurries
  BY DEF WireToAdd, WireToEdit
<1> QED
  BY <1>1, <1>2, <1>3, <1>4, <1>5, <1>6, <1>7, <1>8, <1>9 DEF NextDevices

LEMMA AddFormKept ==
  ASSUME DeviceInv, [NextDevices]_deviceVars
  PROVE  AddForm'
<1> DEFINE Good(at, d) ==
             /\ at \in Rooms \cup {None}
             /\ IsDevice(d) /\ d.name \in Names \cup {""}
             /\ d.ports = PortsToAdd(d.type)
             /\ IF at = None THEN d.id = None /\ d.type = None ELSE InRoom(d, at)
<1>1. Good(addRoom, addDevice)
  BY DEF DeviceInv, AddForm
<1>2. SUFFICES Good(addRoom', addDevice')
  BY <1>2 DEF AddForm, IsDevice, InRoom
<1>3. CASE UNCHANGED <<addRoom, addDevice>>
  BY <1>1, <1>3
<1>4. ASSUME NEW c \in calls, Answer(c) \/ Lost(c) PROVE UNCHANGED <<addRoom, addDevice>>
  BY <1>4 DEF Answer, Lost, addForm
<1>5. LoadTypes \/ CreateDevice \/ UpdateDevice \/ UNCHANGED deviceVars
        => UNCHANGED <<addRoom, addDevice>>
  BY DEF LoadTypes, CreateDevice, UpdateDevice, deviceVars, addForm
<1>6. \A x : GetEditRoomList(x) \/ GetEditDeviceList(x) \/ EditDeviceChanges(x)
        => UNCHANGED <<addRoom, addDevice>>
  BY DEF GetEditRoomList, GetEditDeviceList, EditDeviceChanges, addForm
<1>7. \A o : WireToAdd(o) \/ WireToEdit(o) => UNCHANGED <<addRoom, addDevice>>
  BY DEF WireToAdd, WireToEdit, addForm
<1>8. ASSUME NEW b, GetAddRoomList(b) PROVE Good(addRoom', addDevice')
  <2>1. addRoom' = None /\ addDevice' = NewDevice
    BY <1>8 DEF GetAddRoomList
  <2> QED
    BY <2>1, NewDeviceIs DEF PortsToAdd
<1>9. ASSUME NEW r \in Rooms, GetAddDeviceList(r) PROVE Good(addRoom', addDevice')
  <2>1. addRoom' = r /\ addDevice' = WithID(NewDevice, r)
    BY <1>9 DEF GetAddDeviceList
  <2>2. r # None
    BY DeviceAssumption
  <2> QED
    BY <2>1, <2>2, NewDeviceIs, SameInRoom DEF PortsToAdd
<1>10. ASSUME NEW n \in Names, NameToAdd(n) PROVE Good(addRoom', addDevice')
  <2>1. /\ addRoom' = addRoom /\ addRoom \in Rooms /\ addRoom # None
        /\ addDevice' = WithID([addDevice EXCEPT !.name = n], addRoom)
    BY <1>1, <1>10 DEF NameToAdd, UpdateID
  <2>2. IsDevice(addDevice) /\ InRoom(addDevice, addRoom)
    BY <1>1, <2>1
  <2>3. /\ IsDevice(addDevice') /\ InRoom(addDevice', addRoom) /\ addDevice'.name = n
        /\ addDevice'.type = addDevice.type /\ addDevice'.ports = addDevice.ports
    <3>1. PICK d : d = addDevice
      OBVIOUS
    <3>2. IsDevice(d) /\ InRoom(d, addRoom) /\ n \in Names \cup FreshNames \cup {""}
      BY <2>2, <3>1
    <3> DEFINE w == WithID([d EXCEPT !.name = n], addRoom)
    <3>3. IsDevice(w) /\ InRoom(w, addRoom) /\ w.name = n /\ w.type = d.type /\ w.ports = d.ports
      BY <2>1, <3>2, RenamedInRoom
    <3>4. addDevice' = w
      BY <2>1, <3>1
    <3> HIDE DEF w
    <3> QED
      BY <3>1, <3>3, <3>4
  <2> QED
    BY <1>1, <2>1, <2>3
<1>11. ASSUME NEW n, NameToEdit(n) PROVE Good(addRoom', addDevice')
  <2>1. addRoom' = addRoom /\ addDevice' = WithID(addDevice, addRoom)
    BY <1>11 DEF NameToEdit, UpdateID
  <2>2. CASE addRoom = None
    BY <1>1, <2>1, <2>2 DEF WithID
  <2>3. CASE addRoom # None
    <3>1. addRoom \in Rooms /\ IsDevice(addDevice) /\ InRoom(addDevice, addRoom)
      BY <1>1, <2>3
    <3>2. /\ IsDevice(addDevice') /\ InRoom(addDevice', addRoom)
          /\ addDevice'.name = addDevice.name
          /\ addDevice'.type = addDevice.type /\ addDevice'.ports = addDevice.ports
      BY <2>1, <3>1, SameInRoom
    <3> QED
      BY <1>1, <2>1, <2>3, <3>2
  <2> QED
    BY <2>2, <2>3
<1>12. ASSUME NEW t \in Types, ChooseAddType(t) PROVE Good(addRoom', addDevice')
  <2> DEFINE d == [addDevice EXCEPT !.type = t]
  <2>1. addRoom' = addRoom /\ addRoom # None /\ addDevice' = OfTypeToAdd(d)
    BY <1>12 DEF ChooseAddType, DeviceTypeChange
  <2>2. IsDevice(d) /\ d.type = t /\ d.id = addDevice.id /\ d.name = addDevice.name
    BY <1>1 DEF IsDevice
  <2> HIDE DEF d
  <2>3. /\ IsDevice(addDevice') /\ addDevice'.id = d.id /\ addDevice'.name = d.name
        /\ addDevice'.type = t /\ addDevice'.ports = PortsToAdd(t)
        /\ addDevice'.address \in {Fixed, HostOf(d.id)}
    BY <2>1, <2>2, OfTypeToAddIs
  <2> QED
    BY <1>1, <2>1, <2>2, <2>3 DEF InRoom
<1>13. ASSUME NEW t \in Types, ChooseEditType(t) PROVE Good(addRoom', addDevice')
  <2>1. addRoom' = addRoom /\ addDevice' = OfTypeToAdd(addDevice)
    BY <1>13 DEF ChooseEditType, DeviceTypeChange
  <2>2. IsDevice(addDevice)
    BY <1>1
  <2>3. /\ IsDevice(addDevice') /\ addDevice'.id = addDevice.id
        /\ addDevice'.name = addDevice.name /\ addDevice'.type = addDevice.type
        /\ addDevice'.ports = PortsToAdd(addDevice.type)
        /\ addDevice'.address \in {Fixed, HostOf(addDevice.id)}
    BY <2>1, <2>2, OfTypeToAddIs
  <2> QED
    BY <1>1, <2>1, <2>3 DEF InRoom
<1> HIDE DEF Good
<1> QED
  BY <1>3, <1>4, <1>5, <1>6, <1>7, <1>8, <1>9, <1>10, <1>11, <1>12, <1>13 DEF NextDevices

LEMMA StoredKept ==
  ASSUME DeviceInv, [NextDevices]_deviceVars
  PROVE  DOMAIN stored' \subseteq DocIDs
<1>1. DOMAIN stored \subseteq DocIDs
  BY DEF DeviceInv
<1>2. CASE CreateDevice
  <2>1. CASE UNCHANGED stored
    BY <1>1, <2>1
  <2>2. CASE /\ addDevice.name # "" /\ stored' = SaveDevice(stored, addDevice)
    <3>1. addRoom \in Rooms /\ addDevice.id = <<addRoom, addDevice.name>> /\ addDevice.name \in Names
      BY <1>2, <2>2 DEF CreateDevice, DeviceInv, AddForm, InRoom
    <3>2. DOMAIN stored' = DOMAIN stored \cup {addDevice.id}
      BY <2>2 DEF SaveDevice
    <3>3. addDevice.id \in DocIDs
      BY <3>1 DEF DocIDs
    <3> QED
      BY <1>1, <3>2, <3>3
  <2> QED
    BY <1>2, <2>1, <2>2 DEF CreateDevice
<1>3. CASE UpdateDevice
  <2>1. CASE UNCHANGED stored
    BY <1>1, <2>1
  <2>2. CASE /\ editDevice.id \in DOMAIN stored
             /\ stored' = SaveDevice(Restrict(stored, DOMAIN stored \ {IDToUpdate}), editDevice)
    BY <1>1, <2>2 DEF SaveDevice, Restrict
  <2> QED
    BY <1>3, <2>1, <2>2 DEF UpdateDevice
<1>4. CASE UNCHANGED stored
  BY <1>1, <1>4
<1>5. ASSUME NEW c \in calls, Answer(c) \/ Lost(c) PROVE UNCHANGED stored
  BY <1>5 DEF Answer, Lost
<1>6. LoadTypes \/ UNCHANGED deviceVars => UNCHANGED stored
  BY DEF LoadTypes, deviceVars
<1>7. \A x : GetAddRoomList(x) \/ GetEditRoomList(x) \/ GetAddDeviceList(x) \/ GetEditDeviceList(x)
        => UNCHANGED stored
  BY DEF GetAddRoomList, GetEditRoomList, GetAddDeviceList, GetEditDeviceList
<1>8. \A x : NameToAdd(x) \/ NameToEdit(x) \/ EditDeviceChanges(x) => UNCHANGED stored
  BY DEF NameToAdd, NameToEdit, EditDeviceChanges
<1>9. \A x : ChooseAddType(x) \/ ChooseEditType(x) => UNCHANGED stored
  BY DEF ChooseAddType, ChooseEditType
<1>10. \A x : WireToAdd(x) \/ WireToEdit(x) => UNCHANGED stored
  BY DEF WireToAdd, WireToEdit
<1> QED
  BY <1>2, <1>3, <1>4, <1>5, <1>6, <1>7, <1>8, <1>9, <1>10 DEF NextDevices

LEMMA EditKeepsDomain ==
  ASSUME NEW e, Edit(e)
  PROVE  DOMAIN editDeviceList' = DOMAIN editDeviceList
BY DEF Edit

LEMMA ListsDueKept ==
  ASSUME DeviceInv, [NextDevices]_deviceVars
  PROVE  ListsDue'
<1> DEFINE Lists == {"addRooms", "editRooms", "addDevices", "editDevices"}
           Due(cs, ds) == \A c \in cs :
                            /\ c \in [list : Lists, of : {c.of}]
                            /\ c.list = "editDevices" => \A d \in ds : d[1] # c.of
<1>1. Due(calls, DOMAIN editDeviceList)
  BY DEF DeviceInv, ListsDue
<1>2. SUFFICES Due(calls', DOMAIN editDeviceList')
  BY <1>2 DEF ListsDue
<1>3. CASE calls' \subseteq calls /\ DOMAIN editDeviceList' = DOMAIN editDeviceList
  BY <1>1, <1>3
<1> DEFINE Fewer == calls' \subseteq calls /\ DOMAIN editDeviceList' = DOMAIN editDeviceList
<1>4. ASSUME NEW c \in calls, Lost(c) PROVE Fewer
  BY <1>4 DEF Lost, editForm
<1>5. LoadTypes \/ CreateDevice \/ UpdateDevice \/ UNCHANGED deviceVars => Fewer
  BY DEF LoadTypes, CreateDevice, UpdateDevice, deviceVars, editForm
<1>6. \A n : NameToAdd(n) \/ NameToEdit(n) => Fewer
  BY EditKeepsDomain DEF NameToAdd, NameToEdit, UpdateID
<1>7. \A d : EditDeviceChanges(d) => Fewer
  BY DEF EditDeviceChanges
<1>8. \A t : ChooseAddType(t) \/ ChooseEditType(t) => Fewer
  <2> TAKE t
  <2>1. CASE ChooseAddType(t)
    <3>1. calls' = calls /\ \E e : Edit(e)
      BY <2>1 DEF ChooseAddType, DeviceTypeChange
    <3> QED
      BY <3>1, EditKeepsDomain
  <2>2. CASE ChooseEditType(t)
    <3>1. calls' = calls /\ \E e : Edit(e)
      BY <2>2 DEF ChooseEditType, DeviceTypeChange
    <3> QED
      BY <3>1, EditKeepsDomain
  <2> QED
    BY <2>1, <2>2
<1>9. \A o : WireToAdd(o) \/ WireToEdit(o) => Fewer
  BY DEF WireToAdd, WireToEdit, editForm
<1>10. ASSUME NEW c \in calls, Answer(c) PROVE Due(calls', DOMAIN editDeviceList')
  <2>1. ListsDue /\ DOMAIN stored \subseteq DocIDs
    BY DEF DeviceInv
  <2>2. /\ calls' = calls \ {c}
        /\ \/ UNCHANGED editDeviceList
           \/ c.list = "editDevices" /\ editDeviceList' = Listed(c.of)
    BY <1>10, <2>1, AnswerDoes
  <2>3. CASE UNCHANGED editDeviceList
    BY <1>1, <2>2, <2>3
  <2>4. CASE c.list = "editDevices" /\ editDeviceList' = Listed(c.of)
    <3>1. DOMAIN editDeviceList' = DevicesIn(c.of) /\ \A d \in DevicesIn(c.of) : d[1] = c.of
      BY <2>1, <2>4, ListedIs
    <3>2. \A k \in calls' : k.list = "editDevices" => k.of # c.of
      BY <1>1, <2>2, <2>4
    <3> QED
      BY <1>1, <2>2, <3>1, <3>2
  <2> QED
    BY <2>2, <2>3, <2>4
<1>11. ASSUME NEW b, GetAddRoomList(b) \/ GetEditRoomList(b) \/ GetAddDeviceList(b)
       PROVE  Due(calls', DOMAIN editDeviceList')
  <2>1. PICK l \in {"addRooms", "editRooms", "addDevices"} : calls' = calls \cup {[list |-> l, of |-> b]}
    BY <1>11 DEF GetAddRoomList, GetEditRoomList, GetAddDeviceList, Ask
  <2>2. DOMAIN editDeviceList' = DOMAIN editDeviceList
    BY <1>11, EditKeepsDomain DEF GetAddRoomList, GetEditRoomList, GetAddDeviceList, editForm
  <2> QED
    BY <1>1, <2>1, <2>2
<1>12. ASSUME NEW r, GetEditDeviceList(r) PROVE Due(calls', DOMAIN editDeviceList')
  <2>1. calls' = calls \cup {[list |-> "editDevices", of |-> r]} /\ DOMAIN editDeviceList' = {}
    BY <1>12 DEF GetEditDeviceList, Ask, NoDevices
  <2> QED
    BY <1>1, <2>1
<1> HIDE DEF Due
<1> QED
  BY <1>3, <1>4, <1>5, <1>6, <1>7, <1>8, <1>9, <1>10, <1>11, <1>12 DEF NextDevices

-----------------------------------------------------------------------------
(* The heap of ports.                                                        *)

LEMMA WireIs ==
  ASSUME NEW o, NEW srcs, NEW dests, Wire(o, srcs, dests)
  PROVE  /\ DOMAIN wire' = DOMAIN wire
         /\ \A x \in DOMAIN wire : x # o => wire'[x] = wire[x]
         /\ o \in DOMAIN wire /\ IsWire(wire[o]) =>
              /\ IsWire(wire'[o])
              /\ wire'[o].source \in {wire[o].source, None} \cup srcs
              /\ wire'[o].destination \in {wire[o].destination, None} \cup dests
<1>1. CASE \E s \in srcs \cup {None} : wire' = [wire EXCEPT ![o].source = s]
  BY <1>1 DEF IsWire
<1>2. CASE \E d \in dests \cup {None} : wire' = [wire EXCEPT ![o].destination = d]
  BY <1>2 DEF IsWire
<1> QED
  BY <1>1, <1>2 DEF Wire

LEMMA FreshIs ==
  /\ DOMAIN Fresh(wire) = DOMAIN wire
  /\ \A x \in DOMAIN wire : Fresh(wire)[x] = IF x[1] = Add THEN NoWire ELSE wire[x]
BY DEF Fresh

LEMMA DefaultWiringIs ==
  ASSUME NEW d, NEW srcs, NEW dests, NEW w \in DefaultWiring(d, srcs, dests)
  PROVE  /\ DOMAIN w = DOMAIN wire
         /\ \A x \in DOMAIN wire :
              \/ w[x] = Fresh(wire)[x]
              \/ /\ x \in d.ports
                 /\ w[x] \in [source : srcs \cup {None}, destination : dests \cup {None}]
<1>1. CASE d.type \notin DOMAIN DefaultPorts
  BY <1>1, FreshIs DEF DefaultWiring
<1>2. CASE d.type \in DOMAIN DefaultPorts
  <2>1. PICK v \in [d.ports -> [source : srcs \cup {None}, destination : dests \cup {None}]] :
           w = [o \in DOMAIN wire |-> IF o \in d.ports THEN v[o] ELSE Fresh(wire)[o]]
    BY <1>2 DEF DefaultWiring
  <2> QED
    BY <2>1
<1> QED
  BY <1>1, <1>2

(* How a new type rewires: ports of the device to add only.                  *)
LEMMA AddTypeRewires ==
  ASSUME AddForm', NEW t, ChooseAddType(t)
  PROVE  /\ DOMAIN wire' = DOMAIN wire
         /\ \A x \in DOMAIN wire :
              \/ wire'[x] = IF x[1] = Add THEN NoWire ELSE wire[x]
              \/ /\ x \in addDevice'.ports /\ x[1] = Add
                 /\ wire'[x] \in [source : sources'.add \cup {None},
                                  destination : destinations'.add \cup {None}]
<1>1. wire' = Fresh(wire) \/ wire' \in DefaultWiring(addDevice', sources'.add, destinations'.add)
  BY DEF ChooseAddType
<1>2. \A x \in addDevice'.ports : x[1] = Add
  <2>1. \A u : \A x \in PortsToAdd(u) : x[1] = Add
    BY DEF PortsToAdd
  <2>2. addDevice'.ports = PortsToAdd(addDevice'.type)
    BY DEF AddForm, PortsToAdd
  <2> QED
    BY <2>1, <2>2
<1>3. CASE wire' = Fresh(wire)
  BY <1>3, FreshIs
<1>4. CASE wire' \in DefaultWiring(addDevice', sources'.add, destinations'.add)
  <2>1. PICK d, srcs, dests, w : /\ d = addDevice' /\ srcs = sources'.add
                                 /\ dests = destinations'.add /\ w = wire'
    OBVIOUS
  <2>2. w \in DefaultWiring(d, srcs, dests)
    BY <1>4, <2>1
  <2>3. /\ DOMAIN w = DOMAIN wire
        /\ \A x \in DOMAIN wire :
             \/ w[x] = Fresh(wire)[x]
             \/ /\ x \in d.ports
                /\ w[x] \in [source : srcs \cup {None}, destination : dests \cup {None}]
    BY <2>2, DefaultWiringIs
  <2> QED
    BY <1>2, <2>1, <2>3, FreshIs
<1> QED
  BY <1>1, <1>3, <1>4

(* What happens to the heap in a step.                                       *)
LEMMA WireSteps ==
  ASSUME DeviceInv, [NextDevices]_deviceVars
  PROVE  \/ UNCHANGED wire
         \/ \E c \in calls :
              /\ c.list = "editDevices" /\ editDeviceList' = Listed(c.of)
              /\ UNCHANGED <<addRoom, addDevice>>
              /\ wire' = [o \in DOMAIN wire |->
                   IF o[1] \in DevicesIn(c.of) /\ o[2] \in DOMAIN stored[o[1]].wires
                     THEN stored[o[1]].wires[o[2]] ELSE wire[o]]
         \/ \E o \in DOMAIN wire : WireToAdd(o) \/ WireToEdit(o)
         \/ \E t \in Types : ChooseAddType(t)
         \/ \E t \in Types : ChooseEditType(t) /\ wire' = Fresh(wire)
<1>1. ASSUME NEW c \in calls, Lost(c) PROVE UNCHANGED wire
  BY <1>1 DEF Lost
<1>2. LoadTypes \/ CreateDevice \/ UpdateDevice \/ UNCHANGED deviceVars => UNCHANGED wire
  BY DEF LoadTypes, CreateDevice, UpdateDevice, deviceVars
<1>3. \A x : GetAddRoomList(x) \/ GetEditRoomList(x) \/ GetAddDeviceList(x) \/ GetEditDeviceList(x)
        => UNCHANGED wire
  BY DEF GetAddRoomList, GetEditRoomList, GetAddDeviceList, GetEditDeviceList
<1>4. \A x : NameToAdd(x) \/ NameToEdit(x) \/ EditDeviceChanges(x) => UNCHANGED wire
  BY DEF NameToAdd, NameToEdit, EditDeviceChanges
<1>5. \A t : ChooseEditType(t) => wire' = Fresh(wire)
  BY DEF ChooseEditType
<1>6. ASSUME NEW c \in calls, Answer(c)
      PROVE  \/ UNCHANGED wire
             \/ /\ c.list = "editDevices" /\ editDeviceList' = Listed(c.of)
                /\ UNCHANGED <<addRoom, addDevice>>
                /\ wire' = [o \in DOMAIN wire |->
                     IF o[1] \in DevicesIn(c.of) /\ o[2] \in DOMAIN stored[o[1]].wires
                       THEN stored[o[1]].wires[o[2]] ELSE wire[o]]
  <2>1. ListsDue
    BY DEF DeviceInv
  <2> QED
    BY <1>6, <2>1, AnswerDoes
<1> QED
  BY <1>1, <1>2, <1>3, <1>4, <1>5, <1>6 DEF NextDevices
LEMMA AddPorts ==
  ASSUME AddForm
  PROVE  \A o \in addDevice.ports : o[1] = Add
<1>1. \A t : \A o \in PortsToAdd(t) : o[1] = Add
  BY DEF PortsToAdd
<1> QED
  BY <1>1 DEF AddForm

LEMMA HeapKept ==
  ASSUME DeviceInv, [NextDevices]_deviceVars
  PROVE  Heap'
<1> DEFINE Good(w) == DOMAIN w = Owners \X PortIDs /\ \A p \in PortIDs : IsWire(w[<<Add, p>>])
<1>1. Good(wire)
  BY DEF DeviceInv, Heap
<1>2. SUFFICES Good(wire')
  BY <1>2 DEF Heap, IsWire
<1>3. \A p \in PortIDs : <<Add, p>> \in DOMAIN wire /\ <<Add, p>>[1] = Add
  BY <1>1 DEF Owners
<1>4. CASE UNCHANGED wire
  BY <1>1, <1>4
<1>5. ASSUME NEW c \in calls,
             wire' = [o \in DOMAIN wire |->
                        IF o[1] \in DevicesIn(c.of) /\ o[2] \in DOMAIN stored[o[1]].wires
                          THEN stored[o[1]].wires[o[2]] ELSE wire[o]]
      PROVE  Good(wire')
  <2>1. Add \notin DevicesIn(c.of)
    BY DeviceAssumption DEF DeviceInv, DevicesIn
  <2>2. DOMAIN wire' = DOMAIN wire /\ \A p \in PortIDs : wire'[<<Add, p>>] = wire[<<Add, p>>]
    BY <1>3, <1>5, <2>1
  <2> QED
    BY <1>1, <2>2
<1>6. ASSUME NEW o \in DOMAIN wire, NEW srcs, NEW dests, Wire(o, srcs, dests)
      PROVE  Good(wire')
  <2>1. /\ DOMAIN wire' = DOMAIN wire
        /\ \A x \in DOMAIN wire : x # o => wire'[x] = wire[x]
        /\ IsWire(wire[o]) => IsWire(wire'[o])
    BY <1>6, WireIs
  <2>2. ASSUME NEW p \in PortIDs PROVE IsWire(wire'[<<Add, p>>])
    BY <1>1, <1>3, <2>1
  <2> HIDE DEF Good
  <2> QED
    BY <1>1, <2>1, <2>2 DEF Good
<1>7. ASSUME NEW o \in DOMAIN wire, WireToAdd(o) \/ WireToEdit(o) PROVE Good(wire')
  <2>1. \E srcs, dests : Wire(o, srcs, dests)
    BY <1>7 DEF WireToAdd, WireToEdit
  <2> QED
    BY <1>6, <2>1
<1>8. ASSUME NEW t \in Types, ChooseAddType(t) PROVE Good(wire')
  <2>1. AddForm'
    BY AddFormKept
  <2>2. /\ DOMAIN wire' = DOMAIN wire
        /\ \A x \in DOMAIN wire :
             \/ wire'[x] = IF x[1] = Add THEN NoWire ELSE wire[x]
             \/ /\ x \in addDevice'.ports /\ x[1] = Add
                /\ wire'[x] \in [source : sources'.add \cup {None},
                                 destination : destinations'.add \cup {None}]
    BY <1>8, <2>1, AddTypeRewires
  <2>3. ASSUME NEW p \in PortIDs PROVE IsWire(wire'[<<Add, p>>])
    <3>1. \/ wire'[<<Add, p>>] = NoWire
          \/ wire'[<<Add, p>>] \in [source : sources'.add \cup {None},
                                    destination : destinations'.add \cup {None}]
      BY <1>3, <2>2
    <3> QED
      BY <3>1 DEF IsWire, NoWire
  <2> QED
    BY <1>1, <2>2, <2>3
<1>9. CASE wire' = Fresh(wire)
  <2>1. \A p \in PortIDs : wire'[<<Add, p>>] = NoWire
    BY <1>3, <1>9, FreshIs
  <2> QED
    BY <1>1, <1>9, <2>1, FreshIs DEF IsWire, NoWire
<1> HIDE DEF Good
<1> QED
  BY <1>4, <1>5, <1>7, <1>8, <1>9, WireSteps

(* What is done in the add form stays apart from the ports of types and of   *)
(* listed devices.                                                           *)
LEMMA AddStaysApart ==
  ASSUME DeviceInv, [NextDevices]_deviceVars, NEW o \in DOMAIN wire,
         wire'[o] # wire[o], o[1] # Add
  PROVE  o \in editDevice.ports \/ editDeviceList' # editDeviceList
<1>1. ASSUME NEW c \in calls, c.list = "editDevices", editDeviceList' = Listed(c.of),
             wire' = [x \in DOMAIN wire |->
                        IF x[1] \in DevicesIn(c.of) /\ x[2] \in DOMAIN stored[x[1]].wires
                          THEN stored[x[1]].wires[x[2]] ELSE wire[x]]
      PROVE  editDeviceList' # editDeviceList
  <2>1. o[1] \in DevicesIn(c.of)
    BY <1>1
  <2>2. DOMAIN editDeviceList' = DevicesIn(c.of) /\ o[1][1] = c.of
    BY <1>1, <2>1, ListedIs DEF DeviceInv
  <2>3. o[1] \notin DOMAIN editDeviceList
    BY <1>1, <2>2 DEF DeviceInv, ListsDue
  <2> QED
    BY <2>1, <2>2, <2>3
<1>2. ASSUME NEW x \in DOMAIN wire, WireToAdd(x) PROVE FALSE
  <2>1. x[1] = Add
    BY <1>2, AddPorts DEF WireToAdd, DeviceInv
  <2>2. \E srcs, dests : Wire(x, srcs, dests)
    BY <1>2 DEF WireToAdd
  <2> QED
    BY <2>1, <2>2, WireIs
<1>3. ASSUME NEW x \in DOMAIN wire, WireToEdit(x) PROVE o \in editDevice.ports
  <2>1. x \in editDevice.ports /\ \E srcs, dests : Wire(x, srcs, dests)
    BY <1>3 DEF WireToEdit
  <2>2. x = o
    BY <2>1, WireIs
  <2> QED
    BY <2>1, <2>2
<1>4. ASSUME NEW t \in Types, ChooseAddType(t) PROVE FALSE
  <2>1. AddForm'
    BY AddFormKept
  <2> QED
    BY <1>4, <2>1, AddTypeRewires
<1>5. wire' # Fresh(wire)
  BY FreshIs
<1> QED
  BY <1>1, <1>2, <1>3, <1>4, <1>5, WireSteps
-----------------------------------------------------------------------------
(* What every step keeps as long as the user lets lists arrive.              *)

LEMMA WaitingNow ==
  ASSUME DeviceInv, [NextDevices]_deviceVars, hurries' = 0
  PROVE  Waiting
BY HurriesStep DEF DeviceInv

LEMMA DueForRoomKept ==
  ASSUME DeviceInv, [NextDevices]_deviceVars, hurries' = 0
  PROVE  DueForRoom'
<1> DEFINE Fine(c, eRoom, ch, aRoom) ==
             /\ c.list = "editDevices" => eRoom # None /\ c.of = eRoom /\ ch = None
             /\ c.list = "addDevices" => aRoom # None /\ c.of = aRoom
           All == \A c \in calls' : Fine(c, editRoom', chosen', addRoom')
<1>1. \A c \in calls : Fine(c, editRoom, chosen, addRoom)
  BY WaitingNow DEF Waiting, DueForRoom
<1>2. hurries \in Nat
  BY DEF DeviceInv
<1>3. SUFFICES All
  BY <1>3 DEF DueForRoom
<1>4. CASE calls' \subseteq calls /\ UNCHANGED <<editRoom, chosen, addRoom>>
  BY <1>1, <1>4
<1> DEFINE Fewer == calls' \subseteq calls /\ UNCHANGED <<editRoom, chosen, addRoom>>
<1>5. ASSUME NEW c \in calls, Answer(c) \/ Lost(c) PROVE Fewer
  BY <1>5 DEF Answer, Lost, addForm, editForm
<1>6. LoadTypes \/ CreateDevice \/ UpdateDevice \/ UNCHANGED deviceVars => Fewer
  BY DEF LoadTypes, CreateDevice, UpdateDevice, deviceVars, addForm, editForm
<1>7. \A n : NameToAdd(n) \/ NameToEdit(n) => Fewer
  BY DEF NameToAdd, NameToEdit
<1>8. \A t : ChooseAddType(t) \/ ChooseEditType(t) => Fewer
  BY DEF ChooseAddType, ChooseEditType
<1>9. \A o : WireToAdd(o) \/ WireToEdit(o) => Fewer
  BY DEF WireToAdd, WireToEdit, addForm, editForm
<1>10. ASSUME NEW d, EditDeviceChanges(d) PROVE All
  <2>1. /\ \A c \in calls : c.list # "editDevices"
        /\ UNCHANGED <<calls, addRoom>>
    BY <1>10 DEF EditDeviceChanges, addForm
  <2> QED
    BY <1>1, <2>1
<1>11. ASSUME NEW b, GetAddRoomList(b) PROVE All
  <2>1. /\ Hurry({"addRooms", "addDevices"})
        /\ calls' = calls \cup {[list |-> "addRooms", of |-> b]}
        /\ UNCHANGED <<editRoom, chosen>>
    BY <1>11 DEF GetAddRoomList, Ask, editForm
  <2>2. \A c \in calls : c.list \notin {"addRooms", "addDevices"}
    BY <1>2, <2>1, HurryCounts
  <2> QED
    BY <1>1, <2>1, <2>2
<1>12. ASSUME NEW b, GetEditRoomList(b) PROVE All
  <2>1. /\ Hurry({"editRooms", "editDevices"})
        /\ calls' = calls \cup {[list |-> "editRooms", of |-> b]}
        /\ UNCHANGED addRoom
    BY <1>12 DEF GetEditRoomList, Ask, addForm
  <2>2. \A c \in calls : c.list \notin {"editRooms", "editDevices"}
    BY <1>2, <2>1, HurryCounts
  <2> QED
    BY <1>1, <2>1, <2>2
<1>13. ASSUME NEW r \in Rooms, GetAddDeviceList(r) PROVE All
  <2>1. /\ Hurry({"addRooms", "addDevices"})
        /\ calls' = calls \cup {[list |-> "addDevices", of |-> r]}
        /\ addRoom' = r /\ UNCHANGED <<editRoom, chosen>>
    BY <1>13 DEF GetAddDeviceList, Ask
  <2>2. \A c \in calls : c.list \notin {"addRooms", "addDevices"}
    BY <1>2, <2>1, HurryCounts
  <2>3. r # None
    BY DeviceAssumption
  <2> QED
    BY <1>1, <2>1, <2>2, <2>3
<1>14. ASSUME NEW r \in Rooms, GetEditDeviceList(r) PROVE All
  <2>1. /\ Hurry({"editRooms", "editDevices"})
        /\ calls' = calls \cup {[list |-> "editDevices", of |-> r]}
        /\ editRoom' = r /\ chosen' = None /\ UNCHANGED addRoom
    BY <1>14 DEF GetEditDeviceList, Ask, addForm
  <2>2. \A c \in calls : c.list \notin {"editRooms", "editDevices"}
    BY <1>2, <2>1, HurryCounts
  <2>3. r # None
    BY DeviceAssumption
  <2> QED
    BY <1>1, <2>1, <2>2, <2>3
<1> HIDE DEF All
<1> QED
  BY <1>4, <1>5, <1>6, <1>7, <1>8, <1>9, <1>10, <1>11, <1>12, <1>13, <1>14 DEF NextDevices

LEMMA AddListKept ==
  ASSUME DeviceInv, [NextDevices]_deviceVars, hurries' = 0
  PROVE  AddListOfRoom'
<1> DEFINE Fine(list, at) ==
             at # None => \A d \in DOMAIN list : list[d].id = d /\ d[1] = at
<1>1. Fine(addDeviceList, addRoom)
  BY WaitingNow DEF Waiting, AddListOfRoom
<1>2. SUFFICES Fine(addDeviceList', addRoom')
  BY <1>2 DEF AddListOfRoom
<1> DEFINE Same == UNCHANGED <<addDeviceList, addRoom>>
<1>3. CASE Same
  BY <1>1, <1>3
<1>4. ASSUME NEW c \in calls, Lost(c) PROVE Same
  BY <1>4 DEF Lost, addForm
<1>5. LoadTypes \/ CreateDevice \/ UpdateDevice \/ UNCHANGED deviceVars => Same
  BY DEF LoadTypes, CreateDevice, UpdateDevice, deviceVars, addForm
<1>6. \A x : NameToAdd(x) \/ NameToEdit(x) \/ EditDeviceChanges(x) => Same
  BY DEF NameToAdd, NameToEdit, EditDeviceChanges, addForm
<1>7. \A t : ChooseAddType(t) \/ ChooseEditType(t) => Same
  BY DEF ChooseAddType, ChooseEditType
<1>8. \A o : WireToAdd(o) \/ WireToEdit(o) => Same
  BY DEF WireToAdd, WireToEdit, addForm
<1>9. \A x : GetEditRoomList(x) \/ GetEditDeviceList(x) => Same
  BY DEF GetEditRoomList, GetEditDeviceList, addForm
<1>10. ASSUME NEW c \in calls, Answer(c) PROVE Fine(addDeviceList', addRoom')
  <2>1. /\ UNCHANGED addRoom
        /\ \/ UNCHANGED addDeviceList
           \/ c.list = "addDevices" /\ addDeviceList' = Listed(c.of)
    BY <1>10, AnswerDoes DEF DeviceInv
  <2>2. CASE c.list = "addDevices" /\ addDeviceList' = Listed(c.of)
    <3>1. c.of = addRoom
      BY <2>2, WaitingNow DEF Waiting, DueForRoom
    <3>2. DOMAIN addDeviceList' = DevicesIn(addRoom)
          /\ \A d \in DevicesIn(addRoom) : d[1] = addRoom /\ addDeviceList'[d].id = d
      BY <2>2, <3>1, ListedIs DEF DeviceInv
    <3> QED
      BY <2>1, <3>2
  <2> QED
    BY <1>3, <2>1, <2>2
<1>11. \A b : GetAddRoomList(b) => addRoom' = None
  BY DEF GetAddRoomList
<1>12. \A r : GetAddDeviceList(r) => DOMAIN addDeviceList' = {}
  BY DEF GetAddDeviceList, NoDevices
<1>13. addRoom' = None \/ DOMAIN addDeviceList' = {} => Fine(addDeviceList', addRoom')
  OBVIOUS
<1> HIDE DEF Fine
<1> QED
  BY <1>3, <1>4, <1>5, <1>6, <1>7, <1>8, <1>9, <1>10, <1>11, <1>12, <1>13 DEF NextDevices

LEMMA DocumentsKept ==
  ASSUME DeviceInv, [NextDevices]_deviceVars, hurries' = 0
  PROVE  Documents'
<1> DEFINE Good(doc, d) == doc.type \in Types \cup {None} /\ doc.address \in {None, Fixed, HostOf(d)}
<1>1. \A d \in DOMAIN stored : Good(stored[d], d)
  BY WaitingNow DEF Waiting, Documents
<1>2. SUFFICES \A d \in DOMAIN stored' : Good(stored'[d], d)
  BY <1>2 DEF Documents
<1>3. CASE UNCHANGED stored
  BY <1>1, <1>3
<1>4. ASSUME NEW others, NEW dev, \A d \in DOMAIN others : Good(others[d], d),
             IsDevice(dev), dev.address \in {None, Fixed, HostOf(dev.id)},
             stored' = SaveDevice(others, dev)
      PROVE  \A d \in DOMAIN stored' : Good(stored'[d], d)
  <2>1. Good(Body(dev), dev.id)
    BY <1>4 DEF Body, IsDevice
  <2>2. /\ DOMAIN stored' = DOMAIN others \cup {dev.id}
        /\ \A d \in DOMAIN stored' : stored'[d] = IF d = dev.id THEN Body(dev) ELSE others[d]
    BY <1>4 DEF SaveDevice
  <2> HIDE DEF Good
  <2> QED
    BY <1>4, <2>1, <2>2
<1>5. ASSUME CreateDevice, stored' = SaveDevice(stored, addDevice)
      PROVE  \A d \in DOMAIN stored' : Good(stored'[d], d)
  <2>1. IsDevice(addDevice) /\ addDevice.address \in {None, Fixed, HostOf(addDevice.id)}
    BY <1>5 DEF CreateDevice, DeviceInv, AddForm, InRoom
  <2> HIDE DEF Good
  <2> QED
    BY <1>1, <1>4, <1>5, <2>1
<1>6. ASSUME UpdateDevice,
             stored' = SaveDevice(Restrict(stored, DOMAIN stored \ {IDToUpdate}), editDevice)
      PROVE  \A d \in DOMAIN stored' : Good(stored'[d], d)
  <2>1. PICK others : others = Restrict(stored, DOMAIN stored \ {IDToUpdate})
    OBVIOUS
  <2>2. \A d \in DOMAIN others : Good(others[d], d)
    BY <1>1, <2>1 DEF Restrict
  <2>3. EditForm /\ editDevice.id # None
    BY <1>6, WaitingNow DEF Waiting, UpdateDevice
  <2>4. IsDevice(editDevice) /\ editDevice.address \in {None, Fixed, HostOf(editDevice.id)}
    BY <2>3, EditShown, EditableWithID DEF Editable, InRoom
  <2> HIDE DEF Good
  <2> QED
    BY <1>4, <1>6, <2>1, <2>2, <2>4
<1>7. ASSUME NEW c \in calls, Answer(c) \/ Lost(c) PROVE UNCHANGED stored
  BY <1>7 DEF Answer, Lost
<1>8. LoadTypes \/ UNCHANGED deviceVars => UNCHANGED stored
  BY DEF LoadTypes, deviceVars
<1>9. \A x : GetAddRoomList(x) \/ GetEditRoomList(x) \/ GetAddDeviceList(x) \/ GetEditDeviceList(x)
        => UNCHANGED stored
  BY DEF GetAddRoomList, GetEditRoomList, GetAddDeviceList, GetEditDeviceList
<1>10. \A x : NameToAdd(x) \/ NameToEdit(x) \/ EditDeviceChanges(x) => UNCHANGED stored
  BY DEF NameToAdd, NameToEdit, EditDeviceChanges
<1>11. \A x : ChooseAddType(x) \/ ChooseEditType(x) => UNCHANGED stored
  BY DEF ChooseAddType, ChooseEditType
<1>12. \A x : WireToAdd(x) \/ WireToEdit(x) => UNCHANGED stored
  BY DEF WireToAdd, WireToEdit
<1>13. CreateDevice => UNCHANGED stored \/ stored' = SaveDevice(stored, addDevice)
  BY DEF CreateDevice
<1>14. UpdateDevice =>
         \/ UNCHANGED stored
         \/ stored' = SaveDevice(Restrict(stored, DOMAIN stored \ {IDToUpdate}), editDevice)
  BY DEF UpdateDevice
<1> HIDE DEF Good
<1> QED
  BY <1>3, <1>5, <1>6, <1>7, <1>8, <1>9, <1>10, <1>11, <1>12, <1>13, <1>14 DEF NextDevices
(* A list that arrives for the room of the edit form fits it.                *)
LEMMA ListedFits ==
  ASSUME DeviceInv, Waiting, NEW c \in calls, Answer(c), editDeviceList' = Listed(c.of),
         c.list = "editDevices"
  PROVE  EditForm'
<1>1. /\ UNCHANGED <<editRoom, chosen, blank, IDToUpdate>>
      /\ c.of = editRoom /\ editRoom # None /\ chosen = None /\ editRoom \in Rooms
  BY AnswerDoes DEF DeviceInv, Waiting, DueForRoom, EditForm
<1>2. /\ DOMAIN editDeviceList' = DevicesIn(editRoom)
      /\ \A d \in DevicesIn(editRoom) : d \in DocIDs /\ d \in DOMAIN stored /\ d[1] = editRoom
  BY <1>1, ListedIs DEF DeviceInv
<1>3. ASSUME NEW d \in DevicesIn(editRoom) PROVE Editable(editDeviceList'[d], d[2])
  <2> DEFINE e == [id |-> d, name |-> d[2], type |-> stored[d].type,
                   address |-> stored[d].address,
                   ports |-> {<<d, p>> : p \in DOMAIN stored[d].wires}]
  <2>1. editDeviceList'[d] = e
    BY <1>1 DEF Listed
  <2>2. stored[d].type \in Types \cup {None} /\ stored[d].address \in {None, Fixed, HostOf(d)}
    BY <1>2 DEF Waiting, Documents
  <2>3. d = <<editRoom, d[2]>> /\ d[2] \in Names /\ d # Add
    <3>1. d \in DocIDs /\ d[1] = editRoom
      BY <1>2
    <3>2. PICK r \in Rooms, n \in Names : d = <<r, n>>
      BY <3>1 DEF DocIDs
    <3>3. d # Add
      BY <3>1, DeviceAssumption
    <3> QED
      BY <3>1, <3>2, <3>3
  <2>4. IsDevice(e)
    BY <2>2, <2>3 DEF IsDevice
  <2>5. InRoom(e, editRoom)
    BY <2>2, <2>3 DEF InRoom
  <2>6. \A o \in e.ports : o[1] # Add
    BY <2>3
  <2>7. e.name \in FreshNames \cup {d[2]}
    OBVIOUS
  <2> HIDE DEF e
  <2> QED
    BY <2>1, <2>4, <2>5, <2>6, <2>7 DEF Editable
<1>4. \A d \in DOMAIN editDeviceList' : (d[1] = editRoom /\ Editable(editDeviceList[d], d[2]))'
  BY <1>1, <1>2, <1>3 DEF Editable, InRoom, IsDevice
<1>5. (blank = NewDevice \/ Editable(blank, ""))'
  BY <1>1 DEF Waiting, EditForm, Editable, InRoom, IsDevice, NewDevice
<1> QED
  BY <1>1, <1>2, <1>4, <1>5 DEF EditForm

(* A device chosen from the list goes by the ID it has there.                *)
LEMMA ChosenFits ==
  ASSUME EditForm, NEW d \in DocIDs, EditDeviceChanges(d)
  PROVE  EditForm'
<1> DEFINE dev   == editDeviceList[d]
           known == typesLoaded /\ dev.type # None
           lists == known /\ ~ListsThrow(editDeviceList, dev.type)
           type  == IF known THEN dev.type ELSE None
           ports == IF lists THEN MissingPorts(dev) ELSE dev.ports
           now   == [dev EXCEPT !.type = type, !.ports = ports]
<1>1. /\ editRoom # None /\ d \in DOMAIN editDeviceList
      /\ chosen' = d /\ IDToUpdate' = dev.id /\ UNCHANGED <<editRoom, blank>>
  BY DEF EditDeviceChanges, IDOf
<1>2. editRoom \in Rooms /\ d[1] = editRoom /\ Editable(dev, d[2])
  BY <1>1 DEF EditForm
<1>3. editDeviceList' = [editDeviceList EXCEPT ![d] = now]
  BY <1>2 DEF EditDeviceChanges, Editable, IsDevice
<1>4. Editable(now, d[2])
  <2>1. known => dev.type \in Types
    BY <1>2 DEF Editable, IsDevice
  <2>2. \A o \in MissingPorts(dev) : o \in dev.ports \/ o[1] = dev.type
    BY DEF MissingPorts
  <2>3. \A o \in ports : o[1] # Add
    BY <1>2, <2>1, <2>2, DeviceAssumption DEF Editable
  <2>4. type \in Types \cup {None}
    BY <2>1
  <2> HIDE DEF ports, type, dev
  <2>5. IsDevice(now) /\ now.id = dev.id /\ now.name = dev.name /\ now.address = dev.address
        /\ now.ports = ports
    BY <1>2, <2>4 DEF Editable, IsDevice
  <2> HIDE DEF now
  <2> QED
    BY <1>2, <2>3, <2>5 DEF Editable, InRoom
<1>5. IDToUpdate' \in {d} \cup Rooms \X FreshNames
  <2>1. dev.id = <<editRoom, dev.name>> /\ dev.name \in FreshNames \cup {d[2]}
    BY <1>2 DEF Editable, InRoom
  <2>2. d = <<editRoom, d[2]>>
    BY <1>2 DEF DocIDs
  <2> HIDE DEF dev
  <2> QED
    BY <1>1, <1>2, <2>1, <2>2
<1> HIDE DEF now
<1>6. DOMAIN editDeviceList' = DOMAIN editDeviceList
  BY <1>3
<1>7. \A e \in DOMAIN editDeviceList : e[1] = editRoom /\ Editable(editDeviceList'[e], e[2])
  <2> SUFFICES ASSUME NEW e \in DOMAIN editDeviceList
               PROVE  e[1] = editRoom /\ Editable(editDeviceList'[e], e[2])
    OBVIOUS
  <2>1. editDeviceList'[e] = IF e = d THEN now ELSE editDeviceList[e]
    BY <1>3
  <2>2. e[1] = editRoom /\ Editable(editDeviceList[e], e[2])
    BY <1>1 DEF EditForm
  <2> QED
    BY <1>4, <2>1, <2>2
<1>8. \A e \in DOMAIN editDeviceList' : (e[1] = editRoom /\ Editable(editDeviceList[e], e[2]))'
  BY <1>1, <1>6, <1>7 DEF Editable, InRoom, IsDevice
<1>9. (blank = NewDevice \/ Editable(blank, ""))'
  BY <1>1 DEF EditForm, Editable, InRoom, IsDevice, NewDevice
<1> QED
  BY <1>1, <1>2, <1>5, <1>6, <1>8, <1>9 DEF EditForm

LEMMA EditFormKept ==
  ASSUME DeviceInv, [NextDevices]_deviceVars, hurries' = 0
  PROVE  EditForm'
<1>1. Waiting /\ EditForm
  BY WaitingNow DEF Waiting
<1> DEFINE Same == UNCHANGED <<editRoom, editDeviceList, chosen, blank, IDToUpdate>>
           Given(e) == EditableNow(e) /\ Edit(e) /\ UNCHANGED <<editRoom, chosen, IDToUpdate>>
<1>2. Same => EditForm'
  BY <1>1 DEF EditForm, Editable, InRoom, IsDevice, NewDevice
<1>3. ASSUME NEW e, Given(e) PROVE EditForm'
  BY <1>1, <1>3, EditStays
<1>4. EditableNow(editDevice) /\ EditableNow(WithID(editDevice, editRoom))
  <2>1. PICK e : e = editDevice
    OBVIOUS
  <2>2. EditableNow(e)
    BY <1>1, <2>1, EditShown
  <2>3. EditableNow(WithID(e, editRoom))
    BY <1>1, <2>2, UpdatedEditable
  <2> QED
    BY <2>1, <2>2, <2>3
<1>5. ASSUME NEW c \in calls, Lost(c) PROVE Same
  BY <1>5 DEF Lost, editForm
<1>6. LoadTypes \/ CreateDevice \/ UpdateDevice \/ UNCHANGED deviceVars => Same
  BY DEF LoadTypes, CreateDevice, UpdateDevice, deviceVars, editForm
<1>7. \A x : GetAddRoomList(x) \/ WireToAdd(x) \/ WireToEdit(x) => Same
  BY DEF GetAddRoomList, WireToAdd, WireToEdit, editForm
<1>8. ASSUME NEW c \in calls, Answer(c) PROVE EditForm'
  <2>1. /\ UNCHANGED <<editRoom, chosen, blank, IDToUpdate>>
        /\ \/ UNCHANGED editDeviceList
           \/ c.list = "editDevices" /\ editDeviceList' = Listed(c.of)
    BY <1>8, AnswerDoes DEF DeviceInv
  <2> QED
    BY <1>1, <1>2, <1>8, <2>1, ListedFits
<1>9. ASSUME NEW b, GetEditRoomList(b) PROVE EditForm'
  <2>1. /\ editRoom' = None /\ chosen' = None /\ blank' = NewDevice
        /\ UNCHANGED editDeviceList
    BY <1>9 DEF GetEditRoomList
  <2> QED
    BY <1>1, <2>1 DEF EditForm, NewDevice
<1>10. ASSUME NEW r \in Rooms, GetEditDeviceList(r) PROVE EditForm'
  <2>1. /\ editRoom' = r /\ chosen' = None /\ blank' = NewDevice
        /\ DOMAIN editDeviceList' = {}
    BY <1>10 DEF GetEditDeviceList, NoDevices
  <2>2. r # None
    BY DeviceAssumption
  <2> QED
    BY <2>1, <2>2 DEF EditForm, NewDevice
<1>11. ASSUME NEW x, GetAddDeviceList(x) \/ NameToAdd(x) PROVE EditForm'
  <2>1. PICK w : w = WithID(editDevice, editRoom)
    OBVIOUS
  <2>2. Edit(w) /\ UNCHANGED <<editRoom, chosen, IDToUpdate>>
    BY <1>11, <2>1 DEF GetAddDeviceList, NameToAdd, UpdateID, Edit
  <2> QED
    BY <1>3, <1>4, <2>1, <2>2
<1>12. ASSUME NEW n \in FreshNames \cup {editDevice.name}, NameToEdit(n) PROVE EditForm'
  <2>1. PICK w : w = WithID([editDevice EXCEPT !.name = n], editRoom)
    OBVIOUS
  <2>2. Edit(w) /\ UNCHANGED <<editRoom, chosen, IDToUpdate>>
    BY <1>12, <2>1 DEF NameToEdit, UpdateID, Edit
  <2>3. EditableNow(w)
    BY <1>1, <1>12, <2>1, RenamedEditable DEF NameToEdit
  <2> QED
    BY <1>3, <2>2, <2>3
<1>13. ASSUME NEW d \in DocIDs, EditDeviceChanges(d) PROVE EditForm'
  BY <1>1, <1>13, ChosenFits
<1>14. ASSUME NEW t \in Types, ChooseAddType(t) PROVE EditForm'
  <2>1. PICK e : e = editDevice
    OBVIOUS
  <2>2. PICK w : w = IF e.id = None THEN e ELSE OfTypeToEdit(e)
    OBVIOUS
  <2>3. Edit(w) /\ UNCHANGED <<editRoom, chosen, IDToUpdate>>
    BY <1>14, <2>1, <2>2 DEF ChooseAddType, DeviceTypeChange, Edit
  <2>4. EditableNow(w)
    BY <1>1, <1>4, <2>1, <2>2, OfTypeEditable
  <2> QED
    BY <1>3, <2>3, <2>4
<1>15. ASSUME NEW t \in Types, ChooseEditType(t) PROVE EditForm'
  <2>1. PICK e : e = [editDevice EXCEPT !.type = t]
    OBVIOUS
  <2>2. PICK w : w = IF e.id = None THEN e ELSE OfTypeToEdit(e)
    OBVIOUS
  <2>3. Edit(w) /\ UNCHANGED <<editRoom, chosen, IDToUpdate>>
    BY <1>15, <2>1, <2>2 DEF ChooseEditType, DeviceTypeChange, Edit
  <2>4. EditableNow(e)
    BY <1>1, <1>15, <2>1, TypedEditable DEF ChooseEditType
  <2>5. EditableNow(w)
    BY <1>1, <2>2, <2>4, OfTypeEditable
  <2> QED
    BY <1>3, <2>3, <2>5
<1> HIDE DEF Same, Given
<1> QED
  BY <1>2, <1>5, <1>6, <1>7, <1>8, <1>9, <1>10, <1>11, <1>12, <1>13, <1>14, <1>15 DEF NextDevices
(* The IDs offered to the add form are of its room.                          *)
LEMMA OfferedInRoom ==
  ASSUME AddListOfRoom, addRoom # None, NEW d, d.id = None \/ d.id[1] = addRoom,
         NEW type, NEW types
  PROVE  \A id \in IDsOfTypes(addDeviceList, types) \cup Itself(d, type, types) : id[1] = addRoom
<1>1. \A id \in IDsOfTypes(addDeviceList, types) : id[1] = addRoom
  BY DEF IDsOfTypes, AddListOfRoom
<1>2. \A id \in Itself(d, type, types) : id[1] = addRoom
  BY DEF Itself
<1> QED
  BY <1>1, <1>2

(* What Offer gives the add form.                                            *)
LEMMA OfferGives ==
  ASSUME NEW addD, NEW typeA, NEW list, NEW editD, NEW typeE, Offer(addD, typeA, list, editD, typeE)
  PROVE  /\ sources'.add \in
              {{}, IDsOfTypes(addDeviceList, Sources) \cup Itself(addD, typeA, Sources)}
         /\ destinations'.add \in
              {{}, IDsOfTypes(addDeviceList, Destinations) \cup Itself(addD, typeA, Destinations)}
<1> DEFINE For(types, got) ==
             [add  |-> IF typeA = None THEN {}
                       ELSE IDsOfTypes(addDeviceList, types) \cup Itself(addD, typeA, types),
              edit |-> IF typeE = None THEN {}
                       ELSE IDsOfTypes(Restrict(list, got), types)
                              \cup IF ListsThrow(list, typeE) THEN {}
                                   ELSE Itself(editD, typeE, types)]
<1>1. \E got : sources' = For(Sources, got) /\ destinations' = For(Destinations, got)
  BY Zenon DEF Offer
<1>2. \A types, got : For(types, got).add \in
         {{}, IDsOfTypes(addDeviceList, types) \cup Itself(addD, typeA, types)}
  OBVIOUS
<1> HIDE DEF For
<1> QED
  BY <1>1, <1>2

(* The ports of the device to add are in the heap.                           *)
LEMMA AddPortsInHeap ==
  ASSUME AddForm
  PROVE  \A o \in addDevice.ports : \E p \in PortIDs : o = <<Add, p>>
<1>1. \A t \in Types \cup {None} : \A o \in PortsToAdd(t) : \E p \in PortIDs : o = <<Add, p>>
  <2> SUFFICES ASSUME NEW t \in Types \cup {None}, NEW o \in PortsToAdd(t)
               PROVE  \E p \in PortIDs : o = <<Add, p>>
    OBVIOUS
  <2>1. t \in Types /\ \E p \in PortsOf[t] : o = <<Add, p>>
    BY DEF PortsToAdd
  <2> QED
    BY <2>1 DEF PortIDs
<1>2. addDevice.ports = PortsToAdd(addDevice.type) /\ addDevice.type \in Types \cup {None}
  BY DEF AddForm, IsDevice
<1> QED
  BY <1>1, <1>2

LEMMA WiresKept ==
  ASSUME DeviceInv, [NextDevices]_deviceVars, hurries' = 0
  PROVE  WiresInRoom'
<1> DEFINE Here(w, at) == \A id \in {w.source, w.destination} \ {None} : id[1] = at
           All == \A o \in addDevice'.ports : Here(wire'[o], addRoom')
<1>1. Waiting /\ AddForm /\ AddForm' /\ DOMAIN wire = Owners \X PortIDs
  BY WaitingNow, AddFormKept DEF DeviceInv, Heap
<1>2. \A o \in addDevice.ports : Here(wire[o], addRoom)
  BY <1>1 DEF Waiting, WiresInRoom
<1>3. SUFFICES All
  BY <1>3 DEF WiresInRoom
<1>4. \A o \in addDevice.ports : o \in DOMAIN wire /\ o[1] = Add /\ IsWire(wire[o])
  <2>1. \A p \in PortIDs : <<Add, p>> \in DOMAIN wire
    BY <1>1 DEF Owners
  <2> QED
    BY <1>1, <2>1, AddPortsInHeap DEF DeviceInv, Heap
<1>5. \A o \in addDevice'.ports : o \in DOMAIN wire /\ o[1] = Add
  <2>1. \A o \in addDevice'.ports : \E p \in PortIDs : o = <<Add, p>>
    <3>1. AddForm => \A o \in addDevice.ports : \E p \in PortIDs : o = <<Add, p>>
      BY AddPortsInHeap
    <3>2. (AddForm => \A o \in addDevice.ports : \E p \in PortIDs : o = <<Add, p>>)'
      BY <3>1, AddPortsInHeap, PTL
    <3> QED
      BY <1>1, <3>2
  <2> QED
    BY <1>1, <2>1 DEF Owners
<1>6. Here(NoWire, addRoom')
  BY DEF NoWire
<1>7. ASSUME UNCHANGED addRoom, addDevice'.ports = addDevice.ports,
             \A o \in DOMAIN wire : o[1] = Add => wire'[o] = wire[o]
      PROVE  All
  BY <1>2, <1>4, <1>7
<1>8. ASSUME addDevice'.ports = {} PROVE All
  BY <1>8
<1>9. ASSUME \A o \in DOMAIN wire : o[1] = Add => wire'[o] = NoWire PROVE All
  BY <1>5, <1>6, <1>9
<1>10. addRoom' = addRoom /\ addRoom # None => addDevice.id[1] = addRoom /\ addDevice'.id[1] = addRoom
  <2> SUFFICES ASSUME addRoom' = addRoom, addRoom # None
               PROVE  addDevice.id[1] = addRoom /\ addDevice'.id[1] = addRoom
    OBVIOUS
  <2>1. PICK d, e : d = addDevice /\ e = addDevice'
    OBVIOUS
  <2>2. InRoom(d, addRoom) /\ InRoom(e, addRoom)
    BY <1>1, <2>1 DEF AddForm, InRoom
  <2> QED
    BY <2>1, <2>2 DEF InRoom
<1>11. ASSUME NEW c \in calls, Answer(c) \/ Lost(c) PROVE All
  <2>1. UNCHANGED <<addRoom, addDevice>>
    BY <1>11 DEF Answer, Lost, addForm
  <2>2. \A o \in DOMAIN wire : o[1] = Add => wire'[o] = wire[o]
    <3>1. CASE Lost(c)
      BY <3>1 DEF Lost
    <3>2. CASE Answer(c)
      <4>1. Add \notin DevicesIn(c.of)
        BY DeviceAssumption DEF DeviceInv, DevicesIn
      <4>2. \/ UNCHANGED wire
            \/ wire' = [o \in DOMAIN wire |->
                 IF o[1] \in DevicesIn(c.of) /\ o[2] \in DOMAIN stored[o[1]].wires
                   THEN stored[o[1]].wires[o[2]] ELSE wire[o]]
        BY <3>2, AnswerDoes DEF DeviceInv
      <4> QED
        BY <4>1, <4>2
    <3> QED
      BY <1>11, <3>1, <3>2
  <2> QED
    BY <1>7, <2>1, <2>2
<1>12. ASSUME \/ LoadTypes \/ CreateDevice \/ UpdateDevice \/ UNCHANGED deviceVars
              \/ \E x : GetEditRoomList(x) \/ GetEditDeviceList(x) \/ EditDeviceChanges(x)
       PROVE  All
  <2>1. UNCHANGED <<addRoom, addDevice, wire>>
    BY <1>12 DEF LoadTypes, CreateDevice, UpdateDevice, deviceVars, GetEditRoomList,
                 GetEditDeviceList, EditDeviceChanges, addForm
  <2> QED
    BY <1>7, <2>1
<1>13. ASSUME NEW x, GetAddRoomList(x) \/ GetAddDeviceList(x) PROVE All
  <2>1. CASE GetAddRoomList(x)
    BY <1>8, <2>1, NewDeviceIs DEF GetAddRoomList
  <2>2. CASE GetAddDeviceList(x)
    <3>1. addDevice' = WithID(NewDevice, x)
      BY <2>2 DEF GetAddDeviceList
    <3>2. WithID(NewDevice, x).ports = {}
      BY DEF WithID, NewDevice
    <3> QED
      BY <1>8, <3>1, <3>2
  <2> QED
    BY <1>13, <2>1, <2>2
<1>14. ASSUME NEW n, NameToAdd(n) \/ NameToEdit(n) PROVE All
  <2>1. PICK d : /\ d = addDevice \/ d = [addDevice EXCEPT !.name = n]
                 /\ addDevice' = WithID(d, addRoom)
    BY <1>14 DEF NameToAdd, NameToEdit, UpdateID
  <2>2. "ports" \in DOMAIN d /\ d.ports = addDevice.ports
    BY <1>1, <2>1 DEF AddForm, IsDevice
  <2>3. WithID(d, addRoom).ports = d.ports
    BY <2>2 DEF WithID
  <2>4. UNCHANGED <<addRoom, wire>>
    BY <1>14 DEF NameToAdd, NameToEdit
  <2> QED
    BY <1>7, <2>1, <2>2, <2>3, <2>4
<1>15. ASSUME NEW t \in Types, ChooseEditType(t) PROVE All
  <2>1. wire' = Fresh(wire)
    BY <1>15 DEF ChooseEditType
  <2> QED
    BY <1>9, <2>1, FreshIs
<1>16. ASSUME NEW t \in Types, ChooseAddType(t) PROVE All
  <2>1. addRoom' = addRoom /\ addRoom # None
    BY <1>16 DEF ChooseAddType
  <2>2. PICK a : a = addDevice'
    OBVIOUS
  <2>3. /\ sources'.add \in
             {{}, IDsOfTypes(addDeviceList, Sources) \cup Itself(a, addType', Sources)}
        /\ destinations'.add \in
             {{}, IDsOfTypes(addDeviceList, Destinations) \cup Itself(a, addType', Destinations)}
    <3> DEFINE d    == [addDevice EXCEPT !.type = t]
               now  == OfTypeToAdd(d)
               e    == IF editDevice.id = None THEN editDevice ELSE OfTypeToEdit(editDevice)
               type == IF editDevice.id = None THEN editType ELSE editDevice.type
               list == IF chosen = None THEN editDeviceList
                       ELSE [editDeviceList EXCEPT ![chosen] = e]
    <3>1. addDevice' = now /\ addType' = d.type
      BY <1>16 DEF ChooseAddType, DeviceTypeChange
    <3>2. PICK k1, k2, k3, k4, k5 :
             /\ k1 = now /\ k2 = d.type /\ k3 = list /\ k4 = e /\ k5 = type
      OBVIOUS
    <3>3. Offer(k1, k2, k3, k4, k5)
      BY <1>16, <3>2 DEF ChooseAddType, DeviceTypeChange, Offer
    <3> QED
      BY <2>2, <3>1, <3>2, <3>3, OfferGives
  <2>4. a.id[1] = addRoom
    BY <1>10, <2>1, <2>2
  <2>5. \A id \in sources'.add \cup destinations'.add : id[1] = addRoom
    <3>1. PICK k : k = addType'
      OBVIOUS
    <3>2. \A types : \A id \in IDsOfTypes(addDeviceList, types) \cup Itself(a, k, types) :
            id[1] = addRoom
      BY <1>1, <2>1, <2>4, OfferedInRoom DEF Waiting
    <3> QED
      BY <2>3, <3>1, <3>2
  <2>6. \A o \in DOMAIN wire :
           \/ wire'[o] = IF o[1] = Add THEN NoWire ELSE wire[o]
           \/ wire'[o] \in [source : sources'.add \cup {None},
                            destination : destinations'.add \cup {None}]
    BY <1>1, <1>16, AddTypeRewires
  <2>7. \A w \in [source : sources'.add \cup {None}, destination : destinations'.add \cup {None}] :
           Here(w, addRoom)
    BY <2>5
  <2> HIDE DEF Here
  <2> QED
    BY <1>5, <1>6, <2>1, <2>6, <2>7
<1>17. ASSUME NEW x \in DOMAIN wire, WireToAdd(x) PROVE All
  <2>1. UNCHANGED <<addRoom, addDevice>> /\ x \in addDevice.ports
    BY <1>17 DEF WireToAdd, addForm
  <2>2. addRoom # None /\ addDevice.id[1] = addRoom
    <3>1. addRoom # None
      BY <1>1, <2>1 DEF AddForm, PortsToAdd
    <3> QED
      BY <1>10, <2>1, <3>1
  <2>3. \A id \in sources'.add \cup destinations'.add : id[1] = addRoom
    <3>1. PICK k1, k2, k3, k4, k5 :
             /\ k1 = addDevice /\ k2 = addType /\ k3 = editDeviceList /\ k4 = editDevice
             /\ k5 = editType
      OBVIOUS
    <3>2. Offer(k1, k2, k3, k4, k5)
      BY <1>17, <3>1 DEF WireToAdd, Offer
    <3>3. /\ sources'.add \in
               {{}, IDsOfTypes(addDeviceList, Sources) \cup Itself(k1, k2, Sources)}
          /\ destinations'.add \in
               {{}, IDsOfTypes(addDeviceList, Destinations) \cup Itself(k1, k2, Destinations)}
      BY <3>2, OfferGives
    <3>4. \A types : \A id \in IDsOfTypes(addDeviceList, types) \cup Itself(k1, k2, types) :
            id[1] = addRoom
      BY <1>1, <2>2, <3>1, OfferedInRoom DEF Waiting
    <3> QED
      BY <3>3, <3>4
  <2>4. PICK srcs, dests : /\ Wire(x, srcs, dests) /\ srcs \subseteq sources'.add
                           /\ dests = destinations'.add
    BY <1>17 DEF WireToAdd, ValidSources
  <2>5. /\ \A o \in DOMAIN wire : o # x => wire'[o] = wire[o]
        /\ wire'[x].source \in {wire[x].source, None} \cup srcs
        /\ wire'[x].destination \in {wire[x].destination, None} \cup dests
    BY <1>4, <2>1, <2>4, WireIs
  <2>6. Here(wire[x], addRoom)
    BY <1>2, <2>1
  <2>7. Here(wire'[x], addRoom)
    BY <2>3, <2>4, <2>5, <2>6
  <2> HIDE DEF Here
  <2> QED
    BY <1>2, <1>4, <2>1, <2>5, <2>7
<1>18. ASSUME NEW x \in DOMAIN wire, WireToEdit(x) PROVE All
  <2>1. UNCHANGED <<addRoom, addDevice>> /\ x \in editDevice.ports
    BY <1>18 DEF WireToEdit, addForm
  <2>2. x[1] # Add
    BY <1>1, <2>1, EditShown, NewDeviceIs DEF Waiting, EditableNow, Editable
  <2>3. PICK srcs, dests : Wire(x, srcs, dests)
    BY <1>18 DEF WireToEdit
  <2>4. \A o \in DOMAIN wire : o # x => wire'[o] = wire[o]
    BY <2>3, WireIs
  <2> QED
    BY <1>7, <2>1, <2>2, <2>4
<1> HIDE DEF All
<1> QED
  BY <1>11, <1>12, <1>13, <1>14, <1>15, <1>16, <1>17, <1>18 DEF NextDevices
-----------------------------------------------------------------------------
(* The history.                                                              *)

(* The database has no document under a name that nobody has, so that one    *)
(* that has the ID of the device shown is the document it was loaded from.   *)
LEMMA OwnDocumentKept ==
  ASSUME DeviceInv, [NextDevices]_deviceVars
  PROVE  OwnDocument'
<1>1. SUFFICES ASSUME hurries' = 0, NEW u \in carried'
               PROVE  u.path = u.from /\ u.body = u.from
  BY DEF OwnDocument
<1>2. hurries = 0 /\ EditForm /\ DOMAIN stored \subseteq DocIDs
  BY <1>1, WaitingNow, HurriesStep DEF Waiting, DeviceInv
<1>3. CASE u \in carried
  BY <1>2, <1>3 DEF DeviceInv, OwnDocument
<1>4. CASE /\ editDevice.id # None
           /\ editDevice.id \in DOMAIN stored /\ IDToUpdate \in DOMAIN stored
           /\ u = [path |-> IDToUpdate, body |-> editDevice.id, from |-> chosen]
  <2>1. PICK m : m = IF chosen = None THEN "" ELSE chosen[2]
    OBVIOUS
  <2>2. /\ editDevice.id = <<editRoom, editDevice.name>>
        /\ editDevice.name \in FreshNames \cup {m} /\ editRoom # None
    <3>1. PICK e : e = editDevice
      OBVIOUS
    <3>2. Editable(e, m) /\ editRoom # None
      BY <1>2, <1>4, <2>1, <3>1, EditShown, EditableWithID
    <3> QED
      BY <3>1, <3>2 DEF Editable, InRoom
  <2>3. editDevice.name \in Names
    BY <1>2, <1>4, <2>2 DEF DocIDs
  <2>4. chosen # None /\ editDevice.name = chosen[2]
    BY <2>1, <2>2, <2>3, DeviceAssumption
  <2>5. /\ chosen \in DocIDs /\ chosen[1] = editRoom
        /\ IDToUpdate \in {chosen} \cup Rooms \X FreshNames
    BY <1>2, <2>2, <2>4 DEF EditForm
  <2>6. editDevice.id = chosen
    BY <2>2, <2>4, <2>5 DEF DocIDs
  <2>7. IDToUpdate \notin Rooms \X FreshNames
    BY <1>2, <1>4, DeviceAssumption DEF DocIDs
  <2> QED
    BY <1>4, <2>5, <2>6, <2>7
<1>5. CASE UpdateDevice
  BY <1>1, <1>3, <1>4, <1>5 DEF UpdateDevice
<1>6. ASSUME NEW c \in calls, Answer(c) \/ Lost(c) PROVE UNCHANGED carried
  BY <1>6 DEF Answer, Lost, history
<1>7. LoadTypes \/ CreateDevice \/ UNCHANGED deviceVars => UNCHANGED carried
  BY DEF LoadTypes, CreateDevice, deviceVars, history
<1>8. \A x : GetAddRoomList(x) \/ GetEditRoomList(x) \/ GetAddDeviceList(x) \/ GetEditDeviceList(x)
        => UNCHANGED carried
  BY DEF GetAddRoomList, GetEditRoomList, GetAddDeviceList, GetEditDeviceList, history
<1>9. \A x : NameToAdd(x) \/ NameToEdit(x) \/ EditDeviceChanges(x) => UNCHANGED carried
  BY DEF NameToAdd, NameToEdit, EditDeviceChanges, history
<1>10. \A x : ChooseAddType(x) \/ ChooseEditType(x) => UNCHANGED carried
  BY DEF ChooseAddType, ChooseEditType, history
<1>11. \A x : WireToAdd(x) \/ WireToEdit(x) => UNCHANGED carried
  BY DEF WireToAdd, WireToEdit, history
<1> QED
  BY <1>1, <1>3, <1>5, <1>6, <1>7, <1>8, <1>9, <1>10, <1>11 DEF NextDevices

(* What is sent to be created is as the device to add is.                    *)
LEMMA CreatedKept ==
  ASSUME DeviceInv, [NextDevices]_deviceVars
  PROVE  CreatedInRoom'
<1> DEFINE Good(c) ==
             /\ DOMAIN c.doc.wires = IF c.doc.type = None THEN {} ELSE PortsOf[c.doc.type]
             /\ \A p \in DOMAIN c.doc.wires :
                  \A id \in {c.doc.wires[p].source, c.doc.wires[p].destination} \ {None} :
                    id[1] = c.id[1]
<1>1. SUFFICES ASSUME hurries' = 0, NEW c \in sent'
               PROVE  Good(c)
  BY DEF CreatedInRoom
<1>2. hurries = 0 /\ WiresInRoom /\ AddForm
  BY <1>1, WaitingNow, HurriesStep DEF Waiting, DeviceInv
<1>3. CASE c \in sent
  BY <1>2, <1>3 DEF DeviceInv, CreatedInRoom
<1>4. CASE addRoom # None /\ c = [id |-> addDevice.id, doc |-> Body(addDevice)]
  <2>1. addDevice.ports = PortsToAdd(addDevice.type)
    BY <1>2 DEF AddForm
  <2>2. \A t : {o[2] : o \in PortsToAdd(t)} = IF t = None THEN {} ELSE PortsOf[t]
    <3> TAKE t
    <3> DEFINE ports == PortsToAdd(t)
    <3>1. \A p : <<Add, p>>[2] = p
      OBVIOUS
    <3>2. CASE t = None
      BY <3>2 DEF PortsToAdd
    <3>3. CASE t # None
      <4>1. ports = {<<Add, p>> : p \in PortsOf[t]}
        BY <3>3 DEF PortsToAdd
      <4> HIDE DEF ports
      <4>2. \A o \in ports : o[2] \in PortsOf[t]
        BY <3>1, <4>1
      <4>3. \A p \in PortsOf[t] : <<Add, p>> \in ports
        BY <4>1
      <4>4. {o[2] : o \in ports} = PortsOf[t]
        BY <3>1, <4>2, <4>3
      <4> QED
        BY <3>3, <4>4 DEF ports
    <3> QED
      BY <3>2, <3>3
  <2> DEFINE Of(p) == CHOOSE o \in addDevice.ports : o[2] = p
             ports == {o[2] : o \in addDevice.ports}
             body  == [type |-> addDevice.type, address |-> addDevice.address,
                       wires |-> [p \in ports |-> wire[Of(p)]]]
  <2>3. c.doc = body /\ c.id = addDevice.id
    BY <1>4 DEF Body
  <2>4. \A p \in ports : Of(p) \in addDevice.ports
    OBVIOUS
  <2>5. c.id[1] = addRoom
    <3>1. PICK d : d = addDevice
      OBVIOUS
    <3>2. InRoom(d, addRoom)
      BY <1>2, <1>4, <3>1 DEF AddForm
    <3> QED
      BY <2>3, <3>1, <3>2 DEF InRoom
  <2> HIDE DEF ports, Of
  <2>6. /\ DOMAIN c.doc.wires = ports /\ c.doc.type = addDevice.type
        /\ \A p \in ports : c.doc.wires[p] = wire[Of(p)]
    BY <2>3
  <2>7. ports = IF addDevice.type = None THEN {} ELSE PortsOf[addDevice.type]
    BY <2>1, <2>2 DEF ports
  <2>8. \A p \in ports :
           \A id \in {wire[Of(p)].source, wire[Of(p)].destination} \ {None} : id[1] = addRoom
    BY <1>2, <2>4 DEF WiresInRoom
  <2> QED
    BY <2>5, <2>6, <2>7, <2>8
<1>5. CASE CreateDevice
  <2>1. /\ addRoom # None
        /\ sent' = sent \cup {[id |-> addDevice.id, doc |-> Body(addDevice)]}
    BY <1>5 DEF CreateDevice
  <2> HIDE DEF Good
  <2> QED
    BY <1>1, <1>3, <1>4, <2>1
<1>6. ASSUME NEW k \in calls, Answer(k) \/ Lost(k) PROVE UNCHANGED sent
  BY <1>6 DEF Answer, Lost, history
<1>7. LoadTypes \/ UpdateDevice \/ UNCHANGED deviceVars => UNCHANGED sent
  BY DEF LoadTypes, UpdateDevice, deviceVars, history
<1>8. \A x : GetAddRoomList(x) \/ GetEditRoomList(x) \/ GetAddDeviceList(x) \/ GetEditDeviceList(x)
        => UNCHANGED sent
  BY DEF GetAddRoomList, GetEditRoomList, GetAddDeviceList, GetEditDeviceList, history
<1>9. \A x : NameToAdd(x) \/ NameToEdit(x) \/ EditDeviceChanges(x) => UNCHANGED sent
  BY DEF NameToAdd, NameToEdit, EditDeviceChanges, history
<1>10. \A x : ChooseAddType(x) \/ ChooseEditType(x) => UNCHANGED sent
  BY DEF ChooseAddType, ChooseEditType, history
<1>11. \A x : WireToAdd(x) \/ WireToEdit(x) => UNCHANGED sent
  BY DEF WireToAdd, WireToEdit, history
<1> HIDE DEF Good
<1> QED
  BY <1>1, <1>3, <1>5, <1>6, <1>7, <1>8, <1>9, <1>10, <1>11 DEF NextDevices

LEMMA DeviceInvHolds == DeviceSpec => []DeviceInv
<1>1. DeviceInv /\ [NextDevices]_deviceVars => DeviceInv'
  <2> SUFFICES ASSUME DeviceInv, [NextDevices]_deviceVars PROVE DeviceInv'
    OBVIOUS
  <2>1. hurries' \in Nat
    BY HurriesStep DEF DeviceInv
  <2>2. (DOMAIN stored \subseteq DocIDs)'
    BY StoredKept
  <2>3. (hurries = 0 => Waiting)'
    BY DueForRoomKept, AddListKept, WiresKept, EditFormKept, DocumentsKept DEF Waiting
  <2> QED
    BY <2>1, <2>2, <2>3, AddFormKept, HeapKept, ListsDueKept, OwnDocumentKept, CreatedKept
       DEF DeviceInv
<1> QED
  BY <1>1, DeviceInitHolds, PTL DEF DeviceSpec
-----------------------------------------------------------------------------
(* An update of a device that the server carries out goes to the document    *)
(* the device shown was loaded from, and names it, as long as the user lets  *)
(* lists arrive (device.component.ts: IDToUpdate is kept apart from the      *)
(* device, and set when one is chosen).                                      *)
THEOREM DevicesUpdateOwnDocument == DeviceSpec => []OwnDocument
<1>1. DeviceInv => OwnDocument
  BY DEF DeviceInv
<1> QED
  BY <1>1, DeviceInvHolds, PTL

(* The address of a device on a form follows its ID (UpdateID,               *)
(* DeviceTypeChange), as long as the user lets lists arrive.                 *)
THEOREM AddressesFollowIDs == DeviceSpec => []AddressFollows
<1>1. DeviceInv => AddressFollows
  <2> SUFFICES ASSUME AddForm, EditForm, NEW d \in {addDevice, editDevice}, d.id # None
               PROVE  d.address \in {None, Fixed, HostOf(d.id)}
    BY DEF DeviceInv, Waiting, AddressFollows
  <2>1. CASE d = addDevice
    BY <2>1 DEF AddForm, InRoom
  <2>2. CASE d = editDevice
    BY <2>2, EditShown, EditableWithID DEF Editable, InRoom
  <2> QED
    BY <2>1, <2>2
<1> QED
  BY <1>1, DeviceInvHolds, PTL

(* A device sent to be created has the ports of its type, and they name      *)
(* devices of its room, as long as the user lets lists arrive (the lists     *)
(* UpdateListOfSourceAndDestinationDevices offers).                          *)
THEOREM DevicesCreatedInRoom == DeviceSpec => []CreatedInRoom
<1>1. DeviceInv => CreatedInRoom
  BY DEF DeviceInv
<1> QED
  BY <1>1, DeviceInvHolds, PTL

(* Nothing done in the add form rewires the ports of a type or of a listed   *)
(* device, however hasty the user: its device has ports of its own           *)
(* (DeviceTypeChange, SetDefaultPortConfigurations).                         *)
THEOREM AddFormApart == DeviceSpec => AddApart
<1>1. DeviceInv /\ [NextDevices]_deviceVars =>
        [\A o \in DOMAIN wire :
           wire'[o] # wire[o] /\ o[1] # Add =>
             o \in editDevice.ports \/ editDeviceList' # editDeviceList]_deviceVars
  BY AddStaysApart
<1> QED
  BY <1>1, DeviceInvHolds, PTL DEF DeviceSpec, AddApart
-----------------------------------------------------------------------------
(* The room builder.                                                         *)

(* The least of a set of naturals, and so the greatest of a bounded one.     *)
LEMMA LeastNatural ==
  ASSUME NEW S \in SUBSET Nat, S # {}
  PROVE  \E m \in S : \A n \in S : m <= n
<1> DEFINE R == {p \in Nat \X Nat : p[1] < p[2]}
<1>1. OpToRel(<, Nat) = R
  BY DEF OpToRel
<1>2. IsWellFoundedOn(R, Nat)
  BY <1>1, NatLessThanWellFounded
<1> HIDE DEF R
<1>3. PICK m \in S : \A y \in S : ~(<<y, m>> \in R)
  BY <1>2, WFMin
<1>4. \A y \in S : m <= y
  <2> TAKE y \in S
  <2>1. m \in Nat /\ y \in Nat
    OBVIOUS
  <2>2. y < m => <<y, m>> \in R
    BY <2>1 DEF R
  <2> QED
    BY <1>3, <2>1, <2>2
<1> QED
  BY <1>4

LEMMA MaxIs ==
  ASSUME NEW n \in Nat, NEW S \in SUBSET (0..n), S # {}
  PROVE  Max(S) \in S /\ \A x \in S : x <= Max(S)
<1> DEFINE T == {k \in Nat : \A x \in S : x <= k}
<1>1. n \in T
  OBVIOUS
<1>2. PICK m \in T : \A k \in T : m <= k
  BY <1>1, LeastNatural
<1>3. m \in S
  <2> SUFFICES ASSUME m \notin S PROVE FALSE
    OBVIOUS
  <2>1. \A x \in S : x < m
    BY <1>2
  <2>2. m - 1 \in Nat
    <3>1. PICK x \in S : TRUE
      OBVIOUS
    <3>2. x \in 0..n /\ x < m /\ m \in Nat
      BY <2>1
    <3> QED
      BY <3>2
  <2>3. \A x \in S : x <= m - 1
    BY <2>1
  <2>4. m - 1 \in T
    BY <2>2, <2>3
  <2> QED
    BY <1>2, <2>4
<1>4. \E x \in S : \A y \in S : x >= y
  BY <1>2, <1>3
<1> QED
  BY <1>4 DEF Max

(* Every device of ds is in one of the groups, once, and nothing else is.    *)
Held(groups, ds) ==
  /\ ds \subseteq DeviceNo
  /\ \A g \in DOMAIN groups : groups[g] \in [DeviceNo -> Nat]
  /\ \A d \in ds : \E g \in DOMAIN groups :
       groups[g][d] = 1 /\ \A h \in DOMAIN groups \ {g} : groups[h][d] = 0
  /\ \A d \in DeviceNo \ ds : \A g \in DOMAIN groups : groups[g][d] = 0

(* No other base name includes this one.                                     *)
Alone(b) == \A c \in Bases \ {b} : <<c, b>> \notin NameIncludes

(* Of two devices with one such base name the later has the higher number,   *)
(* as long as all are named in one room.                                     *)
InOrder(list, fields, rooms) ==
  (\A r, s \in rooms : r = s) =>
    \A i, j \in DOMAIN list :
      /\ i < j
      /\ fields[list[i]].base = fields[list[j]].base /\ Alone(fields[list[i]].base)
      => fields[list[i]].number < fields[list[j]].number

DeviceFields(rooms) == [base : Bases, number : Nat, room : rooms, pi : BOOLEAN]

BuilderInv ==
  /\ devicesMade \in Nat /\ groupsMade \in Nat
  /\ room \in TypedRooms \cup {NoRoom}
  /\ IsFiniteSet(namedIn) /\ namedIn \subseteq TypedRooms
  /\ DOMAIN groupList \subseteq 1..groupsMade
  /\ Held(groupList, Range(devicesToAdd))
  /\ devicesToAdd \in Seq(DeviceNo)
  /\ \A i, j \in DOMAIN devicesToAdd : devicesToAdd[i] = devicesToAdd[j] => i = j
  /\ DOMAIN device = Range(devicesToAdd)
  /\ \A d \in DOMAIN device : d <= devicesMade /\ device[d] \in DeviceFields(namedIn)
  /\ InOrder(devicesToAdd, device, namedIn)
(* Two devices that fewer than two rooms name are of one.                    *)
LEMMA OneRoom ==
  ASSUME NEW S, IsFiniteSet(S), Cardinality(S) <= 1
  PROVE  \A r, s \in S : r = s
<1> SUFFICES ASSUME NEW r \in S, NEW s \in S, r # s PROVE FALSE
  OBVIOUS
<1>1. PICK T : T = {r}
  OBVIOUS
<1>2. IsFiniteSet(T) /\ Cardinality(T) = 1 /\ s \notin T
  BY <1>1, FS_Singleton
<1>3. Cardinality(T \cup {s}) = 2 /\ T \cup {s} \subseteq S
  BY <1>1, <1>2, FS_AddElement
<1>5. Cardinality(T \cup {s}) <= Cardinality(S)
  BY <1>3, FS_Subset
<1>4. Cardinality(S) \in Nat
  BY FS_CardinalityType
<1> QED
  BY <1>3, <1>4, <1>5

(* How groups change.                                                        *)
LEMMA AddedHeld ==
  ASSUME NEW groups, NEW ds, Held(groups, ds), NEW g \in DOMAIN groups,
         NEW d \in DeviceNo, d \notin ds
  PROVE  Held([groups EXCEPT ![g] = With(@, d)], ds \cup {d})
<1> DEFINE new == [groups EXCEPT ![g] = With(@, d)]
<1>1. \A h \in DOMAIN groups : groups[h] \in [DeviceNo -> Nat]
  BY DEF Held
<1>2. DOMAIN new = DOMAIN groups
  OBVIOUS
<1>3. \A h \in DOMAIN groups : \A e \in DeviceNo :
         new[h][e] = IF h = g /\ e = d THEN groups[h][e] + 1 ELSE groups[h][e]
  BY <1>1 DEF With
<1>4. \A h \in DOMAIN groups : new[h] \in [DeviceNo -> Nat]
  BY <1>1 DEF With
<1>5. \A h \in DOMAIN groups : groups[h][d] = 0
  BY DEF Held
<1> HIDE DEF new
<1>6. \A e \in ds \cup {d} : \E h \in DOMAIN new :
         new[h][e] = 1 /\ \A k \in DOMAIN new \ {h} : new[k][e] = 0
  <2> SUFFICES ASSUME NEW e \in ds \cup {d}
               PROVE  \E h \in DOMAIN new :
                        new[h][e] = 1 /\ \A k \in DOMAIN new \ {h} : new[k][e] = 0
    OBVIOUS
  <2>1. CASE e = d
    <3>1. new[g][e] = 1 /\ \A k \in DOMAIN new \ {g} : new[k][e] = 0
      BY <1>2, <1>3, <1>5, <2>1
    <3> QED
      BY <1>2, <3>1
  <2>2. CASE e # d
    <3>1. PICK h \in DOMAIN groups :
             groups[h][e] = 1 /\ \A k \in DOMAIN groups \ {h} : groups[k][e] = 0
      BY <2>2 DEF Held
    <3>2. e \in DeviceNo
      BY <2>2 DEF Held
    <3> QED
      BY <1>2, <1>3, <2>2, <3>1, <3>2
  <2> QED
    BY <2>1, <2>2
<1>7. \A e \in DeviceNo \ (ds \cup {d}) : \A h \in DOMAIN new : new[h][e] = 0
  BY <1>2, <1>3 DEF Held
<1>8. \A h \in DOMAIN new : new[h] \in [DeviceNo -> Nat]
  BY <1>2, <1>4
<1>9. ds \cup {d} \subseteq DeviceNo
  BY DEF Held
<1>10. Held(new, ds \cup {d})
  BY <1>6, <1>7, <1>8, <1>9 DEF Held
<1> QED
  BY <1>10 DEF new

LEMMA GrownHeld ==
  ASSUME NEW ds, Held(groupList, ds), groupsMade + 1 \notin DOMAIN groupList
  PROVE  Held(Grown(groupList), ds) /\ groupsMade + 1 \in DOMAIN Grown(groupList)
<1> DEFINE new == Grown(groupList)
           n == groupsMade + 1
<1>1. /\ DOMAIN new = DOMAIN groupList \cup {n}
      /\ \A g \in DOMAIN groupList : new[g] = groupList[g]
      /\ new[n] = Empty
  BY DEF Grown
<1>2. Empty \in [DeviceNo -> Nat] /\ \A d \in DeviceNo : Empty[d] = 0
  BY DEF Empty
<1> HIDE DEF new, n
<1>3. \A e \in ds : \E h \in DOMAIN new :
         new[h][e] = 1 /\ \A k \in DOMAIN new \ {h} : new[k][e] = 0
  <2> SUFFICES ASSUME NEW e \in ds
               PROVE  \E h \in DOMAIN new :
                        new[h][e] = 1 /\ \A k \in DOMAIN new \ {h} : new[k][e] = 0
    OBVIOUS
  <2>1. PICK h \in DOMAIN groupList :
           groupList[h][e] = 1 /\ \A k \in DOMAIN groupList \ {h} : groupList[k][e] = 0
    BY DEF Held
  <2>2. e \in DeviceNo
    BY DEF Held
  <2>3. new[h][e] = 1 /\ \A k \in DOMAIN new \ {h} : new[k][e] = 0
    BY <1>1, <1>2, <2>1, <2>2
  <2> QED
    BY <1>1, <2>3
<1>4. \A e \in DeviceNo \ ds : \A h \in DOMAIN new : new[h][e] = 0
  BY <1>1, <1>2 DEF Held
<1>5. \A h \in DOMAIN new : new[h] \in [DeviceNo -> Nat]
  BY <1>1, <1>2 DEF Held
<1>6. Held(new, ds) /\ n \in DOMAIN new
  BY <1>1, <1>3, <1>4, <1>5 DEF Held
<1> QED
  BY <1>6 DEF new, n
(* A group with one fewer of d holds what it held, d apart.                  *)
LEMMA LessHeld ==
  ASSUME NEW groups, NEW ds, Held(groups, ds), NEW g \in DOMAIN groups,
         NEW d \in DeviceNo, groups[g][d] > 0
  PROVE  Held([groups EXCEPT ![g] = Less(@, d)], ds \ {d})
<1> DEFINE new == [groups EXCEPT ![g] = Less(@, d)]
<1>1. \A h \in DOMAIN groups : groups[h] \in [DeviceNo -> Nat]
  BY DEF Held
<1>2. DOMAIN new = DOMAIN groups
  OBVIOUS
<1>3. \A h \in DOMAIN groups : \A e \in DeviceNo :
         new[h][e] = IF h = g /\ e = d THEN groups[h][e] - 1 ELSE groups[h][e]
  BY <1>1 DEF Less
<1>4. \A h \in DOMAIN new : new[h] \in [DeviceNo -> Nat]
  BY <1>1, <1>2 DEF Less
<1>5. groups[g][d] = 1 /\ \A h \in DOMAIN groups \ {g} : groups[h][d] = 0
  <2>1. d \in ds
    BY <1>1 DEF Held
  <2> QED
    BY <2>1 DEF Held
<1> HIDE DEF new
<1>6. \A e \in ds \ {d} : \E h \in DOMAIN new :
         new[h][e] = 1 /\ \A k \in DOMAIN new \ {h} : new[k][e] = 0
  <2> SUFFICES ASSUME NEW e \in ds \ {d}
               PROVE  \E h \in DOMAIN new :
                        new[h][e] = 1 /\ \A k \in DOMAIN new \ {h} : new[k][e] = 0
    OBVIOUS
  <2>1. PICK h \in DOMAIN groups :
           groups[h][e] = 1 /\ \A k \in DOMAIN groups \ {h} : groups[k][e] = 0
    BY DEF Held
  <2>2. e \in DeviceNo /\ e # d
    BY DEF Held
  <2>3. new[h][e] = 1 /\ \A k \in DOMAIN new \ {h} : new[k][e] = 0
    BY <1>2, <1>3, <2>1, <2>2
  <2> QED
    BY <1>2, <2>3
<1>7. \A e \in DeviceNo \ (ds \ {d}) : \A h \in DOMAIN new : new[h][e] = 0
  <2> TAKE e \in DeviceNo \ (ds \ {d})
  <2>1. CASE e = d
    BY <1>2, <1>3, <1>5, <2>1
  <2>2. CASE e # d
    BY <1>2, <1>3, <2>2 DEF Held
  <2> QED
    BY <2>1, <2>2
<1>8. ds \ {d} \subseteq DeviceNo
  BY DEF Held
<1>9. Held(new, ds \ {d})
  BY <1>4, <1>6, <1>7, <1>8 DEF Held
<1> QED
  BY <1>9 DEF new

(* Dragged on, to its own group too, a device is in one group again.         *)
LEMMA MovedHeld ==
  ASSUME NEW groups, NEW ds, Held(groups, ds), NEW from \in DOMAIN groups,
         NEW to \in DOMAIN groups, NEW d \in DeviceNo, groups[from][d] > 0
  PROVE  Held(Moved(groups, from, to, d), ds)
<1> DEFINE new == Moved(groups, from, to, d)
           Count(h, e) == IF e # d THEN groups[h][e] ELSE IF h = to THEN 1 ELSE 0
<1>1. \A h \in DOMAIN groups : groups[h] \in [DeviceNo -> Nat]
  BY DEF Held
<1>2. d \in ds
  BY <1>1 DEF Held
<1>3. groups[from][d] = 1 /\ \A h \in DOMAIN groups \ {from} : groups[h][d] = 0
  BY <1>2 DEF Held
<1> DEFINE added == [groups EXCEPT ![to] = With(@, d)]
<1>4. /\ DOMAIN added = DOMAIN groups
      /\ \A h \in DOMAIN groups : added[h] \in [DeviceNo -> Nat]
      /\ \A h \in DOMAIN groups : \A e \in DeviceNo :
           added[h][e] = IF h = to /\ e = d THEN groups[h][e] + 1 ELSE groups[h][e]
  BY <1>1 DEF With
<1> HIDE DEF added
<1>5. new = [added EXCEPT ![from] = Less(@, d)]
  BY DEF Moved, added
<1> HIDE DEF new
<1>6. /\ DOMAIN new = DOMAIN groups
      /\ \A h \in DOMAIN groups : new[h] \in [DeviceNo -> Nat]
      /\ \A h \in DOMAIN groups : \A e \in DeviceNo :
           new[h][e] = IF h = from /\ e = d /\ added[h][e] # 0
                       THEN added[h][e] - 1 ELSE added[h][e]
  BY <1>4, <1>5 DEF Less
<1>7. \A h \in DOMAIN groups : \A e \in DeviceNo : new[h][e] = Count(h, e)
  BY <1>1, <1>3, <1>4, <1>6
<1> HIDE DEF Count
<1>8. \A e \in ds : \E h \in DOMAIN new :
         new[h][e] = 1 /\ \A k \in DOMAIN new \ {h} : new[k][e] = 0
  <2> SUFFICES ASSUME NEW e \in ds
               PROVE  \E h \in DOMAIN new :
                        new[h][e] = 1 /\ \A k \in DOMAIN new \ {h} : new[k][e] = 0
    OBVIOUS
  <2>1. e \in DeviceNo
    BY DEF Held
  <2>2. CASE e = d
    <3>1. new[to][e] = 1 /\ \A k \in DOMAIN new \ {to} : new[k][e] = 0
      BY <1>6, <1>7, <2>1, <2>2 DEF Count
    <3> QED
      BY <1>6, <3>1
  <2>3. CASE e # d
    <3>1. PICK h \in DOMAIN groups :
             groups[h][e] = 1 /\ \A k \in DOMAIN groups \ {h} : groups[k][e] = 0
      BY DEF Held
    <3>2. new[h][e] = 1 /\ \A k \in DOMAIN new \ {h} : new[k][e] = 0
      BY <1>6, <1>7, <2>1, <2>3, <3>1 DEF Count
    <3> QED
      BY <1>6, <3>2
  <2> QED
    BY <2>2, <2>3
<1>9. \A e \in DeviceNo \ ds : \A h \in DOMAIN new : new[h][e] = 0
  BY <1>2, <1>6, <1>7 DEF Held, Count
<1>10. ds \subseteq DeviceNo /\ \A h \in DOMAIN new : new[h] \in [DeviceNo -> Nat]
  BY <1>6 DEF Held
<1>11. Held(new, ds)
  BY <1>8, <1>9, <1>10 DEF Held
<1> QED
  BY <1>11 DEF new

(* A group that goes takes its devices with it.                              *)
LEMMA DeletedHeld ==
  ASSUME NEW ds, Held(groupList, ds), NEW g \in DOMAIN groupList
  PROVE  Held([h \in DOMAIN groupList \ {g} |-> groupList[h]], ds \ InGroup(g))
<1> DEFINE new == [h \in DOMAIN groupList \ {g} |-> groupList[h]]
<1>1. DOMAIN new = DOMAIN groupList \ {g} /\ \A h \in DOMAIN new : new[h] = groupList[h]
  OBVIOUS
<1> HIDE DEF new
<1>2. \A e \in ds \ InGroup(g) : \E h \in DOMAIN new :
         new[h][e] = 1 /\ \A k \in DOMAIN new \ {h} : new[k][e] = 0
  <2> SUFFICES ASSUME NEW e \in ds \ InGroup(g)
               PROVE  \E h \in DOMAIN new :
                        new[h][e] = 1 /\ \A k \in DOMAIN new \ {h} : new[k][e] = 0
    OBVIOUS
  <2>1. PICK h \in DOMAIN groupList :
           groupList[h][e] = 1 /\ \A k \in DOMAIN groupList \ {h} : groupList[k][e] = 0
    BY DEF Held
  <2>2. h # g
    BY <2>1 DEF Held, InGroup
  <2> QED
    BY <1>1, <2>1, <2>2
<1>3. \A e \in DeviceNo \ (ds \ InGroup(g)) : \A h \in DOMAIN new : new[h][e] = 0
  <2> SUFFICES ASSUME NEW e \in DeviceNo \ (ds \ InGroup(g)), NEW h \in DOMAIN new
               PROVE  new[h][e] = 0
    OBVIOUS
  <2>1. CASE e \in ds
    <3>1. groupList[g][e] > 0
      BY <2>1 DEF InGroup
    <3>2. PICK k \in DOMAIN groupList :
             groupList[k][e] = 1 /\ \A m \in DOMAIN groupList \ {k} : groupList[m][e] = 0
      BY <2>1 DEF Held
    <3>3. k = g
      BY <3>1, <3>2
    <3> QED
      BY <1>1, <3>2, <3>3
  <2>2. CASE e \notin ds
    BY <1>1, <2>2 DEF Held
  <2> QED
    BY <2>1, <2>2
<1>4. ds \ InGroup(g) \subseteq DeviceNo /\ \A h \in DOMAIN new : new[h] \in [DeviceNo -> Nat]
  BY <1>1 DEF Held
<1>5. Held(new, ds \ InGroup(g))
  BY <1>2, <1>3, <1>4 DEF Held
<1> QED
  BY <1>5 DEF new
(* The next number of a base name is above those of the devices there are.   *)
LEMMA NumberIs ==
  ASSUME BuilderInv, NEW b \in Bases
  PROVE  /\ Number(b) \in Nat
         /\ Alone(b) /\ (\A r, s \in namedIn : r = s) =>
              \A i \in DOMAIN devicesToAdd :
                device[devicesToAdd[i]].base = b => device[devicesToAdd[i]].number < Number(b)
<1> DEFINE n == Len(devicesToAdd)
           same == {i \in DOMAIN devicesToAdd :
                     <<device[devicesToAdd[i]].base, b>> \in NameIncludes}
<1>1. n \in Nat /\ DOMAIN devicesToAdd = 1..n
  BY LenProperties DEF BuilderInv
<1>2. \A i \in DOMAIN devicesToAdd : device[devicesToAdd[i]] \in DeviceFields(namedIn)
  BY DEF BuilderInv, Range
<1>3. \A i \in DOMAIN devicesToAdd :
         device[devicesToAdd[i]].base \in Bases /\ device[devicesToAdd[i]].number \in Nat
  BY <1>2 DEF DeviceFields
<1>4. Number(b) = IF same = {} THEN 1 ELSE device[devicesToAdd[Max(same)]].number + 1
  BY DEF Number
<1>5. \A i \in DOMAIN devicesToAdd : device[devicesToAdd[i]].base = b => i \in same
  BY BuilderAssumption
<1>6. Alone(b) => \A i \in same : device[devicesToAdd[i]].base = b
  BY <1>3 DEF Alone
<1>7. same \in SUBSET (1..n)
  BY <1>1
<1> HIDE DEF same, n
<1>8. CASE same = {}
  BY <1>4, <1>5, <1>8
<1>9. CASE same # {}
  <2>1. PICK m : m = Max(same)
    OBVIOUS
  <2>2. m \in same /\ \A x \in same : x <= m
    <3>1. same \in SUBSET (0..n) /\ n \in Nat
      BY <1>1, <1>7
    <3> QED
      BY <1>9, <2>1, <3>1, MaxIs
  <2>3. m \in DOMAIN devicesToAdd
    BY <1>1, <1>7, <2>2
  <2>4. Number(b) = device[devicesToAdd[m]].number + 1
    BY <1>4, <1>9, <2>1
  <2>5. ASSUME Alone(b), \A r, s \in namedIn : r = s,
               NEW i \in DOMAIN devicesToAdd, device[devicesToAdd[i]].base = b
        PROVE  device[devicesToAdd[i]].number < Number(b)
    <3>1. i \in same /\ i <= m /\ i \in 1..n /\ m \in 1..n
      BY <1>1, <1>5, <1>7, <2>2, <2>5
    <3>2. device[devicesToAdd[m]].base = b
      BY <1>6, <2>2, <2>5
    <3>3. CASE i = m
      BY <1>3, <2>3, <2>4, <3>3
    <3>4. CASE i < m
      <4>1. device[devicesToAdd[i]].number < device[devicesToAdd[m]].number
        BY <2>3, <2>5, <3>2, <3>4 DEF BuilderInv, InOrder
      <4> QED
        BY <1>3, <2>3, <2>4, <4>1
    <3> QED
      BY <1>1, <3>1, <3>3, <3>4
  <2> QED
    BY <1>3, <2>3, <2>4, <2>5
<1> QED
  BY <1>8, <1>9

(* A table of the powers of ten for the numbers up to k, as Shift makes it:  *)
(* there is one, whatever k, so Shift is well defined.                       *)
Shifts(s, k) == s = [m \in 0..k |-> IF m < 10 THEN 10 ELSE 10 * s[m \div 10]]

LEMMA ShiftsExist == \A k \in Nat : \E s : Shifts(s, k)
<1> DEFINE Bad == {k \in Nat : \A s : ~Shifts(s, k)}
<1>1. SUFFICES ASSUME Bad # {} PROVE FALSE
  OBVIOUS
<1>2. PICK k \in Bad : \A j \in Bad : k <= j
  BY <1>1, LeastNatural
<1>3. CASE k = 0
  <2>1. Shifts([m \in 0..0 |-> 10], 0)
    BY DEF Shifts
  <2> QED
    BY <1>3, <2>1
<1>4. CASE k # 0
  <2>1. k - 1 \in Nat /\ k - 1 \notin Bad
    BY <1>2, <1>4
  <2>2. PICK s : Shifts(s, k - 1)
    BY <2>1
  <2> DEFINE t == [m \in 0..k |-> IF m < 10 THEN 10 ELSE 10 * s[m \div 10]]
  <2>3. \A m \in 0..k - 1 : t[m] = s[m]
    BY <2>1, <2>2 DEF Shifts
  <2>4. \A m \in 0..k : m >= 10 => m \div 10 \in 0..k - 1
    BY <2>1
  <2>5. \A m \in 0..k : t[m] = IF m < 10 THEN 10 ELSE 10 * t[m \div 10]
    <3> SUFFICES ASSUME NEW m \in 0..k PROVE t[m] = IF m < 10 THEN 10 ELSE 10 * t[m \div 10]
      OBVIOUS
    <3>1. t[m] = IF m < 10 THEN 10 ELSE 10 * s[m \div 10]
      OBVIOUS
    <3> HIDE DEF t
    <3>2. m >= 10 => t[m \div 10] = s[m \div 10]
      BY <2>3, <2>4
    <3>3. m \in Int
      BY <1>2
    <3> QED
      BY <3>1, <3>2, <3>3
  <2>6. t = [m \in 0..k |-> t[m]]
    OBVIOUS
  <2> HIDE DEF t
  <2> QED
    BY <2>5, <2>6 DEF Shifts
<1> QED
  BY <1>3, <1>4

LEMMA ShiftIs ==
  ASSUME NEW n \in Nat
  PROVE  \E s : Shifts(s, n) /\ Shift(n) = s[n]
<1>1. \E s : s = [m \in 0..n |-> IF m < 10 THEN 10 ELSE 10 * s[m \div 10]]
  BY ShiftsExist DEF Shifts
<1> QED
  BY <1>1 DEF Shift, Shifts

(* From one number to a greater one, in two tables, the entry never gets     *)
(* smaller.                                                                  *)
Grows(i) ==
  \A k \in Nat, l \in Nat : \A s, t :
    Shifts(s, k) /\ Shifts(t, l) /\ i \in 0..l
      => \A m \in (0..i) \cap (0..k) : s[m] \in Nat /\ t[i] \in Nat /\ s[m] <= t[i]

LEMMA ShiftsGrow == \A i \in Nat : Grows(i)
<1> DEFINE Bad == {i \in Nat : ~Grows(i)}
<1>1. SUFFICES ASSUME Bad # {} PROVE FALSE
  OBVIOUS
<1>2. PICK i \in Bad : \A j \in Bad : i <= j
  BY <1>1, LeastNatural
<1>3. i \in Nat /\ \A j \in 0..i - 1 : Grows(j)
  BY <1>2
<1>4. SUFFICES ASSUME NEW k \in Nat, NEW l \in Nat, NEW s, NEW t,
                      Shifts(s, k), Shifts(t, l), i \in 0..l, NEW m \in (0..i) \cap (0..k)
               PROVE  s[m] \in Nat /\ t[i] \in Nat /\ s[m] <= t[i]
  <2>1. ~Grows(i)
    BY <1>2
  <2> QED
    BY <2>1 DEF Grows
<1>5. /\ s[m] = IF m < 10 THEN 10 ELSE 10 * s[m \div 10]
      /\ t[i] = IF i < 10 THEN 10 ELSE 10 * t[i \div 10]
  BY <1>4 DEF Shifts
<1>6. CASE i < 10
  BY <1>3, <1>5, <1>6
<1>7. CASE i >= 10
  <2>1. PICK j : j = i \div 10
    OBVIOUS
  <2>2. j \in 0..i - 1 /\ j \in 0..l /\ j >= 1
    BY <1>3, <1>4, <1>7, <2>1
  <2>3. Grows(j) /\ t[i] = 10 * t[j]
    BY <1>3, <1>5, <1>7, <2>1, <2>2
  <2>4. CASE m < 10
    <3>1. 0 \in 0..j /\ 0 \in 0..l
      BY <2>2
    <3>2. t[0] \in Nat /\ t[j] \in Nat /\ t[0] <= t[j]
      BY <1>4, <2>2, <2>3, <3>1 DEF Grows
    <3>3. t[0] = 10
      BY <1>4, <3>1 DEF Shifts
    <3> QED
      BY <1>5, <2>3, <2>4, <3>2, <3>3
  <2>5. CASE m >= 10
    <3>1. PICK p : p = m \div 10
      OBVIOUS
    <3>2. p \in 0..j /\ p \in 0..k
      BY <1>3, <1>4, <2>1, <2>5, <3>1
    <3>3. s[p] \in Nat /\ t[j] \in Nat /\ s[p] <= t[j]
      BY <1>4, <2>2, <2>3, <3>2 DEF Grows
    <3> QED
      BY <1>5, <2>3, <2>5, <3>1, <3>3
  <2> QED
    BY <1>3, <2>4, <2>5
<1> QED
  BY <1>3, <1>6, <1>7

(* A number that is not smaller does not have fewer digits.                  *)
LEMMA ShiftGrows ==
  ASSUME NEW m \in Nat, NEW n \in Nat, m <= n
  PROVE  Shift(m) \in Nat /\ Shift(n) \in Nat /\ Shift(m) <= Shift(n)
<1>1. PICK s : Shifts(s, m) /\ Shift(m) = s[m]
  BY ShiftIs
<1>2. PICK t : Shifts(t, n) /\ Shift(n) = t[n]
  BY ShiftIs
<1>3. m \in 0..n /\ m \in 0..m /\ n \in 0..n
  OBVIOUS
<1>4. Grows(n)
  BY ShiftsGrow
<1>5. s[m] \in Nat /\ t[n] \in Nat /\ s[m] <= t[n]
  BY <1>1, <1>2, <1>3, <1>4 DEF Grows
<1> QED
  BY <1>1, <1>2, <1>5

(* What is left of the list, sorted.                                         *)
LEMMA WithoutIs ==
  ASSUME BuilderInv, NEW ds, NEW l \in Without(devicesToAdd, ds)
  PROVE  /\ l \in Seq(DeviceNo)
         /\ Range(l) = Range(devicesToAdd) \ ds
         /\ \A i, j \in DOMAIN l : l[i] = l[j] => i = j
         /\ \A i, j \in DOMAIN l : i < j => NotAfter(device[l[i]], device[l[j]])
<1> DEFINE kept == Range(devicesToAdd) \ ds
           n == Cardinality(kept)
<1>1. /\ l \in [1..n -> kept]
      /\ {l[i] : i \in DOMAIN l} = kept
      /\ \A i, j \in DOMAIN l : i < j => NotAfter(device[l[i]], device[l[j]])
  BY DEF Without, Range
<1>2. kept \subseteq DeviceNo
  <2>1. \A i \in DOMAIN devicesToAdd : devicesToAdd[i] \in DeviceNo
    BY DEF BuilderInv
  <2> QED
    BY <2>1 DEF Range
<1>3. IsFiniteSet(kept)
  <2>1. IsFiniteSet(DeviceNo)
    <3>1. 1 \in Int /\ MaxDevices \in Int
      BY BuilderAssumption
    <3> QED
      BY <3>1, FS_Interval DEF DeviceNo
  <2> QED
    BY <1>2, <2>1, FS_Subset
<1> HIDE DEF kept
<1>4. n \in Nat
  BY <1>3, FS_CardinalityType
<1> HIDE DEF n
<1>5. IsFiniteSet(1..n) /\ Cardinality(1..n) = n
  BY <1>4, FS_Interval
<1>6. l \in Surjection(1..n, kept)
  BY <1>1 DEF Surjection
<1>7. Cardinality(1..n) = Cardinality(kept)
  BY <1>5 DEF n
<1>8. l \in Injection(1..n, kept)
  BY <1>5, <1>6, <1>7, FS_SurjSameCardinalityImpliesInj
<1>9. \A i, j \in DOMAIN l : l[i] = l[j] => i = j
  BY <1>1, <1>8 DEF Injection, IsInjective
<1>10. l \in Seq(DeviceNo)
  BY <1>1, <1>2, <1>4, SeqDef
<1> QED
  BY <1>1, <1>9, <1>10 DEF Range, kept

(* Sorting leaves devices with one base name in the order of their numbers.  *)
LEMMA SortedInOrder ==
  ASSUME BuilderInv, NEW ds, NEW l \in Without(devicesToAdd, ds)
  PROVE  InOrder(l, device, namedIn)
<1> SUFFICES ASSUME \A r, s \in namedIn : r = s,
                    NEW i \in DOMAIN l, NEW j \in DOMAIN l, i < j,
                    device[l[i]].base = device[l[j]].base, Alone(device[l[i]].base)
             PROVE  device[l[i]].number < device[l[j]].number
  BY DEF InOrder
<1>1. /\ l[i] \in Range(devicesToAdd) /\ l[j] \in Range(devicesToAdd)
      /\ NotAfter(device[l[i]], device[l[j]])
      /\ l \in Seq(DeviceNo) /\ l[i] # l[j]
  <2>1. l \in Seq(DeviceNo)
    BY WithoutIs
  <2>2. i \in Nat /\ j \in Nat
    BY <2>1, LenProperties
  <2>3. Range(l) = Range(devicesToAdd) \ ds
    BY WithoutIs
  <2>4. l[i] \in Range(l) /\ l[j] \in Range(l)
    BY DEF Range
  <2>5. NotAfter(device[l[i]], device[l[j]])
    BY WithoutIs
  <2>6. l[i] = l[j] => i = j
    BY WithoutIs
  <2> QED
    BY <2>1, <2>2, <2>3, <2>4, <2>5, <2>6
<1>2. PICK d, e : d = device[l[i]] /\ e = device[l[j]]
  OBVIOUS
<1>3. d \in DeviceFields(namedIn) /\ e \in DeviceFields(namedIn)
  BY <1>1, <1>2 DEF BuilderInv
<1>4. d.room = e.room /\ d.base = e.base /\ d.room \in TypedRooms /\ d.base \in Bases
      /\ d.number \in Nat /\ e.number \in Nat
  BY <1>2, <1>3 DEF DeviceFields, BuilderInv
<1>5. NotAfter(d, e)
  BY <1>1, <1>2
<1>6. d.number <= e.number
  <2>1. PICK letters : letters = IDRank[d.room][d.base]
    OBVIOUS
  <2>2. PICK digits : digits = RoomDigits[d.room]
    OBVIOUS
  <2>3. letters \in Int /\ digits \in Nat
    BY <1>4, <2>1, <2>2, BuilderAssumption
  <2>4. digits * Shift(d.number) + d.number <= digits * Shift(e.number) + e.number
    BY <1>4, <1>5, <2>1, <2>2, <2>3 DEF NotAfter
  <2>5. SUFFICES ASSUME e.number < d.number PROVE FALSE
    BY <1>4
  <2>6. Shift(e.number) \in Nat /\ Shift(d.number) \in Nat /\ Shift(e.number) <= Shift(d.number)
    BY <1>4, <2>5, ShiftGrows
  <2>7. \A a, x, y \in Nat : x <= y => a * x \in Nat /\ a * y \in Nat /\ a * x <= a * y
    OBVIOUS
  <2>8. PICK p, q : p = digits * Shift(e.number) /\ q = digits * Shift(d.number)
    OBVIOUS
  <2>9. p \in Nat /\ q \in Nat /\ p <= q
    BY <2>3, <2>6, <2>7, <2>8
  <2> QED
    BY <1>4, <2>4, <2>5, <2>8, <2>9
<1>7. PICK x \in DOMAIN devicesToAdd, y \in DOMAIN devicesToAdd :
         devicesToAdd[x] = l[i] /\ devicesToAdd[y] = l[j]
  BY <1>1 DEF Range
<1>8. d.number # e.number
  <2>1. x \in Nat /\ y \in Nat /\ x # y
    BY <1>1, <1>7, LenProperties DEF BuilderInv
  <2>2. CASE x < y
    <3>1. d.number < e.number
      BY <1>2, <1>7, <2>2 DEF BuilderInv, InOrder
    <3> QED
      BY <1>4, <3>1
  <2>3. CASE y < x
    <3>1. e.number < d.number
      BY <1>2, <1>7, <2>3 DEF BuilderInv, InOrder
    <3> QED
      BY <1>4, <3>1
  <2> QED
    BY <2>1, <2>2, <2>3
<1> QED
  BY <1>2, <1>4, <1>6, <1>8

(* Steps of the room builder that change neither list.                       *)
LEMMA BuilderStart ==
  ASSUME InitBuilder
  PROVE  BuilderInv
<1>1. devicesToAdd = <<>> /\ Range(devicesToAdd) = {} /\ devicesToAdd \in Seq(DeviceNo)
  BY DEF InitBuilder, Range
<1>2. namedIn = {} /\ IsFiniteSet(namedIn)
  BY FS_EmptySet DEF InitBuilder
<1>3. DOMAIN groupList = {} /\ DOMAIN device = {}
  BY DEF InitBuilder
<1>4. Held(groupList, Range(devicesToAdd))
  BY <1>1, <1>3 DEF Held
<1>5. DOMAIN devicesToAdd = {}
  BY <1>1
<1>6. InOrder(devicesToAdd, device, namedIn)
  BY <1>5 DEF InOrder
<1> QED
  BY <1>1, <1>2, <1>3, <1>4, <1>5, <1>6 DEF BuilderInv, InitBuilder

LEMMA GroupsChangeInv ==
  ASSUME BuilderInv, groupsMade' \in Nat, DOMAIN groupList' \subseteq 1..groupsMade',
         Held(groupList', Range(devicesToAdd)), room' \in TypedRooms \cup {NoRoom},
         UNCHANGED <<devicesToAdd, device, devicesMade, namedIn>>
  PROVE  BuilderInv'
<1>1. Range(devicesToAdd') = Range(devicesToAdd)
  BY DEF Range
<1>2. Held(groupList', Range(devicesToAdd'))
  BY <1>1
<1>3. InOrder(devicesToAdd', device', namedIn')
  BY DEF BuilderInv, InOrder
<1> QED
  BY <1>1, <1>2, <1>3 DEF BuilderInv

(* A device placed in one of the groups, in the list of groups there is then. *)
LEMMA PlacedInv ==
  ASSUME BuilderInv, NEW t \in DeviceTypes, NEW groups, NEW g \in DOMAIN groups,
         Held(groups, Range(devicesToAdd)), Place(t, g, groups),
         groupsMade' \in Nat, DOMAIN groups \subseteq 1..groupsMade', UNCHANGED room
  PROVE  BuilderInv'
<1>1. CASE room = NoRoom
  <2>1. groupList' = groups /\ UNCHANGED <<devicesToAdd, device, devicesMade, namedIn>>
    BY <1>1 DEF Place
  <2>2. room' \in TypedRooms \cup {NoRoom}
    BY DEF BuilderInv
  <2> QED
    BY <2>1, <2>2, GroupsChangeInv
<1>2. CASE room # NoRoom
  <2>1. PICK b, n, new : /\ b = BaseName[t] /\ n = Number(b)
                         /\ new = [base |-> b, number |-> n, room |-> room, pi |-> t \in PiTypes]
    OBVIOUS
  <2>2. PICK d : d = devicesMade + 1
    OBVIOUS
  <2>3. /\ d \in DeviceNo
        /\ devicesMade' = d
        /\ device' = [e \in DOMAIN device \cup {d} |-> IF e = d THEN new ELSE device[e]]
        /\ devicesToAdd' = Append(devicesToAdd, d)
        /\ groupList' = [groups EXCEPT ![g] = With(@, d)]
        /\ namedIn' = namedIn \cup {room}
    BY <1>2, <2>1, <2>2 DEF Place
  <2>4. b \in Bases
    BY <2>1 DEF Bases
  <2>5. n \in Nat /\ (Alone(b) /\ (\A r, s \in namedIn : r = s) =>
              \A i \in DOMAIN devicesToAdd :
                device[devicesToAdd[i]].base = b => device[devicesToAdd[i]].number < n)
    BY <2>1, <2>4, NumberIs
  <2>6. d \notin Range(devicesToAdd) /\ devicesMade \in Nat
    BY <2>2 DEF BuilderInv
  <2>7. PICK len : len = Len(devicesToAdd) /\ len \in Nat /\ DOMAIN devicesToAdd = 1..len
    BY LenProperties DEF BuilderInv
  <2>8. /\ devicesToAdd' \in Seq(DeviceNo)
        /\ DOMAIN devicesToAdd' = 1..(len + 1)
        /\ \A i \in 1..len : devicesToAdd'[i] = devicesToAdd[i]
        /\ devicesToAdd'[len + 1] = d
    BY <2>3, <2>7, AppendProperties, LenProperties DEF BuilderInv
  <2>9. \A i \in 1..len : devicesToAdd[i] \in Range(devicesToAdd)
    BY <2>7 DEF Range
  <2>10. Range(devicesToAdd') = Range(devicesToAdd) \cup {d}
    BY <2>7, <2>8 DEF Range
  <2>11. \A i, j \in DOMAIN devicesToAdd' : devicesToAdd'[i] = devicesToAdd'[j] => i = j
    BY <2>6, <2>7, <2>8, <2>9 DEF BuilderInv
  <2>12. /\ DOMAIN device' = Range(devicesToAdd) \cup {d}
         /\ device'[d] = new
         /\ \A e \in Range(devicesToAdd) : device'[e] = device[e]
    BY <2>3, <2>6 DEF BuilderInv
  <2>13. room \in TypedRooms
    BY <1>2 DEF BuilderInv
  <2>14. new \in DeviceFields(namedIn')
    BY <2>1, <2>3, <2>4, <2>5 DEF DeviceFields
  <2>15. \A e \in Range(devicesToAdd) : device[e] \in DeviceFields(namedIn')
    BY <2>3 DEF BuilderInv, DeviceFields
  <2>16. \A e \in DOMAIN device' : e <= devicesMade' /\ device'[e] \in DeviceFields(namedIn')
    <3> SUFFICES ASSUME NEW e \in DOMAIN device'
                 PROVE  e <= devicesMade' /\ device'[e] \in DeviceFields(namedIn')
      OBVIOUS
    <3>1. CASE e = d
      BY <2>2, <2>3, <2>6, <2>12, <2>14, <3>1
    <3>2. CASE e # d
      <4>1. e \in Range(devicesToAdd)
        BY <2>12, <3>2
      <4>2. e \in DeviceNo /\ e <= devicesMade
        BY <4>1 DEF BuilderInv, Held
      <4>3. device'[e] \in DeviceFields(namedIn')
        BY <2>12, <2>15, <4>1
      <4> QED
        BY <2>2, <2>3, <2>6, <4>2, <4>3 DEF DeviceNo
    <3> QED
      BY <3>1, <3>2
  <2>17. IsFiniteSet(namedIn') /\ namedIn' \subseteq TypedRooms
    BY <2>3, <2>13, FS_AddElement DEF BuilderInv
  <2>18. Held(groupList', Range(devicesToAdd'))
    <3>1. d \in DeviceNo /\ d \notin Range(devicesToAdd)
      BY <2>3, <2>6
    <3>2. Held([groups EXCEPT ![g] = With(@, d)], Range(devicesToAdd) \cup {d})
      BY <3>1, AddedHeld
    <3> QED
      BY <2>3, <2>10, <3>2
  <2>19. DOMAIN groupList' \subseteq 1..groupsMade'
    BY <2>3
  <2>20. InOrder(devicesToAdd', device', namedIn')
    <3> SUFFICES ASSUME \A r, s \in namedIn' : r = s,
                        NEW i \in DOMAIN devicesToAdd', NEW j \in DOMAIN devicesToAdd', i < j,
                        device'[devicesToAdd'[i]].base = device'[devicesToAdd'[j]].base,
                        Alone(device'[devicesToAdd'[i]].base)
                 PROVE  device'[devicesToAdd'[i]].number < device'[devicesToAdd'[j]].number
      BY DEF InOrder
    <3>1. \A r, s \in namedIn : r = s
      BY <2>3
    <3>2. i \in 1..len /\ device'[devicesToAdd'[i]] = device[devicesToAdd[i]]
      BY <2>7, <2>8, <2>9, <2>12
    <3>3. CASE j = len + 1
      <4>1. device'[devicesToAdd'[j]] = new /\ new.base = b /\ new.number = n
        BY <2>1, <2>8, <2>12, <3>3
      <4>2. device[devicesToAdd[i]].base = b /\ Alone(b)
        BY <3>2, <4>1
      <4>3. device[devicesToAdd[i]].number < n
        BY <2>5, <2>7, <3>1, <3>2, <4>2
      <4> QED
        BY <3>2, <4>1, <4>3
    <3>4. CASE j # len + 1
      <4>1. j \in 1..len /\ device'[devicesToAdd'[j]] = device[devicesToAdd[j]]
        BY <2>7, <2>8, <2>9, <2>12, <3>4
      <4> QED
        BY <2>7, <3>1, <3>2, <4>1 DEF BuilderInv, InOrder
    <3> QED
      BY <3>3, <3>4
  <2>21. room' \in TypedRooms \cup {NoRoom}
    BY <2>13
  <2>22. DOMAIN device' = Range(devicesToAdd')
    BY <2>10, <2>12
  <2>23. devicesMade' \in Nat
    BY <2>2, <2>3, <2>6
  <2> QED
    BY <2>8, <2>11, <2>16, <2>17, <2>18, <2>19, <2>20, <2>21, <2>22, <2>23 DEF BuilderInv
<1> QED
  BY <1>1, <1>2

(* Devices deleted, those of the groups among them.                          *)
LEMMA DeleteInv ==
  ASSUME BuilderInv, NEW ds, Delete(ds), Held(groupList', Range(devicesToAdd) \ ds),
         DOMAIN groupList' \subseteq DOMAIN groupList,
         UNCHANGED <<room, devicesMade, groupsMade, namedIn>>
  PROVE  BuilderInv'
<1>1. PICK l : l = devicesToAdd'
  OBVIOUS
<1>2. /\ l \in Seq(DeviceNo)
      /\ Range(l) = Range(devicesToAdd) \ ds
      /\ \A i, j \in DOMAIN l : l[i] = l[j] => i = j
      /\ InOrder(l, device, namedIn)
  <2>1. CASE ds = {}
    <3>1. l = devicesToAdd
      BY <1>1, <2>1 DEF Delete
    <3> QED
      BY <2>1, <3>1 DEF BuilderInv
  <2>2. CASE ds # {}
    <3>1. l \in Without(devicesToAdd, ds)
      BY <1>1, <2>2 DEF Delete
    <3>2. l \in Seq(DeviceNo)
      BY <3>1, WithoutIs
    <3>3. Range(l) = Range(devicesToAdd) \ ds
      BY <3>1, WithoutIs
    <3>4. \A i, j \in DOMAIN l : l[i] = l[j] => i = j
      BY <3>1, WithoutIs
    <3>5. InOrder(l, device, namedIn)
      BY <3>1, SortedInOrder
    <3> QED
      BY <3>2, <3>3, <3>4, <3>5
  <2> QED
    BY <2>1, <2>2
<1>3. /\ DOMAIN device' = Range(l)
      /\ \A e \in Range(l) : device'[e] = device[e] /\ e \in DOMAIN device
  BY <1>2 DEF Delete, BuilderInv
<1>4. \A i \in DOMAIN l : device'[l[i]] = device[l[i]]
  BY <1>3 DEF Range
<1>5. InOrder(l, device', namedIn)
  BY <1>2, <1>4 DEF InOrder
<1>6. Range(devicesToAdd') = Range(l)
  BY <1>1
<1>7. InOrder(devicesToAdd', device', namedIn')
  BY <1>1, <1>5 DEF InOrder
<1>8. Held(groupList', Range(devicesToAdd'))
  BY <1>2, <1>6
<1>9. \A e \in DOMAIN device' : e <= devicesMade' /\ device'[e] \in DeviceFields(namedIn')
  BY <1>3 DEF BuilderInv
<1> QED
  BY <1>1, <1>2, <1>3, <1>6, <1>7, <1>8, <1>9 DEF BuilderInv
(* A group made beside the others.                                           *)
LEMMA GrownGroups ==
  ASSUME BuilderInv, groupsMade' = groupsMade + 1, NEW groups, groups = Grown(groupList)
  PROVE  /\ Held(groups, Range(devicesToAdd)) /\ groupsMade + 1 \in DOMAIN groups
         /\ DOMAIN groupList \subseteq DOMAIN groups
         /\ \A g \in DOMAIN groupList : groups[g] = groupList[g]
         /\ groupsMade' \in Nat /\ DOMAIN groups \subseteq 1..groupsMade'
<1>1. /\ DOMAIN groups = DOMAIN groupList \cup {groupsMade + 1}
      /\ \A g \in DOMAIN groupList : groups[g] = groupList[g]
  BY DEF Grown
<1>2. groupsMade \in Nat /\ DOMAIN groupList \subseteq 1..groupsMade
  BY DEF BuilderInv
<1>3. groupsMade + 1 \notin DOMAIN groupList
  BY <1>2
<1>4. PICK ds : ds = Range(devicesToAdd)
  OBVIOUS
<1>5. Held(groupList, ds)
  BY <1>4 DEF BuilderInv
<1>6. Held(groups, ds)
  BY <1>3, <1>5, GrownHeld
<1> QED
  BY <1>1, <1>2, <1>4, <1>6

LEMMA BuilderStep ==
  ASSUME BuilderInv, [NextBuilder]_builderVars
  PROVE  BuilderInv'
<1> PICK ds : ds = Range(devicesToAdd)
  OBVIOUS
<1>0. /\ groupsMade \in Nat /\ DOMAIN groupList \subseteq 1..groupsMade
      /\ Held(groupList, ds) /\ room \in TypedRooms \cup {NoRoom}
  BY DEF BuilderInv
<1>1. ASSUME NEW l, LoadList(l) PROVE BuilderInv'
  <2>1. UNCHANGED <<groupList, groupsMade, room, devicesToAdd, device, devicesMade, namedIn>>
    BY <1>1 DEF LoadList, location
  <2> QED
    BY <1>0, <2>1, GroupsChangeInv
<1>2. ASSUME NEW r \in TypedRooms, ValidateLocation(r) PROVE BuilderInv'
  <2>1. /\ room' = r \/ room' = room
        /\ UNCHANGED <<groupList, groupsMade, devicesToAdd, device, devicesMade, namedIn>>
    BY <1>2 DEF ValidateLocation
  <2> QED
    BY <1>0, <2>1, GroupsChangeInv
<1>3. ASSUME NEW t \in DeviceTypes, DragTypeBeside(t) PROVE BuilderInv'
  <2>1. PICK n, groups : n = groupsMade + 1 /\ groups = Grown(groupList)
    OBVIOUS
  <2>2. groupsMade' = groupsMade + 1 /\ room' = room
    BY <1>3 DEF DragTypeBeside, location
  <2>3. Place(t, groupsMade + 1, Grown(groupList))
    BY <1>3 DEF DragTypeBeside
  <2>4. Place(t, n, groups)
    BY <2>1, <2>3 DEF Place
  <2>5. /\ Held(groups, Range(devicesToAdd)) /\ n \in DOMAIN groups
        /\ groupsMade' \in Nat /\ DOMAIN groups \subseteq 1..groupsMade'
    BY <2>1, <2>2, GrownGroups
  <2> QED
    BY <2>2, <2>4, <2>5, PlacedInv
<1>4. ASSUME NEW t \in DeviceTypes, NEW g, DragType(t, g) PROVE BuilderInv'
  <2>1. PICK groups : groups = groupList
    OBVIOUS
  <2>2. g \in DOMAIN groups /\ groupsMade' = groupsMade /\ room' = room
    BY <1>4, <2>1 DEF DragType, location
  <2>3. Place(t, g, groups)
    BY <1>4, <2>1 DEF DragType, Place
  <2>4. Held(groups, Range(devicesToAdd)) /\ DOMAIN groups \subseteq 1..groupsMade'
    BY <1>0, <2>1, <2>2
  <2> QED
    BY <1>0, <2>2, <2>3, <2>4, PlacedInv
<1>5. ASSUME NEW d \in DeviceNo, NEW g, DragDeviceBeside(d, g) PROVE BuilderInv'
  <2>1. PICK n, groups : n = groupsMade + 1 /\ groups = Grown(groupList)
    OBVIOUS
  <2>2. /\ groupsMade' = groupsMade + 1
        /\ g \in DOMAIN groupList /\ groupList[g][d] > 0
        /\ UNCHANGED <<room, devicesToAdd, device, devicesMade, namedIn>>
    BY <1>5 DEF DragDeviceBeside, location, InGroup
  <2>3. groupList' = Moved(groups, g, n, d)
    BY <1>5, <2>1 DEF DragDeviceBeside
  <2>4. /\ Held(groups, ds) /\ n \in DOMAIN groups
        /\ g \in DOMAIN groups /\ groups[g][d] > 0
        /\ groupsMade' \in Nat /\ DOMAIN groups \subseteq 1..groupsMade'
    BY <2>1, <2>2, GrownGroups
  <2>5. Held(groupList', ds)
    BY <2>3, <2>4, MovedHeld
  <2>6. DOMAIN groupList' \subseteq 1..groupsMade'
    BY <2>3, <2>4 DEF Moved
  <2> QED
    BY <1>0, <2>2, <2>4, <2>5, <2>6, GroupsChangeInv
<1>6. ASSUME NEW d \in DeviceNo, NEW g, RemoveDevice(d, g) PROVE BuilderInv'
  <2>1. /\ g \in DOMAIN groupList /\ groupList[g][d] > 0
        /\ groupList' = [groupList EXCEPT ![g] = Less(@, d)]
        /\ Delete({d})
        /\ UNCHANGED <<room, devicesMade, groupsMade, namedIn>>
    BY <1>6 DEF RemoveDevice, location, InGroup
  <2>2. Held(groupList', ds \ {d})
    BY <1>0, <2>1, LessHeld
  <2>3. DOMAIN groupList' \subseteq DOMAIN groupList
    BY <2>1
  <2> QED
    BY <2>1, <2>2, <2>3, DeleteInv
<1>7. ASSUME NEW d \in DeviceNo, NEW from, NEW to, DragDevice(d, from, to)
      PROVE  BuilderInv'
  <2>1. /\ from \in DOMAIN groupList /\ to \in DOMAIN groupList /\ groupList[from][d] > 0
        /\ groupList' = Moved(groupList, from, to, d)
        /\ UNCHANGED <<room, devicesToAdd, device, devicesMade, groupsMade, namedIn>>
    BY <1>7 DEF DragDevice, location, InGroup
  <2>2. Held(groupList', ds)
    BY <1>0, <2>1, MovedHeld
  <2>3. DOMAIN groupList' \subseteq 1..groupsMade'
    BY <1>0, <2>1 DEF Moved
  <2> QED
    BY <1>0, <2>1, <2>2, <2>3, GroupsChangeInv
<1>8. ASSUME NEW g, DeleteGroup(g) PROVE BuilderInv'
  <2>1. PICK gone : gone = InGroup(g)
    OBVIOUS
  <2>2. /\ g \in DOMAIN groupList
        /\ groupList' = [h \in DOMAIN groupList \ {g} |-> groupList[h]]
        /\ UNCHANGED <<room, devicesMade, groupsMade, namedIn>>
    BY <1>8 DEF DeleteGroup, location
  <2>3. Delete(InGroup(g))
    BY <1>8 DEF DeleteGroup
  <2>4. Delete(gone)
    BY <2>1, <2>3 DEF Delete
  <2>5. Held(groupList', ds \ gone)
    BY <1>0, <2>1, <2>2, DeletedHeld
  <2>6. DOMAIN groupList' \subseteq DOMAIN groupList
    BY <2>2
  <2> QED
    BY <2>2, <2>4, <2>5, <2>6, DeleteInv
<1>9. ASSUME UNCHANGED builderVars PROVE BuilderInv'
  <2>1. UNCHANGED <<groupList, groupsMade, room, devicesToAdd, device, devicesMade, namedIn>>
    BY <1>9 DEF builderVars, location
  <2> QED
    BY <1>0, <2>1, GroupsChangeInv
<1> QED
  BY <1>1, <1>2, <1>3, <1>4, <1>5, <1>6, <1>7, <1>8, <1>9 DEF NextBuilder

LEMMA BuilderInvHolds == BuilderSpec => []BuilderInv
<1>1. InitBuilder => BuilderInv
  BY BuilderStart
<1>2. BuilderInv /\ [NextBuilder]_builderVars => BuilderInv'
  BY BuilderStep
<1> QED
  BY <1>1, <1>2, PTL DEF BuilderSpec

(* A device to add is in one group, once, and a group holds nothing else,    *)
(* however devices are dragged about and groups deleted (OnDropSuccess,      *)
(* RemoveFromGroup, DeleteGroup): the two lists never part.                  *)
THEOREM DevicesInOneGroup == BuilderSpec => []OneGroup
<1>1. BuilderInv => OneGroup
  <2> SUFFICES ASSUME BuilderInv PROVE OneGroup
    OBVIOUS
  <2>1. \A i, j \in DOMAIN devicesToAdd : devicesToAdd[i] = devicesToAdd[j] => i = j
    BY DEF BuilderInv
  <2>2. ASSUME NEW d \in DeviceNo, d \in Range(devicesToAdd)
        PROVE  \E g \in {h \in DOMAIN groupList : groupList[h][d] > 0} :
                 /\ {h \in DOMAIN groupList : groupList[h][d] > 0} = {g}
                 /\ groupList[g][d] = 1
    <3>1. PICK g \in DOMAIN groupList :
             groupList[g][d] = 1 /\ \A h \in DOMAIN groupList \ {g} : groupList[h][d] = 0
      BY <2>2 DEF BuilderInv, Held
    <3>2. {h \in DOMAIN groupList : groupList[h][d] > 0} = {g}
      BY <3>1
    <3> QED
      BY <3>1, <3>2
  <2>3. ASSUME NEW d \in DeviceNo, d \notin Range(devicesToAdd)
        PROVE  {g \in DOMAIN groupList : groupList[g][d] > 0} = {}
    BY <2>3 DEF BuilderInv, Held
  <2>4. \A d : (\E i \in DOMAIN devicesToAdd : devicesToAdd[i] = d) <=> d \in Range(devicesToAdd)
    BY DEF Range
  <2> QED
    BY <2>1, <2>2, <2>3, <2>4 DEF OneGroup
<1> QED
  BY <1>1, BuilderInvHolds, PTL

(* Two devices to add never have one ID (AssignDeviceNumber, sortAlphaNum),  *)
(* as long as all are named in one room and no other base name includes      *)
(* theirs.                                                                   *)
THEOREM BuilderIDsUnique == BuilderSpec => []IDsUnique
<1>1. BuilderInv => IDsUnique
  <2> SUFFICES ASSUME BuilderInv, Cardinality(namedIn) <= 1,
                      NEW i \in DOMAIN devicesToAdd, NEW j \in DOMAIN devicesToAdd, i # j,
                      device[devicesToAdd[i]].base = device[devicesToAdd[j]].base,
                      device[devicesToAdd[i]].number = device[devicesToAdd[j]].number,
                      Alone(device[devicesToAdd[i]].base)
               PROVE  FALSE
    BY DEF IDsUnique, Alone
  <2>1. \A r, s \in namedIn : r = s
    BY OneRoom DEF BuilderInv
  <2>2. i \in Nat /\ j \in Nat
    BY LenProperties DEF BuilderInv
  <2>3. device[devicesToAdd[i]] \in DeviceFields(namedIn)
    BY DEF BuilderInv, Range
  <2>4. device[devicesToAdd[i]].number \in Nat
    BY <2>3 DEF DeviceFields
  <2>5. CASE i < j
    BY <2>1, <2>4, <2>5 DEF BuilderInv, InOrder
  <2>6. CASE j < i
    BY <2>1, <2>4, <2>6 DEF BuilderInv, InOrder
  <2> QED
    BY <2>2, <2>5, <2>6
<1> QED
  BY <1>1, BuilderInvHolds, PTL
-----------------------------------------------------------------------------
(* The types of the pages, which the clauses above build on in part.         *)

LEMMA BuilderTypes == BuilderSpec => []BuilderTypeOK
<1>1. BuilderInv => BuilderTypeOK
  <2> SUFFICES ASSUME BuilderInv PROVE BuilderTypeOK
    OBVIOUS
  <2>1. room \in TypedRooms \cup {NoRoom} /\ DOMAIN groupList \subseteq 1..groupsMade
    BY DEF BuilderInv
  <2>2. \A g \in DOMAIN groupList : groupList[g] \in [DeviceNo -> Nat]
    BY DEF BuilderInv, Held
  <2>3. ASSUME NEW d \in DOMAIN device PROVE d \in 1..devicesMade
    <3>1. d \in DeviceNo /\ d <= devicesMade /\ devicesMade \in Nat
      BY DEF BuilderInv, Held
    <3>2. MaxDevices \in Int
      BY BuilderAssumption
    <3> QED
      BY <3>1, <3>2 DEF DeviceNo
  <2> QED
    BY <2>1, <2>2, <2>3 DEF BuilderTypeOK
<1> QED
  BY <1>1, BuilderInvHolds, PTL

(* A document of a form: its IDs, and its configuration, that of the room    *)
(* itself or one of the n there are.                                         *)
IsFormDoc(doc, n) ==
  /\ doc \in [id : {doc.id}, name : {doc.name}, tags : {doc.tags}, object : {doc.object},
              own : {doc.own}, from : {doc.from}, came : {doc.came}, picked : {doc.picked}]
  /\ {doc.id, doc.from} \subseteq FormIDsTyped \cup {NotChosen}
  /\ doc.object \in 0..n

FormTypes ==
  /\ DOMAIN docs \subseteq FormIDsTyped
  /\ formID \in FormIDsTyped \cup {NotChosen}
  /\ Len(configs) \in {0, Len(ConfigNames)}
  /\ IsFormDoc(addDoc, Len(configs)) /\ IsFormDoc(editDoc, Len(configs))
  /\ \A d \in DOMAIN formList : IsFormDoc(formList[d], Len(configs))

(* The document on the form is the entry of the list it was chosen from.     *)
EditIsListed == inList => editDoc.from \in DOMAIN formList /\ formList[editDoc.from] = editDoc

(* The list of buildings arrives once, before one can be chosen from it.     *)
BuildingsOnce ==
  /\ \A p, q \in requests : p.call = "buildings" /\ q.call = "buildings" => p = q
  /\ formPage = "building" =>
       \A q \in requests :
         q.call # "rooms" /\ (q.call = "buildings" => DOMAIN formList = {} /\ ~inList)

FormTypesInv == FormTypes /\ EditIsListed /\ BuildingsOnce

LEMMA NamedTyped ==
  ASSUME NEW doc, NEW n, IsFormDoc(doc, n)
  PROVE  IsFormDoc(Named(doc), n) /\ Named(doc).from = doc.from
BY DEF IsFormDoc, Named

LEMMA IDTyped ==
  ASSUME NEW doc, NEW n, IsFormDoc(doc, n), NEW id \in FormIDsTyped \cup {NotChosen}
  PROVE  IsFormDoc([doc EXCEPT !.id = id], n)
<1>1. /\ {doc.id, doc.from} \subseteq FormIDsTyped \cup {NotChosen} /\ doc.object \in 0..n
      /\ doc \in [id : {doc.id}, name : {doc.name}, tags : {doc.tags}, object : {doc.object},
                 own : {doc.own}, from : {doc.from}, came : {doc.came}, picked : {doc.picked}]
  BY DEF IsFormDoc
<1> QED
  BY <1>1 DEF IsFormDoc

LEMMA TagsTyped ==
  ASSUME NEW doc, NEW n, IsFormDoc(doc, n), NEW tags
  PROVE  IsFormDoc([doc EXCEPT !.tags = tags], n)
<1>1. /\ {doc.id, doc.from} \subseteq FormIDsTyped \cup {NotChosen} /\ doc.object \in 0..n
      /\ doc \in [id : {doc.id}, name : {doc.name}, tags : {doc.tags}, object : {doc.object},
                 own : {doc.own}, from : {doc.from}, came : {doc.came}, picked : {doc.picked}]
  BY DEF IsFormDoc
<1> QED
  BY <1>1 DEF IsFormDoc

LEMMA ObjectTyped ==
  ASSUME NEW doc, NEW n, IsFormDoc(doc, n), NEW i \in 0..n, NEW name
  PROVE  /\ IsFormDoc([doc EXCEPT !.object = i], n)
         /\ IsFormDoc([doc EXCEPT !.object = i, !.picked = name], n)
<1>1. /\ {doc.id, doc.from} \subseteq FormIDsTyped \cup {NotChosen} /\ doc.object \in 0..n
      /\ doc \in [id : {doc.id}, name : {doc.name}, tags : {doc.tags}, object : {doc.object},
                 own : {doc.own}, from : {doc.from}, came : {doc.came}, picked : {doc.picked}]
  BY DEF IsFormDoc
<1> QED
  BY <1>1 DEF IsFormDoc

LEMMA LoadedTyped ==
  ASSUME FormTypes, NEW ids, NEW n \in Nat
  PROVE  \A d \in DOMAIN Loaded(ids) : IsFormDoc(Loaded(ids)[d], n)
BY DEF FormTypes, Loaded, IsFormDoc

LEMMA FormTypesNext ==
  ASSUME DOMAIN docs' \subseteq FormIDsTyped, formID' \in FormIDsTyped \cup {NotChosen},
         Len(configs') \in {0, Len(ConfigNames)},
         IsFormDoc(addDoc', Len(configs')), IsFormDoc(editDoc', Len(configs')),
         \A d \in DOMAIN formList' : IsFormDoc(formList'[d], Len(configs'))
  PROVE  FormTypes'
BY DEF FormTypes, IsFormDoc

(* What is done to the document on the form is done to its entry.            *)
LEMMA SetEditTyped ==
  ASSUME FormTypes, EditIsListed, NEW doc, IsFormDoc(doc, Len(configs)),
         doc.from = editDoc.from, SetEdit(doc), UNCHANGED inList
  PROVE  /\ editDoc' = doc /\ EditIsListed' /\ DOMAIN formList' = DOMAIN formList
         /\ \A d \in DOMAIN formList' : IsFormDoc(formList'[d], Len(configs))
<1>1. CASE ~inList
  BY <1>1 DEF SetEdit, EditIsListed, FormTypes
<1>2. CASE inList
  <2>1. doc.from \in DOMAIN formList /\ formList' = [formList EXCEPT ![doc.from] = doc]
    BY <1>2 DEF SetEdit, EditIsListed
  <2>2. \A d \in DOMAIN formList' : formList'[d] = IF d = doc.from THEN doc ELSE formList[d]
    BY <2>1
  <2> QED
    BY <2>1, <2>2 DEF SetEdit, EditIsListed, FormTypes
<1> QED
  BY <1>1, <1>2

LEMMA FormTypesStart == InitForm => FormTypesInv
<1> SUFFICES ASSUME InitForm PROVE FormTypesInv
  OBVIOUS
<1>1. IsFormDoc(NewDoc, 0) /\ Len(<< >>) = 0
  BY DEF IsFormDoc, NewDoc
<1>2. FormTypes
  BY <1>1 DEF InitForm, FormTypes, NoDocs, FormIDsTyped
<1>3. EditIsListed /\ BuildingsOnce
  BY DEF InitForm, EditIsListed, BuildingsOnce, NoDocs
<1> QED
  BY <1>2, <1>3 DEF FormTypesInv

LEMMA LengthOfConfigs == FormInv => Len(configs) \in Nat /\ DOMAIN configs = 1..Len(configs)
BY DEF FormInv

LEMMA AnswersTyped ==
  ASSUME FormInv, FormTypesInv, NEW q \in requests,
         \/ BuildingsAnswered(q) \/ ConfigsAnswered(q)
         \/ RoomsAnswered(q) \/ UpdateAnswered(q) \/ FormLost(q)
  PROVE  FormTypesInv'
<1> USE LengthOfConfigs
<1>1. requests' = requests \ {q} /\ UNCHANGED <<formPage, docs, editDoc>>
  BY DEF BuildingsAnswered, ConfigsAnswered, RoomsAnswered, UpdateAnswered, FormLost, Answered
<1>2. FormTypes /\ EditIsListed /\ BuildingsOnce
  BY DEF FormTypesInv
<1>3. CASE BuildingsAnswered(q)
  <2>1. FormTypes'
    <3>1. UNCHANGED <<addDoc, formID, configs>>
      BY <1>3 DEF BuildingsAnswered
    <3>2. \A d \in DOMAIN formList' : IsFormDoc(formList'[d], Len(configs))
      BY <1>2, <1>3, LoadedTyped DEF BuildingsAnswered, FormTypes
    <3> QED
      BY <1>1, <1>2, <3>1, <3>2, FormTypesNext DEF FormTypes
  <2>2. EditIsListed'
    BY <1>1, <1>2, <1>3 DEF BuildingsAnswered, EditIsListed, BuildingsOnce
  <2>3. BuildingsOnce'
    BY <1>1, <1>2, <1>3 DEF BuildingsAnswered, BuildingsOnce
  <2> QED
    BY <2>1, <2>2, <2>3 DEF FormTypesInv
<1>4. CASE ConfigsAnswered(q)
  <2> DEFINE top == Max({addDoc.object} \cup {i \in DOMAIN ConfigNames : ConfigNames[i] = "Default"})
  <2>1. Len(ConfigNames) \in Nat /\ DOMAIN ConfigNames = 1..Len(ConfigNames)
    BY FormAssumption
  <2>2. addDoc.object \in 0..Len(ConfigNames) /\ Len(configs) <= Len(ConfigNames)
    <3>1. Len(configs) \in {0, Len(ConfigNames)}
      BY <1>2 DEF FormTypes
    <3>2. addDoc.object \in 0..Len(configs)
      BY <1>2 DEF FormTypes, IsFormDoc
    <3>3. CASE Len(configs) = 0
      BY <2>1, <3>2, <3>3
    <3>4. CASE Len(configs) = Len(ConfigNames)
      BY <2>1, <3>2, <3>4
    <3> QED
      BY <3>1, <3>3, <3>4
  <2>3. top \in 0..Len(ConfigNames)
    <3> DEFINE S == {addDoc.object} \cup {i \in DOMAIN ConfigNames : ConfigNames[i] = "Default"}
    <3>1. S \subseteq 0..Len(ConfigNames) /\ S # {}
      BY <2>1, <2>2
    <3> HIDE DEF S
    <3>2. Max(S) \in S
      BY <2>1, <3>1, MaxIs
    <3> QED
      BY <3>1, <3>2 DEF S
  <2> HIDE DEF top
  <2>4. addDoc' = [addDoc EXCEPT !.object = top] /\ configs' = ConfigNames
        /\ UNCHANGED <<formList, inList, formID>>
    BY <1>4 DEF ConfigsAnswered, top
  <2>5. \A doc : IsFormDoc(doc, Len(configs)) => IsFormDoc(doc, Len(ConfigNames))
    BY <2>1, <2>2 DEF IsFormDoc
  <2>6. IsFormDoc(addDoc', Len(configs'))
    BY <1>2, <2>3, <2>4 DEF FormTypes, IsFormDoc
  <2>7. FormTypes'
    BY <1>1, <1>2, <2>4, <2>5, <2>6, FormTypesNext DEF FormTypes
  <2>8. EditIsListed' /\ BuildingsOnce'
    BY <1>1, <1>2, <2>4 DEF EditIsListed, BuildingsOnce
  <2> QED
    BY <2>7, <2>8 DEF FormTypesInv
<1>5. CASE RoomsAnswered(q)
  <2>1. \A d \in DOMAIN formList' : IsFormDoc(formList'[d], Len(configs))
    BY <1>2, <1>5, LoadedTyped DEF RoomsAnswered
  <2>2. FormTypes'
    BY <1>1, <1>2, <1>5, <2>1, FormTypesNext DEF RoomsAnswered, FormTypes
  <2>3. EditIsListed' /\ BuildingsOnce'
    BY <1>1, <1>2, <1>5 DEF RoomsAnswered, EditIsListed, BuildingsOnce
  <2> QED
    BY <2>2, <2>3 DEF FormTypesInv
<1>6. CASE UpdateAnswered(q) \/ FormLost(q)
  <2>1. UNCHANGED <<formList, addDoc, inList, configs>> /\ formID' \in {formID, editDoc.id}
    BY <1>6 DEF UpdateAnswered, FormLost
  <2>2. FormTypes'
    BY <1>1, <1>2, <2>1, FormTypesNext DEF FormTypes, IsFormDoc
  <2>3. EditIsListed' /\ BuildingsOnce'
    BY <1>1, <1>2, <2>1 DEF EditIsListed, BuildingsOnce
  <2> QED
    BY <2>2, <2>3 DEF FormTypesInv
<1> QED
  BY <1>3, <1>4, <1>5, <1>6

(* Choosing a document: the entry, and the form's, are named alike.          *)
LEMMA ChosenTyped ==
  ASSUME FormInv, FormTypesInv, NEW d \in DOMAIN formList, ChooseBuilding(d) \/ ChooseRoom(d)
  PROVE  FormTypesInv'
<1>1. FormTypes /\ BuildingsOnce /\ formList[d].from = d
  BY DEF FormTypesInv, FormInv
<1>2. UNCHANGED <<formPage, docs, configs, requests>> /\ inList' /\ formID' = formList[d].id
  BY DEF ChooseBuilding, ChooseRoom
<1>3. /\ IsFormDoc(formList[d], Len(configs)) /\ IsFormDoc(Named(formList[d]), Len(configs))
      /\ Named(formList[d]).from = d /\ IsFormDoc(Named(addDoc), Len(configs))
  BY <1>1, NamedTyped DEF FormTypes
<1>4. /\ editDoc' \in {formList[d], Named(formList[d])} /\ addDoc' \in {addDoc, Named(addDoc)}
      /\ DOMAIN formList' = DOMAIN formList /\ formList'[d] = editDoc'
      /\ \A e \in DOMAIN formList \ {d} : formList'[e] = formList[e]
  BY DEF ChooseBuilding, ChooseRoom
<1>5. FormTypes'
  <2>1. \A e \in DOMAIN formList' : IsFormDoc(formList'[e], Len(configs))
    BY <1>1, <1>3, <1>4 DEF FormTypes
  <2>2. formID' \in FormIDsTyped \cup {NotChosen}
    BY <1>2, <1>3 DEF IsFormDoc
  <2>3. IsFormDoc(addDoc', Len(configs')) /\ IsFormDoc(editDoc', Len(configs'))
    BY <1>1, <1>2, <1>3, <1>4 DEF FormTypes
  <2> QED
    BY <1>1, <1>2, <2>1, <2>2, <2>3, FormTypesNext DEF FormTypes
<1>6. EditIsListed'
  BY <1>3, <1>4, <1>1 DEF EditIsListed
<1>7. BuildingsOnce'
  BY <1>1, <1>2 DEF BuildingsOnce
<1> QED
  BY <1>5, <1>6, <1>7 DEF FormTypesInv

(* GetRoomList empties the list and leaves the document on the form.         *)
LEMMA AskedTyped ==
  ASSUME FormTypesInv, NEW b \in FormBuildings, ChooseAddBuilding(b) \/ ChooseEditBuilding(b)
  PROVE  FormTypesInv'
<1>1. FormTypes /\ BuildingsOnce
  BY DEF FormTypesInv
<1>2. \E of : AskRooms(of)
  BY DEF ChooseAddBuilding, ChooseEditBuilding
<1>3. UNCHANGED <<formPage, docs, configs, editDoc, formID>>
  BY DEF ChooseAddBuilding, ChooseEditBuilding
<1>4. addDoc' \in {addDoc, [addDoc EXCEPT !.id = <<b, "">>]}
  BY DEF ChooseAddBuilding, ChooseEditBuilding
<1>5. IsFormDoc(addDoc', Len(configs))
  <2>1. <<b, "">> \in FormIDsTyped
    BY DEF FormIDsTyped
  <2>2. IsFormDoc(addDoc, Len(configs))
    BY <1>1 DEF FormTypes
  <2>3. IsFormDoc([addDoc EXCEPT !.id = <<b, "">>], Len(configs))
    BY <2>1, <2>2, IDTyped
  <2> QED
    BY <1>4, <2>2, <2>3
<1>6. FormTypes'
  BY <1>1, <1>2, <1>3, <1>5, FormTypesNext DEF FormTypes, AskRooms, NoDocs
<1>7. EditIsListed' /\ BuildingsOnce'
  <2>1. formPage = "room" /\ ~inList'
    BY <1>2 DEF AskRooms
  <2>2. PICK of : requests' = requests \cup {[call |-> "rooms", of |-> of]}
    BY <1>2 DEF AskRooms
  <2>3. \A q \in requests' : q.call = "buildings" => q \in requests
    BY <2>2
  <2>4. BuildingsOnce'
    BY <1>1, <1>3, <2>1, <2>3 DEF BuildingsOnce
  <2> QED
    BY <2>1, <2>4 DEF EditIsListed
<1> QED
  BY <1>6, <1>7 DEF FormTypesInv

(* The document on the form is changed where it is.                          *)
LEMMA EditTyped ==
  ASSUME FormTypesInv, NEW doc, IsFormDoc(doc, Len(configs)), doc.from = editDoc.from,
         SetEdit(doc), IsFormDoc(addDoc', Len(configs)), Len(configs') = Len(configs),
         UNCHANGED <<formPage, docs, inList, formID, requests>>
  PROVE  FormTypesInv'
<1>1. FormTypes /\ EditIsListed /\ BuildingsOnce
  BY DEF FormTypesInv
<1>2. /\ editDoc' = doc /\ EditIsListed' /\ DOMAIN formList' = DOMAIN formList
      /\ \A d \in DOMAIN formList' : IsFormDoc(formList'[d], Len(configs))
  BY <1>1, SetEditTyped
<1>3. FormTypes'
  BY <1>1, <1>2, FormTypesNext DEF FormTypes
<1>4. BuildingsOnce'
  BY <1>1, <1>2 DEF BuildingsOnce
<1> QED
  BY <1>2, <1>3, <1>4 DEF FormTypesInv

(* It is left alone.                                                         *)
LEMMA OthersTyped ==
  ASSUME FormTypesInv, DOMAIN docs' \subseteq FormIDsTyped, IsFormDoc(addDoc', Len(configs)),
         \A q \in requests' \ requests : q.call = "update",
         UNCHANGED <<formPage, formList, editDoc, inList, formID, configs>>
  PROVE  FormTypesInv'
<1>1. FormTypes /\ EditIsListed /\ BuildingsOnce
  BY DEF FormTypesInv
<1>2. FormTypes'
  BY <1>1, FormTypesNext DEF FormTypes
<1>3. EditIsListed'
  BY <1>1 DEF EditIsListed
<1>4. \A q \in requests' : q.call \in {"buildings", "rooms"} => q \in requests
  OBVIOUS
<1>5. BuildingsOnce'
  BY <1>1, <1>4 DEF BuildingsOnce
<1> QED
  BY <1>2, <1>3, <1>5 DEF FormTypesInv

LEMMA FieldsKeepTypes ==
  ASSUME FormInv, FormTypesInv,
         \/ \E d \in NewIDs : TypeAddID(d)
         \/ \E d \in (RenamedIDs \cup {editDoc.from}) \ {NotChosen} : TypeEditID(d)
         \/ \E add \in BOOLEAN : BuildingChip(add) \/ RoomChip(add)
  PROVE  FormTypesInv'
<1>1. /\ IsFormDoc(addDoc, Len(configs)) /\ IsFormDoc(editDoc, Len(configs))
      /\ DOMAIN docs \subseteq FormIDsTyped
  BY DEF FormTypesInv, FormTypes
<1>2. /\ UNCHANGED <<docs, formID, configs, requests, formPage, inList>>
      /\ \A q \in requests' \ requests : q.call = "update"
  BY DEF TypeAddID, TypeEditID, BuildingChip, RoomChip
<1>3. ASSUME NEW d \in NewIDs, TypeAddID(d)
      PROVE  FormTypesInv'
  <2> DEFINE doc == [addDoc EXCEPT !.id = d]
  <2>1. IsFormDoc(doc, Len(configs))
    <3>1. d \in FormIDsTyped \cup {NotChosen}
      BY DEF FormIDsTyped
    <3> QED
      BY <1>1, <3>1, IDTyped
  <2> HIDE DEF doc
  <2>2. CASE addDoc' = doc /\ UNCHANGED <<editDoc, formList>>
    BY <1>1, <1>2, <2>1, <2>2, OthersTyped
  <2>3. CASE addDoc' = Named(doc) /\ SetEdit(Named(editDoc))
    <3>1. /\ IsFormDoc(Named(doc), Len(configs)) /\ IsFormDoc(Named(editDoc), Len(configs))
          /\ Named(editDoc).from = editDoc.from
      BY <1>1, <2>1, NamedTyped
    <3> QED
      BY <1>2, <2>3, <3>1, EditTyped
  <2> QED
    BY <1>3, <2>2, <2>3 DEF TypeAddID, doc
<1>4. ASSUME NEW d \in RenamedIDs \cup {editDoc.from}, TypeEditID(d)
      PROVE  FormTypesInv'
  <2> DEFINE doc == [editDoc EXCEPT !.id = d]
  <2>1. IsFormDoc(doc, Len(configs)) /\ doc.from = editDoc.from
    <3>1. d \in FormIDsTyped \cup {NotChosen}
      BY <1>1 DEF FormIDsTyped, IsFormDoc
    <3> QED
      BY <1>1, <3>1, IDTyped DEF IsFormDoc
  <2>2. SetEdit(doc) /\ addDoc' = addDoc
    BY <1>4 DEF TypeEditID
  <2> HIDE DEF doc
  <2> QED
    BY <1>1, <1>2, <2>1, <2>2, EditTyped
<1>5. ASSUME NEW add \in BOOLEAN, BuildingChip(add) \/ RoomChip(add)
      PROVE  FormTypesInv'
  <2>1. CASE add
    <3>1. PICK t : addDoc' = [addDoc EXCEPT !.tags = t]
      BY <1>5, <2>1 DEF BuildingChip, RoomChip
    <3>2. UNCHANGED <<editDoc, formList>>
      BY <1>5, <2>1 DEF BuildingChip, RoomChip
    <3>3. IsFormDoc(addDoc', Len(configs))
      BY <1>1, <3>1, TagsTyped
    <3> QED
      BY <1>1, <1>2, <3>2, <3>3, OthersTyped
  <2>2. CASE ~add
    <3>1. PICK t : SetEdit([editDoc EXCEPT !.tags = t])
      BY <1>5, <2>2 DEF BuildingChip, RoomChip
    <3> DEFINE doc == [editDoc EXCEPT !.tags = t]
    <3>2. addDoc' = addDoc
      BY <1>5, <2>2 DEF BuildingChip, RoomChip
    <3>3. IsFormDoc(doc, Len(configs)) /\ doc.from = editDoc.from
      BY <1>1, TagsTyped DEF IsFormDoc
    <3>4. SetEdit(doc)
      BY <3>1
    <3> HIDE DEF doc
    <3> QED
      BY <1>1, <1>2, <3>2, <3>3, <3>4, EditTyped
  <2> QED
    BY <2>1, <2>2
<1> QED
  BY <1>3, <1>4, <1>5

LEMMA PicksTyped ==
  ASSUME FormInv, FormTypesInv, NEW i \in DOMAIN configs, PickForAdd(i) \/ PickForEdit(i)
  PROVE  FormTypesInv'
<1>1. /\ IsFormDoc(addDoc, Len(configs)) /\ IsFormDoc(editDoc, Len(configs))
      /\ DOMAIN docs \subseteq FormIDsTyped
  BY DEF FormTypesInv, FormTypes
<1>2. i \in 0..Len(configs) /\ Len(configs) \in 0..Len(configs)
  BY LengthOfConfigs
<1>3. CASE PickForAdd(i)
  <2>1. addDoc' = [addDoc EXCEPT !.object = i]
    BY <1>3 DEF PickForAdd
  <2>2. IsFormDoc(addDoc', Len(configs))
    BY <1>1, <1>2, <2>1, ObjectTyped
  <2> QED
    BY <1>1, <1>3, <2>2, OthersTyped DEF PickForAdd
<1>4. CASE PickForEdit(i)
  <2> DEFINE doc   == [editDoc EXCEPT !.object = Len(configs), !.picked = configs[i]]
             names == IF editDoc.object = 0 THEN configs
                      ELSE [configs EXCEPT ![editDoc.object] = configs[i]]
  <2>1. names \in Seq(Range(configs)) /\ Len(names) = Len(configs)
    <3> DEFINE S == Range(configs)
    <3>1. Len(configs) \in Nat /\ configs \in [1..Len(configs) -> S] /\ configs[i] \in S
      <4>1. configs \in Seq(Range(ConfigNames))
        BY DEF FormInv
      <4> QED
        BY <4>1 DEF Range
    <3> HIDE DEF S
    <3>2. names \in [1..Len(configs) -> S]
      BY <3>1
    <3> HIDE DEF names
    <3>3. names \in Seq(S)
      BY <3>1, <3>2, SeqDef
    <3>4. DOMAIN names = 1..Len(configs)
      BY <3>2
    <3>5. Len(names) = Len(configs)
      BY <3>1, <3>3, <3>4
    <3> QED
      BY <3>3, <3>5 DEF S
  <2>2. /\ configs' = UpdateConfiguration(names, {editDoc.object, addDoc.object})
        /\ SetEdit(doc) /\ addDoc' = [addDoc EXCEPT !.object = Len(configs)]
        /\ UNCHANGED <<formPage, docs, inList, formID, requests>>
    BY <1>4 DEF PickForEdit
  <2> HIDE DEF names
  <2>3. Len(configs') = Len(configs)
    BY <2>1, <2>2, UpdateConfigurationStays
  <2>4. IsFormDoc(doc, Len(configs)) /\ doc.from = editDoc.from
    BY <1>1, <1>2, ObjectTyped DEF IsFormDoc
  <2>5. IsFormDoc(addDoc', Len(configs))
    BY <1>1, <1>2, <2>2, ObjectTyped
  <2> HIDE DEF doc
  <2> QED
    BY <2>2, <2>3, <2>4, <2>5, EditTyped
<1> QED
  BY <1>3, <1>4

LEMMA SubmissionsTyped ==
  ASSUME FormTypesInv, CreateBuilding \/ CreateRoom \/ UpdateBuilding \/ UpdateRoom
  PROVE  FormTypesInv'
<1>1. /\ IsFormDoc(addDoc, Len(configs)) /\ IsFormDoc(editDoc, Len(configs))
      /\ DOMAIN docs \subseteq FormIDsTyped
  BY DEF FormTypesInv, FormTypes
<1>2. CASE CreateBuilding \/ CreateRoom
  <2>1. DOMAIN docs' \subseteq FormIDsTyped
    <3>1. Create(addDoc)
      BY <1>2 DEF CreateBuilding, CreateRoom
    <3>2. DOMAIN docs' \subseteq DOMAIN docs \cup NewIDs
      BY <3>1 DEF Create, Save
    <3> QED
      BY <1>1, <3>2 DEF FormIDsTyped
  <2> QED
    BY <1>1, <1>2, <2>1, OthersTyped DEF CreateBuilding, CreateRoom
<1>3. CASE UpdateBuilding \/ UpdateRoom
  <2>1. Update(editDoc)
    BY <1>3 DEF UpdateBuilding, UpdateRoom
  <2>2. DOMAIN docs' \subseteq DOMAIN docs
    BY <2>1 DEF Update, Save, Restrict
  <2>3. \A q \in requests' \ requests : q.call = "update"
    BY <2>1 DEF Update
  <2>4. UNCHANGED <<formPage, formList, addDoc, editDoc, inList, formID, configs>>
    BY <2>1 DEF Update
  <2> QED
    BY <1>1, <2>2, <2>3, <2>4, OthersTyped
<1> QED
  BY <1>2, <1>3

LEMMA FormTypesHold == FormSpec => []FormTypesInv
<1>1. FormInv /\ FormTypesInv /\ [NextForm]_formVars => FormTypesInv'
  <2> SUFFICES ASSUME FormInv, FormTypesInv, [NextForm]_formVars PROVE FormTypesInv'
    OBVIOUS
  <2>1. ASSUME NEW q \in requests,
               \/ BuildingsAnswered(q) \/ ConfigsAnswered(q)
               \/ RoomsAnswered(q) \/ UpdateAnswered(q) \/ FormLost(q)
        PROVE  FormTypesInv'
    BY <2>1, AnswersTyped
  <2>2. ASSUME NEW d \in DOMAIN docs, ChooseBuilding(d) \/ ChooseRoom(d) PROVE FormTypesInv'
    <3>1. d \in DOMAIN formList
      BY <2>2 DEF ChooseBuilding, ChooseRoom
    <3> QED
      BY <2>2, <3>1, ChosenTyped
  <2>3. ASSUME NEW b \in FormBuildings, ChooseAddBuilding(b) \/ ChooseEditBuilding(b)
        PROVE  FormTypesInv'
    BY <2>3, AskedTyped
  <2>4. CASE \/ \E d \in NewIDs : TypeAddID(d)
             \/ \E d \in (RenamedIDs \cup {editDoc.from}) \ {NotChosen} : TypeEditID(d)
             \/ \E add \in BOOLEAN : BuildingChip(add) \/ RoomChip(add)
    BY <2>4, FieldsKeepTypes
  <2>5. ASSUME NEW i \in DOMAIN configs, PickForAdd(i) \/ PickForEdit(i) PROVE FormTypesInv'
    BY <2>5, PicksTyped
  <2>6. CASE CreateBuilding \/ CreateRoom \/ UpdateBuilding \/ UpdateRoom
    BY <2>6, SubmissionsTyped
  <2>7. CASE UNCHANGED formVars
    <3>1. IsFormDoc(addDoc, Len(configs)) /\ DOMAIN docs \subseteq FormIDsTyped
      BY DEF FormTypesInv, FormTypes
    <3> QED
      BY <2>7, <3>1, OthersTyped DEF formVars
  <2> QED
    BY <2>1, <2>2, <2>3, <2>4, <2>5, <2>6, <2>7 DEF NextForm
<1>2. FormInv /\ [NextForm]_formVars => FormInv'
  BY FormStep
<1> QED
  BY <1>1, <1>2, FormTypesStart, FormInitHolds, PTL DEF FormSpec

LEMMA FormTypesCorrect == FormSpec => []FormTypeOK
<1>1. FormInv /\ FormTypesInv => FormTypeOK
  <2> SUFFICES ASSUME FormInv, FormTypesInv PROVE FormTypeOK
    OBVIOUS
  <2>1. Range(configs) \subseteq Range(ConfigNames)
    <3>1. configs \in Seq(Range(ConfigNames))
      BY DEF FormInv
    <3>2. \A i \in DOMAIN configs : configs[i] \in Range(ConfigNames)
      BY <3>1
    <3> QED
      BY <3>2 DEF Range
  <2> QED
    BY <2>1 DEF FormTypesInv, FormTypes, EditIsListed, IsFormDoc, FormTypeOK
<1> QED
  BY <1>1, FormTypesHold, FormInvHolds, PTL

-----------------------------------------------------------------------------
(* The types of the device page.                                             *)

IDsOrNone == FormIDs \cup {None}
Addresses == {None, Fixed} \cup {HostOf(id) : id \in FormIDs \cup {None}}
Wires     == [source : IDsOrNone, destination : IDsOrNone]

ListTyped(list) == DOMAIN list \subseteq DocIDs /\ \A d \in DOMAIN list : list[d] \in Devices

StoredTyped ==
  \A d \in DOMAIN stored :
    /\ stored[d].type \in Types \cup {None} /\ stored[d].address \in Addresses
    /\ DOMAIN stored[d].wires \subseteq PortIDs
    /\ \A p \in DOMAIN stored[d].wires : stored[d].wires[p] \in Wires

FormsTyped ==
  /\ addDevice \in Devices /\ blank \in Devices
  /\ ListTyped(addDeviceList) /\ ListTyped(editDeviceList)
  /\ chosen \in DOMAIN editDeviceList \cup {None}
  /\ editRoom \in Rooms \cup {None} /\ IDToUpdate \in IDsOrNone

(* While a list of devices to edit is due, none of it is on the form.        *)
ChosenThere == chosen # None => \A c \in calls : c.list # "editDevices"

OffersTyped ==
  /\ sources.add \subseteq IDsOrNone /\ sources.edit \subseteq IDsOrNone
  /\ destinations.add \subseteq IDsOrNone /\ destinations.edit \subseteq IDsOrNone

WiresTyped == wire \in [Owners \X PortIDs -> Wires]

DeviceTypesInv == StoredTyped /\ FormsTyped /\ ChosenThere /\ OffersTyped /\ WiresTyped

LEMMA NewDeviceTyped == NewDevice \in Devices
BY DEF NewDevice, Devices, HostOf

(* A device with some of its fields changed.                                 *)
LEMMA FieldTypes ==
  ASSUME NEW d \in Devices
  PROVE  /\ d.id \in IDsOrNone /\ d.name \in Names \cup FreshNames \cup {""}
         /\ d.type \in Types \cup {None} /\ d.address \in Addresses
         /\ d.ports \subseteq Owners \X PortIDs
         /\ \A n \in Names \cup FreshNames \cup {""} : [d EXCEPT !.name = n] \in Devices
         /\ \A t \in Types \cup {None} : [d EXCEPT !.type = t] \in Devices
         /\ \A id \in IDsOrNone, a \in Addresses : [d EXCEPT !.id = id, !.address = a] \in Devices
         /\ \A ports \in SUBSET (Owners \X PortIDs), a \in Addresses :
              [d EXCEPT !.ports = ports, !.address = a] \in Devices
         /\ \A t \in Types \cup {None}, ports \in SUBSET (Owners \X PortIDs) :
              [d EXCEPT !.type = t, !.ports = ports] \in Devices
<1> DEFINE N == Names \cup FreshNames \cup {""}
           T == Types \cup {None}
           P == Owners \X PortIDs
<1> HIDE DEF N, T, P
<1>1. Devices = [id : IDsOrNone, name : N, type : T, address : Addresses, ports : SUBSET P]
  BY DEF Devices, IDsOrNone, Addresses, N, T, P
<1>2. d \in [id : IDsOrNone, name : N, type : T, address : Addresses, ports : SUBSET P]
  BY <1>1
<1>3. /\ d.id \in IDsOrNone /\ d.name \in N /\ d.type \in T /\ d.address \in Addresses
      /\ d.ports \in SUBSET P
  BY <1>2
<1>4. \A n \in N : [d EXCEPT !.name = n] \in Devices
  BY <1>1, <1>2
<1>5. \A t \in T : [d EXCEPT !.type = t] \in Devices
  BY <1>1, <1>2
<1>6. \A id \in IDsOrNone, a \in Addresses : [d EXCEPT !.id = id, !.address = a] \in Devices
  BY <1>1, <1>2
<1>7. \A ports \in SUBSET P, a \in Addresses : [d EXCEPT !.ports = ports, !.address = a] \in Devices
  BY <1>1, <1>2
<1>8. \A t \in T, ports \in SUBSET P : [d EXCEPT !.type = t, !.ports = ports] \in Devices
  BY <1>1, <1>2
<1> QED
  BY <1>3, <1>4, <1>5, <1>6, <1>7, <1>8 DEF N, T, P

LEMMA WithIDTyped ==
  ASSUME NEW d \in Devices, NEW r \in Rooms \cup {None}
  PROVE  WithID(d, r) \in Devices
<1>1. CASE r = None
  BY <1>1 DEF WithID
<1>2. CASE r # None
  <2> DEFINE id == <<r, d.name>>
             a  == IF d.address = None \/ NamesRoom(d.address, r) THEN HostOf(id) ELSE d.address
  <2>1. id \in IDsOrNone
    BY <1>2, FieldTypes DEF IDsOrNone, FormIDs
  <2>2. WithID(d, r) = [d EXCEPT !.id = id, !.address = a]
    BY <1>2 DEF WithID
  <2> HIDE DEF id
  <2>3. a \in Addresses
    BY <2>1, FieldTypes DEF Addresses, IDsOrNone
  <2> HIDE DEF a
  <2>4. \A i \in IDsOrNone, h \in Addresses : [d EXCEPT !.id = i, !.address = h] \in Devices
    BY FieldTypes
  <2>5. [d EXCEPT !.id = id, !.address = a] \in Devices
    BY <2>1, <2>3, <2>4
  <2> QED
    BY <2>2, <2>5, Zenon
<1> QED
  BY <1>1, <1>2

LEMMA OfTypeTyped ==
  ASSUME NEW d \in Devices
  PROVE  OfTypeToAdd(d) \in Devices /\ OfTypeToEdit(d) \in Devices
<1> DEFINE a  == IF d.type \in FixedAddress THEN Fixed ELSE HostOf(d.id)
           pa == IF d.type = None THEN {} ELSE {<<Add, p>> : p \in PortsOf[d.type]}
           pe == IF d.type = None THEN {} ELSE {<<d.type, p>> : p \in PortsOf[d.type]}
<1>1. OfTypeToAdd(d) = [d EXCEPT !.ports = pa, !.address = a]
  BY DEF OfTypeToAdd
<1>2. OfTypeToEdit(d) = [d EXCEPT !.ports = pe, !.address = a]
  BY DEF OfTypeToEdit
<1>3. d.type \in Types \cup {None} /\ d.id \in IDsOrNone
  BY FieldTypes
<1>4. a \in Addresses
  BY <1>3 DEF Addresses, IDsOrNone
<1>5. d.type # None => \A p \in PortsOf[d.type] : p \in PortIDs
  BY <1>3 DEF PortIDs
<1>6. pa \in SUBSET (Owners \X PortIDs) /\ pe \in SUBSET (Owners \X PortIDs)
  BY <1>3, <1>5 DEF Owners
<1> HIDE DEF a, pa, pe
<1>7. \A ports \in SUBSET (Owners \X PortIDs), h \in Addresses :
        [d EXCEPT !.ports = ports, !.address = h] \in Devices
  BY FieldTypes
<1>8. [d EXCEPT !.ports = pa, !.address = a] \in Devices
  BY <1>4, <1>6, <1>7
<1>9. [d EXCEPT !.ports = pe, !.address = a] \in Devices
  BY <1>4, <1>6, <1>7
<1> QED
  BY <1>1, <1>2, <1>8, <1>9, Zenon

LEMMA MissingPortsTyped ==
  ASSUME NEW d \in Devices, d.type # None
  PROVE  MissingPorts(d) \in SUBSET (Owners \X PortIDs)
<1>1. d.type \in Types /\ d.ports \subseteq Owners \X PortIDs
  BY FieldTypes
<1>2. \A p \in PortsOf[d.type] : p \in PortIDs
  BY <1>1 DEF PortIDs
<1> QED
  BY <1>1, <1>2 DEF MissingPorts, Owners

LEMMA EditDeviceTyped == FormsTyped => editDevice \in Devices
BY DEF FormsTyped, ListTyped, editDevice

(* Listed as an edit of one entry.                                           *)
LEMMA EntryTyped ==
  ASSUME NEW list, ListTyped(list), NEW d, NEW e \in Devices
  PROVE  ListTyped([list EXCEPT ![d] = e])
BY DEF ListTyped

LEMMA EditGives ==
  ASSUME FormsTyped, NEW e \in Devices, Edit(e)
  PROVE  blank' \in Devices /\ ListTyped(editDeviceList')
         /\ DOMAIN editDeviceList' = DOMAIN editDeviceList
<1>1. CASE chosen = None
  BY <1>1 DEF Edit, FormsTyped
<1>2. CASE chosen # None
  <2>1. editDeviceList' = [editDeviceList EXCEPT ![chosen] = e] /\ blank' = blank
    BY <1>2 DEF Edit
  <2>2. ListTyped([editDeviceList EXCEPT ![chosen] = e])
    BY EntryTyped DEF FormsTyped
  <2> QED
    BY <2>1, <2>2 DEF FormsTyped
<1> QED
  BY <1>1, <1>2

LEMMA ListedTyped ==
  ASSUME StoredTyped, DOMAIN stored \subseteq DocIDs, NEW r
  PROVE  ListTyped(Listed(r))
<1>1. DOMAIN Listed(r) = DevicesIn(r)
  BY ListedIs
<1>2. ASSUME NEW d \in DevicesIn(r) PROVE d \in DocIDs /\ Listed(r)[d] \in Devices
  <2>1. d \in DOMAIN stored /\ d \in DocIDs
    BY <1>2 DEF DevicesIn
  <2>2. /\ d \in FormIDs /\ d[2] \in Names
        /\ \A p \in PortIDs : <<d, p>> \in Owners \X PortIDs
    BY <2>1 DEF DocIDs, FormIDs, Owners
  <2>3. {<<d, p>> : p \in DOMAIN stored[d].wires} \in SUBSET (Owners \X PortIDs)
    BY <2>1, <2>2 DEF StoredTyped
  <2>4. stored[d].type \in Types \cup {None} /\ stored[d].address \in Addresses
    BY <2>1 DEF StoredTyped
  <2> DEFINE ports == {<<d, p>> : p \in DOMAIN stored[d].wires}
  <2>5. Listed(r)[d] = [id |-> d, name |-> d[2], type |-> stored[d].type,
                        address |-> stored[d].address, ports |-> ports]
    BY DEF Listed
  <2> HIDE DEF ports
  <2>6. ports \in SUBSET (Owners \X PortIDs)
    BY <2>3 DEF ports
  <2> DEFINE P == SUBSET (Owners \X PortIDs)
             N == Names \cup FreshNames \cup {""}
             T == Types \cup {None}
  <2>7. d \in IDsOrNone /\ d[2] \in N /\ stored[d].type \in T /\ ports \in P
    BY <2>2, <2>4, <2>6 DEF IDsOrNone
  <2>8. Devices = [id : IDsOrNone, name : N, type : T, address : Addresses, ports : P]
    BY DEF Devices, IDsOrNone, Addresses
  <2> HIDE DEF P, N, T
  <2>9. Listed(r)[d] \in [id : IDsOrNone, name : N, type : T, address : Addresses, ports : P]
    BY <2>4, <2>5, <2>7
  <2> QED
    BY <2>1, <2>8, <2>9
<1> QED
  BY <1>1, <1>2 DEF ListTyped

(* Offer gives each form IDs of devices of its list, or its own.             *)
LEMMA OfferTyped ==
  ASSUME NEW addD \in Devices, NEW typeA, NEW list, NEW editD \in Devices, NEW typeE,
         ListTyped(list), ListTyped(addDeviceList), Offer(addD, typeA, list, editD, typeE)
  PROVE  OffersTyped'
<1> DEFINE For(types, got) ==
             [add  |-> IF typeA = None THEN {}
                       ELSE IDsOfTypes(addDeviceList, types) \cup Itself(addD, typeA, types),
              edit |-> IF typeE = None THEN {}
                       ELSE IDsOfTypes(Restrict(list, got), types)
                              \cup IF ListsThrow(list, typeE) THEN {}
                                   ELSE Itself(editD, typeE, types)]
<1>1. \E got \in SUBSET DOMAIN list : sources' = For(Sources, got) /\ destinations' = For(Destinations, got)
  <2>1. (IF ListsThrow(list, typeE) THEN SUBSET DOMAIN list ELSE {DOMAIN list}) \subseteq SUBSET DOMAIN list
    OBVIOUS
  <2>2. \E got \in IF ListsThrow(list, typeE) THEN SUBSET DOMAIN list ELSE {DOMAIN list} :
          sources' = For(Sources, got) /\ destinations' = For(Destinations, got)
    BY Zenon DEF Offer
  <2> HIDE DEF For
  <2> QED
    BY <2>1, <2>2
<1>2. ASSUME NEW l, ListTyped(l), NEW types PROVE IDsOfTypes(l, types) \subseteq IDsOrNone
  <2>1. \A d \in DOMAIN l : l[d].id \in IDsOrNone
    BY <1>2, FieldTypes DEF ListTyped
  <2> QED
    BY <2>1 DEF IDsOfTypes
<1>3. ASSUME NEW d \in Devices, NEW type, NEW types PROVE Itself(d, type, types) \subseteq IDsOrNone
  BY FieldTypes DEF Itself
<1>4. ASSUME NEW got \in SUBSET DOMAIN list PROVE ListTyped(Restrict(list, got))
  BY DEF ListTyped, Restrict
<1>5. ASSUME NEW types, NEW got \in SUBSET DOMAIN list
      PROVE  For(types, got).add \subseteq IDsOrNone /\ For(types, got).edit \subseteq IDsOrNone
  <2>1. /\ IDsOfTypes(addDeviceList, types) \subseteq IDsOrNone
        /\ IDsOfTypes(Restrict(list, got), types) \subseteq IDsOrNone
        /\ Itself(addD, typeA, types) \subseteq IDsOrNone
        /\ Itself(editD, typeE, types) \subseteq IDsOrNone
    BY <1>2, <1>3, <1>4
  <2> QED
    BY <2>1
<1> HIDE DEF For
<1> QED
  BY <1>1, <1>5 DEF OffersTyped

LEMMA WireTyped ==
  ASSUME WiresTyped, NEW o \in DOMAIN wire, NEW srcs \in SUBSET IDsOrNone,
         NEW dests \in SUBSET IDsOrNone, Wire(o, srcs, dests)
  PROVE  WiresTyped'
<1>1. wire[o] \in Wires /\ None \in IDsOrNone
  BY DEF WiresTyped, IDsOrNone
<1>2. \A s \in IDsOrNone :
        [wire[o] EXCEPT !.source = s] \in Wires /\ [wire[o] EXCEPT !.destination = s] \in Wires
  BY <1>1 DEF Wires
<1>3. \E w \in Wires : wire' = [wire EXCEPT ![o] = w]
  <2>1. CASE \E s \in srcs \cup {None} : wire' = [wire EXCEPT ![o].source = s]
    BY <1>1, <1>2, <2>1
  <2>2. CASE \E d \in dests \cup {None} : wire' = [wire EXCEPT ![o].destination = d]
    BY <1>1, <1>2, <2>2
  <2> QED
    BY <2>1, <2>2 DEF Wire
<1> QED
  BY <1>3 DEF WiresTyped

LEMMA FreshTyped == WiresTyped => Fresh(wire) \in [Owners \X PortIDs -> Wires]
BY DEF WiresTyped, Fresh, Wires, NoWire, IDsOrNone

LEMMA DefaultWiringTyped ==
  ASSUME WiresTyped, NEW d, NEW srcs \in SUBSET IDsOrNone, NEW dests \in SUBSET IDsOrNone,
         NEW w \in DefaultWiring(d, srcs, dests)
  PROVE  w \in [Owners \X PortIDs -> Wires]
<1>1. CASE d.type \notin DOMAIN DefaultPorts
  BY <1>1, FreshTyped DEF DefaultWiring
<1>2. CASE d.type \in DOMAIN DefaultPorts
  <2>1. PICK v \in [d.ports -> [source : srcs \cup {None}, destination : dests \cup {None}]] :
           w = [o \in DOMAIN wire |-> IF o \in d.ports THEN v[o] ELSE Fresh(wire)[o]]
    BY <1>2 DEF DefaultWiring
  <2>2. \A o \in d.ports : v[o] \in Wires
    BY <2>1 DEF Wires, IDsOrNone
  <2>3. DOMAIN wire = Owners \X PortIDs /\ \A o \in DOMAIN wire : Fresh(wire)[o] \in Wires
    BY FreshTyped DEF WiresTyped
  <2> QED
    BY <2>1, <2>2, <2>3
<1> QED
  BY <1>1, <1>2

LEMMA BodyTyped ==
  ASSUME WiresTyped, NEW d \in Devices
  PROVE  /\ Body(d).type \in Types \cup {None} /\ Body(d).address \in Addresses
         /\ DOMAIN Body(d).wires \subseteq PortIDs
         /\ \A p \in DOMAIN Body(d).wires : Body(d).wires[p] \in Wires
<1>1. d.ports \subseteq Owners \X PortIDs /\ d.type \in Types \cup {None} /\ d.address \in Addresses
  BY FieldTypes
<1>2. DOMAIN Body(d).wires = {o[2] : o \in d.ports}
  BY DEF Body
<1>3. ASSUME NEW p \in {o[2] : o \in d.ports} PROVE p \in PortIDs /\ Body(d).wires[p] \in Wires
  <2> DEFINE port == CHOOSE o \in d.ports : o[2] = p
  <2>1. port \in d.ports
    OBVIOUS
  <2>2. Body(d).wires[p] = wire[port]
    BY DEF Body
  <2> HIDE DEF port
  <2>3. wire[port] \in Wires
    BY <1>1, <2>1 DEF WiresTyped
  <2>4. p \in PortIDs
    BY <1>1
  <2> QED
    BY <2>2, <2>3, <2>4
<1> QED
  BY <1>1, <1>2, <1>3 DEF Body

LEMMA DeviceTypesStart == InitDevices => DeviceTypesInv
<1> SUFFICES ASSUME InitDevices PROVE DeviceTypesInv
  OBVIOUS
<1>1. StoredTyped
  <2> SUFFICES ASSUME NEW d \in DOMAIN StoredAtFirst
               PROVE  /\ StoredAtFirst[d].type \in Types \cup {None}
                      /\ StoredAtFirst[d].address \in Addresses
                      /\ DOMAIN StoredAtFirst[d].wires \subseteq PortIDs
                      /\ \A p \in DOMAIN StoredAtFirst[d].wires :
                           StoredAtFirst[d].wires[p] \in Wires
    BY DEF InitDevices, StoredTyped
  <2>1. d \in FormIDs
    BY DeviceAssumption DEF DocIDs, FormIDs
  <2>2. StoredAtFirst[d].address \in {None, Fixed, HostOf(d)}
    BY DeviceAssumption
  <2> QED
    BY <2>1, <2>2, DeviceAssumption DEF Addresses, Wires, IDsOrNone
<1>2. FormsTyped
  BY NewDeviceTyped DEF InitDevices, FormsTyped, ListTyped, NoDevices, IDsOrNone
<1>3. ChosenThere /\ OffersTyped /\ WiresTyped
  BY DEF InitDevices, ChosenThere, OffersTyped, WiresTyped, Wires, NoWire, IDsOrNone
<1> QED
  BY <1>1, <1>2, <1>3 DEF DeviceTypesInv

LEMMA StoredTypedKept ==
  ASSUME DeviceTypesInv, [NextDevices]_deviceVars
  PROVE  StoredTyped'
<1> DEFINE Good(doc) == /\ doc.type \in Types \cup {None} /\ doc.address \in Addresses
                        /\ DOMAIN doc.wires \subseteq PortIDs
                        /\ \A p \in DOMAIN doc.wires : doc.wires[p] \in Wires
<1>1. \A d \in DOMAIN stored : Good(stored[d])
  BY DEF DeviceTypesInv, StoredTyped
<1>2. SUFFICES \A d \in DOMAIN stored' : Good(stored'[d])
  BY <1>2 DEF StoredTyped
<1>3. Good(Body(addDevice)) /\ Good(Body(editDevice))
  BY BodyTyped, EditDeviceTyped DEF DeviceTypesInv, FormsTyped
<1> HIDE DEF Good
<1>4. CASE UNCHANGED stored
  BY <1>1, <1>4
<1>5. CASE CreateDevice
  <2>1. UNCHANGED stored \/ stored' = SaveDevice(stored, addDevice)
    BY <1>5 DEF CreateDevice
  <2> QED
    BY <1>1, <1>3, <2>1 DEF SaveDevice
<1>6. CASE UpdateDevice
  <2>1. \/ UNCHANGED stored
        \/ stored' = SaveDevice(Restrict(stored, DOMAIN stored \ {IDToUpdate}), editDevice)
    BY <1>6 DEF UpdateDevice
  <2> DEFINE others == Restrict(stored, DOMAIN stored \ {IDToUpdate})
  <2>2. \A d \in DOMAIN others : Good(others[d])
    BY <1>1 DEF Restrict
  <2> HIDE DEF others
  <2>3. stored' = SaveDevice(others, editDevice) => \A d \in DOMAIN stored' : Good(stored'[d])
    BY <1>3, <2>2 DEF SaveDevice
  <2> QED
    BY <1>1, <2>1, <2>3 DEF others
<1>7. ASSUME NEW c \in calls, Answer(c) \/ Lost(c) PROVE UNCHANGED stored
  BY <1>7 DEF Answer, Lost
<1>8. LoadTypes \/ UNCHANGED deviceVars => UNCHANGED stored
  BY DEF LoadTypes, deviceVars
<1>9. \A x : GetAddRoomList(x) \/ GetEditRoomList(x) \/ GetAddDeviceList(x) \/ GetEditDeviceList(x)
        => UNCHANGED stored
  BY DEF GetAddRoomList, GetEditRoomList, GetAddDeviceList, GetEditDeviceList
<1>10. \A x : NameToAdd(x) \/ NameToEdit(x) \/ EditDeviceChanges(x) => UNCHANGED stored
  BY DEF NameToAdd, NameToEdit, EditDeviceChanges
<1>11. \A x : ChooseAddType(x) \/ ChooseEditType(x) \/ WireToAdd(x) \/ WireToEdit(x) => UNCHANGED stored
  BY DEF ChooseAddType, ChooseEditType, WireToAdd, WireToEdit
<1> QED
  BY <1>4, <1>5, <1>6, <1>7, <1>8, <1>9, <1>10, <1>11 DEF NextDevices

(* The steps that leave the devices of both forms alone.                     *)
LEMMA FormsLeftAlone ==
  ASSUME FormsTyped, UNCHANGED <<addDevice, blank, addDeviceList, editDeviceList, chosen,
                                 editRoom, IDToUpdate>>
  PROVE  FormsTyped'
BY DEF FormsTyped, ListTyped

LEMMA FormsTypedNext ==
  ASSUME addDevice' \in Devices, blank' \in Devices,
         ListTyped(addDeviceList'), ListTyped(editDeviceList'),
         chosen' \in DOMAIN editDeviceList' \cup {None},
         editRoom' \in Rooms \cup {None}, IDToUpdate' \in IDsOrNone
  PROVE  FormsTyped'
BY DEF FormsTyped, ListTyped

LEMMA NoDevicesTyped == ListTyped(NoDevices)
BY DEF ListTyped, NoDevices

LEMMA ListsTyped ==
  ASSUME DeviceInv, DeviceTypesInv,
         \/ \E c \in calls : Answer(c) \/ Lost(c)
         \/ \E b \in Buildings : GetAddRoomList(b) \/ GetEditRoomList(b)
         \/ \E r \in Rooms : GetAddDeviceList(r) \/ GetEditDeviceList(r)
  PROVE  FormsTyped'
<1>1. StoredTyped /\ FormsTyped /\ ChosenThere /\ DOMAIN stored \subseteq DocIDs /\ ListsDue
  BY DEF DeviceTypesInv, DeviceInv
<1>2. /\ addDevice \in Devices /\ blank \in Devices
      /\ ListTyped(addDeviceList) /\ ListTyped(editDeviceList)
      /\ chosen \in DOMAIN editDeviceList \cup {None}
      /\ editRoom \in Rooms \cup {None} /\ IDToUpdate \in IDsOrNone
  BY <1>1 DEF FormsTyped
<1>3. ASSUME NEW c \in calls, Answer(c) PROVE FormsTyped'
  <2>1. /\ UNCHANGED <<addDevice, editRoom, chosen, blank, IDToUpdate>>
        /\ addDeviceList' \in {addDeviceList, Listed(c.of)}
        /\ \/ UNCHANGED editDeviceList
           \/ c.list = "editDevices" /\ editDeviceList' = Listed(c.of)
    BY <1>1, <1>3, AnswerDoes
  <2>2. ListTyped(Listed(c.of))
    BY <1>1, ListedTyped
  <2>3. chosen' \in DOMAIN editDeviceList' \cup {None}
    BY <1>1, <1>2, <2>1 DEF ChosenThere
  <2> QED
    BY <1>2, <2>1, <2>2, <2>3, FormsTypedNext
<1>4. ASSUME NEW c \in calls, Lost(c) PROVE FormsTyped'
  BY <1>1, <1>4, FormsLeftAlone DEF Lost, addForm, editForm
<1>5. ASSUME NEW b, GetAddRoomList(b) PROVE FormsTyped'
  <2>1. addDevice' = NewDevice
        /\ UNCHANGED <<addDeviceList, blank, editDeviceList, chosen, editRoom, IDToUpdate>>
    BY <1>5 DEF GetAddRoomList, editForm
  <2> QED
    BY <1>2, <2>1, NewDeviceTyped, FormsTypedNext
<1>6. ASSUME NEW b, GetEditRoomList(b) PROVE FormsTyped'
  <2>1. /\ editRoom' = None /\ chosen' = None /\ blank' = NewDevice
        /\ UNCHANGED <<addDevice, addDeviceList, editDeviceList, IDToUpdate>>
    BY <1>6 DEF GetEditRoomList, addForm
  <2> QED
    BY <1>2, <2>1, NewDeviceTyped, FormsTypedNext
<1>7. ASSUME NEW r \in Rooms, GetAddDeviceList(r) PROVE FormsTyped'
  <2>1. /\ addDevice' = WithID(NewDevice, r) /\ Edit(WithID(editDevice, editRoom))
        /\ addDeviceList' = NoDevices /\ UNCHANGED <<editRoom, chosen, IDToUpdate>>
    BY <1>7 DEF GetAddDeviceList
  <2>2. addDevice' \in Devices
    BY <2>1, NewDeviceTyped, WithIDTyped
  <2>3. WithID(editDevice, editRoom) \in Devices
    BY <1>1, <1>2, EditDeviceTyped, WithIDTyped
  <2>4. /\ blank' \in Devices /\ ListTyped(editDeviceList')
        /\ DOMAIN editDeviceList' = DOMAIN editDeviceList
    BY <1>1, <2>1, <2>3, EditGives
  <2> QED
    BY <1>2, <2>1, <2>2, <2>4, NoDevicesTyped, FormsTypedNext
<1>8. ASSUME NEW r \in Rooms, GetEditDeviceList(r) PROVE FormsTyped'
  <2>1. /\ editRoom' = r /\ chosen' = None /\ blank' = NewDevice /\ editDeviceList' = NoDevices
        /\ UNCHANGED <<addDevice, addDeviceList, IDToUpdate>>
    BY <1>8 DEF GetEditDeviceList, addForm
  <2> QED
    BY <1>2, <2>1, NewDeviceTyped, NoDevicesTyped, FormsTypedNext
<1> QED
  BY <1>3, <1>4, <1>5, <1>6, <1>7, <1>8

LEMMA NamesTyped ==
  ASSUME DeviceTypesInv, addRoom \in Rooms \cup {None},
         \/ \E n \in Names : NameToAdd(n)
         \/ \E n \in FreshNames \cup {editDevice.name} : NameToEdit(n)
  PROVE  FormsTyped'
<1>1. FormsTyped
  BY DEF DeviceTypesInv
<1>2. /\ addDevice \in Devices /\ editDevice \in Devices /\ ListTyped(addDeviceList)
      /\ chosen \in DOMAIN editDeviceList \cup {None}
      /\ editRoom \in Rooms \cup {None} /\ IDToUpdate \in IDsOrNone
  BY <1>1, EditDeviceTyped DEF FormsTyped
<1>3. \E a \in Devices, e \in Devices : UpdateID(a, e)
  <2>1. ASSUME NEW n \in Names, NameToAdd(n) PROVE \E a \in Devices, e \in Devices : UpdateID(a, e)
    <3>1. [addDevice EXCEPT !.name = n] \in Devices
      BY <1>2, FieldTypes
    <3> QED
      BY <1>2, <2>1, <3>1 DEF NameToAdd
  <2>2. ASSUME NEW n \in FreshNames \cup {editDevice.name}, NameToEdit(n)
        PROVE  \E a \in Devices, e \in Devices : UpdateID(a, e)
    <3>1. n \in Names \cup FreshNames \cup {""}
      BY <1>2, FieldTypes
    <3>2. [editDevice EXCEPT !.name = n] \in Devices
      BY <1>2, <3>1, FieldTypes
    <3> QED
      BY <1>2, <2>2, <3>2 DEF NameToEdit
  <2> QED
    BY <2>1, <2>2
<1>4. PICK a \in Devices, e \in Devices : UpdateID(a, e)
  BY <1>3
<1>5. addDevice' \in Devices /\ WithID(e, editRoom) \in Devices /\ Edit(WithID(e, editRoom))
  BY <1>2, <1>4, WithIDTyped DEF UpdateID
<1>6. /\ blank' \in Devices /\ ListTyped(editDeviceList')
      /\ DOMAIN editDeviceList' = DOMAIN editDeviceList
  BY <1>1, <1>5, EditGives
<1>7. UNCHANGED <<addDeviceList, editRoom, chosen, IDToUpdate>>
  BY DEF NameToAdd, NameToEdit
<1> QED
  BY <1>2, <1>5, <1>6, <1>7, FormsTypedNext

LEMMA ChoiceTyped ==
  ASSUME DeviceTypesInv, NEW d \in DocIDs, EditDeviceChanges(d)
  PROVE  FormsTyped' /\ OffersTyped'
<1>1. FormsTyped /\ OffersTyped
  BY DEF DeviceTypesInv
<1>2. /\ addDevice \in Devices /\ blank \in Devices
      /\ ListTyped(addDeviceList) /\ ListTyped(editDeviceList) /\ editRoom \in Rooms \cup {None}
  BY <1>1 DEF FormsTyped
<1> DEFINE dev   == editDeviceList[d]
           known == typesLoaded /\ dev.type # None
           lists == known /\ ~ListsThrow(editDeviceList, dev.type)
           type  == IF known THEN dev.type ELSE None
           ports == IF lists THEN MissingPorts(dev) ELSE dev.ports
<1>3. d \in DOMAIN editDeviceList /\ dev \in Devices
  BY <1>2 DEF EditDeviceChanges, ListTyped
<1>4. /\ editDeviceList' = [editDeviceList EXCEPT ![d] = [dev EXCEPT !.type = type, !.ports = ports]]
      /\ chosen' = d /\ IDToUpdate' = dev.id
      /\ UNCHANGED <<addDevice, addDeviceList, blank, editRoom>>
  BY DEF EditDeviceChanges, IDOf, addForm
<1>5. UNCHANGED offers \/ Offer(addDevice, addType, editDeviceList, dev, dev.type)
  BY DEF EditDeviceChanges
<1> HIDE DEF dev
<1>6. type \in Types \cup {None} /\ ports \in SUBSET (Owners \X PortIDs) /\ dev.id \in IDsOrNone
  BY <1>3, FieldTypes, MissingPortsTyped
<1> HIDE DEF type, ports
<1>7. [dev EXCEPT !.type = type, !.ports = ports] \in Devices
  BY <1>3, <1>6, FieldTypes
<1>8. ListTyped(editDeviceList')
  BY <1>2, <1>4, <1>7, EntryTyped
<1>9. chosen' \in DOMAIN editDeviceList' \cup {None}
  BY <1>3, <1>4
<1>10. FormsTyped'
  BY <1>2, <1>4, <1>6, <1>8, <1>9, FormsTypedNext
<1>11. OffersTyped'
  BY <1>1, <1>2, <1>3, <1>5, OfferTyped DEF OffersTyped, offers
<1> QED
  BY <1>10, <1>11

LEMMA TypeChangeTyped ==
  ASSUME DeviceTypesInv, NEW t \in Types, ChooseAddType(t) \/ ChooseEditType(t)
  PROVE  FormsTyped' /\ OffersTyped'
<1>1. FormsTyped
  BY DEF DeviceTypesInv
<1>2. /\ addDevice \in Devices /\ editDevice \in Devices
      /\ ListTyped(addDeviceList) /\ ListTyped(editDeviceList)
      /\ chosen \in DOMAIN editDeviceList \cup {None}
      /\ editRoom \in Rooms \cup {None} /\ IDToUpdate \in IDsOrNone
  BY <1>1, EditDeviceTyped DEF FormsTyped
<1>3. [addDevice EXCEPT !.type = t] \in Devices /\ [editDevice EXCEPT !.type = t] \in Devices
  BY <1>2, FieldTypes
<1>4. \E a \in Devices, e \in Devices : DeviceTypeChange(a, e)
  BY <1>2, <1>3 DEF ChooseAddType, ChooseEditType
<1>5. PICK a \in Devices, e \in Devices : DeviceTypeChange(a, e)
  BY <1>4
<1> DEFINE now  == IF e.id = None THEN e ELSE OfTypeToEdit(e)
           typeE == IF e.id = None THEN editType ELSE e.type
           list == IF chosen = None THEN editDeviceList ELSE [editDeviceList EXCEPT ![chosen] = now]
<1>6. now \in Devices /\ OfTypeToAdd(a) \in Devices
  BY OfTypeTyped
<1>7. /\ addDevice' = OfTypeToAdd(a) /\ Edit(now)
      /\ Offer(OfTypeToAdd(a), a.type, list, now, typeE)
  BY <1>5 DEF DeviceTypeChange
<1> HIDE DEF now, typeE
<1>8. /\ blank' \in Devices /\ ListTyped(editDeviceList')
      /\ DOMAIN editDeviceList' = DOMAIN editDeviceList
  BY <1>1, <1>6, <1>7, EditGives
<1>9. UNCHANGED <<addDeviceList, editRoom, chosen, IDToUpdate>>
  BY DEF ChooseAddType, ChooseEditType
<1>10. FormsTyped'
  BY <1>2, <1>6, <1>7, <1>8, <1>9, FormsTypedNext
<1>11. ListTyped(list)
  BY <1>2, <1>6, EntryTyped
<1> HIDE DEF list
<1>12. OffersTyped'
  BY <1>2, <1>6, <1>7, <1>11, OfferTyped
<1> QED
  BY <1>10, <1>12

LEMMA FormsTypedKept ==
  ASSUME DeviceInv, DeviceTypesInv, [NextDevices]_deviceVars
  PROVE  FormsTyped'
<1>1. CASE \/ \E c \in calls : Answer(c) \/ Lost(c)
           \/ \E b \in Buildings : GetAddRoomList(b) \/ GetEditRoomList(b)
           \/ \E r \in Rooms : GetAddDeviceList(r) \/ GetEditDeviceList(r)
  BY <1>1, ListsTyped
<1>2. CASE \/ \E n \in Names : NameToAdd(n)
           \/ \E n \in FreshNames \cup {editDevice.name} : NameToEdit(n)
  BY <1>2, NamesTyped DEF DeviceInv, AddForm
<1>3. ASSUME NEW d \in DocIDs, EditDeviceChanges(d) PROVE FormsTyped'
  BY <1>3, ChoiceTyped
<1>4. ASSUME NEW t \in Types, ChooseAddType(t) \/ ChooseEditType(t) PROVE FormsTyped'
  BY <1>4, TypeChangeTyped
<1>5. CASE \/ LoadTypes \/ CreateDevice \/ UpdateDevice \/ UNCHANGED deviceVars
           \/ \E o \in DOMAIN wire : WireToAdd(o) \/ WireToEdit(o)
  <2>1. UNCHANGED <<addDevice, blank, addDeviceList, editDeviceList, chosen, editRoom, IDToUpdate>>
    BY <1>5 DEF LoadTypes, CreateDevice, UpdateDevice, deviceVars, WireToAdd, WireToEdit,
                addForm, editForm
  <2> QED
    BY <2>1, FormsLeftAlone DEF DeviceTypesInv
<1> QED
  BY <1>1, <1>2, <1>3, <1>4, <1>5 DEF NextDevices

LEMMA ChosenThereKept ==
  ASSUME DeviceInv, DeviceTypesInv, [NextDevices]_deviceVars
  PROVE  ChosenThere'
<1> DEFINE Still == chosen' = chosen /\ \A c \in calls' : c.list = "editDevices" => c \in calls
<1>1. ChosenThere
  BY DEF DeviceTypesInv
<1>2. CASE Still
  BY <1>1, <1>2 DEF ChosenThere
<1>3. CASE chosen' = None
  BY <1>3 DEF ChosenThere
<1>4. ASSUME NEW c \in calls, Answer(c) \/ Lost(c) PROVE Still
  BY <1>4 DEF Answer, Lost, editForm
<1>5. LoadTypes \/ CreateDevice \/ UpdateDevice \/ UNCHANGED deviceVars => Still
  BY DEF LoadTypes, CreateDevice, UpdateDevice, deviceVars, editForm
<1>6. \A x : GetAddRoomList(x) \/ GetAddDeviceList(x) => Still
  BY DEF GetAddRoomList, GetAddDeviceList, Ask, editForm
<1>7. \A x : GetEditRoomList(x) \/ GetEditDeviceList(x) => chosen' = None
  BY DEF GetEditRoomList, GetEditDeviceList
<1>8. \A x : NameToAdd(x) \/ NameToEdit(x) => Still
  BY DEF NameToAdd, NameToEdit
<1>9. \A x : ChooseAddType(x) \/ ChooseEditType(x) => Still
  BY DEF ChooseAddType, ChooseEditType
<1>10. \A x : WireToAdd(x) \/ WireToEdit(x) => Still
  BY DEF WireToAdd, WireToEdit, editForm
<1>11. \A d : EditDeviceChanges(d) => ChosenThere'
  BY DEF EditDeviceChanges, ChosenThere
<1> HIDE DEF Still
<1> QED
  BY <1>2, <1>3, <1>4, <1>5, <1>6, <1>7, <1>8, <1>9, <1>10, <1>11 DEF NextDevices

LEMMA OffersTypedKept ==
  ASSUME DeviceTypesInv, [NextDevices]_deviceVars
  PROVE  OffersTyped'
<1>1. FormsTyped /\ OffersTyped
  BY DEF DeviceTypesInv
<1>2. CASE UNCHANGED offers
  BY <1>1, <1>2 DEF OffersTyped, offers
<1>3. ASSUME NEW c \in calls, Answer(c) \/ Lost(c) PROVE UNCHANGED offers
  BY <1>3 DEF Answer, Lost
<1>4. LoadTypes \/ CreateDevice \/ UpdateDevice \/ UNCHANGED deviceVars => UNCHANGED offers
  BY DEF LoadTypes, CreateDevice, UpdateDevice, deviceVars
<1>5. \A x : GetAddRoomList(x) \/ GetEditRoomList(x) \/ GetAddDeviceList(x) \/ GetEditDeviceList(x)
        => UNCHANGED offers
  BY DEF GetAddRoomList, GetEditRoomList, GetAddDeviceList, GetEditDeviceList
<1>6. \A x : NameToAdd(x) \/ NameToEdit(x) \/ WireToEdit(x) => UNCHANGED offers
  BY DEF NameToAdd, NameToEdit, WireToEdit
<1>7. ASSUME NEW o, WireToAdd(o) PROVE OffersTyped'
  <2>1. Offer(addDevice, addType, editDeviceList, editDevice, editType)
    BY <1>7 DEF WireToAdd
  <2>2. /\ addDevice \in Devices /\ editDevice \in Devices
        /\ ListTyped(addDeviceList) /\ ListTyped(editDeviceList)
    BY <1>1, EditDeviceTyped DEF FormsTyped
  <2> QED
    BY <2>1, <2>2, OfferTyped
<1>8. ASSUME NEW d \in DocIDs, EditDeviceChanges(d) PROVE OffersTyped'
  BY <1>8, ChoiceTyped
<1>9. ASSUME NEW t \in Types, ChooseAddType(t) \/ ChooseEditType(t) PROVE OffersTyped'
  BY <1>9, TypeChangeTyped
<1> QED
  BY <1>2, <1>3, <1>4, <1>5, <1>6, <1>7, <1>8, <1>9 DEF NextDevices

LEMMA WiresTypedKept ==
  ASSUME DeviceInv, DeviceTypesInv, [NextDevices]_deviceVars
  PROVE  WiresTyped'
<1>1. StoredTyped /\ OffersTyped /\ OffersTyped' /\ WiresTyped
  BY OffersTypedKept DEF DeviceTypesInv
<1>2. CASE UNCHANGED wire
  BY <1>1, <1>2 DEF WiresTyped
<1>3. ASSUME NEW c \in calls,
             wire' = [o \in DOMAIN wire |->
               IF o[1] \in DevicesIn(c.of) /\ o[2] \in DOMAIN stored[o[1]].wires
                 THEN stored[o[1]].wires[o[2]] ELSE wire[o]]
      PROVE  WiresTyped'
  <2>1. \A d \in DevicesIn(c.of) : \A p \in DOMAIN stored[d].wires : stored[d].wires[p] \in Wires
    BY <1>1 DEF DevicesIn, StoredTyped
  <2> QED
    BY <1>1, <1>3, <2>1 DEF WiresTyped
<1>4. ASSUME NEW o \in DOMAIN wire, WireToAdd(o) \/ WireToEdit(o) PROVE WiresTyped'
  <2> DEFINE VA == ValidSources(addDeviceList, sources'.add, addDevice.id)
             VE == ValidSources(editDeviceList, sources.edit, editDevice.id)
  <2>1. \A list, host : \A ids : ValidSources(list, ids, host) \subseteq ids
    BY DEF ValidSources
  <2>2. VA \subseteq sources'.add /\ VE \subseteq sources.edit
    BY <2>1
  <2>3. VA \in SUBSET IDsOrNone /\ VE \in SUBSET IDsOrNone
    BY <1>1, <2>2 DEF OffersTyped
  <2>4. destinations'.add \in SUBSET IDsOrNone /\ destinations.edit \in SUBSET IDsOrNone
    BY <1>1 DEF OffersTyped
  <2>5. Wire(o, VA, destinations'.add) \/ Wire(o, VE, destinations.edit)
    BY <1>4 DEF WireToAdd, WireToEdit
  <2> HIDE DEF VA, VE
  <2>6. PICK srcs \in SUBSET IDsOrNone, dests \in SUBSET IDsOrNone : Wire(o, srcs, dests)
    BY <2>3, <2>4, <2>5
  <2> QED
    BY <1>1, <2>6, WireTyped
<1>5. ASSUME NEW t \in Types, ChooseAddType(t) PROVE WiresTyped'
  <2>1. wire' = Fresh(wire) \/ wire' \in DefaultWiring(addDevice', sources'.add, destinations'.add)
    BY <1>5 DEF ChooseAddType
  <2>2. sources'.add \in SUBSET IDsOrNone /\ destinations'.add \in SUBSET IDsOrNone
    BY <1>1 DEF OffersTyped
  <2>3. CASE wire' = Fresh(wire)
    BY <1>1, <2>3, FreshTyped DEF WiresTyped
  <2>4. CASE wire' \in DefaultWiring(addDevice', sources'.add, destinations'.add)
    <3> DEFINE Typed(w) == w \in [Owners \X PortIDs -> Wires]
    <3>1. \A d, w : \A srcs, dests \in SUBSET IDsOrNone : w \in DefaultWiring(d, srcs, dests) => Typed(w)
      BY <1>1, DefaultWiringTyped
    <3> HIDE DEF Typed
    <3>2. Typed(wire')
      BY <2>2, <2>4, <3>1
    <3> QED
      BY <3>2 DEF Typed, WiresTyped
  <2> QED
    BY <2>1, <2>3, <2>4
<1>6. CASE wire' = Fresh(wire)
  BY <1>1, <1>6, FreshTyped DEF WiresTyped
<1> QED
  BY <1>2, <1>3, <1>4, <1>5, <1>6, WireSteps

LEMMA DeviceTypesHold == DeviceSpec => []DeviceTypesInv
<1>1. DeviceInv /\ DeviceTypesInv /\ [NextDevices]_deviceVars => DeviceTypesInv'
  BY StoredTypedKept, FormsTypedKept, ChosenThereKept, OffersTypedKept, WiresTypedKept
     DEF DeviceTypesInv
<1> QED
  BY <1>1, DeviceTypesStart, DeviceInvHolds, PTL DEF DeviceSpec

LEMMA DeviceTypesCorrect == DeviceSpec => []DevicesTypeOK
<1>1. DeviceInv /\ DeviceTypesInv => DevicesTypeOK
  BY DEF DeviceInv, DeviceTypesInv, FormsTyped, ListTyped, WiresTyped, Wires, IDsOrNone, DevicesTypeOK
<1> QED
  BY <1>1, DeviceTypesHold, DeviceInvHolds, PTL

-----------------------------------------------------------------------------
(* The four pages side by side: a step of the open one is a step of that one *)
(* alone, and leaves the others as they are.                                 *)

LEMMA PagesAreThePages == PagesSpec => DeviceSpec /\ BuilderSpec /\ FormSpec /\ EventsSpec
<1>1. InitPages => InitDevices /\ InitBuilder /\ InitForm /\ InitEvents
  BY DEF InitPages
<1>2. [NextPages]_pagesVars =>
        /\ [NextDevices]_deviceVars /\ [NextBuilder]_builderVars
        /\ [NextForm]_formVars /\ [NextEvents]_eventVars
  BY DEF NextPages, pagesVars
<1> QED
  BY <1>1, <1>2, PTL DEF PagesSpec, DeviceSpec, BuilderSpec, FormSpec, EventsSpec

(* Everything the four pages keep is of its type: the forms hold devices and *)
(* documents with IDs there can be, ports name devices, a document on a form *)
(* is the entry of the list it was chosen from (its object is shared), and   *)
(* the devices and groups of the room builder are those it has made.         *)
THEOREM PagesTypesCorrect == PagesSpec => []PagesTypeOK
<1>1. DevicesTypeOK /\ BuilderTypeOK /\ FormTypeOK /\ EventsTypeOK => PagesTypeOK
  BY DEF PagesTypeOK
<1> QED
  BY <1>1, PagesAreThePages, DeviceTypesCorrect, BuilderTypes, FormTypesCorrect, EventsTypesCorrect, PTL
=============================================================================
