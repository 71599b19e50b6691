----------------------------- MODULE FormPages ------------------------------
(* The building page and the room page on their own (building.component.ts,  *)
(* room.component.ts): a form to add a document and one to edit one, beside  *)
(* the server.  They are one state: formPage tells which is open.            *)
(*                                                                           *)
(* The ID of a building is <<b>>, that of a room <<b, n>>, <<b, "">> before  *)
(* the user has typed on.  A configuration is an object: number i of the     *)
(* list, whose name is configs[i], or the room's own (object 0).  A document *)
(* also has, as history, the ID it was loaded from, the configuration it     *)
(* came with and the one chosen for it since.  Description and designation   *)
(* are left out, as are pages inside the walkthrough.                        *)
EXTENDS Integers, Sequences, FiniteSets, Functions, SequencesExt

CONSTANTS
  FormBuildings,                 \* the buildings b
  FormStoredAtFirst,             \* ID to name, configuration, tags
  NewIDs, RenamedIDs,            \* IDs typed, nobody's at first: to add, to rename
  ConfigNames,                   \* the list of configurations, as served
  Tag,
  NotChosen,                     \* undefined
  MaxFormActs                    \* bound: acts of the user

ASSUME FormAssumption ==
  /\ RenamedIDs \cap (DOMAIN FormStoredAtFirst \cup NewIDs) = {}
  /\ ConfigNames \in Seq(Range(ConfigNames)) /\ NotChosen \notin Range(ConfigNames)

VARIABLES
  formPage,                      \* "building" or "room"
  docs,                          \* the database
  buildingsListed,               \* room page: has the list arrived
  addOf, editOf,                 \* room page: addBuilding, editBuilding
  formList,                      \* buildingList or roomList, by ID loaded
  addDoc,                        \* addBuilding or addRoom
  editDoc, inList,               \* editBuilding or editRoom; is it one of the list
  formID,                        \* IDToUpdate
  configs,                       \* configurationList: the _id of each
  requests,                      \* lists asked for and updates under way
  updates,                       \* history: updates carried out
  formActs

formVars == <<formPage, docs, buildingsListed, addOf, editOf, formList, addDoc, editDoc,
              inList, formID, configs, requests, updates, formActs>>

NewDoc == [id |-> NotChosen, name |-> "", tags |-> <<>>, object |-> 0, own |-> NotChosen,
           from |-> NotChosen, came |-> NotChosen, picked |-> NotChosen]
NoDocs == [d \in {} |-> NewDoc]

(* A listed document, an object of its own.                                  *)
Loaded(ids) ==
  [d \in ids \cap DOMAIN docs |->
     [id |-> d, name |-> docs[d].name, tags |-> docs[d].tags, object |-> 0,
      own |-> docs[d].config, from |-> d, came |-> docs[d].config, picked |-> NotChosen]]

Config(doc) == IF doc.object = 0 THEN doc.own ELSE configs[doc.object]

InitForm ==
  /\ formPage \in {"building", "room"}
  /\ docs = FormStoredAtFirst
  /\ buildingsListed = FALSE /\ addOf = NotChosen /\ editOf = NotChosen
  /\ formList = NoDocs /\ addDoc = NewDoc
  /\ editDoc = NewDoc /\ inList = FALSE /\ formID = NotChosen
  /\ configs = <<>>
  /\ requests = IF formPage = "room" THEN {[call |-> "buildings"], [call |-> "configs"]}
                                     ELSE {[call |-> "buildings"]}
  /\ updates = {} /\ formActs = 0

FormAct == formActs < MaxFormActs /\ formActs' = formActs + 1

(* What is done to the edited document is done to the entry of the list it   *)
(* is.                                                                       *)
SetEdit(doc) ==
  /\ editDoc' = doc
  /\ formList' = IF inList THEN [formList EXCEPT ![doc.from] = doc] ELSE formList

-----------------------------------------------------------------------------
(* Answers.  Any may be lost.                                                *)

Answered(q) == q \in requests /\ requests' = requests \ {q}

FormLost(q) ==
  /\ Answered(q)
  /\ UNCHANGED <<formPage, docs, buildingsListed, addOf, editOf, formList, addDoc, editDoc,
                 inList, formID, configs, updates, formActs>>

BuildingsAnswered(q) ==
  /\ q.call = "buildings" /\ Answered(q)
  /\ formList' = IF formPage = "building" THEN Loaded({<<b>> : b \in FormBuildings}) ELSE formList
  /\ buildingsListed' = TRUE
  /\ UNCHANGED <<formPage, docs, addOf, editOf, addDoc, editDoc, inList, formID, configs,
                 updates, formActs>>

(* GetConfigurationList: the room to add starts with the default.            *)
ConfigsAnswered(q) ==
  /\ q.call = "configs" /\ Answered(q)
  /\ configs' = ConfigNames
  /\ addDoc' = [addDoc EXCEPT !.object = Max({@} \cup {i \in DOMAIN ConfigNames :
                                                         ConfigNames[i] = "Default"})]
  /\ UNCHANGED <<formPage, docs, buildingsListed, addOf, editOf, formList, editDoc, inList,
                 formID, updates, formActs>>

RoomsAnswered(q) ==
  /\ q.call = "rooms" /\ Answered(q)
  /\ formList' = Loaded({d \in DOMAIN docs : Len(d) = 2 /\ d[1] = q.of})
  /\ inList' = FALSE
  /\ UNCHANGED <<formPage, docs, buildingsListed, addOf, editOf, addDoc, editDoc, formID,
                 configs, updates, formActs>>

-----------------------------------------------------------------------------
(* Choosing what to edit.                                                    *)

(* FixMissingName, for one document: a name left out is the ID.              *)
Named(doc) == IF doc.id # NotChosen /\ doc.name = "" THEN [doc EXCEPT !.name = "ID"] ELSE doc

ChooseBuilding(d) ==
  /\ FormAct /\ formPage = "building"
  /\ d \in DOMAIN formList /\ ~(inList /\ editDoc.from = d)
  /\ editDoc' = formList[d] /\ inList' = TRUE
  /\ formID' = formList[d].id
  /\ UNCHANGED <<formPage, docs, buildingsListed, addOf, editOf, formList, addDoc, configs,
                 requests, updates>>

ChooseRoom(d) ==
  /\ FormAct /\ formPage = "room" /\ editOf # NotChosen
  /\ d \in DOMAIN formList /\ ~(inList /\ editDoc.from = d)
  /\ editDoc' = Named(formList[d]) /\ inList' = TRUE
  /\ formList' = [formList EXCEPT ![d] = Named(@)]
  /\ addDoc' = Named(addDoc)
  /\ formID' = formList[d].id
  /\ UNCHANGED <<formPage, docs, buildingsListed, addOf, editOf, configs, requests, updates>>

(* GetRoomList.  It asks for the rooms of the building being edited even     *)
(* when the other form called it; the room being edited stays on the form.   *)
AskRooms(b) ==
  /\ formPage = "room" /\ buildingsListed
  /\ formList' = NoDocs /\ inList' = FALSE
  /\ requests' = requests \cup {[call |-> "rooms", of |-> b]}

ChooseAddBuilding(b) ==
  /\ FormAct /\ b # addOf /\ AskRooms(editOf)
  /\ addOf' = b
  /\ addDoc' = [addDoc EXCEPT !.id = <<b, "">>]
  /\ UNCHANGED <<formPage, docs, buildingsListed, editOf, editDoc, formID, configs, updates>>

ChooseEditBuilding(b) ==
  /\ FormAct /\ b # editOf /\ AskRooms(b)
  /\ editOf' = b
  /\ UNCHANGED <<formPage, docs, buildingsListed, addOf, addDoc, editDoc, formID, configs, updates>>

-----------------------------------------------------------------------------
(* The fields.                                                               *)

TypeAddID(d) ==
  /\ FormAct /\ d # addDoc.id
  /\ \/ formPage = "building" /\ Len(d) = 1
     \/ formPage = "room" /\ Len(d) = 2 /\ d[1] = addOf
  /\ IF formPage = "building"
       THEN addDoc' = [addDoc EXCEPT !.id = d] /\ UNCHANGED <<editDoc, formList>>
       ELSE addDoc' = Named([addDoc EXCEPT !.id = d]) /\ SetEdit(Named(editDoc))
  /\ UNCHANGED <<formPage, docs, buildingsListed, addOf, editOf, inList, formID, configs,
                 requests, updates>>

TypeEditID(d) ==
  /\ FormAct /\ editDoc.id # NotChosen /\ d # editDoc.id
  /\ Len(d) = Len(editDoc.from)
  /\ SetEdit([editDoc EXCEPT !.id = d])
  /\ UNCHANGED <<formPage, docs, buildingsListed, addOf, editOf, addDoc, inList, formID,
                 configs, requests, updates>>

(* AddChip and RemoveChip, of each page.                                     *)
Chips(tags) == {Append(tags, Tag), RemoveFirst(tags, Tag)} \ {tags}

BuildingChip(add) ==
  /\ FormAct /\ formPage = "building"
  /\ IF add THEN /\ \E t \in Chips(addDoc.tags) : addDoc' = [addDoc EXCEPT !.tags = t]
                 /\ UNCHANGED <<editDoc, formList>>
            ELSE /\ editDoc.id # NotChosen
                 /\ \E t \in Chips(editDoc.tags) : SetEdit([editDoc EXCEPT !.tags = t])
                 /\ UNCHANGED addDoc
  /\ UNCHANGED <<formPage, docs, buildingsListed, addOf, editOf, inList, formID, configs,
                 requests, updates>>

RoomChip(add) ==
  /\ FormAct /\ formPage = "room"
  /\ IF add THEN /\ addOf # NotChosen
                 /\ \E t \in Chips(addDoc.tags) : addDoc' = [addDoc EXCEPT !.tags = t]
                 /\ UNCHANGED <<editDoc, formList>>
            ELSE /\ editDoc.id # NotChosen
                 /\ \E t \in Chips(editDoc.tags) : SetEdit([editDoc EXCEPT !.tags = t])
                 /\ UNCHANGED addDoc
  /\ UNCHANGED <<formPage, docs, buildingsListed, addOf, editOf, inList, formID, configs,
                 requests, updates>>

-----------------------------------------------------------------------------
(* The configuration of a room.                                              *)

PickForAdd(i) ==
  /\ FormAct /\ formPage = "room" /\ addOf # NotChosen
  /\ i \in DOMAIN configs /\ i # addDoc.object
  /\ addDoc' = [addDoc EXCEPT !.object = i]
  /\ UNCHANGED <<formPage, docs, buildingsListed, addOf, editOf, formList, editDoc, inList,
                 formID, configs, requests, updates>>

(* UpdateConfiguration, over the names of the list: for each entry both      *)
(* rooms' configurations are given its _id (= for ==) and then replaced by   *)
(* it, so the first entry renames what they were, every other one the entry  *)
(* before it, and the last is what both rooms are left with.                 *)
UpdateConfiguration(names, objects) ==
  LET first == [i \in DOMAIN names |-> IF i \in objects THEN names[1] ELSE names[i]]
  IN [i \in DOMAIN names |-> first[IF i < Len(names) THEN i + 1 ELSE i]]

(* The name chosen is written into the configuration the room has, be it its *)
(* own or one of the list, before that.                                      *)
PickForEdit(i) ==
  LET e     == editDoc.object
      names == IF e = 0 THEN configs ELSE [configs EXCEPT ![e] = configs[i]]
  IN /\ FormAct /\ formPage = "room" /\ editDoc.id # NotChosen
     /\ i \in DOMAIN configs /\ configs[i] # Config(editDoc)
     /\ configs' = UpdateConfiguration(names, {e, addDoc.object})
     /\ SetEdit([editDoc EXCEPT !.object = Len(configs), !.picked = configs[i]])
     /\ addDoc' = [addDoc EXCEPT !.object = Len(configs)]
     /\ UNCHANGED <<formPage, docs, buildingsListed, addOf, editOf, inList, formID, requests,
                    updates>>

-----------------------------------------------------------------------------
(* Submission.  The handler of an update refuses a body whose ID no document *)
(* has, the database a path that none has; any call may fail.                *)

Stored(doc) == [name |-> doc.name, config |-> Config(doc), tags |-> doc.tags]

(* The documents of others, and this one.                                    *)
Save(others, doc) ==
  [d \in DOMAIN others \cup {doc.id} |-> IF d = doc.id THEN Stored(doc) ELSE others[d]]

Create(doc) ==
  \/ UNCHANGED docs
  \/ /\ doc.id \in NewIDs \ DOMAIN docs
     /\ docs' = Save(docs, doc)

CreateBuilding ==
  /\ FormAct /\ formPage = "building" /\ addDoc.id # NotChosen /\ Create(addDoc)
  /\ UNCHANGED <<formPage, buildingsListed, addOf, editOf, formList, addDoc, editDoc, inList,
                 formID, configs, requests, updates>>

CreateRoom ==
  /\ FormAct /\ formPage = "room" /\ addOf # NotChosen /\ Create(addDoc)
  /\ UNCHANGED <<formPage, buildingsListed, addOf, editOf, formList, addDoc, editDoc, inList,
                 formID, configs, requests, updates>>

Update(doc) ==
  /\ FormAct /\ doc.id # NotChosen
  /\ \/ UNCHANGED <<docs, updates, requests>>
     \/ /\ {formID, doc.id} \subseteq DOMAIN docs
        /\ docs' = Save(Restrict(docs, DOMAIN docs \ {formID}), doc)
        /\ updates' = updates \cup {[path |-> formID, body |-> doc.id, from |-> doc.from,
                                     config |-> Config(doc), came |-> doc.came,
                                     picked |-> doc.picked]}
        /\ requests' = requests \cup {[call |-> "update", id |-> doc.id]}
  /\ UNCHANGED <<formPage, buildingsListed, addOf, editOf, formList, addDoc, editDoc, inList,
                 formID, configs>>

UpdateBuilding == formPage = "building" /\ Update(editDoc)

UpdateRoom == formPage = "room" /\ Update(editDoc)

(* Mutant of UpdateAnswered: the ID that was submitted.                      *)
UpdateAnsweredSent(q) ==
  /\ q.call = "update" /\ Answered(q)
  /\ formID' = q.id
  /\ UNCHANGED <<formPage, docs, buildingsListed, addOf, editOf, formList, addDoc, editDoc,
                 inList, configs, updates, formActs>>

(* Success: the ID on the form then, whatever is on the form by then.        *)
UpdateAnswered(q) ==
  /\ q.call = "update" /\ Answered(q)
  /\ formID' = editDoc.id
  /\ UNCHANGED <<formPage, docs, buildingsListed, addOf, editOf, formList, addDoc, editDoc,
                 inList, configs, updates, formActs>>

NextForm ==
  \/ \E q \in requests : \/ BuildingsAnswered(q) \/ ConfigsAnswered(q)
                         \/ RoomsAnswered(q) \/ UpdateAnswered(q) \/ FormLost(q)
  \/ \E d \in DOMAIN docs : ChooseBuilding(d) \/ ChooseRoom(d)
  \/ \E b \in FormBuildings : ChooseAddBuilding(b) \/ ChooseEditBuilding(b)
  \/ \E d \in NewIDs : TypeAddID(d)
  \/ \E d \in (RenamedIDs \cup {editDoc.from}) \ {NotChosen} : TypeEditID(d)
  \/ \E add \in BOOLEAN : BuildingChip(add) \/ RoomChip(add)
  \/ \E i \in DOMAIN configs : PickForAdd(i) \/ PickForEdit(i)
  \/ CreateBuilding \/ CreateRoom \/ UpdateBuilding \/ UpdateRoom

FormSpec == InitForm /\ [][NextForm]_formVars

-----------------------------------------------------------------------------
(* Type invariant of the two pages.                                          *)
FormIDsTyped == DOMAIN FormStoredAtFirst \cup NewIDs \cup RenamedIDs \cup {<<b, "">> : b \in FormBuildings}

FormTypeOK ==
  /\ Range(configs) \subseteq Range(ConfigNames)
  /\ {formID, addDoc.id, editDoc.id} \subseteq FormIDsTyped \cup {NotChosen}
  /\ addDoc.object \in 0..Len(configs) /\ editDoc.object \in 0..Len(configs)
  /\ inList => editDoc.from \in DOMAIN formList /\ formList[editDoc.from] = editDoc

(* An update that is carried out goes to the document the one on the form    *)
(* was loaded from, names it, and keeps its configuration unless one was     *)
(* chosen there: however choices, answers of updates (which set IDToUpdate   *)
(* from the form as it is then) and lists that replace each other interleave *)
(* with configurations chosen for other rooms (which rename those of the     *)
(* list), if documents are renamed only to IDs nobody has.                   *)
UpdatesOwnDocument ==
  \A u \in updates :
    /\ u.path = u.from /\ u.body = u.from
    /\ u.picked = NotChosen => u.config = u.came

(* room.component.ts:83: "UpdateConfiguration picks the configuration from   *)
(* the list".  An update carries the configuration that was chosen.          *)
ConfigurationAsChosen ==
  \A u \in updates : u.picked # NotChosen => u.config = u.picked
=============================================================================
