----------------------------- MODULE ChangeDiff -----------------------------
(* What FindChanges (handlers/changelog.go) says of an update: the list of   *)
(* differences it finds between a document and the one that replaces it.     *)
(*                                                                           *)
(* A document is a record.  A list the code only asks for membership is a    *)
(* set; a list it searches by name or indexes is a sequence.  A line of the  *)
(* change log is a record of what the sentence names: item is the panel,     *)
(* port, preset or input it is about, field the attribute, from and to the   *)
(* two values, Nothing where the sentence says added or removed.             *)
EXTENDS Integers, Sequences, FiniteSets

CONSTANTS Docs,     \* the documents that may be stored
          Nothing   \* no value

(* The fields of the documents (the pages' objects.ts has them all).  The    *)
(* devices of a room are documents of their own; so are a role, a type and a *)
(* room configuration, of which a document is only compared by the ID.       *)
(* Plain lists and names have no empty value; ports go by ID, panels by hostname and the other parts by name, and of    *)
(* two with one name the code would only compare the first (the pages give   *)
(* each its own: NamesUnique of PanelPresets, NoDuplicates of UIConfigPage). *)
Fields ==
  [Building |-> {"ID", "Name", "Description", "Tags"},
   Room     |-> {"ID", "Name", "Description", "Configuration", "Designation", "Tags"},
   Device   |-> {"ID", "Name", "Description", "Address", "DisplayName", "Type",
                 "Roles", "Ports", "Tags"},
   UIConfig |-> {"ID", "Api", "Panels", "Presets", "InputConfiguration",
                 "OutputConfiguration", "AudioConfiguration"}]
PortFields  == {"ID", "FriendlyName", "SourceDevice", "DestinationDevice",
                "Description", "Tags"}
PresetLists == {"Displays", "ShareableDisplays", "AudioDevices",
                "IndependentAudioDevices", "Inputs"}

Keyed(list, key) ==
  /\ Len(list) \in Nat /\ DOMAIN list = 1..Len(list)
  /\ \A i, j \in DOMAIN list : list[i][key] = list[j][key] => i = j
  /\ \A i \in DOMAIN list : list[i][key] # Nothing

ASSUME DocsAssumption ==
  \A d \in Docs :
    /\ d.kind \in DOMAIN Fields /\ DOMAIN d = {"kind"} \cup Fields[d.kind]
    /\ \A f \in {"Tags", "Roles", "Api"} \cap DOMAIN d : Nothing \notin d[f]
    /\ d.kind = "Device" =>
         /\ \A p \in d.Ports : DOMAIN p = PortFields
         /\ \A p, q \in d.Ports : p.ID = q.ID => p = q
    /\ d.kind = "UIConfig" =>
         /\ Keyed(d.Panels, "Hostname") /\ Keyed(d.Presets, "Name")
         /\ Keyed(d.InputConfiguration, "Name") /\ Keyed(d.OutputConfiguration, "Name")
         /\ \A i \in DOMAIN d.Panels : Nothing \notin d.Panels[i].Features
         /\ \A i \in DOMAIN d.Presets, l \in PresetLists : Nothing \notin d.Presets[i][l]

VARIABLES
  prev, doc,  \* a document before and after the last update
  told        \* the changes FindChanges found

diffVars == <<prev, doc, told>>

Line(item, field, from, to) ==
  [item |-> item, field |-> field, from |-> from, to |-> to]

Texts(item, fields, old, new) ==
  {Line(item, f, old[f], new[f]) : f \in {g \in fields : old[g] # new[g]}}

(* Mutant of Members: additions are looked for in the new list.              *)
MembersRemovedOnly(item, field, old, new) ==
  {Line(item, field, x, Nothing) : x \in old \ new}

Members(item, field, old, new) ==
  {Line(item, field, x, Nothing) : x \in old \ new}
    \cup {Line(item, field, Nothing, x) : x \in new \ old}

Doc == <<"document", "">>

(* The first element with a name: presetsContains and ioContains.            *)
Named(list, name) == \E i \in DOMAIN list : list[i].Name = name
FirstNamed(list, name) ==
  list[CHOOSE i \in DOMAIN list :
         /\ list[i].Name = name
         /\ \A j \in DOMAIN list : list[j].Name = name => i <= j]

-----------------------------------------------------------------------------
findBuildingChanges(old, new) ==
  Texts(Doc, {"ID", "Name", "Description"}, old, new)
    \cup Members(Doc, "Tags", old.Tags, new.Tags)

findRoomChanges(old, new) ==
  Texts(Doc, {"ID", "Name", "Description", "Configuration", "Designation"}, old, new)
    \cup Members(Doc, "Tags", old.Tags, new.Tags)

(* Every pair of ports with the same ID is compared; a port that only one of *)
(* the devices has is passed over.                                           *)
PortChanges(old, new) ==
  UNION {Texts(<<"port", p[1].ID>>, {"FriendlyName", "SourceDevice", "DestinationDevice"},
               p[1], p[2])
         : p \in {q \in old.Ports \X new.Ports : q[1].ID = q[2].ID}}

findDeviceChanges(old, new) ==
  Texts(Doc, {"ID", "Name", "Description", "Address", "DisplayName", "Type"}, old, new)
    \cup Members(Doc, "Roles", old.Roles, new.Roles)
    \cup PortChanges(old, new)
    \cup Members(Doc, "Tags", old.Tags, new.Tags)

(* Panels are compared by position and named by the old hostname.            *)
PanelChanges(old, new) ==
  UNION {LET panel == <<"panel", old[i].Hostname>> IN
           Texts(panel, {"Hostname", "Preset", "UIPath"}, old[i], new[i])
             \cup Members(panel, "Features", old[i].Features, new[i].Features)
         : i \in DOMAIN old}

(* A preset is compared with the first one of its name.  Presets the old     *)
(* configuration does not have are not looked for.                           *)
PresetChanges(old, new) ==
  UNION {LET preset == <<"preset", old[i].Name>>
             now == FirstNamed(new, old[i].Name) IN
           IF ~Named(new, old[i].Name)
             THEN {Line(preset, "Name", old[i].Name, Nothing)}
             ELSE Texts(preset, {"Icon"}, old[i], now)
                    \cup UNION {Members(preset, l, old[i][l], now[l]) : l \in PresetLists}
         : i \in DOMAIN old}

(* Mutant of IOChanges: an element is compared with the one at its position. *)
IOChangesByPosition(side, old, new) ==
  UNION {IF i \in DOMAIN new THEN Texts(<<side, old[i].Name>>, {"Icon"}, old[i], new[i])
         ELSE {Line(<<side, old[i].Name>>, "Name", old[i].Name, Nothing)}
         : i \in DOMAIN old}

IOChanges(side, old, new) ==
  {Line(<<side, new[j].Name>>, "Name", Nothing, new[j].Name)
     : j \in {k \in DOMAIN new : ~Named(old, new[k].Name)}}
    \cup UNION {LET io == <<side, old[i].Name>> IN
                  IF Named(new, old[i].Name)
                    THEN Texts(io, {"Icon"}, old[i], FirstNamed(new, old[i].Name))
                    ELSE {Line(io, "Name", old[i].Name, Nothing)}
                : i \in DOMAIN old}

(* Mutant of findUIConfigChanges: the outputs are compared with the inputs.  *)
findUIConfigChangesInputsTwice(old, new) ==
  Texts(Doc, {"ID"}, old, new)
    \cup Members(Doc, "Api", old.Api, new.Api)
    \cup PanelChanges(old.Panels, new.Panels)
    \cup PresetChanges(old.Presets, new.Presets)
    \cup IOChanges("input", old.InputConfiguration, new.InputConfiguration)
    \cup IOChanges("output", old.OutputConfiguration, new.InputConfiguration)

findUIConfigChanges(old, new) ==
  Texts(Doc, {"ID"}, old, new)
    \cup Members(Doc, "Api", old.Api, new.Api)
    \cup PanelChanges(old.Panels, new.Panels)
    \cup PresetChanges(old.Presets, new.Presets)
    \cup IOChanges("input", old.InputConfiguration, new.InputConfiguration)
    \cup IOChanges("output", old.OutputConfiguration, new.OutputConfiguration)

(* new.Panels[i] is indexed by the panels of the old configuration.          *)
Panics(old, new) ==
  old.kind = "UIConfig" /\ Len(new.Panels) < Len(old.Panels)

FindChanges(old, new) ==
  CASE old.kind = "Building" -> findBuildingChanges(old, new)
    [] old.kind = "Room"     -> findRoomChanges(old, new)
    [] old.kind = "Device"   -> findDeviceChanges(old, new)
    [] old.kind = "UIConfig" -> findUIConfigChanges(old, new)

-----------------------------------------------------------------------------
InitDiff ==
  /\ doc \in Docs
  /\ prev = doc
  /\ told = {}

(* An update handler: a panic in FindChanges ends the request before the     *)
(* document is replaced.  One update is enough, since FindChanges looks at   *)
(* nothing but the two documents.                                            *)
Update(d) ==
  /\ prev = doc
  /\ d.kind = doc.kind
  /\ ~Panics(doc, d)
  /\ prev' = doc
  /\ doc' = d
  /\ told' = FindChanges(doc, d)

NextDiff == \E d \in Docs : Update(d)

DiffSpec == InitDiff /\ [][NextDiff]_diffVars

-----------------------------------------------------------------------------
(* Reading the log: what the lines about an item say has become of it.       *)
About(item, field) == {c \in told : c.item = item /\ c.field = field}

ReadText(item, field, was) ==
  IF About(item, field) = {} THEN was
  ELSE (CHOOSE c \in About(item, field) : TRUE).to

ReadList(item, field, was) ==
  (was \ {c.from : c \in About(item, field)})
    \cup ({c.to : c \in About(item, field)} \ {Nothing})

TellsTexts(item, fields, old, new) ==
  \A f \in fields : /\ Cardinality(About(item, f)) <= 1
                    /\ ReadText(item, f, old[f]) = new[f]

TellsList(item, field, old, new) == ReadList(item, field, old[field]) = new[field]

(* The fields of a document or a port the code does not compare: a change of *)
(* one of them alone is logged with no line, although changelog.go 185 says  *)
(* that each attribute is compared.                                          *)
NotCompared == {"AudioConfiguration"}
PortNotCompared == {"Description", "Tags"}

Lists == {"Tags", "Roles", "Api"}
Parts == {"Ports", "Panels", "Presets", "InputConfiguration", "OutputConfiguration"}

(* Of all other fields the lines, read on top of the document as it was,     *)
(* give what they are now: its attributes, its plain lists, and those of the *)
(* ports of a device that stay.                                              *)
FieldsTold ==
  /\ TellsTexts(Doc, DOMAIN doc \ ({"kind"} \cup Lists \cup Parts \cup NotCompared), prev, doc)
  /\ \A l \in Lists \cap DOMAIN doc : TellsList(Doc, l, prev, doc)
  /\ doc.kind = "Device" =>
       \A p \in prev.Ports, q \in doc.Ports : p.ID = q.ID =>
         TellsTexts(<<"port", p.ID>>, DOMAIN q \ ({"ID"} \cup PortNotCompared), p, q)

(* The same of the inputs and outputs of a UI configuration, whose order may *)
(* change: which there are, and the icons of those that stay.                *)
IOTold ==
  doc.kind = "UIConfig" =>
    \A io \in {<<"input", "InputConfiguration">>, <<"output", "OutputConfiguration">>} :
      LET was == prev[io[2]]
          now == doc[io[2]]
          names(list) == {list[i].Name : i \in DOMAIN list} IN
      /\ \A n \in names(was) \cup names(now) :
           ReadList(<<io[1], n>>, "Name", names(was) \cap {n}) = names(now) \cap {n}
      /\ \A n \in names(was) \cap names(now) :
           TellsTexts(<<io[1], n>>, {"Icon"}, FirstNamed(was, n), FirstNamed(now, n))

(* And of the presets: which have gone, and the icon and lists of those that *)
(* stay, in whatever order.                                                  *)
PresetsTold ==
  doc.kind = "UIConfig" =>
    \A i \in DOMAIN prev.Presets :
      LET n == prev.Presets[i].Name
          preset == <<"preset", n>> IN
      /\ Named(doc.Presets, n) <=> About(preset, "Name") = {}
      /\ Named(doc.Presets, n) =>
           /\ TellsTexts(preset, {"Icon"}, prev.Presets[i], FirstNamed(doc.Presets, n))
           /\ \A l \in PresetLists :
                TellsList(preset, l, prev.Presets[i], FirstNamed(doc.Presets, n))

(* And of the panels, by position, also when two of them swap hostnames.     *)
PanelsTold ==
  doc.kind = "UIConfig" =>
    \A i \in DOMAIN prev.Panels :
      LET panel == <<"panel", prev.Panels[i].Hostname>> IN
      /\ TellsTexts(panel, {"Hostname", "Preset", "UIPath"}, prev.Panels[i], doc.Panels[i])
      /\ TellsList(panel, "Features", prev.Panels[i], doc.Panels[i])

(* The parts of a configuration that are compared by name or by position are *)
(* told as they are: each line is about the part it belongs to.              *)
PartsTold == IOTold /\ PresetsTold /\ PanelsTold

(* An update that changes nothing is logged with nothing, also when things   *)
(* that have a name change places, and, as the code has it, when it changes  *)
(* what is not compared.                                                     *)
Content(list) == {list[i] : i \in DOMAIN list}
NothingInvented ==
  LET named == {"Presets", "InputConfiguration", "OutputConfiguration"} IN
  (\A f \in DOMAIN doc \ NotCompared :
     IF f \in named THEN Content(prev[f]) = Content(doc[f]) ELSE prev[f] = doc[f])
  => told = {}
=============================================================================
