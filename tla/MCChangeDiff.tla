---------------------------- MODULE MCChangeDiff ----------------------------
(* ChangeDiff over small documents.  Names of presets, inputs and outputs    *)
(* and hostnames are unique within a document: of two with one name, only    *)
(* the first would be compared with.                                         *)
EXTENDS ChangeDiff

Text == {"a", "b"}

Buildings ==
  [kind : {"Building"}, ID : Text, Name : Text, Description : Text, Tags : SUBSET Text]

Rooms ==
  [kind : {"Room"}, ID : Text, Name : Text, Description : Text,
   Configuration : Text, Designation : Text, Tags : SUBSET {"a"}]

(* The second port only comes and goes and changes one attribute.            *)
Port(id, names, texts) ==
  [ID : {id}, FriendlyName : names, SourceDevice : {"a"}, DestinationDevice : Text,
   Description : texts, Tags : {{}}]

PortSets ==
  LET first == Port("a", Text, Text) IN
  {{}} \cup {{p} : p \in first} \cup {{p, q} : p \in first, q \in Port("b", {"a"}, {"a"})}

Devices ==
  [kind : {"Device"}, ID : {"a"}, Name : {"a"}, Description : {"b"}, Address : {"b"},
   DisplayName : {"a"}, Type : Text, Roles : SUBSET Text, Tags : {{}}, Ports : PortSets]

UpTo2(S) == {<<>>} \cup {<<x>> : x \in S} \cup {<<x, y>> : x \in S, y \in S}
UniqueBy(f, lists) ==
  {l \in lists : \A i, j \in DOMAIN l : l[i][f] = l[j][f] => i = j}

IOs == UniqueBy("Name", UpTo2([Name : Text, Icon : Text]))

Presets ==
  UniqueBy("Name",
    UpTo2([Name : Text, Icon : {"a"}, Displays : SUBSET {"a"}, Inputs : {{}},
           ShareableDisplays : {{}}, AudioDevices : {{}}, IndependentAudioDevices : {{"a"}}]))

Panels ==
  UniqueBy("Hostname",
    UpTo2([Hostname : Text, Preset : Text, UIPath : {"a"}, Features : SUBSET {"a"}]))

(* Two parts of a configuration vary at a time.                              *)
UIConfig(ids, apis, panels, presets, inputs, outputs) ==
  [kind : {"UIConfig"}, ID : ids, Api : apis, Panels : panels, Presets : presets,
   InputConfiguration : inputs, OutputConfiguration : outputs, AudioConfiguration : {"a"}]

Audio ==
  [kind : {"UIConfig"}, ID : {"a"}, Api : {{}}, Panels : {<<>>}, Presets : {<<>>},
   InputConfiguration : {<<>>}, OutputConfiguration : IOs, AudioConfiguration : Text]

None == {<<>>}
UIConfigs ==
  UIConfig({"a"}, {{}}, None, Presets, IOs, None)
    \cup UIConfig(Text, SUBSET {"a"}, Panels, None, None, None)
    \cup UIConfig({"a"}, {{}}, None, None, IOs, IOs) \cup Audio

MCDocs == Buildings \cup Rooms \cup Devices \cup UIConfigs
=============================================================================
