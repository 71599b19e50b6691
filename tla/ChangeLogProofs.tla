-------------------------- MODULE ChangeLogProofs --------------------------
(* Proofs about the change log: how it gets into its file (ChangeLogFile),   *)
(* for any number of calls and of lines, and what it says of an update       *)
(* (ChangeDiff), for any documents.                                          *)
EXTENDS ChangeLogFile, ChangeDiff, SequenceTheorems, FiniteSetTheorems, TLAPS

(* Appending to the file keeps the authors that are in it and adds one.      *)
LEMMA AppendRange ==
  ASSUME NEW S, NEW s \in Seq(S), NEW e \in S
  PROVE  /\ Append(s, e) \in Seq(S)
         /\ Range(Append(s, e)) = Range(s) \cup {e}
<1>1. Append(s, e) \in Seq(S)
  OBVIOUS
<1>2. /\ Len(Append(s, e)) = Len(s) + 1 /\ Len(s) \in Nat
      /\ DOMAIN s = 1..Len(s) /\ DOMAIN Append(s, e) = 1..Len(s) + 1
      /\ \A i \in 1..Len(s) : Append(s, e)[i] = s[i]
      /\ Append(s, e)[Len(s) + 1] = e
  OBVIOUS
<1>3. ASSUME NEW x \in Range(Append(s, e)) PROVE x \in Range(s) \cup {e}
  <2>1. PICK i \in 1..Len(s) + 1 : x = Append(s, e)[i]
    BY <1>2, <1>3 DEF Range
  <2>2. CASE i = Len(s) + 1
    BY <1>2, <2>1, <2>2
  <2>3. CASE i \in 1..Len(s)
    BY <1>2, <2>1, <2>3 DEF Range
  <2> QED BY <1>2, <2>2, <2>3
<1>4. ASSUME NEW x \in Range(s) PROVE x \in Range(Append(s, e))
  <2>1. PICK i \in 1..Len(s) : x = s[i]
    BY <1>2, <1>4 DEF Range
  <2>2. i \in 1..Len(s) + 1 /\ x = Append(s, e)[i]
    BY <1>2, <2>1
  <2> QED BY <1>2, <2>2 DEF Range
<1>5. e \in Range(Append(s, e))
  <2>1. Len(s) + 1 \in 1..Len(s) + 1
    BY <1>2
  <2> QED BY <1>2, <2>1 DEF Range
<1> QED BY <1>1, <1>3, <1>4, <1>5

LEMMA LogKeeps ==
  ASSUME TypeOK, NEW a \in Call \cup {Socket}, Log(a)
  PROVE  /\ file' \in Seq(Call \cup {Socket})
         /\ Range(file) \subseteq Range(file')
         /\ dest \in Call /\ handle[dest] = "open" => a \in Range(file')
  BY AppendRange DEF Log, TypeOK

THEOREM LoggerInit == Init => LoggerInv
  BY FileAssumption
  DEF Init, LoggerInv, TypeOK, HandleOf, DestOfRunning, RunsAlone, PrintsToOwn,
      HasPrinted, Running

(* One step keeps the invariant, action by action.                           *)
LEMMA LoggerStep == LoggerInv /\ [Next]_vars => LoggerInv'
<1> SUFFICES ASSUME LoggerInv, [Next]_vars PROVE LoggerInv'
  OBVIOUS
<1> USE FileAssumption
    DEF LoggerInv, TypeOK, HandleOf, DestOfRunning, RunsAlone, PrintsToOwn,
        HasPrinted, Running
<1>1. ASSUME NEW c \in Call, Open(c) PROVE LoggerInv'
  BY <1>1 DEF Open, Goto
<1>2. ASSUME NEW c \in Call, SetOutput(c) PROVE LoggerInv'
  BY <1>2 DEF SetOutput, Goto
<1>3. ASSUME NEW c \in Call, Printf(c) PROVE LoggerInv'
  <2>1. Log(c)
    BY <1>3 DEF Printf
  <2> QED BY <1>3, <2>1, LogKeeps DEF Printf, Goto
<1>4. ASSUME NEW c \in Call, Reset(c) PROVE LoggerInv'
  BY <1>4 DEF Reset, Goto
<1>5. ASSUME NEW c \in Call, Close(c) PROVE LoggerInv'
  BY <1>5 DEF Close, Goto
<1>6. ASSUME SocketLine PROVE LoggerInv'
  <2>1. Log(Socket)
    BY <1>6 DEF SocketLine
  <2> QED BY <1>6, <2>1, LogKeeps DEF SocketLine
<1>7. CASE UNCHANGED vars
  BY <1>7 DEF vars
<1> QED BY <1>1, <1>2, <1>3, <1>4, <1>5, <1>6, <1>7 DEF Next, Write

(* The inductive invariant holds of every behaviour, whatever the number of  *)
(* concurrent calls of Write and of lines logged by the websocket code.      *)
THEOREM LoggerInvariant == Spec => []LoggerInv
  BY LoggerInit, LoggerStep, PTL DEF Spec

(* The standard logger never points at a closed file.                        *)
THEOREM LoggerNeverOnClosed == Spec => []NeverOnClosed
<1>1. LoggerInv => NeverOnClosed
  BY DEF LoggerInv, TypeOK, HandleOf, DestOfRunning, NeverOnClosed
<1> QED BY <1>1, LoggerInvariant, PTL

(* Between calls of Write the logger is on stderr.                           *)
THEOREM LoggerEndsOnStderr == Spec => []EndsOnStderr
<1>1. LoggerInv => EndsOnStderr
  BY DEF LoggerInv, TypeOK, DestOfRunning, EndsOnStderr, Running
<1> QED BY <1>1, LoggerInvariant, PTL

(* A call of Write that no other overlapped has appended its entry.          *)
THEOREM AloneWriteAppends == Spec => []AloneAppends
<1>1. LoggerInv => AloneAppends
  BY DEF LoggerInv, HasPrinted, AloneAppends
<1> QED BY <1>1, LoggerInvariant, PTL

-----------------------------------------------------------------------------
(* What FindChanges finds.                                                   *)

(* Every line is about its item, and a text or a list has lines of its own.  *)
LEMMA LinesOfTexts ==
  ASSUME NEW item, NEW fields, NEW old, NEW new, NEW c
  PROVE  /\ c \in Texts(item, fields, old, new) => c.item = item /\ c.field \in fields
         /\ c \in Texts(item, fields, old, new) =>
              old[c.field] # new[c.field] /\ c = Line(item, c.field, old[c.field], new[c.field])
         /\ \A f \in fields : old[f] # new[f] =>
              Line(item, f, old[f], new[f]) \in Texts(item, fields, old, new)
BY DEF Texts, Line

LEMMA LinesOfMembers ==
  ASSUME NEW item, NEW field, NEW old, NEW new, NEW c
  PROVE  c \in Members(item, field, old, new) => c.item = item /\ c.field = field
BY DEF Members, Line

(* A text has a line if it changed, and the line says what it became.        *)
LEMMA TextTold ==
  ASSUME NEW item, NEW field, NEW old, NEW new,
         About(item, field) =
           IF old[field] # new[field]
             THEN {Line(item, field, old[field], new[field])} ELSE {}
  PROVE  /\ Cardinality(About(item, field)) <= 1
         /\ ReadText(item, field, old[field]) = new[field]
<1>1. CASE old[field] = new[field]
  <2>1. About(item, field) = {}
    BY <1>1
  <2> QED
    BY <1>1, <2>1, FS_EmptySet DEF ReadText
<1>2. CASE old[field] # new[field]
  <2>1. PICK line : line = Line(item, field, old[field], new[field])
    OBVIOUS
  <2>2. About(item, field) = {line} /\ line.to = new[field]
    BY <1>2, <2>1 DEF Line
  <2>3. Cardinality(About(item, field)) = 1
    BY <2>2, FS_Singleton
  <2>4. (CHOOSE c \in About(item, field) : TRUE) = line
    BY <2>2
  <2> QED
    BY <2>2, <2>3, <2>4 DEF ReadText
<1> QED
  BY <1>1, <1>2

LEMMA ListTold ==
  ASSUME NEW item, NEW field, NEW was, NEW now, Nothing \notin now,
         About(item, field) = Members(item, field, was, now)
  PROVE  ReadList(item, field, was) = now
<1>1. ASSUME NEW c \in About(item, field)
      PROVE  (c.from \in was \ now /\ c.to = Nothing) \/ (c.from = Nothing /\ c.to \in now \ was)
  BY <1>1 DEF Members, Line
<1>2. ASSUME NEW x \in was \ now PROVE \E c \in About(item, field) : c.from = x
  <2>1. Line(item, field, x, Nothing) \in About(item, field)
    BY <1>2 DEF Members
  <2>2. Line(item, field, x, Nothing).from = x
    BY DEF Line
  <2> QED
    BY <2>1, <2>2
<1>3. ASSUME NEW x \in now \ was PROVE \E c \in About(item, field) : c.to = x
  <2>1. Line(item, field, Nothing, x) \in About(item, field)
    BY <1>3 DEF Members
  <2>2. Line(item, field, Nothing, x).to = x
    BY DEF Line
  <2> QED
    BY <2>1, <2>2
<1> QED
  BY <1>1, <1>2, <1>3 DEF ReadList
(* The comparison of one thing with what it became, its texts and its lists. *)
Compared(item, texts, lists, old, new) ==
  Texts(item, texts, old, new) \cup UNION {Members(item, l, old[l], new[l]) : l \in lists}

ItemLines(item) == {c \in told : c.item = item}

LEMMA ItemTold ==
  ASSUME NEW item, NEW texts, NEW lists, NEW old, NEW new, texts \cap lists = {},
         \A l \in lists : Nothing \notin new[l],
         ItemLines(item) = Compared(item, texts, lists, old, new)
  PROVE  /\ TellsTexts(item, texts, old, new)
         /\ \A l \in lists : TellsList(item, l, old, new)
<1>1. \A f : About(item, f) = {c \in Compared(item, texts, lists, old, new) : c.field = f}
  BY DEF About, ItemLines
<1>2. ASSUME NEW f \in texts
      PROVE  Cardinality(About(item, f)) <= 1 /\ ReadText(item, f, old[f]) = new[f]
  <2>1. ASSUME NEW c \in About(item, f)
        PROVE  old[f] # new[f] /\ c = Line(item, f, old[f], new[f])
    <3>1. c.field = f /\ c \in Compared(item, texts, lists, old, new)
      BY <1>1
    <3>2. \A l \in lists : c \notin Members(item, l, old[l], new[l])
      BY <3>1, LinesOfMembers
    <3>3. c \in Texts(item, texts, old, new)
      BY <3>1, <3>2 DEF Compared
    <3> QED
      BY <3>1, <3>3, LinesOfTexts
  <2>2. old[f] # new[f] => Line(item, f, old[f], new[f]) \in About(item, f)
    <3>1. old[f] # new[f] => Line(item, f, old[f], new[f]) \in Texts(item, texts, old, new)
      BY LinesOfTexts
    <3>2. Line(item, f, old[f], new[f]).field = f
      BY DEF Line
    <3> QED
      BY <1>1, <3>1, <3>2 DEF Compared
  <2>3. About(item, f) = IF old[f] # new[f] THEN {Line(item, f, old[f], new[f])} ELSE {}
    BY <2>1, <2>2
  <2> QED
    BY <2>3, TextTold
<1>3. ASSUME NEW l \in lists
      PROVE  ReadList(item, l, old[l]) = new[l]
  <2>1. ASSUME NEW c \in About(item, l) PROVE c \in Members(item, l, old[l], new[l])
    <3>1. c.field = l /\ c \in Compared(item, texts, lists, old, new)
      BY <1>1
    <3>2. c \notin Texts(item, texts, old, new)
      BY <3>1, LinesOfTexts
    <3>3. PICK m \in lists : c \in Members(item, m, old[m], new[m])
      BY <3>1, <3>2 DEF Compared
    <3>4. c.field = m
      BY <3>3, LinesOfMembers
    <3> QED
      BY <3>1, <3>3, <3>4
  <2>2. ASSUME NEW c \in Members(item, l, old[l], new[l]) PROVE c \in About(item, l)
    <3>1. c \in Compared(item, texts, lists, old, new)
      BY DEF Compared
    <3> QED
      BY <1>1, <3>1, LinesOfMembers
  <2>3. About(item, l) = Members(item, l, old[l], new[l])
    BY <2>1, <2>2
  <2> QED
    BY <2>3, ListTold
<1> QED
  BY <1>2, <1>3 DEF TellsTexts, TellsList

(* Every line of a comparison is about its item.                             *)
LEMMA ComparedIsOfItem ==
  ASSUME NEW item, NEW texts, NEW lists, NEW old, NEW new,
         NEW c \in Compared(item, texts, lists, old, new)
  PROVE  c.item = item
BY LinesOfTexts, LinesOfMembers DEF Compared

(* The last update: two documents of a kind and what was told of them.       *)
DiffInv ==
  /\ prev \in Docs /\ doc \in Docs /\ prev.kind = doc.kind
  /\ ~Panics(prev, doc)
  /\ told = FindChanges(prev, doc)
LEMMA OneList ==
  ASSUME NEW item, NEW texts, NEW l, NEW old, NEW new
  PROVE  Compared(item, texts, {l}, old, new) =
           Texts(item, texts, old, new) \cup Members(item, l, old[l], new[l])
BY DEF Compared

LEMMA TwoLists ==
  ASSUME NEW item, NEW texts, NEW k, NEW l, NEW old, NEW new
  PROVE  Compared(item, texts, {k, l}, old, new) =
           Texts(item, texts, old, new) \cup Members(item, k, old[k], new[k])
             \cup Members(item, l, old[l], new[l])
BY DEF Compared

LEMMA NoList ==
  ASSUME NEW item, NEW texts, NEW old, NEW new
  PROVE  Compared(item, texts, {}, old, new) = Texts(item, texts, old, new)
BY DEF Compared

(* Of a device or a configuration, what is told of the document itself is    *)
(* what is told apart from its parts.                                        *)
LEMMA DocLines ==
  ASSUME NEW texts, NEW lists, NEW parts, \A c \in parts : c.item # Doc,
         told = Compared(Doc, texts, lists, prev, doc) \cup parts
  PROVE  ItemLines(Doc) = Compared(Doc, texts, lists, prev, doc)
BY ComparedIsOfItem DEF ItemLines

LEMMA PortLine ==
  ASSUME NEW old, NEW new, NEW c \in PortChanges(old, new)
  PROVE  \E p \in old.Ports, q \in new.Ports :
           /\ p.ID = q.ID
           /\ c \in Texts(<<"port", p.ID>>, {"FriendlyName", "SourceDevice", "DestinationDevice"}, p, q)
BY DEF PortChanges

(* The fields of a document by its kind.                                     *)
LEMMA DocFields ==
  ASSUME NEW d \in Docs
  PROVE  /\ d.kind = "Building" => DOMAIN d = {"kind", "ID", "Name", "Description", "Tags"}
         /\ d.kind = "Room" =>
              DOMAIN d = {"kind", "ID", "Name", "Description", "Configuration", "Designation",
                          "Tags"}
         /\ d.kind = "Device" =>
              DOMAIN d = {"kind", "ID", "Name", "Description", "Address", "DisplayName", "Type",
                          "Roles", "Ports", "Tags"}
         /\ d.kind = "UIConfig" =>
              DOMAIN d = {"kind", "ID", "Api", "Panels", "Presets", "InputConfiguration",
                          "OutputConfiguration", "AudioConfiguration"}
         /\ \A f \in {"Tags", "Roles", "Api"} \cap DOMAIN d : Nothing \notin d[f]
         /\ d.kind \in {"Building", "Room", "Device", "UIConfig"}
<1>1. /\ Fields["Building"] = {"ID", "Name", "Description", "Tags"}
      /\ Fields["Room"] = {"ID", "Name", "Description", "Configuration", "Designation", "Tags"}
      /\ Fields["Device"] = {"ID", "Name", "Description", "Address", "DisplayName", "Type",
                             "Roles", "Ports", "Tags"}
      /\ Fields["UIConfig"] = {"ID", "Api", "Panels", "Presets", "InputConfiguration",
                               "OutputConfiguration", "AudioConfiguration"}
      /\ DOMAIN Fields = {"Building", "Room", "Device", "UIConfig"}
  BY DEF Fields
<1>2. /\ d.kind \in DOMAIN Fields /\ DOMAIN d = {"kind"} \cup Fields[d.kind]
      /\ \A f \in {"Tags", "Roles", "Api"} \cap DOMAIN d : Nothing \notin d[f]
  BY DocsAssumption
<1>3. \A k, S : d.kind = k /\ Fields[k] = S => DOMAIN d = {"kind"} \cup S
  BY <1>2
<1>4. d.kind = "Building" => DOMAIN d = {"kind"} \cup {"ID", "Name", "Description", "Tags"}
  BY <1>1, <1>3
<1>5. d.kind = "Room" =>
        DOMAIN d = {"kind"} \cup
          {"ID", "Name", "Description", "Configuration", "Designation", "Tags"}
  BY <1>1, <1>3
<1>6. d.kind = "Device" =>
        DOMAIN d = {"kind"} \cup {"ID", "Name", "Description", "Address", "DisplayName", "Type",
                                  "Roles", "Ports", "Tags"}
  BY <1>1, <1>3
<1>7. d.kind = "UIConfig" =>
        DOMAIN d = {"kind"} \cup {"ID", "Api", "Panels", "Presets", "InputConfiguration",
                                  "OutputConfiguration", "AudioConfiguration"}
  BY <1>1, <1>3
<1> QED
  BY <1>1, <1>2, <1>4, <1>5, <1>6, <1>7

(* The attributes that are compared as a whole.                              *)
PlainFields(d) == DOMAIN d \ ({"kind"} \cup Lists \cup Parts \cup NotCompared)

LEMMA BuildingTold ==
  ASSUME DiffInv, doc.kind = "Building"
  PROVE  FieldsTold
<1> DEFINE texts == {"ID", "Name", "Description"}
<1>1. doc \in Docs /\ prev.kind = "Building" /\ told = FindChanges(prev, doc)
  BY DEF DiffInv
<1>2. told = findBuildingChanges(prev, doc)
  BY <1>1 DEF FindChanges
<1>3. told = Compared(Doc, texts, {"Tags"}, prev, doc)
  BY <1>2, OneList DEF findBuildingChanges
<1>4. ItemLines(Doc) = Compared(Doc, texts, {"Tags"}, prev, doc)
  BY <1>3, ComparedIsOfItem DEF ItemLines
<1>5. DOMAIN doc = {"kind", "ID", "Name", "Description", "Tags"} /\ Nothing \notin doc["Tags"]
  BY <1>1, DocFields DEF DiffInv
<1>6. PlainFields(doc) = texts /\ Lists \cap DOMAIN doc = {"Tags"}
  BY <1>5 DEF PlainFields, Lists, Parts, NotCompared
<1>7. texts \cap {"Tags"} = {} /\ \A l \in {"Tags"} : Nothing \notin doc[l]
  BY <1>5
<1> HIDE DEF texts
<1>8. TellsTexts(Doc, texts, prev, doc) /\ TellsList(Doc, "Tags", prev, doc)
  BY <1>4, <1>7, ItemTold
<1> QED
  BY <1>6, <1>8 DEF FieldsTold, PlainFields

LEMMA RoomTold ==
  ASSUME DiffInv, doc.kind = "Room"
  PROVE  FieldsTold
<1> DEFINE texts == {"ID", "Name", "Description", "Configuration", "Designation"}
<1>1. doc \in Docs /\ prev.kind = "Room" /\ told = FindChanges(prev, doc)
  BY DEF DiffInv
<1>2. told = findRoomChanges(prev, doc)
  BY <1>1 DEF FindChanges
<1>3. told = Compared(Doc, texts, {"Tags"}, prev, doc)
  BY <1>2, OneList DEF findRoomChanges
<1>4. ItemLines(Doc) = Compared(Doc, texts, {"Tags"}, prev, doc)
  BY <1>3, ComparedIsOfItem DEF ItemLines
<1>5. DOMAIN doc = {"kind", "ID", "Name", "Description", "Configuration", "Designation", "Tags"}
      /\ Nothing \notin doc["Tags"]
  BY <1>1, DocFields DEF DiffInv
<1>6. PlainFields(doc) = texts /\ Lists \cap DOMAIN doc = {"Tags"}
  BY <1>5 DEF PlainFields, Lists, Parts, NotCompared
<1>7. texts \cap {"Tags"} = {} /\ \A l \in {"Tags"} : Nothing \notin doc[l]
  BY <1>5
<1> HIDE DEF texts
<1>8. TellsTexts(Doc, texts, prev, doc) /\ TellsList(Doc, "Tags", prev, doc)
  BY <1>4, <1>7, ItemTold
<1> QED
  BY <1>6, <1>8 DEF FieldsTold, PlainFields

LEMMA DeviceChangesAre ==
  ASSUME NEW old, NEW new
  PROVE  findDeviceChanges(old, new) =
           Compared(Doc, {"ID", "Name", "Description", "Address", "DisplayName", "Type"},
                    {"Roles", "Tags"}, old, new) \cup PortChanges(old, new)
<1> DEFINE texts == {"ID", "Name", "Description", "Address", "DisplayName", "Type"}
<1>1. findDeviceChanges(old, new) =
        Texts(Doc, texts, old, new) \cup Members(Doc, "Roles", old.Roles, new.Roles)
          \cup PortChanges(old, new) \cup Members(Doc, "Tags", old.Tags, new.Tags)
  BY DEF findDeviceChanges
<1> HIDE DEF texts
<1>2. \A k, l : Compared(Doc, texts, {k, l}, old, new) =
        Texts(Doc, texts, old, new) \cup Members(Doc, k, old[k], new[k])
          \cup Members(Doc, l, old[l], new[l])
  BY TwoLists
<1>3. PICK k, l : k = "Roles" /\ l = "Tags"
  OBVIOUS
<1>4. findDeviceChanges(old, new) = Compared(Doc, texts, {k, l}, old, new) \cup PortChanges(old, new)
  BY <1>1, <1>2, <1>3
<1> QED
  BY <1>3, <1>4 DEF texts

LEMMA DeviceTold ==
  ASSUME DiffInv, doc.kind = "Device"
  PROVE  FieldsTold
<1> DEFINE texts == {"ID", "Name", "Description", "Address", "DisplayName", "Type"}
           ports == {"FriendlyName", "SourceDevice", "DestinationDevice"}
           Port(p) == <<"port", p.ID>>
<1>1. /\ doc \in Docs /\ prev \in Docs /\ prev.kind = "Device"
      /\ told = FindChanges(prev, doc)
  BY DEF DiffInv
<1>2. told = findDeviceChanges(prev, doc)
  BY <1>1 DEF FindChanges
<1>3. told = Compared(Doc, texts, {"Roles", "Tags"}, prev, doc) \cup PortChanges(prev, doc)
  BY <1>2, DeviceChangesAre
<1>4. ASSUME NEW c \in PortChanges(prev, doc) PROVE c.item # Doc
  <2>1. PICK p \in prev.Ports, q \in doc.Ports : c \in Texts(Port(p), ports, p, q)
    BY PortLine
  <2>2. c.item = Port(p)
    BY <2>1, LinesOfTexts
  <2> QED
    BY <2>2 DEF Doc
<1>5. ItemLines(Doc) = Compared(Doc, texts, {"Roles", "Tags"}, prev, doc)
  BY <1>3, <1>4, DocLines
<1>6. /\ DOMAIN doc = {"kind", "ID", "Name", "Description", "Address", "DisplayName", "Type",
                       "Roles", "Ports", "Tags"}
      /\ Nothing \notin doc["Tags"] /\ Nothing \notin doc["Roles"]
  BY <1>1, DocFields DEF DiffInv
<1>7. PlainFields(doc) = texts /\ Lists \cap DOMAIN doc = {"Roles", "Tags"}
  BY <1>6 DEF PlainFields, Lists, Parts, NotCompared
<1>8. texts \cap {"Roles", "Tags"} = {} /\ \A l \in {"Roles", "Tags"} : Nothing \notin doc[l]
  BY <1>6
<1>9. /\ \A q \in doc.Ports : DOMAIN q \ ({"ID"} \cup PortNotCompared) = ports
      /\ \A p, q \in prev.Ports : p.ID = q.ID => p = q
      /\ \A p, q \in doc.Ports : p.ID = q.ID => p = q
  BY <1>1, DocsAssumption DEF PortFields, PortNotCompared
<1>10. ASSUME NEW p \in prev.Ports, NEW q \in doc.Ports, p.ID = q.ID
       PROVE  TellsTexts(Port(p), ports, p, q)
  <2>1. ASSUME NEW c \in told, c.item = Port(p) PROVE c \in Texts(Port(p), ports, p, q)
    <3>1. Port(p) # Doc
      BY DEF Doc
    <3>2. c \in PortChanges(prev, doc)
      BY <1>3, <2>1, <3>1, ComparedIsOfItem
    <3>3. PICK x \in prev.Ports, y \in doc.Ports : x.ID = y.ID /\ c \in Texts(Port(x), ports, x, y)
      BY <3>2, PortLine
    <3>4. c.item = Port(x)
      BY <3>3, LinesOfTexts
    <3>5. x = p /\ y = q
      BY <1>9, <1>10, <2>1, <3>3, <3>4
    <3> QED
      BY <3>3, <3>5
  <2>2. ASSUME NEW c \in Texts(Port(p), ports, p, q) PROVE c \in told /\ c.item = Port(p)
    <3>1. c \in PortChanges(prev, doc)
      <4>1. PICK pair : pair = <<p, q>>
        OBVIOUS
      <4>2. pair \in {x \in prev.Ports \X doc.Ports : x[1].ID = x[2].ID}
        BY <1>10, <4>1
      <4>3. c \in Texts(<<"port", pair[1].ID>>, ports, pair[1], pair[2])
        BY <4>1
      <4> QED
        BY <4>2, <4>3 DEF PortChanges
    <3> QED
      BY <1>3, <3>1, LinesOfTexts
  <2>3. ItemLines(Port(p)) = Texts(Port(p), ports, p, q)
    BY <2>1, <2>2 DEF ItemLines
  <2>4. ItemLines(Port(p)) = Compared(Port(p), ports, {}, p, q)
    BY <2>3, NoList
  <2> HIDE DEF Port, ports
  <2> QED
    BY <2>4, ItemTold
<1> HIDE DEF texts, ports
<1>11. /\ TellsTexts(Doc, texts, prev, doc)
       /\ TellsList(Doc, "Roles", prev, doc) /\ TellsList(Doc, "Tags", prev, doc)
  BY <1>5, <1>8, ItemTold
<1>12. doc.kind = "Device" =>
         \A p \in prev.Ports, q \in doc.Ports : p.ID = q.ID =>
           TellsTexts(<<"port", p.ID>>, DOMAIN q \ ({"ID"} \cup PortNotCompared), p, q)
  BY <1>9, <1>10
<1>13. TellsTexts(Doc, DOMAIN doc \ ({"kind"} \cup Lists \cup Parts \cup NotCompared), prev, doc)
  BY <1>7, <1>11 DEF PlainFields
<1> QED
  BY <1>7, <1>11, <1>12, <1>13 DEF FieldsTold
(* The lines about the parts of a configuration are about what they name.    *)
LEMMA PanelLine ==
  ASSUME NEW old, NEW new, NEW c
  PROVE  c \in PanelChanges(old, new) <=>
           \E i \in DOMAIN old :
             c \in Compared(<<"panel", old[i].Hostname>>, {"Hostname", "Preset", "UIPath"},
                            {"Features"}, old[i], new[i])
<1> DEFINE Of(i) == Compared(<<"panel", old[i].Hostname>>, {"Hostname", "Preset", "UIPath"},
                             {"Features"}, old[i], new[i])
<1> DEFINE Raw(i) ==
             Texts(<<"panel", old[i].Hostname>>, {"Hostname", "Preset", "UIPath"}, old[i], new[i])
               \cup Members(<<"panel", old[i].Hostname>>, "Features",
                            old[i].Features, new[i].Features)
<1>2. PanelChanges(old, new) = UNION {Raw(i) : i \in DOMAIN old}
  BY Zenon DEF PanelChanges
<1>4. \A i \in DOMAIN old : Of(i) = Raw(i)
  <2> TAKE i \in DOMAIN old
  <2>1. PICK was, now, panel : was = old[i] /\ now = new[i] /\ panel = <<"panel", was.Hostname>>
    OBVIOUS
  <2>2. Compared(panel, {"Hostname", "Preset", "UIPath"}, {"Features"}, was, now) =
          Texts(panel, {"Hostname", "Preset", "UIPath"}, was, now)
            \cup Members(panel, "Features", was["Features"], now["Features"])
    BY OneList
  <2> QED
    BY <2>1, <2>2
<1> HIDE DEF Raw
<1> HIDE DEF Of
<1>3. c \in PanelChanges(old, new) <=> \E i \in DOMAIN old : c \in Of(i)
  BY <1>2, <1>4
<1> QED
  BY <1>3 DEF Of

PresetOf(old, new, i) ==
  Compared(<<"preset", old[i].Name>>, {"Icon"}, PresetLists,
           old[i], FirstNamed(new, old[i].Name))

LEMMA PresetLine ==
  ASSUME NEW old, NEW new, NEW c
  PROVE  c \in PresetChanges(old, new) <=>
           \E i \in DOMAIN old :
             IF Named(new, old[i].Name)
               THEN c \in PresetOf(old, new, i)
               ELSE c = Line(<<"preset", old[i].Name>>, "Name", old[i].Name, Nothing)
BY DEF PresetChanges, PresetOf, Compared

IOName(side, list, i) == <<side, list[i].Name>>

LEMMA IOLine ==
  ASSUME NEW side, NEW old, NEW new, NEW c
  PROVE  c \in IOChanges(side, old, new) <=>
           \/ \E i \in DOMAIN old :
                IF Named(new, old[i].Name)
                  THEN c \in Compared(IOName(side, old, i), {"Icon"}, {},
                                      old[i], FirstNamed(new, old[i].Name))
                  ELSE c = Line(IOName(side, old, i), "Name", old[i].Name, Nothing)
           \/ \E j \in DOMAIN new :
                ~Named(old, new[j].Name)
                  /\ c = Line(IOName(side, new, j), "Name", Nothing, new[j].Name)
<1>1. c \in IOChanges(side, old, new) <=>
        \/ \E i \in DOMAIN old :
             IF Named(new, old[i].Name)
               THEN c \in Texts(<<side, old[i].Name>>, {"Icon"}, old[i], FirstNamed(new, old[i].Name))
               ELSE c = Line(<<side, old[i].Name>>, "Name", old[i].Name, Nothing)
        \/ \E j \in DOMAIN new :
             ~Named(old, new[j].Name)
               /\ c = Line(<<side, new[j].Name>>, "Name", Nothing, new[j].Name)
  BY DEF IOChanges
<1>2. \A i \in DOMAIN old :
        Compared(IOName(side, old, i), {"Icon"}, {}, old[i], FirstNamed(new, old[i].Name))
          = Texts(<<side, old[i].Name>>, {"Icon"}, old[i], FirstNamed(new, old[i].Name))
  BY NoList DEF IOName
<1> QED
  BY <1>1, <1>2 DEF IOName

LEMMA PartItems ==
  ASSUME NEW old, NEW new, NEW c
  PROVE  /\ c \in PanelChanges(old, new) => c.item[1] = "panel"
         /\ c \in PresetChanges(old, new) => c.item[1] = "preset"
         /\ \A side : c \in IOChanges(side, old, new) => c.item[1] = side
<1>1. ASSUME c \in PanelChanges(old, new) PROVE c.item[1] = "panel"
  <2>1. PICK i \in DOMAIN old :
           c \in Compared(<<"panel", old[i].Hostname>>, {"Hostname", "Preset", "UIPath"},
                          {"Features"}, old[i], new[i])
    BY <1>1, PanelLine
  <2>2. c.item = <<"panel", old[i].Hostname>>
    BY <2>1, ComparedIsOfItem
  <2> QED
    BY <2>2
<1>2. ASSUME c \in PresetChanges(old, new) PROVE c.item[1] = "preset"
  <2>1. PICK i \in DOMAIN old :
           c \in PresetOf(old, new, i)
             \/ c = Line(<<"preset", old[i].Name>>, "Name", old[i].Name, Nothing)
    BY <1>2, PresetLine
  <2>2. c \in PresetOf(old, new, i) => c.item = <<"preset", old[i].Name>>
    BY ComparedIsOfItem DEF PresetOf
  <2>3. c.item = <<"preset", old[i].Name>>
    BY <2>1, <2>2 DEF Line
  <2> QED
    BY <2>3
<1>3. ASSUME NEW side, c \in IOChanges(side, old, new) PROVE c.item[1] = side
  <2>1. CASE \E i \in DOMAIN old :
               \/ c \in Compared(IOName(side, old, i), {"Icon"}, {},
                                 old[i], FirstNamed(new, old[i].Name))
               \/ c = Line(IOName(side, old, i), "Name", old[i].Name, Nothing)
    <3>1. PICK i \in DOMAIN old :
             \/ c \in Compared(IOName(side, old, i), {"Icon"}, {},
                               old[i], FirstNamed(new, old[i].Name))
             \/ c = Line(IOName(side, old, i), "Name", old[i].Name, Nothing)
      BY <2>1
    <3>2. c \in Compared(IOName(side, old, i), {"Icon"}, {},
                         old[i], FirstNamed(new, old[i].Name))
            => c.item = IOName(side, old, i)
      BY ComparedIsOfItem
    <3>3. c.item = IOName(side, old, i)
      BY <3>1, <3>2 DEF Line
    <3> QED
      BY <3>3 DEF IOName
  <2>2. CASE \E j \in DOMAIN new : c = Line(IOName(side, new, j), "Name", Nothing, new[j].Name)
    BY <2>2 DEF Line, IOName
  <2> QED
    BY <1>3, <2>1, <2>2, IOLine
<1> QED
  BY <1>1, <1>2, <1>3

(* What is told of a part of a configuration is found by its own comparison. *)
LEMMA ConfigLines ==
  ASSUME DiffInv, doc.kind = "UIConfig"
  PROVE  /\ ItemLines(Doc) = Compared(Doc, {"ID"}, {"Api"}, prev, doc)
         /\ \A x : ItemLines(<<"panel", x>>) =
              {c \in PanelChanges(prev.Panels, doc.Panels) : c.item = <<"panel", x>>}
         /\ \A x : ItemLines(<<"preset", x>>) =
              {c \in PresetChanges(prev.Presets, doc.Presets) : c.item = <<"preset", x>>}
         /\ \A x : ItemLines(<<"input", x>>) =
              {c \in IOChanges("input", prev.InputConfiguration, doc.InputConfiguration) :
                 c.item = <<"input", x>>}
         /\ \A x : ItemLines(<<"output", x>>) =
              {c \in IOChanges("output", prev.OutputConfiguration, doc.OutputConfiguration) :
                 c.item = <<"output", x>>}
<1> DEFINE own  == Compared(Doc, {"ID"}, {"Api"}, prev, doc)
           pans == PanelChanges(prev.Panels, doc.Panels)
           pres == PresetChanges(prev.Presets, doc.Presets)
           ins  == IOChanges("input", prev.InputConfiguration, doc.InputConfiguration)
           outs == IOChanges("output", prev.OutputConfiguration, doc.OutputConfiguration)
<1>1. prev.kind = "UIConfig" /\ told = FindChanges(prev, doc)
  BY DEF DiffInv
<1>2. told = findUIConfigChanges(prev, doc)
  BY <1>1 DEF FindChanges
<1>3. told = own \cup pans \cup pres \cup ins \cup outs
  BY <1>2, OneList DEF findUIConfigChanges
<1>4. /\ \A c \in own : c.item = Doc
      /\ \A c \in pans : c.item[1] = "panel"
      /\ \A c \in pres : c.item[1] = "preset"
      /\ \A c \in ins : c.item[1] = "input"
      /\ \A c \in outs : c.item[1] = "output"
  <2>1. \A c \in own : c.item = Doc
    BY ComparedIsOfItem
  <2>2. \A c \in pans : c.item[1] = "panel"
    BY PartItems
  <2>3. \A c \in pres : c.item[1] = "preset"
    BY PartItems
  <2>4. \A c \in ins : c.item[1] = "input"
    BY PartItems
  <2>5. \A c \in outs : c.item[1] = "output"
    BY PartItems
  <2> QED
    BY <2>1, <2>2, <2>3, <2>4, <2>5
<1>5. Doc[1] = "document"
  BY DEF Doc
<1> HIDE DEF own, pans, pres, ins, outs
<1>6. ItemLines(Doc) = own
  <2>1. \A c \in pans \cup pres \cup ins \cup outs : c.item # Doc
    BY <1>4, <1>5
  <2> QED
    BY <1>3, <1>4, <2>1 DEF ItemLines
<1>7. \A c \in own : c.item[1] = "document"
  BY <1>4, <1>5
<1>8. ASSUME NEW x PROVE ItemLines(<<"panel", x>>) = {c \in pans : c.item = <<"panel", x>>}
  BY <1>3, <1>4, <1>7 DEF ItemLines
<1>9. ASSUME NEW x PROVE ItemLines(<<"preset", x>>) = {c \in pres : c.item = <<"preset", x>>}
  BY <1>3, <1>4, <1>7 DEF ItemLines
<1>10. ASSUME NEW x PROVE ItemLines(<<"input", x>>) = {c \in ins : c.item = <<"input", x>>}
  BY <1>3, <1>4, <1>7 DEF ItemLines
<1>11. ASSUME NEW x PROVE ItemLines(<<"output", x>>) = {c \in outs : c.item = <<"output", x>>}
  BY <1>3, <1>4, <1>7 DEF ItemLines
<1> QED
  BY <1>6, <1>8, <1>9, <1>10, <1>11 DEF own, pans, pres, ins, outs
LEMMA FirstNamedIs ==
  ASSUME NEW list, Keyed(list, "Name"), NEW i \in DOMAIN list
  PROVE  FirstNamed(list, list[i].Name) = list[i] /\ Named(list, list[i].Name)
<1>1. \A j \in DOMAIN list : list[j].Name = list[i].Name => i <= j
  <2>1. i \in Nat
    BY DEF Keyed
  <2> QED
    BY <2>1 DEF Keyed
<1>2. \A k \in DOMAIN list : list[k].Name = list[i].Name => k = i
  BY DEF Keyed
<1>3. (CHOOSE k \in DOMAIN list :
         /\ list[k].Name = list[i].Name
         /\ \A j \in DOMAIN list : list[j].Name = list[i].Name => k <= j) = i
  BY <1>1, <1>2
<1> QED
  BY <1>3 DEF FirstNamed, Named

Names(list) == {list[i].Name : i \in DOMAIN list}

(* The inputs, or the outputs: which there are and the icons of those that   *)
(* stay.                                                                     *)
LEMMA SideTold ==
  ASSUME NEW side, NEW was, NEW now, Keyed(was, "Name"), Keyed(now, "Name"), NEW n,
         ItemLines(<<side, n>>) = {c \in IOChanges(side, was, now) : c.item = <<side, n>>},
         n \in Names(was) \cup Names(now)
  PROVE  /\ ReadList(<<side, n>>, "Name", Names(was) \cap {n}) = Names(now) \cap {n}
         /\ n \in Names(was) \cap Names(now) =>
              TellsTexts(<<side, n>>, {"Icon"}, FirstNamed(was, n), FirstNamed(now, n))
<1>0. PICK io : io = <<side, n>>
  OBVIOUS
<1>1. /\ Named(was, n) <=> n \in Names(was)
      /\ Named(now, n) <=> n \in Names(now)
      /\ n # Nothing
  BY DEF Named, Names, Keyed
<1>2. /\ \A i \in DOMAIN was : IOName(side, was, i) = io <=> was[i].Name = n
      /\ \A j \in DOMAIN now : IOName(side, now, j) = io <=> now[j].Name = n
  BY <1>0 DEF IOName
<1>3. About(io, "Name") = {c \in ItemLines(io) : c.field = "Name"}
  BY DEF About, ItemLines
<1>4. ASSUME NEW c \in ItemLines(io)
      PROVE  \/ \E i \in DOMAIN was :
                  /\ was[i].Name = n
                  /\ IF Named(now, n)
                       THEN c \in Compared(io, {"Icon"}, {}, was[i], FirstNamed(now, n))
                       ELSE c = Line(io, "Name", n, Nothing)
             \/ n \notin Names(was) /\ n \in Names(now) /\ c = Line(io, "Name", Nothing, n)
  <2>1. c \in IOChanges(side, was, now) /\ c.item = io
    BY <1>0
  <2>2. CASE \E i \in DOMAIN was :
                IF Named(now, was[i].Name)
                  THEN c \in Compared(IOName(side, was, i), {"Icon"}, {},
                                      was[i], FirstNamed(now, was[i].Name))
                  ELSE c = Line(IOName(side, was, i), "Name", was[i].Name, Nothing)
    <3>1. PICK i \in DOMAIN was :
                IF Named(now, was[i].Name)
                  THEN c \in Compared(IOName(side, was, i), {"Icon"}, {},
                                      was[i], FirstNamed(now, was[i].Name))
                  ELSE c = Line(IOName(side, was, i), "Name", was[i].Name, Nothing)
      BY <2>2
    <3>2. c.item = IOName(side, was, i)
      <4>1. CASE Named(now, was[i].Name)
        BY <3>1, <4>1, ComparedIsOfItem
      <4>2. CASE ~Named(now, was[i].Name)
        BY <3>1, <4>2 DEF Line
      <4> QED
        BY <4>1, <4>2
    <3>3. was[i].Name = n /\ IOName(side, was, i) = io
      BY <1>2, <2>1, <3>2
    <3> QED
      BY <3>1, <3>3
  <2>3. CASE \E j \in DOMAIN now :
                ~Named(was, now[j].Name)
                  /\ c = Line(IOName(side, now, j), "Name", Nothing, now[j].Name)
    <3>1. PICK j \in DOMAIN now :
                ~Named(was, now[j].Name)
                  /\ c = Line(IOName(side, now, j), "Name", Nothing, now[j].Name)
      BY <2>3
    <3>2. c.item = IOName(side, now, j)
      BY <3>1 DEF Line
    <3>3. now[j].Name = n /\ IOName(side, now, j) = io
      BY <1>2, <2>1, <3>2
    <3> QED
      BY <1>1, <3>1, <3>3 DEF Names
  <2> QED
    BY <2>1, <2>2, <2>3, IOLine
<1>5. CASE n \in Names(was) /\ n \in Names(now)
  <2>1. PICK i \in DOMAIN was : was[i].Name = n
    BY <1>5 DEF Names
  <2>2. FirstNamed(was, n) = was[i] /\ \A k \in DOMAIN was : was[k].Name = n => k = i
    BY <2>1, FirstNamedIs DEF Keyed
  <2>3. ASSUME NEW c \in ItemLines(io)
        PROVE  c \in Compared(io, {"Icon"}, {}, was[i], FirstNamed(now, n))
    BY <1>1, <1>4, <1>5, <2>2
  <2>4. ASSUME NEW c \in Compared(io, {"Icon"}, {}, was[i], FirstNamed(now, n))
        PROVE  c \in ItemLines(io)
    <3>1. c.item = io
      BY ComparedIsOfItem
    <3>2. c \in IOChanges(side, was, now)
      BY <1>1, <1>2, <1>5, <2>1, IOLine
    <3> QED
      BY <1>0, <3>1, <3>2
  <2>5. ItemLines(io) = Compared(io, {"Icon"}, {}, was[i], FirstNamed(now, n))
    BY <2>3, <2>4
  <2>6. TellsTexts(io, {"Icon"}, was[i], FirstNamed(now, n))
    BY <2>5, ItemTold
  <2>7. ASSUME NEW c \in ItemLines(io) PROVE c.field # "Name"
    <3>1. c \in Texts(io, {"Icon"}, was[i], FirstNamed(now, n))
      BY <2>5, NoList
    <3> QED
      BY <3>1, LinesOfTexts
  <2>8. About(io, "Name") = {}
    BY <1>3, <2>7
  <2> QED
    BY <1>0, <1>5, <2>2, <2>6, <2>8 DEF ReadList
<1>6. CASE n \in Names(was) /\ n \notin Names(now)
  <2>1. PICK i \in DOMAIN was : was[i].Name = n
    BY <1>6 DEF Names
  <2>2. PICK line : line = Line(io, "Name", n, Nothing)
    OBVIOUS
  <2>3. line \in ItemLines(io)
    <3>1. line \in IOChanges(side, was, now)
      BY <1>1, <1>2, <1>6, <2>1, <2>2, IOLine
    <3> QED
      BY <1>0, <2>2, <3>1 DEF Line
  <2>4. \A c \in ItemLines(io) : c = line
    BY <1>1, <1>4, <1>6, <2>2
  <2>5. About(io, "Name") = {line} /\ line.from = n /\ line.to = Nothing
    BY <1>3, <2>2, <2>3, <2>4 DEF Line
  <2> QED
    BY <1>0, <1>6, <2>5 DEF ReadList
<1>7. CASE n \notin Names(was) /\ n \in Names(now)
  <2>1. PICK j \in DOMAIN now : now[j].Name = n
    BY <1>7 DEF Names
  <2>2. PICK line : line = Line(io, "Name", Nothing, n)
    OBVIOUS
  <2>3. line \in ItemLines(io)
    <3>1. line \in IOChanges(side, was, now)
      BY <1>1, <1>2, <1>7, <2>1, <2>2, IOLine
    <3> QED
      BY <1>0, <2>2, <3>1 DEF Line
  <2>4. \A c \in ItemLines(io) : c = line
    BY <1>4, <1>7, <2>2 DEF Names
  <2>5. About(io, "Name") = {line} /\ line.from = Nothing /\ line.to = n
    BY <1>3, <2>2, <2>3, <2>4 DEF Line
  <2> QED
    BY <1>0, <1>1, <1>7, <2>5 DEF ReadList
<1> QED
  BY <1>5, <1>6, <1>7
(* The document a configuration is, and what it became.                      *)
LEMMA ConfigParts ==
  ASSUME NEW d \in Docs, d.kind = "UIConfig"
  PROVE  /\ Keyed(d.Panels, "Hostname") /\ Keyed(d.Presets, "Name")
         /\ Keyed(d.InputConfiguration, "Name") /\ Keyed(d.OutputConfiguration, "Name")
         /\ \A i \in DOMAIN d.Panels : Nothing \notin d.Panels[i].Features
         /\ \A i \in DOMAIN d.Presets, l \in PresetLists : Nothing \notin d.Presets[i][l]
BY DocsAssumption

LEMMA ConfigShape ==
  ASSUME DiffInv, doc.kind = "UIConfig", NEW d \in {prev, doc}
  PROVE  /\ Keyed(d.Panels, "Hostname") /\ Keyed(d.Presets, "Name")
         /\ Keyed(d.InputConfiguration, "Name") /\ Keyed(d.OutputConfiguration, "Name")
         /\ \A i \in DOMAIN d.Panels : Nothing \notin d.Panels[i].Features
         /\ \A i \in DOMAIN d.Presets, l \in PresetLists : Nothing \notin d.Presets[i][l]
<1>1. d \in Docs /\ d.kind = "UIConfig"
  BY DEF DiffInv
<1> QED
  BY <1>1, ConfigParts

LEMMA ConfigPanelsTold ==
  ASSUME DiffInv, doc.kind = "UIConfig"
  PROVE  PanelsTold
<1> SUFFICES ASSUME NEW i \in DOMAIN prev.Panels
             PROVE  LET panel == <<"panel", prev.Panels[i].Hostname>> IN
                    /\ TellsTexts(panel, {"Hostname", "Preset", "UIPath"},
                                  prev.Panels[i], doc.Panels[i])
                    /\ TellsList(panel, "Features", prev.Panels[i], doc.Panels[i])
  BY DEF PanelsTold
<1>1. PICK old, new : old = prev.Panels /\ new = doc.Panels
  OBVIOUS
<1>2. PICK panel : panel = <<"panel", old[i].Hostname>>
  OBVIOUS
<1> DEFINE texts == {"Hostname", "Preset", "UIPath"}
<1>3. i \in DOMAIN old /\ i \in DOMAIN new
  <2>1. Keyed(old, "Hostname")
    BY <1>1, ConfigShape
  <2>2. Keyed(new, "Hostname")
    BY <1>1, ConfigShape
  <2>3. Len(new) >= Len(old)
    <3>1. ~(Len(new) < Len(old))
      BY <1>1 DEF DiffInv, Panics
    <3> QED
      BY <2>1, <2>2, <3>1 DEF Keyed
  <2> QED
    BY <1>1, <2>1, <2>2, <2>3 DEF Keyed
<1>4. \A j \in DOMAIN old : old[j].Hostname = old[i].Hostname => j = i
  <2>1. Keyed(old, "Hostname")
    BY <1>1, ConfigShape
  <2> QED
    BY <1>3, <2>1 DEF Keyed
<1>5. ItemLines(panel) = {c \in PanelChanges(old, new) : c.item = panel}
  BY <1>1, <1>2, ConfigLines
<1>6. ASSUME NEW c \in ItemLines(panel)
      PROVE  c \in Compared(panel, texts, {"Features"}, old[i], new[i])
  <2>1. PICK j \in DOMAIN old :
           c \in Compared(<<"panel", old[j].Hostname>>, texts, {"Features"}, old[j], new[j])
    BY <1>5, PanelLine
  <2>2. c.item = <<"panel", old[j].Hostname>>
    BY <2>1, ComparedIsOfItem
  <2>3. j = i
    BY <1>2, <1>4, <1>5, <2>2
  <2> QED
    BY <1>2, <2>1, <2>3
<1>7. ASSUME NEW c \in Compared(panel, texts, {"Features"}, old[i], new[i])
      PROVE  c \in ItemLines(panel)
  <2>1. c \in PanelChanges(old, new)
    BY <1>2, <1>3, PanelLine
  <2>2. c.item = panel
    BY ComparedIsOfItem
  <2> QED
    BY <1>5, <2>1, <2>2
<1>8. Nothing \notin new[i]["Features"]
  BY <1>1, <1>3, ConfigShape
<1>9. ItemLines(panel) = Compared(panel, texts, {"Features"}, old[i], new[i])
  BY <1>6, <1>7
<1>10. texts \cap {"Features"} = {}
  OBVIOUS
<1> HIDE DEF texts
<1>11. TellsTexts(panel, texts, old[i], new[i]) /\ TellsList(panel, "Features", old[i], new[i])
  BY <1>8, <1>9, <1>10, ItemTold
<1> QED
  BY <1>1, <1>2, <1>11 DEF texts

LEMMA ConfigPresetsTold ==
  ASSUME DiffInv, doc.kind = "UIConfig"
  PROVE  PresetsTold
<1> SUFFICES ASSUME NEW i \in DOMAIN prev.Presets
             PROVE  LET n == prev.Presets[i].Name
                        preset == <<"preset", n>> IN
                    /\ Named(doc.Presets, n) <=> About(preset, "Name") = {}
                    /\ Named(doc.Presets, n) =>
                         /\ TellsTexts(preset, {"Icon"}, prev.Presets[i],
                                       FirstNamed(doc.Presets, n))
                         /\ \A l \in PresetLists :
                              TellsList(preset, l, prev.Presets[i], FirstNamed(doc.Presets, n))
  BY DEF PresetsTold
<1>1. PICK old, new : old = prev.Presets /\ new = doc.Presets
  OBVIOUS
<1>2. PICK n, preset : n = old[i].Name /\ preset = <<"preset", n>>
  OBVIOUS
<1>3. PICK now : now = FirstNamed(new, n)
  OBVIOUS
<1>4. Keyed(old, "Name") /\ Keyed(new, "Name") /\ i \in DOMAIN old
  BY <1>1, ConfigShape
<1>5. \A j \in DOMAIN old : old[j].Name = n => j = i
  BY <1>2, <1>4 DEF Keyed
<1>6. ItemLines(preset) = {c \in PresetChanges(old, new) : c.item = preset}
  BY <1>1, <1>2, ConfigLines
<1>7. ASSUME NEW c \in ItemLines(preset)
      PROVE  IF Named(new, n) THEN c \in Compared(preset, {"Icon"}, PresetLists, old[i], now)
                              ELSE c = Line(preset, "Name", n, Nothing)
  <2>1. PICK j \in DOMAIN old :
             IF Named(new, old[j].Name)
               THEN c \in PresetOf(old, new, j)
               ELSE c = Line(<<"preset", old[j].Name>>, "Name", old[j].Name, Nothing)
    BY <1>6, PresetLine
  <2>2. c.item = <<"preset", old[j].Name>>
    <3>1. c \in PresetOf(old, new, j) => c.item = <<"preset", old[j].Name>>
      BY ComparedIsOfItem DEF PresetOf
    <3> QED
      BY <2>1, <3>1 DEF Line
  <2>3. j = i
    BY <1>2, <1>5, <1>6, <2>2
  <2> QED
    BY <1>2, <1>3, <2>1, <2>3 DEF PresetOf
<1>8. CASE Named(new, n)
  <2>1. ASSUME NEW c \in Compared(preset, {"Icon"}, PresetLists, old[i], now)
        PROVE  c \in ItemLines(preset)
    <3>1. c.item = preset
      BY ComparedIsOfItem
    <3>2. c \in PresetOf(old, new, i)
      BY <1>2, <1>3 DEF PresetOf
    <3>3. c \in PresetChanges(old, new)
      BY <1>2, <1>4, <1>8, <3>2, PresetLine
    <3> QED
      BY <1>6, <3>1, <3>3
  <2>2. ItemLines(preset) = Compared(preset, {"Icon"}, PresetLists, old[i], now)
    BY <1>7, <1>8, <2>1
  <2>3. \A l \in PresetLists : Nothing \notin now[l]
    <3>1. PICK j \in DOMAIN new : new[j].Name = n
      BY <1>8 DEF Named
    <3>2. now = new[j]
      BY <1>3, <1>4, <3>1, FirstNamedIs
    <3> QED
      BY <1>1, <3>2, ConfigShape
  <2>4. {"Icon"} \cap PresetLists = {} /\ "Name" \notin {"Icon"} \cup PresetLists
    BY DEF PresetLists
  <2>5. /\ TellsTexts(preset, {"Icon"}, old[i], now)
        /\ \A l \in PresetLists : TellsList(preset, l, old[i], now)
    BY <2>2, <2>3, <2>4, ItemTold
  <2>6. ASSUME NEW c \in ItemLines(preset) PROVE c.field # "Name"
    <3>1. CASE c \in Texts(preset, {"Icon"}, old[i], now)
      BY <2>4, <3>1, LinesOfTexts
    <3>2. CASE \E l \in PresetLists : c \in Members(preset, l, old[i][l], now[l])
      BY <2>4, <3>2, LinesOfMembers
    <3> QED
      BY <2>2, <3>1, <3>2 DEF Compared
  <2>7. About(preset, "Name") = {}
    BY <2>6 DEF About, ItemLines
  <2> QED
    BY <1>1, <1>2, <1>3, <1>8, <2>5, <2>7
<1>9. CASE ~Named(new, n)
  <2>1. Line(preset, "Name", n, Nothing) \in PresetChanges(old, new)
    BY <1>2, <1>4, <1>9, PresetLine
  <2>2. Line(preset, "Name", n, Nothing) \in About(preset, "Name")
    BY <1>6, <2>1 DEF About, ItemLines, Line
  <2> QED
    BY <1>1, <1>2, <1>9, <2>2
<1> QED
  BY <1>8, <1>9

LEMMA ConfigIOTold ==
  ASSUME DiffInv, doc.kind = "UIConfig"
  PROVE  IOTold
<1>1. ASSUME NEW side, NEW was, NEW now, Keyed(was, "Name"), Keyed(now, "Name"),
             \A n : ItemLines(<<side, n>>) =
                      {c \in IOChanges(side, was, now) : c.item = <<side, n>>}
      PROVE  /\ \A n \in Names(was) \cup Names(now) :
                  ReadList(<<side, n>>, "Name", Names(was) \cap {n}) = Names(now) \cap {n}
             /\ \A n \in Names(was) \cap Names(now) :
                  TellsTexts(<<side, n>>, {"Icon"}, FirstNamed(was, n), FirstNamed(now, n))
  <2>1. ASSUME NEW n \in Names(was) \cup Names(now)
        PROVE  /\ ReadList(<<side, n>>, "Name", Names(was) \cap {n}) = Names(now) \cap {n}
               /\ n \in Names(was) \cap Names(now) =>
                    TellsTexts(<<side, n>>, {"Icon"}, FirstNamed(was, n), FirstNamed(now, n))
    <3>1. ItemLines(<<side, n>>) = {c \in IOChanges(side, was, now) : c.item = <<side, n>>}
      BY <1>1
    <3> QED
      BY <1>1, <3>1, SideTold
  <2> QED
    BY <2>1
<1>2. PICK in, inNow, out, outNow :
         /\ in = prev.InputConfiguration /\ inNow = doc.InputConfiguration
         /\ out = prev.OutputConfiguration /\ outNow = doc.OutputConfiguration
  OBVIOUS
<1>3. Keyed(in, "Name") /\ Keyed(inNow, "Name") /\ Keyed(out, "Name") /\ Keyed(outNow, "Name")
  BY <1>2, ConfigShape
<1>4. /\ \A x : ItemLines(<<"input", x>>) =
           {c \in IOChanges("input", in, inNow) : c.item = <<"input", x>>}
      /\ \A x : ItemLines(<<"output", x>>) =
           {c \in IOChanges("output", out, outNow) : c.item = <<"output", x>>}
  BY <1>2, ConfigLines
<1>5. /\ \A n \in Names(in) \cup Names(inNow) :
           ReadList(<<"input", n>>, "Name", Names(in) \cap {n}) = Names(inNow) \cap {n}
      /\ \A n \in Names(in) \cap Names(inNow) :
           TellsTexts(<<"input", n>>, {"Icon"}, FirstNamed(in, n), FirstNamed(inNow, n))
  BY <1>1, <1>3, <1>4
<1>6. /\ \A n \in Names(out) \cup Names(outNow) :
           ReadList(<<"output", n>>, "Name", Names(out) \cap {n}) = Names(outNow) \cap {n}
      /\ \A n \in Names(out) \cap Names(outNow) :
           TellsTexts(<<"output", n>>, {"Icon"}, FirstNamed(out, n), FirstNamed(outNow, n))
  BY <1>1, <1>3, <1>4
<1>7. ASSUME NEW io \in {<<"input", "InputConfiguration">>, <<"output", "OutputConfiguration">>}
      PROVE  LET was == prev[io[2]]
                 now == doc[io[2]]
                 names(list) == {list[i].Name : i \in DOMAIN list} IN
             /\ \A n \in names(was) \cup names(now) :
                  ReadList(<<io[1], n>>, "Name", names(was) \cap {n}) = names(now) \cap {n}
             /\ \A n \in names(was) \cap names(now) :
                  TellsTexts(<<io[1], n>>, {"Icon"}, FirstNamed(was, n), FirstNamed(now, n))
  <2>1. CASE io = <<"input", "InputConfiguration">>
    <3>1. prev[io[2]] = in /\ doc[io[2]] = inNow /\ io[1] = "input"
      BY <1>2, <2>1
    <3> QED
      BY <1>5, <3>1 DEF Names
  <2>2. CASE io = <<"output", "OutputConfiguration">>
    <3>1. prev[io[2]] = out /\ doc[io[2]] = outNow /\ io[1] = "output"
      BY <1>2, <2>2
    <3> QED
      BY <1>6, <3>1 DEF Names
  <2> QED
    BY <2>1, <2>2
<1> QED
  BY <1>7 DEF IOTold
LEMMA ConfigFieldsTold ==
  ASSUME DiffInv, doc.kind = "UIConfig"
  PROVE  FieldsTold
<1>1. ItemLines(Doc) = Compared(Doc, {"ID"}, {"Api"}, prev, doc)
  BY ConfigLines
<1>2. Nothing \notin doc["Api"]
  BY DocFields DEF DiffInv
<1>3. {"ID"} \cap {"Api"} = {} /\ \A l \in {"Api"} : Nothing \notin doc[l]
  BY <1>2
<1>4. TellsTexts(Doc, {"ID"}, prev, doc) /\ TellsList(Doc, "Api", prev, doc)
  BY <1>1, <1>3, ItemTold
<1>5. PlainFields(doc) = {"ID"} /\ Lists \cap DOMAIN doc = {"Api"}
  BY DocFields DEF DiffInv, PlainFields, Lists, Parts, NotCompared
<1> QED
  BY <1>4, <1>5 DEF FieldsTold, PlainFields

(* What is as it was has no lines.                                           *)
LEMMA SameCompared ==
  ASSUME NEW item, NEW texts, NEW lists, NEW old, NEW new,
         \A f \in texts \cup lists : old[f] = new[f]
  PROVE  Compared(item, texts, lists, old, new) = {}
<1>1. Texts(item, texts, old, new) = {}
  BY DEF Texts
<1>2. ASSUME NEW l \in lists PROVE Members(item, l, old[l], new[l]) = {}
  BY DEF Members
<1> QED
  BY <1>1, <1>2 DEF Compared

LEMMA SameContent ==
  ASSUME NEW old, NEW new, Keyed(new, "Name"), Content(old) = Content(new), NEW i \in DOMAIN old
  PROVE  Named(new, old[i].Name) /\ FirstNamed(new, old[i].Name) = old[i]
<1>1. old[i] \in Content(new)
  BY DEF Content
<1>2. PICK j \in DOMAIN new : new[j] = old[i]
  BY <1>1 DEF Content
<1> QED
  BY <1>2, FirstNamedIs

LEMMA SamePresets ==
  ASSUME NEW old, NEW new, Keyed(new, "Name"), Content(old) = Content(new)
  PROVE  PresetChanges(old, new) = {}
<1> SUFFICES ASSUME NEW c \in PresetChanges(old, new) PROVE FALSE
  OBVIOUS
<1>1. PICK i \in DOMAIN old :
        IF Named(new, old[i].Name)
          THEN c \in PresetOf(old, new, i)
          ELSE c = Line(<<"preset", old[i].Name>>, "Name", old[i].Name, Nothing)
  BY PresetLine
<1>2. Named(new, old[i].Name) /\ FirstNamed(new, old[i].Name) = old[i]
  BY SameContent
<1>3. PresetOf(old, new, i) = {}
  BY <1>2, SameCompared DEF PresetOf
<1> QED
  BY <1>1, <1>2, <1>3

LEMMA SameIO ==
  ASSUME NEW side, NEW old, NEW new, Keyed(old, "Name"), Keyed(new, "Name"),
         Content(old) = Content(new)
  PROVE  IOChanges(side, old, new) = {}
<1> SUFFICES ASSUME NEW c \in IOChanges(side, old, new) PROVE FALSE
  OBVIOUS
<1>1. \A j \in DOMAIN new : Named(old, new[j].Name)
  BY SameContent
<1>2. PICK i \in DOMAIN old :
        IF Named(new, old[i].Name)
          THEN c \in Compared(IOName(side, old, i), {"Icon"}, {},
                              old[i], FirstNamed(new, old[i].Name))
          ELSE c = Line(IOName(side, old, i), "Name", old[i].Name, Nothing)
  BY <1>1, IOLine
<1>3. Named(new, old[i].Name) /\ FirstNamed(new, old[i].Name) = old[i]
  BY SameContent
<1>4. Compared(IOName(side, old, i), {"Icon"}, {}, old[i], FirstNamed(new, old[i].Name)) = {}
  BY <1>3, SameCompared
<1> QED
  BY <1>2, <1>3, <1>4

LEMMA SamePanels ==
  ASSUME NEW list
  PROVE  PanelChanges(list, list) = {}
<1> SUFFICES ASSUME NEW c \in PanelChanges(list, list) PROVE FALSE
  OBVIOUS
<1>1. PICK i \in DOMAIN list :
        c \in Compared(<<"panel", list[i].Hostname>>, {"Hostname", "Preset", "UIPath"},
                       {"Features"}, list[i], list[i])
  BY PanelLine
<1> QED
  BY <1>1, SameCompared

LEMMA NothingToTell ==
  ASSUME NEW old \in Docs, NEW new \in Docs, old.kind = new.kind,
         \A f \in DOMAIN new \ NotCompared :
           IF f \in {"Presets", "InputConfiguration", "OutputConfiguration"}
             THEN Content(old[f]) = Content(new[f]) ELSE old[f] = new[f]
  PROVE  FindChanges(old, new) = {}
<1>2. CASE new.kind = "Building"
  <2>1. \A f \in {"ID", "Name", "Description"} \cup {"Tags"} : old[f] = new[f]
    BY <1>2, DocFields DEF NotCompared
  <2>2. Compared(Doc, {"ID", "Name", "Description"}, {"Tags"}, old, new) = {}
    BY <2>1, SameCompared
  <2>3. FindChanges(old, new) = findBuildingChanges(old, new)
    BY <1>2 DEF FindChanges
  <2> QED
    BY <2>2, <2>3, OneList DEF findBuildingChanges
<1>3. CASE new.kind = "Room"
  <2> DEFINE texts == {"ID", "Name", "Description", "Configuration", "Designation"}
  <2>1. \A f \in texts \cup {"Tags"} : old[f] = new[f]
    BY <1>3, DocFields DEF NotCompared
  <2>2. Compared(Doc, texts, {"Tags"}, old, new) = {}
    BY <2>1, SameCompared
  <2>3. FindChanges(old, new) = findRoomChanges(old, new)
    BY <1>3 DEF FindChanges
  <2> QED
    BY <2>2, <2>3, OneList DEF findRoomChanges
<1>4. CASE new.kind = "Device"
  <2> DEFINE texts == {"ID", "Name", "Description", "Address", "DisplayName", "Type"}
             ports == {"FriendlyName", "SourceDevice", "DestinationDevice"}
  <2>1. \A f \in texts \cup {"Roles", "Tags", "Ports"} : old[f] = new[f]
    BY <1>4, DocFields DEF NotCompared
  <2>2. Compared(Doc, texts, {"Roles", "Tags"}, old, new) = {}
    BY <2>1, SameCompared
  <2>3. FindChanges(old, new) = findDeviceChanges(old, new)
    BY <1>4 DEF FindChanges
  <2>4. FindChanges(old, new) = Compared(Doc, texts, {"Roles", "Tags"}, old, new) \cup PortChanges(old, new)
    BY <2>3, DeviceChangesAre
  <2>5. ASSUME NEW c \in PortChanges(old, new) PROVE FALSE
    <3>1. PICK p \in old.Ports, q \in new.Ports :
             p.ID = q.ID /\ c \in Texts(<<"port", p.ID>>, ports, p, q)
      BY PortLine
    <3>2. p = q
      BY <1>4, <2>1, <3>1, DocsAssumption
    <3> QED
      BY <3>1, <3>2 DEF Texts
  <2> QED
    BY <2>2, <2>4, <2>5
<1>5. CASE new.kind = "UIConfig"
  <2>1. DOMAIN new \ NotCompared = {"kind", "ID", "Api", "Panels", "Presets",
                                    "InputConfiguration", "OutputConfiguration"}
    BY <1>5, DocFields DEF NotCompared
  <2>2. /\ old["ID"] = new["ID"] /\ old["Api"] = new["Api"] /\ old.Panels = new.Panels
        /\ Content(old.Presets) = Content(new.Presets)
        /\ Content(old.InputConfiguration) = Content(new.InputConfiguration)
        /\ Content(old.OutputConfiguration) = Content(new.OutputConfiguration)
    BY <2>1
  <2>3. FindChanges(old, new) = findUIConfigChanges(old, new)
    BY <1>5 DEF FindChanges
  <2>4. Compared(Doc, {"ID"}, {"Api"}, old, new) = {}
    BY <2>2, SameCompared
  <2>5. PanelChanges(old.Panels, new.Panels) = {}
    BY <2>2, SamePanels
  <2>6. PresetChanges(old.Presets, new.Presets) = {}
    BY <1>5, <2>2, ConfigParts, SamePresets
  <2>7. IOChanges("input", old.InputConfiguration, new.InputConfiguration) = {}
    BY <1>5, <2>2, ConfigParts, SameIO
  <2>8. IOChanges("output", old.OutputConfiguration, new.OutputConfiguration) = {}
    BY <1>5, <2>2, ConfigParts, SameIO
  <2> QED
    BY <2>3, <2>4, <2>5, <2>6, <2>7, <2>8, OneList DEF findUIConfigChanges
<1> QED
  BY <1>2, <1>3, <1>4, <1>5, DocFields

(* At first nothing is told of a document that is as it was, and that is     *)
(* what FindChanges would tell.                                              *)
LEMMA DiffStart ==
  ASSUME InitDiff
  PROVE  DiffInv
<1>1. doc \in Docs /\ prev = doc /\ told = {}
  BY DEF InitDiff
<1>2. FindChanges(doc, doc) = {}
  BY <1>1, NothingToTell
<1>3. ~Panics(doc, doc)
  <2> SUFFICES ASSUME doc.kind = "UIConfig" PROVE ~(Len(doc.Panels) < Len(doc.Panels))
    BY DEF Panics
  <2>1. Len(doc.Panels) \in Nat
    BY <1>1, ConfigParts DEF Keyed
  <2> QED
    BY <2>1
<1> QED
  BY <1>1, <1>2, <1>3 DEF DiffInv

LEMMA DiffStep ==
  ASSUME DiffInv, [NextDiff]_diffVars
  PROVE  DiffInv'
<1>1. ASSUME NEW d \in Docs, Update(d) PROVE DiffInv'
  <2>1. /\ prev = doc /\ d.kind = doc.kind /\ ~Panics(doc, d)
        /\ prev' = doc /\ doc' = d /\ told' = FindChanges(doc, d)
    BY <1>1 DEF Update
  <2>2. PICK p : p = doc
    OBVIOUS
  <2>3. /\ p \in Docs /\ d.kind = p.kind /\ ~Panics(p, d)
        /\ prev' = p /\ doc' = d /\ told' = FindChanges(p, d)
    BY <2>1, <2>2 DEF DiffInv
  <2> QED
    BY <2>3 DEF DiffInv
<1>2. ASSUME UNCHANGED diffVars PROVE DiffInv'
  <2>1. prev' = prev /\ doc' = doc /\ told' = told
    BY <1>2 DEF diffVars
  <2> QED
    BY <2>1 DEF DiffInv
<1> QED
  BY <1>1, <1>2 DEF NextDiff

LEMMA DiffInvHolds == DiffSpec => []DiffInv
<1>1. InitDiff => DiffInv
  BY DiffStart
<1>2. DiffInv /\ [NextDiff]_diffVars => DiffInv'
  BY DiffStep
<1> QED
  BY <1>1, <1>2, PTL DEF DiffSpec

(* The lines FindChanges finds, read on top of the document as it was, give  *)
(* every field of a document but the audio configuration as it is, and every *)
(* field of the ports that stay but their descriptions and tags: those are   *)
(* stored and not compared (changelog.go 303-402 and 404-615).               *)
THEOREM FieldsAreTold == DiffSpec => []FieldsTold
<1>1. DiffInv => FieldsTold
  <2>1. DiffInv => doc.kind \in {"Building", "Room", "Device", "UIConfig"}
    BY DocFields DEF DiffInv
  <2> QED
    BY <2>1, BuildingTold, RoomTold, DeviceTold, ConfigFieldsTold
<1> QED
  BY <1>1, DiffInvHolds, PTL

(* The parts of a configuration, which findUIConfigChanges compares by name  *)
(* or by position, are told as they are: each line is about its own part.    *)
THEOREM PartsAreTold == DiffSpec => []PartsTold
<1>1. DiffInv => PartsTold
  <2>1. CASE doc.kind = "UIConfig"
    BY <2>1, ConfigIOTold, ConfigPresetsTold, ConfigPanelsTold DEF PartsTold
  <2>2. CASE doc.kind # "UIConfig"
    BY <2>2 DEF PartsTold, IOTold, PresetsTold, PanelsTold
  <2> QED
    BY <2>1, <2>2
<1> QED
  BY <1>1, DiffInvHolds, PTL

(* An update that changes nothing but the order of what goes by name, or     *)
(* what is not compared, is logged with no line (presetsContains,            *)
(* ioContains).                                                              *)
THEOREM NothingIsInvented == DiffSpec => []NothingInvented
<1>1. DiffInv => NothingInvented
  <2> SUFFICES ASSUME DiffInv,
                      \A f \in DOMAIN doc \ NotCompared :
                        IF f \in {"Presets", "InputConfiguration", "OutputConfiguration"}
                          THEN Content(prev[f]) = Content(doc[f]) ELSE prev[f] = doc[f]
               PROVE  told = {}
    BY DEF NothingInvented
  <2>1. prev \in Docs /\ doc \in Docs /\ prev.kind = doc.kind
    BY DEF DiffInv
  <2>2. FindChanges(prev, doc) = {}
    BY <2>1, NothingToTell
  <2> QED
    BY <2>2 DEF DiffInv
<1> QED
  BY <1>1, DiffInvHolds, PTL
=============================================================================
