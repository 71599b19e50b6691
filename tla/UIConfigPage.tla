---------------------------- MODULE UIConfigPage ----------------------------
(* The UI configuration page on its own (uiconfig.component.ts and .html):   *)
(* the user chooses a building and a room, the page asks for the room's      *)
(* configuration and, when that answer is in, for its devices, adds to the   *)
(* configuration the devices it lacks, and submits it.  A room without a     *)
(* configuration is given a template's.                                      *)
(*                                                                           *)
(* config is a reference.  blankConfig, the uiconfig of a template and every *)
(* configuration loaded are objects in heap, and SetIOConfigurations makes   *)
(* the template's uiconfig and config one object.  Of a configuration the    *)
(* model keeps how many panels it has, and how often each device is among    *)
(* its inputs and outputs.  Every call to the server is on its way, then     *)
(* carried out, then answered; answers come in any order.                    *)
EXTENDS Integers, FiniteSets

CONSTANTS Rooms, None,
          Names,                             \* names of devices
          InputsOf, DisplaysOf, MicsOf,      \* the devices of each room
          ProcessorsOf,                      \* and its control processors
          Templates, PanelsIn,               \* templates and their panels
          Blank, Loaded,                     \* objects: blankConfig, and loaded ones
          Many,                              \* bound: copies in a list
          MaxChoices, MaxSubmits,            \* bounds: choices of a room, submits,
          MaxHurries                         \* and acts while an answer is due

Objects == {Blank} \cup Templates \cup Loaded
Copies  == [Names -> 0..Many]
Configs == [panels : Nat, inputs : Copies, outputs : Copies]

ASSUME PageAssumption ==
  /\ None \notin Rooms \cup Objects /\ None \notin Configs
  /\ {InputsOf, DisplaysOf, MicsOf} \subseteq [Rooms -> SUBSET Names]
  /\ \A r \in Rooms : IsFiniteSet(ProcessorsOf[r])
  /\ PanelsIn \in [Templates -> Nat]
  /\ Many \in Nat \ {0, 1}
  /\ MaxChoices \in Nat /\ MaxSubmits \in Nat /\ MaxHurries \in Nat

VARIABLES
  stored,           \* the database: stored[r], a configuration or None
  room, config, configExists, currentTemplate,
  deviceList,       \* the room whose devices are in it, None when empty
  panels,           \* control processors seen since it was last emptied
  typesLoaded,      \* deviceTypeMap has been filled
  heap,             \* heap[o]: the configuration object o is
  uiconfig,         \* uiconfig[t]: the object template t has
  calls,            \* calls sent and not yet answered
  choices, submits, \* how many so far
  threw,            \* history: the last SetIOConfigurations stopped at a device
  hurries           \* how often the user has acted while an answer was due

page == <<room, config, configExists, currentTemplate, deviceList, panels,
          heap, uiconfig, threw>>
user == <<choices, submits, hurries>>
vars == <<stored, page, typesLoaded, calls, user>>

Empty   == [panels |-> 0, inputs |-> [n \in Names |-> 0],
            outputs |-> [n \in Names |-> 0]]

(* A stored configuration lists devices once each; they may have left the    *)
(* room since.                                                               *)
Listed(S) == [n \in Names |-> IF n \in S THEN 1 ELSE 0]
Configured ==
  {[panels |-> 1, inputs |-> Listed(i), outputs |-> Listed(o)] :
     i \in SUBSET Names, o \in SUBSET Names}

Init ==
  /\ stored \in [Rooms -> {None} \cup Configured]
  /\ room = None /\ config = None /\ configExists = FALSE
  /\ currentTemplate = None
  /\ deviceList = None /\ panels = {} /\ typesLoaded = FALSE
  /\ heap = [o \in Objects |->
               IF o \in Templates THEN [Empty EXCEPT !.panels = PanelsIn[o]] ELSE Empty]
  /\ uiconfig = [t \in Templates |-> t]
  /\ calls = {} /\ choices = 0 /\ submits = 0
  /\ threw = FALSE /\ hurries = 0

-----------------------------------------------------------------------------
(* Calls.  The number of a call only tells it from the others on their way.  *)

Call(op, r, body) ==
  [op |-> op, room |-> r, body |-> body, served |-> FALSE, ok |-> FALSE,
   n |-> CHOOSE i \in 0..Cardinality(calls) : \A c \in calls : c.n # i]

Quiet == calls = {}
Acts  == IF Quiet THEN UNCHANGED hurries
         ELSE hurries < MaxHurries /\ hurries' = hurries + 1

Answer(c, ok, body) ==
  calls' = (calls \ {c}) \cup {[c EXCEPT !.served = TRUE, !.ok = ok, !.body = body]}

(* The server carries a call out, and its answer may be lost; an error is    *)
(* the answer to a call it refuses.                                          *)
Refuse(c) == Answer(c, FALSE, Empty) /\ UNCHANGED stored

Read(c) ==
  /\ c.room # None /\ UNCHANGED stored
  /\ \/ c.op = "config" /\ stored[c.room] # None /\ Answer(c, TRUE, stored[c.room])
     \/ c.op = "devices" /\ Answer(c, TRUE, Empty)

Write(c) ==
  /\ \/ c.op = "add" /\ stored[c.room] = None
     \/ c.op = "update" /\ stored[c.room] # None
  /\ stored' = [stored EXCEPT ![c.room] = c.body]
  /\ \E ok \in BOOLEAN : Answer(c, ok, Empty)

Serve(c) ==
  /\ ~c.served
  /\ Refuse(c) \/ Read(c) \/ Write(c)
  /\ UNCHANGED <<page, typesLoaded, user>>

LoadTypes ==
  /\ ~typesLoaded
  /\ typesLoaded' = TRUE
  /\ UNCHANGED <<stored, page, calls, user>>

-----------------------------------------------------------------------------
(* SetIOConfigurations.                                                      *)

AddOnce(list, new) == [n \in Names |-> IF n \in new /\ list[n] = 0 THEN 1 ELSE list[n]]

AtMost(k) == IF k > Many THEN Many ELSE k

(* Microphones are added to the outputs when they are not among the inputs.  *)
AddMics(list, inputs, new) ==
  [n \in Names |-> IF n \in new /\ inputs[n] = 0 THEN AtMost(list[n] + 1) ELSE list[n]]

(* Mutant of WithDevices: displays are looked for among the inputs, too.     *)
WithDevicesAgain(c, r) ==
  LET inputs == AddOnce(c.inputs, InputsOf[r]) IN
  [c EXCEPT !.inputs = inputs,
            !.outputs = AddMics(@, inputs, MicsOf[r] \cup DisplaysOf[r])]

WithDevices(c, r) ==
  LET inputs == AddOnce(c.inputs, InputsOf[r]) IN
  [c EXCEPT !.inputs = inputs,
            !.outputs = AddMics(AddOnce(@, DisplaysOf[r]), inputs, MicsOf[r])]

(* As it leaves the page, whose config, deviceList and template may just     *)
(* have been set.  Nothing is done without devices or configuration; with no *)
(* device types it throws at the first device, and with no template at its   *)
(* last line.                                                                *)
SetIOConfigurations ==
  IF deviceList' = None \/ config' = None
    THEN threw' = FALSE /\ UNCHANGED <<heap, panels, uiconfig>>
  ELSE IF ~typesLoaded
    THEN threw' = TRUE /\ UNCHANGED <<heap, panels, uiconfig>>
  ELSE /\ threw' = FALSE
       /\ panels' = panels \cup ProcessorsOf[deviceList']
       /\ heap' = [heap EXCEPT ![config'] = WithDevices(@, deviceList')]
       /\ uiconfig' = IF currentTemplate' = None THEN uiconfig
                      ELSE [uiconfig EXCEPT ![currentTemplate'] = config']

-----------------------------------------------------------------------------
(* The user.                                                                 *)

ChooseBuilding ==
  /\ room # None
  /\ room' = None
  /\ Acts
  /\ UNCHANGED <<stored, config, configExists, currentTemplate, deviceList,
                 panels, heap, uiconfig, threw, typesLoaded, calls, choices, submits>>

ChooseRoom(r) ==
  /\ r # room /\ choices < MaxChoices
  /\ choices' = choices + 1
  /\ room' = r /\ config' = Blank
  /\ calls' = calls \cup {Call("config", r, Empty)}
  /\ Acts
  /\ UNCHANGED <<stored, configExists, currentTemplate, deviceList, panels,
                 heap, uiconfig, threw, typesLoaded, submits>>

(* UpdatePanels: a template without panels is given one for each processor.  *)
ChooseTemplate(t) ==
  /\ room # None /\ ~configExists /\ t # currentTemplate
  /\ currentTemplate' = t /\ config' = uiconfig[t] /\ UNCHANGED deviceList
  /\ IF deviceList # None /\ typesLoaded
       THEN LET c  == WithDevices(heap[config'], deviceList)
                ps == panels \cup ProcessorsOf[deviceList] IN
            /\ panels' = ps /\ threw' = FALSE /\ UNCHANGED uiconfig
            /\ heap' = [heap EXCEPT ![config'] =
                          [c EXCEPT !.panels = IF @ = 0 THEN Cardinality(ps) ELSE @]]
       ELSE SetIOConfigurations
  /\ Acts
  /\ UNCHANGED <<stored, room, configExists, typesLoaded, calls, choices, submits>>

Submit ==
  /\ room # None /\ config # None /\ heap[config].panels > 0
  /\ submits < MaxSubmits
  /\ submits' = submits + 1
  /\ calls' = calls \cup {Call(IF configExists THEN "update" ELSE "add", room, heap[config])}
  /\ Acts
  /\ UNCHANGED <<stored, page, typesLoaded, choices>>

-----------------------------------------------------------------------------
(* The callbacks.                                                            *)

Answered(c, op) == c.op = op /\ c.served

(* getDeviceLists, for the room there is now.                                *)
AskDevices(c) ==
  /\ deviceList' = None /\ panels' = {}
  /\ calls' = (calls \ {c}) \cup {Call("devices", room, Empty)}

(* Mutant of ConfigArrives: after an error the devices are not asked for.    *)
ConfigArrivesOnSuccess(c) ==
  /\ Answered(c, "config")
  /\ IF ~c.ok
       THEN /\ configExists' = FALSE /\ calls' = calls \ {c}
            /\ UNCHANGED <<config, heap, deviceList, panels>>
       ELSE \E o \in Loaded :
              /\ o = CHOOSE x \in Loaded : x # config /\ \A t \in Templates : uiconfig[t] # x
              /\ configExists' = TRUE
              /\ config' = o /\ heap' = [heap EXCEPT ![o] = c.body]
              /\ AskDevices(c)
  /\ UNCHANGED <<stored, room, currentTemplate, uiconfig, threw, typesLoaded, user>>

(* A loaded configuration is an object nothing refers to yet.                *)
ConfigArrives(c) ==
  /\ Answered(c, "config")
  /\ IF ~c.ok
       THEN configExists' = FALSE /\ UNCHANGED <<config, heap>>
       ELSE \E o \in Loaded :
              /\ o = CHOOSE x \in Loaded : x # config /\ \A t \in Templates : uiconfig[t] # x
              /\ configExists' = TRUE
              /\ config' = o /\ heap' = [heap EXCEPT ![o] = c.body]
  /\ AskDevices(c)
  /\ UNCHANGED <<stored, room, currentTemplate, uiconfig, threw, typesLoaded, user>>

(* There is no callback for an error.                                        *)
DevicesArrive(c) ==
  /\ Answered(c, "devices")
  /\ calls' = calls \ {c}
  /\ UNCHANGED <<config, currentTemplate>>
  /\ IF ~c.ok
       THEN UNCHANGED <<deviceList, heap, panels, uiconfig, threw>>
       ELSE deviceList' = c.room /\ SetIOConfigurations
  /\ UNCHANGED <<stored, room, configExists, typesLoaded, user>>

(* Mutant of SubmitAnswered: an add that fails is taken for a conflict.      *)
SubmitAnsweredConflict(c) ==
  /\ Answered(c, "add") \/ Answered(c, "update")
  /\ calls' = calls \ {c}
  /\ configExists' = TRUE
  /\ UNCHANGED <<stored, room, config, currentTemplate, deviceList, panels,
                 heap, uiconfig, threw, typesLoaded, user>>

SubmitAnswered(c) ==
  /\ Answered(c, "add") \/ Answered(c, "update")
  /\ calls' = calls \ {c}
  /\ configExists' = (configExists \/ (c.op = "add" /\ c.ok))
  /\ UNCHANGED <<stored, room, config, currentTemplate, deviceList, panels,
                 heap, uiconfig, threw, typesLoaded, user>>

Next ==
  \/ LoadTypes \/ ChooseBuilding \/ Submit
  \/ \E r \in Rooms : ChooseRoom(r)
  \/ \E t \in Templates : ChooseTemplate(t)
  \/ \E c \in calls :
       Serve(c) \/ ConfigArrives(c) \/ DevicesArrive(c) \/ SubmitAnswered(c)

Spec == Init /\ [][Next]_vars

-----------------------------------------------------------------------------
(* Once nothing is due, the configuration on the page lists every input and  *)
(* display of the room, in whatever order rooms and templates are chosen and *)
(* configurations and devices answer.  That is why the devices are asked for *)
(* after the configuration has come (uiconfig.component.ts 107).  The device *)
(* types are not waited for: when they answer after the devices, nothing of  *)
(* these is added, no processor is offered for a panel either, and it stays  *)
(* so until a room or a template is chosen again (144-146 throw).            *)
Complete ==
  Quiet /\ room # None /\ deviceList = room =>
    IF threw
      THEN panels = {}
      ELSE /\ \A n \in InputsOf[room] : heap[config].inputs[n] > 0
           /\ \A n \in DisplaysOf[room] : heap[config].outputs[n] > 0

(* No object the page holds lists an input or a display twice, however often *)
(* objects shared by templates and rooms are completed.                      *)
NoDuplicates ==
  \A o \in Objects, n \in Names :
    /\ heap[o].inputs[n] <= 1
    /\ (\A r \in Rooms : n \notin MicsOf[r]) => heap[o].outputs[n] <= 1

Covers(c, d) ==
  /\ c.panels >= d.panels
  /\ \A n \in Names : c.inputs[n] >= d.inputs[n] /\ c.outputs[n] >= d.outputs[n]

(* While the user waits for answers, an update takes nothing away that is    *)
(* stored: it is sent only for a room that has a configuration, and made     *)
(* from that one, whatever blank and template objects are shared, whatever   *)
(* calls fail and whichever answers are lost.                                *)
NothingLost ==
  \A c \in calls :
    c.op = "update" /\ ~c.served /\ hurries = 0 =>
      stored[c.room] # None /\ Covers(c.body, stored[c.room])

=============================================================================
