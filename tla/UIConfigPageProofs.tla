------------------------- MODULE UIConfigPageProofs -------------------------
(* What is proved of the UI configuration page, for any rooms, devices,      *)
(* templates and numbers of choices, submits and hurries: the three          *)
(* invariants its run checks.  They rest on one inductive invariant, PageInv:*)
(* the types; that every configuration anywhere (object, stored, or in a     *)
(* call) lists an input or a display once; that the configuration shown is   *)
(* complete for the devices in the lists as soon as no configuration is      *)
(* asked for; and, for a user who waits, that there is at most one call, of  *)
(* the room on the page, and that what is on the page covers what is stored. *)
EXTENDS UIConfigPage, FiniteSetTheorems, TLAPS

-----------------------------------------------------------------------------
(* The inductive invariant.                                                  *)

Ops == {"config", "devices", "add", "update"}

CallOK(c) ==
  /\ c \in [op : Ops, room : Rooms \cup {None}, body : Configs,
            served : BOOLEAN, ok : BOOLEAN, n : {c.n}]
  /\ c.op # "devices" => c.room \in Rooms

PageTypes ==
  /\ stored \in [Rooms -> Configs \cup {None}]
  /\ room \in Rooms \cup {None}
  /\ config \in Objects \cup {None}
  /\ configExists \in BOOLEAN /\ threw \in BOOLEAN
  /\ currentTemplate \in Templates \cup {None}
  /\ deviceList \in Rooms \cup {None}
  /\ IsFiniteSet(panels)
  /\ heap \in [Objects -> Configs]
  /\ uiconfig \in [Templates -> Objects]
  /\ \A c \in calls : CallOK(c)
  /\ hurries \in Nat

(* A configuration lists no input and, microphones aside, no output twice.   *)
Single(c) ==
  \A n \in Names :
    /\ c.inputs[n] <= 1
    /\ (\A r \in Rooms : n \notin MicsOf[r]) => c.outputs[n] <= 1

Singles ==
  /\ \A o \in Objects : Single(heap[o])
  /\ \A c \in calls : Single(c.body)
  /\ \A r \in Rooms : stored[r] # None => Single(stored[r])

(* It lists every input and display of a room.                               *)
Has(c, r) ==
  /\ \A n \in InputsOf[r] : c.inputs[n] > 0
  /\ \A n \in DisplaysOf[r] : c.outputs[n] > 0

(* A page is empty until a room has been chosen, and complete for the        *)
(* devices in its lists unless a configuration is still asked for.           *)
Shown ==
  /\ config = None => calls = {} /\ room = None /\ deviceList = None
  /\ deviceList # None /\ ~threw /\ (\A c \in calls : c.op # "config")
       => Has(heap[config], deviceList)

Writes == {"add", "update"}

(* A call a user who waits has made: of the room on the page; an answer with *)
(* a configuration brings the stored one; what is to be written is what is   *)
(* on the page, to be updated only if there is one, and what an add has      *)
(* written is there.                                                         *)
CallFollows(c) ==
  /\ room # None /\ c.room = room
  /\ c.op = "config" /\ c.served /\ c.ok => stored[room] = c.body
  /\ c.op \in Writes /\ ~c.served => c.body = heap[config]
  /\ c.op = "update" /\ ~c.served => configExists
  /\ c.op = "add" /\ c.served /\ c.ok => stored[room] = heap[config]

Follows ==
  hurries = 0 =>
    /\ \A c, d \in calls : c = d
    /\ \A c \in calls : CallFollows(c)
    /\ room # None /\ configExists /\ (\A c \in calls : c.op # "config")
         => stored[room] # None /\ Covers(heap[config], stored[room])

PageInv == PageTypes /\ Singles /\ Shown /\ Follows
-----------------------------------------------------------------------------
(* Configurations and what SetIOConfigurations does to them.                 *)

LEMMA EmptyFits == Empty \in Configs /\ Single(Empty)
BY PageAssumption DEF Empty, Configs, Copies, Single

LEMMA CoversItself == ASSUME NEW c \in Configs PROVE Covers(c, c)
BY DEF Covers, Configs, Copies

LEMMA CoversOn ==
  ASSUME NEW b \in Configs, NEW c \in Configs, NEW d \in Configs,
         Covers(d, c), Covers(c, b)
  PROVE  Covers(d, b)
<1>1. \A e \in Configs : e.panels \in Nat
  BY DEF Configs
<1>2. \A e \in Configs, n \in Names : e.inputs[n] \in Nat /\ e.outputs[n] \in Nat
  BY PageAssumption DEF Configs, Copies
<1> QED
  BY <1>1, <1>2 DEF Covers

(* d is c completed for room r.                                              *)
Grown(d, c, r) ==
  /\ d \in Configs
  /\ Single(c) => Single(d)
  /\ Covers(d, c)
  /\ Has(d, r)

LEMMA AddOnceGrows ==
  ASSUME NEW list \in Copies, NEW new \in SUBSET Names
  PROVE  /\ AddOnce(list, new) \in Copies
         /\ \A n \in Names :
              /\ AddOnce(list, new)[n] >= list[n]
              /\ list[n] <= 1 => AddOnce(list, new)[n] <= 1
              /\ n \in new => AddOnce(list, new)[n] > 0
BY PageAssumption DEF AddOnce, Copies

LEMMA AddMicsGrows ==
  ASSUME NEW list \in Copies, NEW inputs \in Copies, NEW new \in SUBSET Names
  PROVE  /\ AddMics(list, inputs, new) \in Copies
         /\ \A n \in Names :
              /\ AddMics(list, inputs, new)[n] >= list[n]
              /\ n \notin new => AddMics(list, inputs, new)[n] = list[n]
<1>1. \A n \in Names : list[n] \in Nat /\ list[n] <= Many
  BY PageAssumption DEF Copies
<1> QED
  BY <1>1, PageAssumption DEF AddMics, AtMost, Copies

LEMMA WithDevicesGrows ==
  ASSUME NEW c \in Configs, NEW r \in Rooms
  PROVE  Grown(WithDevices(c, r), c, r)
<1> DEFINE in   == AddOnce(c.inputs, InputsOf[r])
           mid  == AddOnce(c.outputs, DisplaysOf[r])
           out  == AddMics(mid, in, MicsOf[r])
           d    == WithDevices(c, r)
<1>1. /\ c = [panels |-> c.panels, inputs |-> c.inputs, outputs |-> c.outputs]
      /\ c.panels \in Nat /\ c.inputs \in Copies /\ c.outputs \in Copies
  BY DEF Configs
<1>2. InputsOf[r] \in SUBSET Names /\ DisplaysOf[r] \in SUBSET Names
        /\ MicsOf[r] \in SUBSET Names
  BY PageAssumption
<1>3. /\ in \in Copies
      /\ \A n \in Names : /\ in[n] >= c.inputs[n]
                          /\ c.inputs[n] <= 1 => in[n] <= 1
                          /\ n \in InputsOf[r] => in[n] > 0
  BY <1>1, <1>2, AddOnceGrows
<1>4. /\ mid \in Copies
      /\ \A n \in Names : /\ mid[n] >= c.outputs[n]
                          /\ c.outputs[n] <= 1 => mid[n] <= 1
                          /\ n \in DisplaysOf[r] => mid[n] > 0
  BY <1>1, <1>2, AddOnceGrows
<1> HIDE DEF in, mid
<1>5. /\ out \in Copies
      /\ \A n \in Names : /\ out[n] >= mid[n]
                          /\ n \notin MicsOf[r] => out[n] = mid[n]
  BY <1>2, <1>3, <1>4, AddMicsGrows
<1>6. d = [panels |-> c.panels, inputs |-> in, outputs |-> out]
  <2> HIDE DEF out
  <2>1. d = [c EXCEPT !.inputs = in, !.outputs = out]
    BY Zenon DEF WithDevices, in, mid, out
  <2> HIDE DEF d
  <2> QED
    BY <1>1, <2>1
<1> HIDE DEF d, out
<1>7. \A e \in Copies, n \in Names : e[n] \in Nat
  BY PageAssumption DEF Copies
<1>8. d \in Configs
  BY <1>1, <1>3, <1>5, <1>6 DEF Configs
<1>9. Single(c) => Single(d)
  BY <1>3, <1>4, <1>5, <1>6 DEF Single
<1>10. Covers(d, c)
  BY <1>1, <1>3, <1>4, <1>5, <1>6, <1>7 DEF Covers
<1>11. Has(d, r)
  BY <1>2, <1>3, <1>4, <1>5, <1>6, <1>7 DEF Has
<1> QED
  BY <1>8, <1>9, <1>10, <1>11 DEF Grown, d

(* What the page has done when SetIOConfigurations has run.                  *)
Completion ==
  /\ heap' \in [Objects -> Configs] /\ IsFiniteSet(panels')
  /\ uiconfig' \in [Templates -> Objects] /\ threw' \in BOOLEAN
  /\ \A o \in Objects : (Single(heap[o]) => Single(heap'[o])) /\ Covers(heap'[o], heap[o])
  /\ deviceList' # None /\ config' # None /\ ~threw' => Has(heap'[config'], deviceList')

(* It is enough that the object config refers to is completed, or nothing is.*)
LEMMA OneCompleted ==
  ASSUME PageTypes, config' \in Objects, deviceList' \in Rooms,
         NEW d, Grown(d, heap[config'], deviceList'),
         heap' = [heap EXCEPT ![config'] = d],
         IsFiniteSet(panels'), uiconfig' \in [Templates -> Objects], threw' \in BOOLEAN
  PROVE  Completion
<1>1. d \in Configs /\ (Single(heap[config']) => Single(d)) /\ Covers(d, heap[config'])
        /\ Has(d, deviceList')
  BY DEF Grown
<1>2. heap \in [Objects -> Configs]
  BY DEF PageTypes
<1>3. heap'[config'] = d /\ \A o \in Objects : o # config' => heap'[o] = heap[o]
  BY <1>2
<1>4. heap' \in [Objects -> Configs]
  BY <1>1, <1>2
<1>5. \A o \in Objects : (Single(heap[o]) => Single(heap'[o])) /\ Covers(heap'[o], heap[o])
  <2> SUFFICES ASSUME NEW o \in Objects
               PROVE  (Single(heap[o]) => Single(heap'[o])) /\ Covers(heap'[o], heap[o])
    OBVIOUS
  <2>1. CASE o = config'
    BY <2>1, <1>1, <1>3
  <2>2. CASE o # config'
    BY <2>2, <1>2, <1>3, CoversItself
  <2> QED
    BY <2>1, <2>2
<1> QED
  BY <1>1, <1>3, <1>4, <1>5 DEF Completion

LEMMA NoneCompleted ==
  ASSUME PageTypes, UNCHANGED <<heap, panels, uiconfig>>, threw' \in BOOLEAN,
         deviceList' = None \/ config' = None \/ threw'
  PROVE  Completion
<1>1. \A o \in Objects : Covers(heap[o], heap[o])
  BY CoversItself DEF PageTypes
<1> QED
  BY <1>1 DEF Completion, PageTypes

LEMMA SetIOCompletes ==
  ASSUME PageTypes, deviceList' \in Rooms \cup {None}, config' \in Objects \cup {None},
         currentTemplate' \in Templates \cup {None}, SetIOConfigurations
  PROVE  Completion
<1>1. CASE deviceList' = None \/ config' = None
  BY <1>1, NoneCompleted DEF SetIOConfigurations
<1>2. CASE ~(deviceList' = None \/ config' = None) /\ ~typesLoaded
  BY <1>2, NoneCompleted DEF SetIOConfigurations
<1>3. CASE ~(deviceList' = None \/ config' = None) /\ typesLoaded
  <2>1. deviceList' \in Rooms /\ config' \in Objects
    BY <1>3
  <2>2. Grown(WithDevices(heap[config'], deviceList'), heap[config'], deviceList')
    BY <2>1, WithDevicesGrows DEF PageTypes
  <2>3. IsFiniteSet(panels')
    <3>1. panels' = panels \cup ProcessorsOf[deviceList']
      BY <1>3 DEF SetIOConfigurations
    <3>2. IsFiniteSet(panels) /\ IsFiniteSet(ProcessorsOf[deviceList'])
      BY <2>1, PageAssumption DEF PageTypes
    <3> QED
      BY <3>1, <3>2, FS_Union
  <2>4. /\ heap' = [heap EXCEPT ![config'] = WithDevices(heap[config'], deviceList')]
        /\ threw' = FALSE
        /\ uiconfig' = IF currentTemplate' = None THEN uiconfig
                       ELSE [uiconfig EXCEPT ![currentTemplate'] = config']
    BY <1>3 DEF SetIOConfigurations
  <2>5. uiconfig' \in [Templates -> Objects]
    BY <2>1, <2>4 DEF PageTypes
  <2> QED
    BY <2>1, <2>2, <2>3, <2>4, <2>5, OneCompleted
<1> QED
  BY <1>1, <1>2, <1>3
-----------------------------------------------------------------------------
(* Calls.                                                                    *)

LEMMA CallMade ==
  ASSUME NEW op \in Ops, NEW r \in Rooms \cup {None}, NEW body \in Configs,
         op # "devices" => r \in Rooms
  PROVE  /\ CallOK(Call(op, r, body))
         /\ Call(op, r, body).op = op /\ Call(op, r, body).room = r
         /\ Call(op, r, body).body = body
         /\ ~Call(op, r, body).served /\ ~Call(op, r, body).ok
BY DEF Call, CallOK

(* What the server makes of a call.                                          *)
Outcome(c, d) ==
  \/ stored' = stored /\ ~d.ok /\ d.body = Empty
  \/ /\ stored' = stored /\ c.op = "config" /\ d.ok
     /\ stored[c.room] # None /\ d.body = stored[c.room]
  \/ stored' = stored /\ c.op = "devices" /\ d.body = Empty
  \/ /\ c.op \in Writes /\ stored' = [stored EXCEPT ![c.room] = c.body]
     /\ d.body = Empty

(* A call with its answer.                                                   *)
With(c, ok, body) == [c EXCEPT !.served = TRUE, !.ok = ok, !.body = body]

LEMMA AnswerMade ==
  ASSUME NEW c, CallOK(c), NEW ok \in BOOLEAN, NEW body \in Configs
  PROVE  /\ CallOK(With(c, ok, body))
         /\ With(c, ok, body).op = c.op /\ With(c, ok, body).room = c.room
         /\ With(c, ok, body).served /\ With(c, ok, body).ok = ok
         /\ With(c, ok, body).body = body
<1>1. With(c, ok, body) \in [op : Ops, room : Rooms \cup {None}, body : Configs,
                            served : BOOLEAN, ok : BOOLEAN, n : {c.n}]
  BY DEF CallOK, With
<1>2. /\ With(c, ok, body).op = c.op /\ With(c, ok, body).room = c.room
      /\ With(c, ok, body).served = TRUE /\ With(c, ok, body).ok = ok
      /\ With(c, ok, body).body = body /\ With(c, ok, body).n = c.n
  BY DEF CallOK, With
<1> QED
  BY <1>1, <1>2 DEF CallOK

LEMMA Served ==
  ASSUME PageTypes, NEW c \in calls, Serve(c)
  PROVE  /\ \E d : /\ CallOK(d) /\ d.op = c.op /\ d.room = c.room /\ d.served
                   /\ Outcome(c, d)
                   /\ calls' = (calls \ {c}) \cup {d}
         /\ UNCHANGED <<page, typesLoaded, user>>
<1>1. CallOK(c) /\ Empty \in Configs /\ stored \in [Rooms -> Configs \cup {None}]
  BY EmptyFits DEF PageTypes
<1>2. UNCHANGED <<page, typesLoaded, user>>
  BY DEF Serve
<1>3. CASE Refuse(c)
  <2>1. Answer(c, FALSE, Empty) /\ stored' = stored
    BY <1>3 DEF Refuse
  <2> DEFINE d == With(c, FALSE, Empty)
  <2>2. /\ CallOK(d) /\ d.op = c.op /\ d.room = c.room
        /\ d.served /\ d.ok = FALSE /\ d.body = Empty
    BY <1>1, AnswerMade
  <2>3. calls' = (calls \ {c}) \cup {d}
    BY <2>1 DEF Answer, With
  <2> HIDE DEF d
  <2>4. Outcome(c, d)
    BY <2>1, <2>2 DEF Outcome
  <2> QED
    BY <1>2, <2>2, <2>3, <2>4
<1>4. CASE Read(c)
  <2>1. CASE c.op = "config" /\ stored[c.room] # None /\ Answer(c, TRUE, stored[c.room])
    <3>1. stored[c.room] \in Configs
      BY <1>1, <2>1 DEF CallOK
    <3> DEFINE d == With(c, TRUE, stored[c.room])
    <3>2. /\ CallOK(d) /\ d.op = c.op /\ d.room = c.room
          /\ d.served /\ d.ok = TRUE /\ d.body = stored[c.room]
      BY <1>1, <3>1, AnswerMade
    <3>3. calls' = (calls \ {c}) \cup {d}
      BY <2>1 DEF Answer, With
    <3> HIDE DEF d
    <3>4. Outcome(c, d)
      BY <1>4, <2>1, <3>2 DEF Outcome, Read
    <3> QED
      BY <1>2, <3>2, <3>3, <3>4
  <2>2. CASE c.op = "devices" /\ Answer(c, TRUE, Empty)
    <3> DEFINE d == With(c, TRUE, Empty)
    <3>1. /\ CallOK(d) /\ d.op = c.op /\ d.room = c.room
          /\ d.served /\ d.ok = TRUE /\ d.body = Empty
      BY <1>1, AnswerMade
    <3>2. calls' = (calls \ {c}) \cup {d}
      BY <2>2 DEF Answer, With
    <3> HIDE DEF d
    <3>3. Outcome(c, d)
      BY <1>4, <2>2, <3>1 DEF Outcome, Read
    <3> QED
      BY <1>2, <3>1, <3>2, <3>3
  <2> QED
    BY <1>4, <2>1, <2>2 DEF Read
<1>5. CASE Write(c)
  <2>1. PICK ok \in BOOLEAN : Answer(c, ok, Empty)
    BY <1>5 DEF Write
  <2> DEFINE d == With(c, ok, Empty)
  <2>2. /\ CallOK(d) /\ d.op = c.op /\ d.room = c.room
        /\ d.served /\ d.ok = ok /\ d.body = Empty
    BY <1>1, AnswerMade
  <2>3. calls' = (calls \ {c}) \cup {d}
    BY <2>1 DEF Answer, With
  <2> HIDE DEF d
  <2>4. Outcome(c, d)
    BY <1>5, <2>2 DEF Outcome, Write, Writes
  <2> QED
    BY <1>2, <2>2, <2>3, <2>4
<1> QED
  BY <1>3, <1>4, <1>5 DEF Serve

-----------------------------------------------------------------------------
(* The two actions that complete a configuration.                            *)

LEMMA TemplateCompletes ==
  ASSUME PageTypes, NEW t \in Templates, ChooseTemplate(t)
  PROVE  Completion /\ config' \in Objects /\ deviceList' = deviceList
<1>1. /\ currentTemplate' = t /\ config' = uiconfig[t] /\ deviceList' = deviceList
      /\ config' \in Objects /\ deviceList' \in Rooms \cup {None}
  BY DEF ChooseTemplate, PageTypes
<1>2. CASE deviceList # None /\ typesLoaded
  <2> DEFINE w  == WithDevices(heap[config'], deviceList)
             ps == panels \cup ProcessorsOf[deviceList]
             d  == [w EXCEPT !.panels = IF @ = 0 THEN Cardinality(ps) ELSE @]
  <2>1. deviceList \in Rooms /\ heap[config'] \in Configs
    BY <1>1, <1>2 DEF PageTypes
  <2>2. IsFiniteSet(ps)
    <3>1. IsFiniteSet(panels) /\ IsFiniteSet(ProcessorsOf[deviceList])
      BY <2>1, PageAssumption DEF PageTypes
    <3> QED
      BY <3>1, FS_Union
  <2>3. Cardinality(ps) \in Nat
    BY <2>2, FS_CardinalityType
  <2>4. panels' = ps /\ threw' = FALSE /\ uiconfig' = uiconfig
          /\ heap' = [heap EXCEPT ![config'] = d]
    <3> HIDE DEF w
    <3> QED
      BY <1>2 DEF ChooseTemplate, w
  <2>5. Grown(w, heap[config'], deviceList)
    BY <2>1, WithDevicesGrows
  <2> HIDE DEF w, ps
  <2>6. Grown(d, heap[config'], deviceList)
    <3>1. w \in Configs
      BY <2>5 DEF Grown
    <3>2. /\ d \in Configs /\ d.inputs = w.inputs /\ d.outputs = w.outputs
          /\ d.panels >= w.panels /\ d.panels \in Nat /\ w.panels \in Nat
          /\ heap[config'].panels \in Nat
      BY <2>1, <2>3, <3>1 DEF Configs
    <3>3. Single(w) => Single(d)
      BY <3>2 DEF Single
    <3>4. Covers(d, heap[config'])
      BY <2>5, <3>2 DEF Grown, Covers
    <3>5. Has(d, deviceList)
      BY <2>5, <3>2 DEF Grown, Has
    <3> QED
      BY <2>5, <3>2, <3>3, <3>4, <3>5 DEF Grown
  <2>7. uiconfig' \in [Templates -> Objects]
    BY <2>4 DEF PageTypes
  <2> HIDE DEF d
  <2> QED
    BY <1>1, <2>1, <2>2, <2>4, <2>6, <2>7, OneCompleted
<1>3. CASE ~(deviceList # None /\ typesLoaded)
  <2>1. SetIOConfigurations
    BY <1>3 DEF ChooseTemplate
  <2> QED
    BY <1>1, <2>1, SetIOCompletes
<1> QED
  BY <1>1, <1>2, <1>3

LEMMA DevicesComplete ==
  ASSUME PageTypes, NEW c \in calls, DevicesArrive(c), c.ok
  PROVE  Completion /\ deviceList' \in Rooms \cup {None}
<1>1. /\ deviceList' = c.room /\ config' = config /\ currentTemplate' = currentTemplate
      /\ SetIOConfigurations
  BY DEF DevicesArrive
<1>2. c.room \in Rooms \cup {None}
  BY DEF PageTypes, CallOK
<1> QED
  BY <1>1, <1>2, SetIOCompletes DEF PageTypes
-----------------------------------------------------------------------------
(* Every step keeps the invariant: one lemma for each action.                *)

LEMMA InitHolds == Init => PageInv
<1> SUFFICES ASSUME Init PROVE PageInv
  OBVIOUS
<1>1. \A c \in Configured : c \in Configs /\ Single(c)
  <2>1. Many \in Nat /\ 0 \in 0..Many /\ 1 \in 0..Many
    BY PageAssumption
  <2>2. \A S \in SUBSET Names : Listed(S) \in Copies /\ \A n \in Names : Listed(S)[n] <= 1
    BY <2>1 DEF Listed, Copies
  <2> QED
    BY <2>2 DEF Configured, Configs, Single
<1>2. \A o \in Objects : heap[o] \in Configs /\ Single(heap[o])
  <2> SUFFICES ASSUME NEW o \in Objects PROVE heap[o] \in Configs /\ Single(heap[o])
    OBVIOUS
  <2>1. CASE o \in Templates
    <3> DEFINE e == [Empty EXCEPT !.panels = PanelsIn[o]]
    <3>1. heap[o] = e
      BY <2>1 DEF Init
    <3>2. e \in Configs /\ e.inputs = Empty.inputs /\ e.outputs = Empty.outputs
      BY <2>1, EmptyFits, PageAssumption DEF Configs
    <3> QED
      BY <3>1, <3>2, EmptyFits DEF Single
  <2>2. CASE o \notin Templates
    BY <2>2, EmptyFits DEF Init
  <2> QED
    BY <2>1, <2>2
<1>3. PageTypes
  <2>1. stored \in [Rooms -> Configs \cup {None}]
    BY <1>1 DEF Init
  <2>2. heap \in [Objects -> Configs]
    BY <1>2 DEF Init
  <2>3. uiconfig \in [Templates -> Objects]
    BY DEF Init, Objects
  <2>4. IsFiniteSet(panels)
    BY FS_EmptySet DEF Init
  <2> QED
    BY <2>1, <2>2, <2>3, <2>4 DEF Init, PageTypes
<1>4. Singles
  BY <1>1, <1>2 DEF Singles, Init
<1>5. Shown
  BY DEF Shown, Init
<1>6. Follows
  BY DEF Follows, Init
<1> QED
  BY <1>3, <1>4, <1>5, <1>6 DEF PageInv

LEMMA ActsWaits ==
  ASSUME PageTypes, Acts
  PROVE  hurries' \in Nat /\ (hurries' = 0 => calls = {} /\ hurries = 0)
BY DEF PageTypes, Acts, Quiet

LEMMA RestKeeps ==
  ASSUME PageInv, LoadTypes \/ UNCHANGED vars
  PROVE  PageInv'
<1>1. UNCHANGED <<stored, page, calls, user>>
  BY DEF LoadTypes, vars
<1>2. PageTypes'
  BY <1>1 DEF PageInv, PageTypes, CallOK, page, user
<1>3. Singles'
  BY <1>1 DEF PageInv, Singles, Single, page
<1>4. Shown'
  BY <1>1 DEF PageInv, Shown, Has, page
<1>5. Follows'
  BY <1>1 DEF PageInv, Follows, CallFollows, Covers, page, user
<1> QED
  BY <1>2, <1>3, <1>4, <1>5 DEF PageInv

LEMMA ChooseBuildingKeeps ==
  ASSUME PageInv, ChooseBuilding
  PROVE  PageInv'
<1>1. hurries' \in Nat /\ (hurries' = 0 => calls = {} /\ hurries = 0)
  BY ActsWaits DEF PageInv, ChooseBuilding
<1>2. PageTypes'
  BY <1>1 DEF PageInv, PageTypes, CallOK, ChooseBuilding
<1>3. Singles'
  BY DEF PageInv, Singles, Single, ChooseBuilding
<1>4. Shown'
  BY DEF PageInv, Shown, Has, ChooseBuilding
<1>5. Follows'
  BY <1>1 DEF PageInv, Follows, ChooseBuilding
<1> QED
  BY <1>2, <1>3, <1>4, <1>5 DEF PageInv

LEMMA ChooseRoomKeeps ==
  ASSUME PageInv, NEW r \in Rooms, ChooseRoom(r)
  PROVE  PageInv'
<1> DEFINE k == Call("config", r, Empty)
<1>1. hurries' \in Nat /\ (hurries' = 0 => calls = {} /\ hurries = 0)
  BY ActsWaits DEF PageInv, ChooseRoom
<1>2. CallOK(k) /\ k.op = "config" /\ k.room = r /\ k.body = Empty /\ ~k.served
  BY CallMade, EmptyFits DEF Ops
<1>3. /\ room' = r /\ config' = Blank /\ calls' = calls \cup {k}
      /\ UNCHANGED <<stored, configExists, currentTemplate, deviceList, panels,
                     heap, uiconfig, threw>>
  BY DEF ChooseRoom
<1> HIDE DEF k
<1>4. Blank \in Objects /\ Blank # None /\ r # None
  BY PageAssumption DEF Objects
<1>5. PageTypes'
  BY <1>1, <1>2, <1>3, <1>4 DEF PageInv, PageTypes, CallOK
<1>6. Singles'
  BY <1>2, <1>3, EmptyFits DEF PageInv, Singles
<1>7. Shown'
  BY <1>2, <1>3, <1>4 DEF Shown
<1>8. Follows'
  BY <1>1, <1>2, <1>3, <1>4 DEF Follows, CallFollows, Writes
<1> QED
  BY <1>5, <1>6, <1>7, <1>8 DEF PageInv

LEMMA ChooseTemplateKeeps ==
  ASSUME PageInv, NEW t \in Templates, ChooseTemplate(t)
  PROVE  PageInv'
<1>1. hurries' \in Nat /\ (hurries' = 0 => calls = {} /\ hurries = 0)
  BY ActsWaits DEF PageInv, ChooseTemplate
<1>2. Completion /\ config' \in Objects /\ deviceList' = deviceList
  BY TemplateCompletes DEF PageInv
<1>3. /\ currentTemplate' = t /\ ~configExists /\ room # None
      /\ UNCHANGED <<stored, room, configExists, calls>>
  BY DEF ChooseTemplate
<1>4. config' # None
  BY <1>2, PageAssumption
<1>5. PageTypes'
  BY <1>1, <1>2, <1>3 DEF PageInv, PageTypes, CallOK, Completion
<1>6. Singles'
  BY <1>2, <1>3 DEF PageInv, Singles, Completion
<1>7. Shown'
  BY <1>2, <1>3, <1>4 DEF Shown, Completion
<1>8. Follows'
  BY <1>1, <1>3 DEF Follows
<1> QED
  BY <1>5, <1>6, <1>7, <1>8 DEF PageInv

LEMMA SubmitKeeps ==
  ASSUME PageInv, Submit
  PROVE  PageInv'
<1> DEFINE op == IF configExists THEN "update" ELSE "add"
           new == Call(op, room, heap[config])
<1>1. hurries' \in Nat /\ (hurries' = 0 => calls = {} /\ hurries = 0)
  BY ActsWaits DEF PageInv, Submit
<1>2. room \in Rooms /\ config \in Objects /\ heap[config] \in Configs /\ op \in Ops
  BY DEF Submit, PageInv, PageTypes, Ops
<1>3. PICK k : /\ CallOK(k) /\ k.op = op /\ k.room = room /\ k.body = heap[config]
               /\ ~k.served /\ calls' = calls \cup {k}
  <2>1. calls' = calls \cup {new}
    BY DEF Submit
  <2> HIDE DEF op
  <2> QED
    BY <1>2, <2>1, CallMade
<1>4. UNCHANGED <<stored, page>>
  BY DEF Submit
<1>5. PageTypes'
  BY <1>1, <1>3, <1>4 DEF PageInv, PageTypes, CallOK, page
<1>6. Singles'
  BY <1>2, <1>3, <1>4 DEF PageInv, Singles, page
<1>7. Shown'
  BY <1>2, <1>3, <1>4, PageAssumption DEF PageInv, Shown, page
<1>8. Follows'
  <2> SUFFICES ASSUME hurries' = 0
               PROVE  /\ \A c, d \in calls' : c = d
                      /\ \A c \in calls' : CallFollows(c)'
                      /\ room' # None /\ configExists'
                           => stored'[room'] # None /\ Covers(heap'[config'], stored'[room'])
    BY DEF Follows
  <2>1. calls' = {k} /\ hurries = 0 /\ calls = {}
    BY <1>1, <1>3
  <2>2. CallFollows(k)'
    BY <1>2, <1>3, <1>4, PageAssumption DEF CallFollows, Writes, page
  <2>3. room # None /\ configExists => stored[room] # None /\ Covers(heap[config], stored[room])
    BY <2>1 DEF PageInv, Follows
  <2> QED
    BY <1>4, <2>1, <2>2, <2>3 DEF page
<1> QED
  BY <1>5, <1>6, <1>7, <1>8 DEF PageInv
LEMMA ServeKeeps ==
  ASSUME PageInv, NEW c \in calls, Serve(c)
  PROVE  PageInv'
<1>1. PICK d : /\ CallOK(d) /\ d.op = c.op /\ d.room = c.room /\ d.served
               /\ Outcome(c, d)
               /\ calls' = (calls \ {c}) \cup {d}
  BY Served DEF PageInv
<1>2. UNCHANGED <<page, hurries>> /\ ~c.served
  BY Served DEF PageInv, Serve, user
<1>3. /\ CallOK(c) /\ c.body \in Configs /\ Single(c.body)
      /\ (c.op # "devices" => c.room \in Rooms)
  BY DEF PageInv, PageTypes, CallOK, Singles
<1>4. config \in Objects /\ heap[config] \in Configs
  BY DEF PageInv, Shown, PageTypes
<1>5. PageTypes'
  <2>1. stored' \in [Rooms -> Configs \cup {None}]
    BY <1>1, <1>3 DEF Outcome, PageInv, PageTypes, Writes
  <2> QED
    BY <1>1, <1>2, <2>1 DEF PageInv, PageTypes, CallOK, page
<1>6. Singles'
  <2>1. \A r \in Rooms : stored'[r] # None => Single(stored'[r])
    BY <1>1, <1>3 DEF Outcome, PageInv, PageTypes, Singles, Writes
  <2>2. Single(d.body)
    BY <1>1, <1>3, EmptyFits DEF Outcome, PageInv, Singles
  <2> QED
    BY <1>1, <1>2, <2>1, <2>2 DEF PageInv, Singles, page
<1>7. Shown'
  <2>1. config # None
    BY DEF PageInv, Shown
  <2>2. (\A e \in calls' : e.op # "config") => \A e \in calls : e.op # "config"
    BY <1>1
  <2> QED
    BY <1>2, <2>1, <2>2 DEF PageInv, Shown, page
<1>8. Follows'
  <2> SUFFICES ASSUME hurries' = 0
               PROVE  /\ \A e, f \in calls' : e = f
                      /\ \A e \in calls' : CallFollows(e)'
                      /\ room' # None /\ configExists' /\ (\A e \in calls' : e.op # "config")
                           => stored'[room'] # None /\ Covers(heap'[config'], stored'[room'])
    BY DEF Follows
  <2>1. hurries = 0 /\ calls = {c} /\ CallFollows(c)
    BY <1>2 DEF PageInv, Follows
  <2>2. calls' = {d}
    BY <1>1, <2>1
  <2>3. room # None /\ c.room = room
    BY <2>1 DEF CallFollows
  <2>4. CASE stored' = stored
    <3>1. CallFollows(d)'
      <4>1. d.op = "config" /\ d.ok => stored[room] = d.body
        BY <1>1, <2>3 DEF Outcome, Writes
      <4>2. d.op = "add" => ~d.ok \/ stored[room] = heap[config]
        <5>1. c.op = "add" => c.body = heap[config]
          BY <1>2, <2>1 DEF CallFollows, Writes
        <5> QED
          BY <1>1, <1>3, <2>3, <2>4, <5>1 DEF Outcome, Writes, PageInv, PageTypes
      <4> QED
        BY <1>1, <1>2, <2>3, <2>4, <4>1, <4>2 DEF CallFollows, Writes, page
    <3>2. configExists /\ d.op # "config" => stored[room] # None /\ Covers(heap[config], stored[room])
      BY <1>1, <2>1, <2>3 DEF PageInv, Follows
    <3> QED
      BY <1>2, <2>2, <2>4, <3>1, <3>2 DEF page
  <2>5. CASE c.op \in Writes /\ stored' = [stored EXCEPT ![c.room] = c.body]
    <3>1. c.body = heap[config] /\ c.room \in Rooms
      BY <1>2, <1>3, <2>1, <2>5 DEF CallFollows, Writes
    <3>2. stored'[room] = heap[config]
      BY <2>3, <2>5, <3>1 DEF PageInv, PageTypes
    <3>3. stored'[room] # None /\ Covers(heap[config], stored'[room])
      BY <1>4, <3>2, CoversItself, PageAssumption
    <3>4. CallFollows(d)'
      BY <1>1, <1>2, <2>3, <2>5, <3>2 DEF CallFollows, Writes, page
    <3> QED
      BY <1>2, <2>2, <3>3, <3>4 DEF page
  <2> QED
    BY <1>1, <2>4, <2>5 DEF Outcome
<1> QED
  BY <1>5, <1>6, <1>7, <1>8 DEF PageInv

LEMMA ConfigArrivesKeeps ==
  ASSUME PageInv, NEW c \in calls, ConfigArrives(c)
  PROVE  PageInv'
<1> DEFINE new == Call("devices", room, Empty)
<1>1. PICK k : /\ CallOK(k) /\ k.op = "devices" /\ k.room = room /\ k.body = Empty
               /\ ~k.served /\ calls' = (calls \ {c}) \cup {k}
  <2>1. calls' = (calls \ {c}) \cup {new}
    BY DEF ConfigArrives, AskDevices
  <2>2. room \in Rooms \cup {None}
    BY DEF PageInv, PageTypes
  <2> QED
    BY <2>1, <2>2, CallMade, EmptyFits DEF Ops
<1>2. /\ deviceList' = None /\ panels' = {}
      /\ UNCHANGED <<stored, room, currentTemplate, uiconfig, threw, hurries>>
      /\ c.op = "config" /\ c.served
  BY DEF ConfigArrives, AskDevices, Answered, user
<1>3. c.body \in Configs /\ Single(c.body) /\ c.ok \in BOOLEAN
  BY DEF PageInv, PageTypes, CallOK, Singles
<1>4. /\ config \in Objects
      /\ \/ ~c.ok /\ ~configExists' /\ configExists' \in BOOLEAN
             /\ UNCHANGED <<config, heap>>
         \/ /\ c.ok /\ configExists' \in BOOLEAN /\ config' \in Objects
            /\ heap' = [heap EXCEPT ![config'] = c.body]
  <2>1. config \in Objects
    BY DEF PageInv, Shown, PageTypes
  <2> QED
    BY <2>1 DEF ConfigArrives, Objects
<1>5. config' \in Objects /\ config' # None
  BY <1>4, PageAssumption
<1>6. PageTypes'
  <2>1. heap' \in [Objects -> Configs] /\ configExists' \in BOOLEAN
    BY <1>3, <1>4 DEF PageInv, PageTypes
  <2>2. IsFiniteSet(panels')
    BY <1>2, FS_EmptySet
  <2> QED
    BY <1>1, <1>2, <1>5, <2>1, <2>2 DEF PageInv, PageTypes, CallOK
<1>7. Singles'
  <2>1. \A o \in Objects : Single(heap'[o])
    BY <1>3, <1>4 DEF PageInv, PageTypes, Singles
  <2> QED
    BY <1>1, <1>2, <2>1, EmptyFits DEF PageInv, Singles
<1>8. Shown'
  BY <1>2, <1>5 DEF Shown
<1>9. Follows'
  <2> SUFFICES ASSUME hurries' = 0
               PROVE  /\ \A e, f \in calls' : e = f
                      /\ \A e \in calls' : CallFollows(e)'
                      /\ room' # None /\ configExists'
                           => stored'[room'] # None /\ Covers(heap'[config'], stored'[room'])
    BY DEF Follows
  <2>1. calls = {c} /\ CallFollows(c)
    BY <1>2 DEF PageInv, Follows
  <2>2. calls' = {k}
    BY <1>1, <2>1
  <2>3. room # None /\ (c.ok => stored[room] = c.body)
    BY <1>2, <2>1 DEF CallFollows
  <2>4. CallFollows(k)'
    BY <1>1, <1>2, <2>3 DEF CallFollows, Writes
  <2>5. configExists' => stored[room] # None /\ Covers(heap'[config'], stored[room])
    <3>1. CASE ~c.ok
      BY <1>4, <3>1
    <3>2. CASE c.ok
      <4>1. heap'[config'] = c.body
        BY <1>4, <3>2 DEF PageInv, PageTypes
      <4> QED
        BY <1>3, <2>3, <3>2, <4>1, CoversItself, PageAssumption
    <3> QED
      BY <3>1, <3>2
  <2> QED
    BY <1>2, <2>2, <2>4, <2>5
<1> QED
  BY <1>6, <1>7, <1>8, <1>9 DEF PageInv

LEMMA DevicesArriveKeeps ==
  ASSUME PageInv, NEW c \in calls, DevicesArrive(c)
  PROVE  PageInv'
<1>1. /\ c.op = "devices" /\ calls' = calls \ {c}
      /\ UNCHANGED <<stored, room, config, configExists, currentTemplate, hurries>>
  BY DEF DevicesArrive, Answered, user
<1>2. /\ Completion \/ UNCHANGED <<deviceList, heap, panels, uiconfig, threw>>
      /\ deviceList' \in Rooms \cup {None}
  <2>1. CASE ~c.ok
    BY <2>1 DEF DevicesArrive, PageInv, PageTypes
  <2>2. CASE c.ok
    BY <2>2, DevicesComplete DEF PageInv
  <2> QED
    BY <2>1, <2>2
<1>3. config \in Objects /\ config # None /\ config' = config
  BY <1>1 DEF PageInv, Shown, PageTypes
<1>4. PageTypes'
  BY <1>1, <1>2, <1>3 DEF PageInv, PageTypes, CallOK, Completion
<1>5. /\ \A o \in Objects : Single(heap'[o])
      /\ Covers(heap'[config], heap[config]) /\ heap'[config] \in Configs
  BY <1>2, <1>3, CoversItself DEF PageInv, PageTypes, Singles, Completion
<1>6. Singles'
  BY <1>1, <1>5 DEF PageInv, Singles
<1>7. (\A e \in calls' : e.op # "config") <=> (\A e \in calls : e.op # "config")
  BY <1>1
<1>8. Shown'
  BY <1>1, <1>2, <1>3, <1>7 DEF PageInv, Shown, Completion
<1>9. Follows'
  <2> SUFFICES ASSUME hurries' = 0
               PROVE  /\ \A e, f \in calls' : e = f
                      /\ \A e \in calls' : CallFollows(e)'
                      /\ room' # None /\ configExists'
                           => stored'[room'] # None /\ Covers(heap'[config'], stored'[room'])
    BY DEF Follows
  <2>1. calls = {c} /\ calls' = {}
    BY <1>1 DEF PageInv, Follows
  <2>2. room # None /\ configExists => stored[room] # None /\ Covers(heap[config], stored[room])
    BY <1>1, <2>1 DEF PageInv, Follows
  <2>3. room # None /\ configExists => Covers(heap'[config], stored[room])
    <3>1. room # None /\ stored[room] # None => stored[room] \in Configs
      BY DEF PageInv, PageTypes
    <3>2. heap[config] \in Configs
      BY <1>3 DEF PageInv, PageTypes
    <3> QED
      BY <1>5, <2>2, <3>1, <3>2, CoversOn
  <2> QED
    BY <1>1, <2>1, <2>2, <2>3
<1> QED
  BY <1>4, <1>6, <1>8, <1>9 DEF PageInv

LEMMA SubmitAnsweredKeeps ==
  ASSUME PageInv, NEW c \in calls, SubmitAnswered(c)
  PROVE  PageInv'
<1>1. /\ c.op \in Writes /\ c.served /\ calls' = calls \ {c}
      /\ UNCHANGED <<stored, room, config, currentTemplate, deviceList, panels,
                     heap, uiconfig, threw, hurries>>
  BY DEF SubmitAnswered, Answered, Writes, user
<1>2. configExists' \in BOOLEAN /\ (configExists' => configExists \/ (c.op = "add" /\ c.ok))
  BY DEF SubmitAnswered
<1>3. PageTypes'
  BY <1>1, <1>2 DEF PageInv, PageTypes, CallOK
<1>4. Singles'
  BY <1>1 DEF PageInv, Singles
<1>5. Shown'
  <2>1. (\A e \in calls' : e.op # "config") <=> (\A e \in calls : e.op # "config")
    BY <1>1 DEF Writes
  <2> QED
    BY <1>1, <2>1 DEF PageInv, Shown
<1>6. Follows'
  <2> SUFFICES ASSUME hurries' = 0
               PROVE  /\ \A e, f \in calls' : e = f
                      /\ \A e \in calls' : CallFollows(e)'
                      /\ room' # None /\ configExists'
                           => stored'[room'] # None /\ Covers(heap'[config'], stored'[room'])
    BY DEF Follows
  <2>1. calls = {c} /\ calls' = {} /\ CallFollows(c)
    BY <1>1 DEF PageInv, Follows
  <2>2. room # None /\ configExists => stored[room] # None /\ Covers(heap[config], stored[room])
    BY <1>1, <2>1 DEF PageInv, Follows, Writes
  <2>3. c.op = "add" /\ c.ok => stored[room] # None /\ Covers(heap[config], stored[room])
    <3>1. heap[config] \in Configs
      BY DEF PageInv, Shown, PageTypes
    <3> QED
      BY <1>1, <2>1, <3>1, CoversItself, PageAssumption DEF CallFollows
  <2> QED
    BY <1>1, <1>2, <2>1, <2>2, <2>3
<1> QED
  BY <1>3, <1>4, <1>5, <1>6 DEF PageInv

-----------------------------------------------------------------------------
(* The theorems.                                                             *)

(* The invariant the others rest on: what the UI configuration page holds in *)
(* every reachable state (uiconfig.component.ts), for any rooms, devices and *)
(* templates, whatever calls fail and whenever their answers come.           *)
THEOREM PageInvariant == Spec => []PageInv
<1>1. PageInv /\ [Next]_vars => PageInv'
  <2> SUFFICES ASSUME PageInv, [Next]_vars PROVE PageInv'
    OBVIOUS
  <2>1. CASE LoadTypes \/ UNCHANGED vars
    BY <2>1, RestKeeps
  <2>2. CASE ChooseBuilding
    BY <2>2, ChooseBuildingKeeps
  <2>3. CASE Submit
    BY <2>3, SubmitKeeps
  <2>4. CASE \E r \in Rooms : ChooseRoom(r)
    BY <2>4, ChooseRoomKeeps
  <2>5. CASE \E t \in Templates : ChooseTemplate(t)
    BY <2>5, ChooseTemplateKeeps
  <2>6. CASE \E c \in calls :
               Serve(c) \/ ConfigArrives(c) \/ DevicesArrive(c) \/ SubmitAnswered(c)
    BY <2>6, ServeKeeps, ConfigArrivesKeeps, DevicesArriveKeeps, SubmitAnsweredKeeps
  <2> QED
    BY <2>1, <2>2, <2>3, <2>4, <2>5, <2>6 DEF Next
<1> QED
  BY <1>1, InitHolds, PTL DEF Spec

(* Late device types leave no processor in the page's lists.                 *)
NoneYet == ~typesLoaded \/ threw => panels = {}

LEMMA NoneYetStep == NoneYet /\ [Next]_vars => NoneYet'
<1> SUFFICES ASSUME NoneYet, [Next]_vars PROVE NoneYet'
  OBVIOUS
<1>1. ASSUME SetIOConfigurations, UNCHANGED typesLoaded PROVE NoneYet'
  BY <1>1 DEF SetIOConfigurations, NoneYet
<1>2. ASSUME UNCHANGED <<panels, typesLoaded, threw>> PROVE NoneYet'
  BY <1>2 DEF NoneYet
<1>3. CASE LoadTypes
  BY <1>3 DEF LoadTypes, NoneYet, page
<1>4. CASE ChooseBuilding \/ Submit \/ UNCHANGED vars
  BY <1>2, <1>4 DEF ChooseBuilding, Submit, page, vars
<1>5. ASSUME NEW r \in Rooms, ChooseRoom(r) PROVE NoneYet'
  BY <1>2, <1>5 DEF ChooseRoom
<1>6. ASSUME NEW t \in Templates, ChooseTemplate(t) PROVE NoneYet'
  <2>1. typesLoaded' = typesLoaded
    BY <1>6 DEF ChooseTemplate
  <2>2. CASE deviceList # None /\ typesLoaded
    BY <1>6, <2>1, <2>2 DEF ChooseTemplate, NoneYet
  <2>3. QED
    BY <1>1, <1>6, <2>1, <2>2 DEF ChooseTemplate
<1>7. ASSUME NEW c \in calls, Serve(c) \/ SubmitAnswered(c) PROVE NoneYet'
  BY <1>2, <1>7 DEF Serve, SubmitAnswered, page
<1>8. ASSUME NEW c \in calls, ConfigArrives(c) PROVE NoneYet'
  BY <1>8 DEF ConfigArrives, AskDevices, NoneYet
<1>9. ASSUME NEW c \in calls, DevicesArrive(c) PROVE NoneYet'
  BY <1>1, <1>2, <1>9 DEF DevicesArrive
<1>10. QED
  BY <1>3, <1>4, <1>5, <1>6, <1>7, <1>8, <1>9 DEF Next

(* Once nothing is due, the configuration on the page lists every input and  *)
(* display of the room if the device types were there when its devices were  *)
(* added, for in whatever order the other answers came the devices were      *)
(* asked for after the configuration (uiconfig.component.ts 107); if they    *)
(* were not, the page offers no processor of the room (144-146).             *)
THEOREM ConfigurationComplete == Spec => []Complete
<1>1. PageInv /\ NoneYet => Complete
  <2> SUFFICES ASSUME PageInv, NoneYet, Quiet, room # None, deviceList = room
               PROVE  IF threw THEN panels = {} ELSE Has(heap[config], room)
    BY DEF Complete, Has
  <2>1. CASE threw
    BY <2>1 DEF NoneYet
  <2>2. CASE ~threw
    BY <2>2 DEF PageInv, Shown, Quiet
  <2>3. QED
    BY <2>1, <2>2
<1>2. Init => NoneYet
  BY DEF Init, NoneYet
<1>3. Spec => []NoneYet
  BY <1>2, NoneYetStep, PTL DEF Spec
<1>4. QED
  BY <1>1, <1>3, PageInvariant, PTL

(* No configuration object lists an input or a display twice, although blank *)
(* and template objects are completed for one room after another             *)
(* (SetIOConfigurations, uiconfig.component.ts 139).                         *)
THEOREM NoDeviceTwice == Spec => []NoDuplicates
<1>1. PageInv => NoDuplicates
  BY DEF PageInv, Singles, Single, NoDuplicates
<1> QED
  BY <1>1, PageInvariant, PTL

(* An update sent by a user who waits for answers takes nothing away that is *)
(* stored (Submit, uiconfig.component.ts 268).                               *)
THEOREM UpdatesLoseNothing == Spec => []NothingLost
<1>1. PageInv => NothingLost
  <2> SUFFICES ASSUME PageInv, NEW c \in calls, c.op = "update", ~c.served, hurries = 0
               PROVE  stored[c.room] # None /\ Covers(c.body, stored[c.room])
    BY DEF NothingLost
  <2>1. /\ room # None /\ c.room = room /\ c.body = heap[config] /\ configExists
        /\ calls = {c}
    BY DEF PageInv, Follows, CallFollows, Writes
  <2> QED
    BY <2>1 DEF PageInv, Follows
<1> QED
  BY <1>1, PageInvariant, PTL
=============================================================================
