# Verification of the configuration database tool

TLA+ models of the tool in this repository, the TLC configurations that check
them on small instances, and proofs that TLAPS checks. Line numbers are those of
the source at the commit this project was written for; `PROJECT.json` gives, for every
definition, the lines it stands for.

## 1. The system

The tool is a Go web server (`server.go`, `handlers/`, `socket/`) and an
Angular application (`db-tool/src/app`). Its users describe buildings, rooms,
devices and UI configurations, which the server keeps in a database that is
not in the repository (`byuoitav/common/db`). The server also passes the events of
the rooms on to browsers over websockets, and keeps a log of what was changed.

| part | source | state | operations |
|---|---|---|---|
| websocket hub | `socket/manager.go` | map of clients; channels broadcast (1000), register, unregister (100) | one goroutine selects over the three channels; fans an event out to every client, or drops the client when its buffer is full |
| connection | `socket/client.go` | websocket, send channel (256) | upgrade and register; a read goroutine that unregisters and closes; a write goroutine that writes events and pings |
| event feeder | `handlers/events.go` | subscription at the messenger (external) | takes the next event and puts it in broadcast; subscribe and unsubscribe a room |
| write handlers | `handlers/{buildings,rooms,devices,uiconfig}.go` | none of their own | add and update a document, add devices in bulk |
| change log | `handlers/changelog.go` | one unlocked `ChangeLog` for all users; `changelog.txt` | log a change, Flush, Write to the file |
| comparison | `FindChanges`, same file | none | lists the differences of two documents |
| counters | `handlers/health.go` | one unlocked `SS` | incremented by the handlers |
| walkthrough page | `walkthrough/` | stepper, two IDs, three exist flags, device list, results | look a room up, edit, choose devices, Finish: four calls chained by callbacks |
| device page | `device/` | a form to add and one to edit: each a device, its ports, the lists ports may name; `IDToUpdate` | choose building, room, device, name and type, wire ports; create, update |
| UI configuration page | `uiconfig/` | one configuration (an object it may share with templates), the room's devices, an exist flag | choose a room or template, load configuration and devices, complete one with the other, submit |
| panels and presets | `panel/` | the panels and presets of that configuration | name a panel's preset, check boxes, switch sharing |
| room builder | `dnd/` | the location, groups of devices, the list of devices to add | type a location, drag types and devices into groups, number them, remove them |
| building and room pages | `building/`, `room/` | a document to add, one to edit, `IDToUpdate`, the list of configurations | choose what to edit, IDs, tags, configuration; create, update |
| test page | `test-ui/`, `socket.service.ts` | the room chosen, the room subscribed to, recent events | subscribe to a room and unsubscribe from the one before, show events, reconnect |
| the rest | `options.go`, `state.go`, `health.go` reads, dialogs, menu, strings | none or constant | reads, presentation |

How they interact: every HTTP request and every websocket runs on goroutines of its own.
The hub and the connections talk only through channels and by closing
them. The handlers share the change log and the counters without a lock. `Write` borrows the
standard logger, which the websocket code also logs through. The pages call the server
through Observables; what comes back is applied to the page by a callback, to
whatever the page holds by then. Other users change the database meanwhile.

What is hard here, and the properties that say it goes right (the full list,
each at its line, is under "hazards" in `PROJECT.json`):

* Hub: two channels served in any order; writers that drain buffers and readers
  that fail in the middle of a fan-out; two places that close a send channel; full
  buffers; goroutines that block on each other's channels. Correct is: no
  panic, no gap in any browser's events, no goroutine left behind, every
  reachable browser served or disconnected.
* Handlers: unlocked reads and writes of shared variables, a Flush between two
  halves of an append, database calls that fail after the change was logged,
  bulk calls that partly succeed. Correct is: what was changed is in the log, once, with
  what it replaced; counters do not claim what did not happen.
* `Write`: overlapping borrowings of a global logger, files that do not open.
  Correct is: the logger never points at a closed file, and ends up where it was.
* `FindChanges`: parts compared by name, by ID or by position. Correct is: the
  lines tell the new document from the old one, and invent nothing.
* UI configuration page: two loads one after the other while the user chooses again,
  one object under several names, answers that are lost. Correct is: the configuration
  shown is complete for its room, and an update takes nothing away that is stored.
* Panels: handlers of boxes that call each other, panels that share a preset or take
  each other's names. Correct is: a display is controlled, shareable or neither,
  and is heard when it should be; preset names stay unique.
* Device page: two forms whose handlers work on both, an ID to update kept apart from the
  device shown, port objects that are shared. Correct is: an update goes to the document
  that is shown, a device is created with its type's ports, wired within its room, and
  what is done in one form does not change what the other shows.
* Room builder: two lists kept by four handlers, numbers taken from the last device. Correct
  is: a device to add is in one group, and its ID is its own.
* Building and room pages: answers that set `IDToUpdate` from the form as it is then,
  configurations that are objects of a list. Correct is: an update goes to the document that is shown,
  with the configuration that was chosen.
* Test page: calls that overtake each other, one subscription for all browsers,
  connections that are lost. Correct is: the server follows the rooms that are shown, and
  nothing is shown twice or out of order.
* Walkthrough: lists that load late or never and go stale, answers that are lost
  after the server did the work, retries, a user who types while a submission
  is in progress. Correct is: nobody else's room is overwritten, a submission does not
  stop half way without a dialog, and success is not claimed wrongly.

## 2. Modules

| module | models | kind |
|---|---|---|
| `EventFeed` | what the hub promises a browser, without channels or goroutines | abstract specification |
| `SocketHub` | hub, connections, feeder; refines `EventFeed` | detailed specification |
| `SocketHubProofs` | its invariant, its safety properties, its refinement | proofs |
| `MCSocketHub` | small instances; names the only state in which everything may stop | TLC |
| `ConfigServer`, `MCConfigServer` | write handlers, change log, counters | specification, TLC |
| `ConfigServerProofs` | its types, what is never listed or counted twice, what is exact one request at a time | proofs |
| `ChangeLogFile`, `MCChangeLogFile` | `Write` and the shared logger | specification, TLC |
| `ChangeDiff`, `MCChangeDiff` | `FindChanges` | specification, TLC |
| `ChangeLogProofs` | the invariant and safety properties of `ChangeLogFile`; what the lines of `ChangeDiff` say | proofs |
| `RoomSetup` | what a submission of the walkthrough promises, without calls, answers or steps | abstract specification |
| `Walkthrough`, `MCWalkthrough` | the walkthrough page beside the server and other users; refines `RoomSetup` | detailed specification, TLC |
| `WalkthroughProofs` | its invariant, its safety properties, its refinement | proofs |
| `UIConfigPage`, `MCUIConfigPage` | the UI configuration page beside the server | specification, TLC |
| `UIConfigPageProofs` | its invariant and safety properties | proofs |
| `DisplayUse` | what the boxes of a panel promise: one choice per display and a switch for its sound | abstract specification |
| `PanelPresets`, `MCPanelPresets` | panels and presets; refines `DisplayUse` | detailed specification, TLC |
| `PanelPresetsProofs` | its invariant, its safety properties, its refinement | proofs |
| `DevicePage` | the device page beside the server | specification |
| `RoomBuilder` | the drag and drop room builder | specification |
| `FormPages` | the building page and the room page beside the server | specification |
| `RoomEvents` | subscriptions, the test page and its socket; extends `EventFeed` | specification |
| `RoomEventsProofs` | its invariants, types, `RoomFollowed` and `ShownOfRoom` | proofs |
| `PagesProofs` | the invariants and safety properties of `FormPages`, `DevicePage` and `RoomBuilder`; the types of `MCPages` | proofs |
| `MCPages` | the four specifications above as pages of one application | composition, TLC |

### SocketHub

Channels are sequences with the capacity `make` gave them, capacities being
constants; a blocked send is a disabled action. One element of `Client` is one
connection. `run()` is the actions `HubRegister`, `HubUnregister`, `HubTake` and,
inside the loop over `h.clients`, one `HubFanOut` per client in any order (Go
iterates a map in any order, and the writers drain buffers during the loop).
`clients`, `register`, `unregister`, `broadcast`, `send` and `closed` are the
variables of the code; `reader` and `writer` are where the two goroutines are;
`msg` and `todo` are the locals of the loop. `panicked` records a send on, or a
second close of, a closed channel. `from` and `got` are history: what each
browser has been shown. Events are numbered.

`ImplementsFeed` maps the hub to `EventFeed`: the feed's log is what the hub has
taken out of broadcast, a client's start is the event it was registered at, it has seen
what is on its wire, and it has left when its link is no longer open. Joining
maps to `HubRegister`, showing to `WriteEvent`; everything about channels and
goroutines is a stutter.

### ConfigServer

A handler is the list of steps it has still to take (`plan`): read the document,
count and list the change, call the database, increment the counter. A step
on a shared variable is two actions, `Load` and `Store`, because
`cl.ChangeCount++` and `x = append(x, y)` are a read and a write with no lock
around them. The three words of a slice are taken to be written together; the
Go memory model promises less, and what else may happen is not modelled. A
database call may always fail. `done` and `wrote` are history: what finished
requests really changed. The handlers' checks of the path against the body are
`Accepts`, per kind, as the code has them.

### ChangeLogFile

One element of `Call` is one call of `Write`, statement by statement: open,
`log.SetOutput(f)`, `log.Printf`, `log.SetOutput(os.Stderr)`, close. Opening may
fail, which the code notes and goes on from. The logger's own mutex makes each
of these atomic, and nothing makes the five so.

### ChangeDiff

Documents are records with the fields the tool stores and shows a user, those `FindChanges`
does not compare (`NotCompared`, `PortNotCompared`) among them. A list it only asks
for membership is a set (order and repetition change nothing there); a list
it searches by name or indexes is a sequence. A line of the log is a record of
what its sentence names. One update is one pair of documents.

### Walkthrough

Documents are their IDs. The stepper is `step` and `reached`: a linear stepper
lets the user go to a step whose predecessors are complete, which for the first
one means `!roomExists`. Each callback (`AfterBuilding`, `AfterRoom`,
`AfterDevices`, `AfterConfig`) pushes its results, sets the flags as the code
does and sends the next call, from the page as it is then. The server accepts
or refuses as the handlers and the database do; it may carry a call out and its answer be
lost, in which case the page is told of an error. `Finish` stays enabled, so
submissions may overlap. `Untouched` is what the user leaves alone while a submission is in progress:
going from step to step, the location, the devices.

`ImplementsRoomSetup` maps the page to `RoomSetup`: the database and the documents of the page are the same,
a submission runs from Finish to its dialog, and nothing is said before the dialog opens. A call the server
carries out maps to writing one part of what is described, `AfterConfig` to `Tell`, what the user
types to `Describe`; stepper, lists, flags, answers and results map to nothing.

### UIConfigPage

`config`, the `uiconfig` of a template and `blankConfig` are references, and the
code makes them one object (`template.uiconfig = this.config`, line 201), so the
configurations are objects in `heap`. Of one the model keeps the number of panels
and how often each device is among its inputs and outputs, which is all that
completing it with a room's devices changes. A call is sent, carried out, and answered, three actions,
and the answers come in any order; a call the server carries out may be answered
with an error. `SetIOConfigurations` may throw half way (no device types
yet), which `threw` remembers. `hurries` counts the user's acts while an
answer is due: a bound on the impatience explored, and zero for a user who waits.

### PanelPresets

A panel component holds no preset: it looks its preset up by the panel's name at
every event, so two panels may edit one. The lists of displays, shareable displays and
audible displays are sorted and asked for membership: sets. Each box is an action, and its
handler is an operator on the preset, which calls the handlers of other boxes as
the code does. `ImplementsDisplayUse` maps the three lists to
`use` (off, controlled, shared) and `heard`; sharing switches, inputs and panel names are stutters.

### DevicePage

The page has an add form and an edit form, side by side, and the state of each is
the fields of `DeviceComponent`. `UpdateID` and `DeviceTypeChange` work on both
devices whichever form the event came from, so they are operators on both and
the actions that call them (`NameToAdd`, `NameToEdit`, `ChooseAddType`, `ChooseEditType`) pass
both. `editDevice` is an entry of `editDeviceList` (chosen by `EditDeviceChanges`)
or a device of its own (`blank`); what is edited is edited in the list. A
port is an object: `wire` is the heap, keyed by owner and port ID, because
`UpdateMissingPorts` and `DeviceTypeChange` hand the port objects of a type to the
edited device, while the add form makes its own. `IDToUpdate` is set when a
device is chosen and never cleared, as in the code. Where a handler throws (types not
loaded, a listed device without a type, a type without default ports, `IsValidSource` on a device
that is not listed) the action ends where the code does. `sent` and
`carried` are history: what was submitted, and which updates the server carried out.

### RoomBuilder

A device is a number; a group's devices are a bag, since the code sorts the list after
every change and only asks whether a device is in it. Dropping a device on a
group runs two handlers, `AddDeviceToGroup` of the zone and `RemoveFromGroup` of the group
it came from: `Moved` runs them in that order, on one group when it is dropped on its
own. `devicesToAdd` keeps its order, since `AssignDeviceNumber` continues from the last
match; `NotAfter` compares, as `sortAlphaNum` does, the number that all digits of an ID make, put
together as text is (`Shift`); `Without` leaves it in any sorted order, so devices with equal IDs may come either way. `ValidateLocation` and the numbering use what the code uses: lists that may not
have arrived, a `newRoom` that never becomes true again, names that include each other.

### FormPages

`formPage` says which of the two pages is open; their handlers are alike and where they differ the
actions say so. The edited document is one of the list until the list is replaced
(`inList`), and afterwards stays on the form. Configurations are
objects: entries of `configs`, which several rooms may hold and `UpdateConfiguration`
renames, or a room's own. `requests` holds the lists asked for and the updates under way;
the answer of an update sets `IDToUpdate` from the form as it is then.

### RoomEvents

It extends `EventFeed` and is written on top of it: publishing, joining, leaving and showing are the
feed's actions, conjoined with what the page and the messenger do. `SocketHub` is proved
to implement that feed, so what holds here of any feed holds of the hub.
A client of the feed is one connection, `conn[b]` is the connection browser `b` has
now. `EventComes` is the messenger, a library: it receives events of the rooms it is subscribed to
(that a subscription has effect when the library's call returns is assumed of it, as the handlers do). Between
that and `WriteEventsToSocket` an event waits in the queues of `server.go:19` and
`manager.go:33`, taken as one, and what is written is not asked for its room. `InitEvents` begins a visit
with any rooms subscribed to, as earlier visits may have left them.
A call is sent, served and answered in three steps, in any order with others, or
fails, served or not. `troubled` is history: a choice made before the calls of the one
before were answered, the same room chosen again, or a call that failed.

### MCPages

The router shows one page at a time and makes it anew on every visit, so `open` is chosen once and only
the steps of that page are taken. The four specifications share no variable; they meet in the
server, which is in each as far as its page needs it.

## 3. What is checked

| run | question | bounds | result |
|---|---|---|---|
| `hub_safety` | `NoPanic`, `NoGap`, `NothingSkipped`, the inductive invariant, the refinement; deadlock | 2 connections, 3 events, capacity 1 everywhere | hold |
| `hub_live` | `GoroutinesEnd`, `Delivered`, `DropEndsConnection` | 2 connections, 2 events, capacity 1 everywhere | hold |
| `server_serial` | `LogIsTotal`, `CountersTell` with one request at a time | two documents of each kind, 2 requests, bodies with another ID or none, bulk creates of which some fail | hold |
| `server_race` | `LoggedOnce`, `CountersNeverOver` with two at a time | devices, 3 requests, path and body agree | hold |
| `server_race_loss` | `LogIsTotal` with two at a time | devices | violated |
| `file_logger` | `NeverOnClosed`, `EndsOnStderr`, `AloneAppends` | 3 calls, websocket lines | hold |
| `diff` | `FieldsTold` (all fields but those never compared), `PartsTold` (ports, presets, panels, inputs and outputs), `NothingInvented` | every pair of documents of a kind, two values a field, up to two named parts | hold |
| `walk_safe` | `FlagsTrue`, `NotOverwritten`, `NeverStuck`, the refinement of `RoomSetup` | 2 rooms, 1 building, Finish twice, a user who waits | hold |
| `ui_page` | `Complete`, `NoDuplicates`, `NothingLost` | 2 rooms, 2 templates, 3 choices of a room, 2 submits, 1 act while an answer is due, lists of up to 2 copies | hold |
| `presets` | `NamesUnique`, `NotBoth`, the refinement | 2 panels, 2 names, 2 displays, 1 input; symmetry | hold |
| `pages` | `OwnDocument`, `AddressFollows`, `CreatedInRoom`, `AddApart` of the device page; `OneGroup`, `IDsUnique` of the builder; `UpdatesOwnDocument` of the forms; `RoomFollowed`, `ShownOfRoom` of the test page | see below | hold |
| `room_config` | `ConfigurationAsChosen` | as `pages`, 6 acts of the user | violated |

Why the bounds are enough. With capacity 1, one connection and three events already
fill every channel, overflow a client and leave an event behind;
two connections make them contend for the request channels and let the hub be
between them in a fan-out. `hub_live` has both connections too, so that one reader's unregister
fills the channel the other reader, or a handler's register, then blocks on, while the hub is in a fan-out; two events are enough for a buffer of one to overflow.
`HubSafety.cfg` checks deadlock with
`Finished` as the only legal stop, so that a goroutine blocked on a channel for
ever would be found there, without fairness. Two unlocked increments or appends race as soon as there are
two workers, and the third request meets what they left; a clear between them
is one of the kinds of request. A document pair with two values per field shows
each kind of difference, and two named parts are enough to swap, to add and to lose one.
`MCConfigServer` starts with the same documents in every kind: a
request touches one kind, so other starts only rename. In `server_race` no body has
another ID than its path, which changes what is logged and not how often; `server_serial` has such
bodies, and a second document for them to name; two requests are enough for one to find, or to change, what
the other left.
On the UI configuration page, three choices let a user leave a room and come back
while its answers are due, two templates (one without panels) let the blank
object, a template and a loaded configuration become one, and a list with two copies of
a device is already wrong. Two panels and two names share a preset, have one each, or swap.
`pages` checks one visit to each of five pages (the building and the room page are one
specification). Device page: 2 buildings, one without rooms, 2 rooms, a type with two ports and one with none, 7 acts and
1 hurried choice: choose a building, a room, a device, a type, wire, submit is six, and one more lets a user
change building while a list is due. Builder: 3
devices, 2 groups, 3 types of which one is a Pi, a location that exists and one that does not: three
devices are enough to delete one in the middle and number a third, two groups to drag between and to
delete one; (4
devices are 1.4 million states and hold as well.) The case `IDsUnique` leaves out, a base name
that includes another's, has repeated IDs from 4 devices on. Forms: 2 buildings, 2 rooms in one and 1 in the
other, 3 configurations, 6 acts: choose a building, a room, change it, submit, choose
another, submit is six. Test page: 2 browsers, 2 rooms, 3 choices, 2 connections, 2 events. Its
properties say nothing of a user who hurries or of failed calls, and the constraint `Untroubled` does not
explore such states further; it constrains no other page.
In the walkthrough a second room is what a user may change to, a second Finish
is a retry, and the stepper has its five steps. The user of the run leaves the
location and the devices alone and stays on the last step during a submission; the theorems ask nothing of the steps.

`CHECK_DEADLOCK FALSE` stands where the system may stop: a page whose user does
nothing more, an update that is over, and, in `hub_live`, a server that has no more events.

### Fairness

Only `hub_live` uses any (`FairSpec` in `SocketHub`). The hub goroutine never
blocks inside the fan-out, so each of its steps is weakly fair; `select` picks uniformly among ready
cases, so a case ready again and again is taken: strong fairness for the three
cases. A connection sends one request of each kind, so weak fairness is enough for a register or
unregister that is blocked: the channel is full only as long as others wait in it. A read on a lost
connection fails by the 5 s read deadline (`pongWait`) and a ping on a closed one fails
at the next tick. Nothing is assumed of browsers or of the
messenger. The page model needs no fairness: `NeverStuck` says that a
submission in progress can always take a step, and it has at most eight.

### Where the code does not do what its comments say

Shown by runs:

* `server_race_loss`: two appends that start from the same slice leave one entry.
  The log calls itself a total representation (`changelog.go:34`).
* `room_config`: `UpdateConfiguration` assigns where it means to compare
  (`room.component.ts:86`, `89`): each entry of the list in turn is put into both
  rooms, so both are left with the last entry, whatever was chosen.

Met on the way, in no run of their own. Register and unregister are two channels, so a connection that
fails at once may be unregistered (a no-op) before it is registered, and the dead
client stays in `h.clients` until its buffer of 256 overflows (`manager.go:111`).
Callbacks of the walkthrough read the page as it is when the answer arrives: a user
who goes back during a submission and types a room that exists has that room
updated (`walkthrough.component.ts:268`), which is why `NotOverwritten` is about a user who leaves the location alone.
On the device page: a device chosen before the types have arrived loses its type (`device.component.ts:103`);
giving the edited device a type wires the type's own ports (283); `IsValidSource` throws for a device
that is not listed, so one to be created can only be wired by default (452); default wiring takes
names and numbers by substring (413) and throws for types without defaults (410).
A document cannot be renamed, because the server refuses an update whose body names no document.
Choosing a building for the room to add asks for the rooms of the one being edited (`room.component.ts:110`).
In the builder, IDs repeat when one base name includes another (`dnd.component.ts:142`), a type
dropped before a location is typed leaves an empty group (95), devices keep the IDs of the
location they were dropped in (95), and `newRoom` is never true again (60). On the test page, two browsers that
follow one room share its subscription and the first to leave ends it for both (`events.go:46`); every
browser gets the events of all subscribed rooms; the page never unsubscribes when it is left
(`test-ui.component.ts` has no `ngOnDestroy`), so rooms of earlier visits stay subscribed and their events are shown at the next; events
are written without asking whether their room is still subscribed to (`events.go:54`), so
one of a room left that waited in a queue is shown after the unsubscribe was answered and the list cleared, which is
why `ShownOfRoom` is about events received since; a failed call, or a room chosen again, may leave a
room subscribed or the room shown unsubscribed (`test-ui.component.ts:81`).
Besides: `GetNewChange`
increments the count that `AddBulkChanges` adds to again (`changelog.go:147`,
`182`); `WriteChanges` does not clear the log; an
entry stays in the log when the database then refuses the change;
`new.Panels[i]` is out of range when a panel was removed (`changelog.go:436`);
the counters of UI configurations are never incremented (`health.go:48`);
only an empty body ID is refused by the update handlers, although the message
asks for a match (`buildings.go:144`); `configExists` is never
reset, so a second room described on the same page gets no configuration
(`walkthrough.component.ts:353`); `WriteTempChanges` is never
subscribed to, so it sends nothing (`api.service.ts:127`). Presets, panels and ports that come or go leave
no line (`changelog.go:366`, `435`, `474`), nor does a change of a UI configuration's audio
configuration (`objects.ts:172`) or of a port's description or tags (`objects.ts:153`), which are stored and never compared, although "each attribute" is
(`changelog.go:185`); `NotCompared` and `PortNotCompared` name these, and `FieldsTold` is about all other fields.
When one update has a path and a body that name different documents, the entry compares the document of the path
(`devices.go:161`, `175`); `LogIsTotal` asks of it only that it be there. Of two updates of one document at a time the later entry
may hold old contents that were already replaced (`devices.go:168`). The device list of the walkthrough keeps the IDs of the room it
was made for when the room changes (`walkthrough.component.ts:187`). What one
room's devices add to a template stays in it for the next room, and microphones are
looked for among the inputs and pushed to the outputs, each time anew
(`uiconfig.component.ts:193`, `201`). When the device types arrive after a room's devices, completing its
configuration throws (144) and is not tried again: the room's devices are not in its lists and no processor is offered
for a panel, until a room or a template is chosen again; `Complete` has this as its other case. The answer for a room left meanwhile is shown
for the room there is now (line 103), and an update writes it there, which is why
`NothingLost` is about a user who waits. The box of a microphone passes
the whole object where its handler wants a name (`panel.component.html:123`).
Switching sharing off leaves the shareable displays listed, though their boxes
are gone (`panel.component.ts:171`).

## 4. What is proved

A theorem holds for every value of the constants its assumption allows: any number of
clients, events, calls, requests, rooms, documents or acts of a user, and every bound. The
assumptions are the named `ASSUME`s of the modules, which TLC evaluates in each run; a
hypothesis that is more than that is said below. Every safety property of a passing run is
proved but one, which says what can be done next, and so are the action property and the refinements; what is not
proved is at the end of the section.

**`SocketHubProofs`**, under `CapAssumption` (capacities are positive
naturals):

* `TypeCorrect`, `Invariance`: `Spec => []HubInv`.
* `PanicFree`, `GapFree`, `Skipless`: `NoPanic`, `NoGap`, `NothingSkipped`.
* `HubImplementsFeed`: `Spec => ImplementsFeed`.

`NoGap` alone is not inductive: that the next event put on a wire is the right
one depends on what is in the buffer, and that on what the hub is doing. `HubInv`
adds `BufferContinues` (on an open link the buffer goes on where the wire stops, and
a registered client lacks at most the event now being fanned out), `EventsInOrder`
(broadcast holds the numbers that follow), `RegisteredIsOpen` (a registered client's
send channel is not closed, which is why the hub cannot panic: both places that
close it take the client out of the map in the same step), and `QueuedOnce` and
`NotJoinedYet` (a client asks to register once, and has no part in anything before that is served,
so that registering cannot restart its count). The
proof has one step per action and one per part of `HubInv` the action can disturb. The
refinement maps each action to a feed step or to a stutter, using the invariant for
the two actions that are feed steps.

**`ConfigServerProofs`**, under `ServerAssumption` (the kinds and operations there are; no ID and no
document are different from all others), for any workers, documents and requests:

* `HandlersFollowTheirSteps`: `Spec => []HandlerInv`; `ServerTypeOK`.
* `LogHasNoRepeats`: `LoggedOnce`; `CountersNeverExceed`: `CountersNeverOver`.
* `CountersExactInSeries`: `CountersTell`, and `LogIsTotalInSeries`: `LogIsTotal`, if there is one worker.

The plan of a handler is its last steps (`PlanOf`), and it holds a value only between the
read and the write of one (`HeldOf`). An entry is listed twice only if a list someone has
read, and will write back, still lacks an entry that is being added: so `ListsInv` speaks of
every list there is, in the log or held, and says that no handler that still owes an entry has it in one.
Counters: `CountersInv` adds to a counter, also to one that is held, the increments that finished
calls of the database have still to bring, and none of these sums exceeds what was written. One at a
time both bounds are exact (`ExactInv`), and the document an update was compared with is still there
when the database is called (`TotalOf`). Without the hypothesis the run
`server_race_loss` shows an entry lost. An update whose path and body name different documents
(`devices.go:175`) has its entry too, but about another document: the exactness of an entry is claimed of the others (`Told`).

**`ChangeLogProofs`**, of `ChangeLogFile` under `FileAssumption` (the authors of lines are
different things):

* `LoggerInvariant`: `Spec => []LoggerInv`; `LoggerNeverOnClosed`,
  `LoggerEndsOnStderr`, `AloneWriteAppends` follow from it.

`DestOfRunning` is the strengthening: the logger points at a call's handle only while that call
is between its two `SetOutput`s, before its `Close`. Overlapping calls
may take the logger away from each other, which loses lines to stderr, but none
can leave it behind on a closed file.

And of `ChangeDiff`, under `DocsAssumption` (the fields of each kind of document; ports have their own IDs,
panels, presets, inputs and outputs their own names), for documents with any number of parts:

* `FieldsAreTold`, `PartsAreTold`, `NothingIsInvented`: `DiffSpec` implies that `FieldsTold`,
  `PartsTold` and `NothingInvented` hold always.

The lines of `FindChanges` are sorted out by what they are about (`ConfigLines`, `PortLine`): those about one
thing are exactly what comparing it with what it became gives, because nothing else has its name.
`ItemTold` then says once, for documents, ports, panels, presets and icons alike, that such lines read on top
of the old texts and lists give the new ones. `FieldsTold` ranges over all fields of a document and of
a port but `NotCompared` and `PortNotCompared`; of those nothing could be proved, since no line is about them. An element with a name of its own is the first of that name
(`FirstNamedIs`), so reordering tells nothing. With two parts of one name the theorems are false, as is
the code's comparison: it looks at the first only.

**`WalkthroughProofs`**, under `WalkAssumption` (undefined is neither a room nor a building). What a
user must not do during a submission is a hypothesis of each theorem; none asks that the user stay on a step.

* For a user who leaves the location alone, `WalkInvariant`: `Spec => []WalkInv`; `FlagsAreTrue` and
  `NothingOverwritten` follow.
* For one who leaves the devices alone as well, `WalkthroughKeepsPromise`: `Spec => ImplementsRoomSetup`, and
  `SuccessDialogIsReal`, what of that promise is about the dialog, said of the page's own variables.

Callbacks read the page's fields when the answer comes, so `WalkInv` says that a call under way is about
what is on the page (`CallIsOfPage`), that an update has the ID of a room this page has made (`UpdatesMade`), that
a success still on its way and results without an error are true (`SuccessTrue`, `ResultsTrue`), and that a room
that exists and is not this page's keeps the user before the third step with no submission under way (`KeptOut`).
These are also what the refinement rests on: an accepted call writes what is described because its body is
what is on the page, and may update because the room is the page's own. A user who changes the
location meanwhile makes `NotOverwritten` false, as section 3 tells.

**`UIConfigPageProofs`**, under `PageAssumption` (no configuration and no room are different from all others),
for any rooms, devices and templates:

* `PageInvariant`: `Spec => []PageInv`; `ConfigurationComplete`, `NoDeviceTwice`, `UpdatesLoseNothing`.

`ConfigurationComplete` has no hypothesis on the order of answers: where the types came too late it says
what the page is left with instead, and that rests on `NoneYet`: no processor is offered before the types are there, nor after a completion that threw.
Configurations are shared objects, so `Singles` (no input or display twice) is about every one of them, stored or
in a call too. `Shown` makes the configuration of the page complete for the devices in its lists once
none is asked for. `Follows`, for a user who waits, says there is one call, of the room shown, what it carries is
on the page, and what is on the page covers what is stored, which an update must not lose.

**`PanelPresetsProofs`**, under `PresetAssumption` (a bound is a natural number), for any panels,
names, displays and inputs:

* `PresetInvariant`: `Spec => []PresetInv`; `PresetNamesUnique`, `DisplaysApart` follow.
* `PresetTypeOK`: `Spec => []TypeOK`; `PanelsImplementUse`: `Spec => ImplementsDisplayUse`.

`PresetInv` is `TypeOK`, `NamesUnique` and `NotBoth` together. The lemmas about each
handler say which lists it changes; an event on a box then changes one preset, the last of
its name, which `NamesUnique` makes the only one, so that the refinement's look-up by
name finds the preset that was edited. Under that each box maps to one of `Control`,
`Leave`, `Hear` or a stutter, and naming a panel to `AddName` or a stutter. `NotBoth` is what keeps `use`
from having to choose between two lists.

**`RoomEventsProofs`**, under `EventsAssumption` (undefined is neither a room nor a connection), for any browsers, rooms and
connections and any number of choices:

* `FollowInvariant`: `EventsSpec => []FollowInv`; `RoomIsFollowed`: `EventsSpec => []RoomFollowed`.

`RoomFollowed` speaks of a browser with no call pending, so the invariant says what pending calls
stand for. While choices wait, no call fails and no two browsers choose one room: a subscribe under way is
for the room chosen last and an unsubscribe for another one the browser chose (`CallsForLast`); without a
subscribe under way `oldSub` is the last room (`OldIsLast`), which is why the next change leaves the right
one; the last room is subscribed to or a subscribe is unserved (`LastFollowed`); any other chosen room still
subscribed to has an unserved unsubscribe (`OthersLeft`). That chosen rooms are apart keeps a call of one browser
from disturbing the rooms of another, and as `chose` only grows and `troubled` stays, a step never makes
either hypothesis true again.

* `EventsShownAreOfRoom`: `EventsSpec => []ShownOfRoom`, from `FollowInv` and `ShownInv`; `EventsTypesCorrect`, the
  types, from both.

`ShownInv` follows an event from the messenger to the page: a connection is somewhere in the events published
(`ReachInv`), a browser was shown events in order up to where its connection is (`ShownInOrder`), and of the rooms a browser
chose, the events received since its last answered call are of the last one only (`SinceSettled`), because by `OthersLeft` no other is
subscribed to then. Nothing is assumed of what is subscribed to at first, nor of how long events wait.

**`PagesProofs`**, of three pages, each on its own, and of the types of all four together.

* `FormPages` under `FormAssumption` (IDs typed to rename are nobody's): `FormsUpdateOwnDocument`, the
  property `UpdatesOwnDocument`. Answers set `IDToUpdate` from the form as it is then; `FormInv` says it is the ID
  the document shown was loaded from, or one nobody has, and that documents of the form and of the list alike
  have their own configuration until one is chosen.
* `DevicePage` under `DeviceAssumption` (no device and no room are different from all others, new names are
  nobody's): `DevicesUpdateOwnDocument`, `AddressesFollowIDs`, `DevicesCreatedInRoom` and the action property
  `AddFormApart`. `DeviceInv` has three parts that always hold: the device to add has ports of its own, those
  of its type (`AddForm`, `Heap`), and a list still due is not the one the edit form has (`ListsDue`). The other
  parts are for a user who lets lists arrive: a list due is that of the room of its form (`DueForRoom`), and what
  is listed, shown or wired is of that room (`AddListOfRoom`, `EditForm`, `WiresInRoom`, `Documents`).
* `RoomBuilder` under `BuilderAssumption` (a base name includes itself), for any number of devices:
  `DevicesInOneGroup`, `BuilderIDsUnique`. `Held` says of the groups what `OneGroup` says of a device,
  whichever devices there are, so that adding, moving and deleting are lemmas of their own. `IDsUnique` rests on order: of
  two devices with a base name no other includes the later has the higher number (`InOrder`). Sorting keeps that
  in one room because IDs differ in their numbers only, and a greater number never has fewer digits
(`ShiftGrows`, by the least counterexample), so that 10 comes after 9; so the next number, one more than that of the last
  device, is above all of them (`NumberIs`). The greatest index is found by well-foundedness of the naturals (`MaxIs`).
* `MCPages` under all these assumptions, and that the ports stored at first name devices there can be:
  `PagesTypesCorrect`, `PagesSpec => []PagesTypeOK`. A behaviour of the application is one of each page
  (`PagesAreThePages`), so each page has its types on its own. They are not inductive where objects are shared: a
  document on a form must be the entry it was chosen from (`EditIsListed`), which needs the list of
  buildings to arrive only once (`BuildingsOnce`); the edited device is an entry of its list, so nothing may be
  chosen while a list is due (`ChosenThere`); and a port names only what the page offered when it was wired
  (`OffersTyped`, `WiresTyped`).

Only model-checked: what is live in the hub (`GoroutinesEnd`, `Delivered`, `DropEndsConnection`: there
are no rules for fairness here), the walkthrough's `NeverStuck` (`ENABLED`), and the two violations.

## 5. Not modelled

The database, the authorisation library, the messenger and Angular's stepper are
external: they appear as what the code needs of them. `server.go` sets `Dev`, so
role checks are skipped. Reads of documents, options, icons and the state proxy hold no state.
Wording, timestamps and layout are left out, and so are `vendor/`, builds and deployment.
Event contents are numbers: nothing in the hub looks into them. Of a UI configuration the
icons, paths, API hosts and the boxes of microphones are left out, and so is the UI
configuration page's other use, as a step of the walkthrough. Of the device page, the building page and the room page, what only fills a field is
left out (descriptions, designations, display names, tags of devices, roles chosen by hand, addresses typed by hand and
the resolved address), and so is their use inside the walkthrough (`ngOnChanges`). Of the
test page `GetState` and `SetState` are left out: they show an answer.

## 6. Plan

In this order:

1. Done: `SocketHub` with `EventFeed`, `ConfigServer`, `ChangeLogFile`,
   `Walkthrough`, `ChangeDiff`, `UIConfigPage`, `PanelPresets` with `DisplayUse`,
   `DevicePage`, `RoomBuilder`, `FormPages`, `RoomEvents` on `EventFeed`, and the proofs of section 4.
2. Proofs: weaker hypotheses where a theorem needs one.
3. The pages as steps of the walkthrough (`ngOnChanges`), with the objects they share.

New questions take the place of the runs that only show a known disagreement, which
are then described under section 3.
