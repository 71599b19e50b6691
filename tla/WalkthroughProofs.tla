-------------------------- MODULE WalkthroughProofs --------------------------
(* Proofs about the walkthrough page for any rooms, any buildings and any    *)
(* number of presses of Finish, by a user who leaves the location alone      *)
(* while a submission is in progress: the flags that choose between adding   *)
(* and updating are true to the database and no room of others is updated.   *)
(* If the devices are left alone too, a success dialog is true and the page  *)
(* implements RoomSetup.  Walking about the steps does no harm.              *)
EXTENDS Walkthrough, TLAPS

DocIds == RoomIds \cup BldgIds
CallMade == [op : {"add", "update"}, path : DocIds, body : DocIds]
              \cup [op : {"add"}, body : SUBSET RoomIds] \cup {NoCall}
AnswerMade == [arrived : BOOLEAN, ok : SUBSET DocIds, failed : SUBSET DocIds]

WalkTypes ==
  /\ buildingList \subseteq buildings /\ allRoomList \subseteq rooms
  /\ step \in 0..4
  /\ locBuilding \in BldgIds /\ locRoom \in RoomIds
  /\ BuildingIDToUpdate \in BldgIds /\ RoomIDToUpdate \in RoomIds
  /\ fullRoomDeviceList \subseteq RoomIds
  /\ rooms \subseteq Rooms /\ buildings \subseteq Buildings
  /\ at \in [Submissions -> Calls \cup {"idle", "shown", "closed"}]
  /\ call \in [Submissions -> CallMade]
  /\ answer \in [Submissions -> AnswerMade]
  /\ results \in [Submissions -> SUBSET BOOLEAN]

(* A room that exists, and that this page has not created, keeps the user    *)
(* before the third step, where there is no Finish.                          *)
KeptOut ==
  roomExists => \/ locRoom \in made
                \/ step <= 1 /\ \A s \in Submissions : ~InProgress(s)

(* The call of a submission in progress is about what is on the page.        *)
CallIsOfPage(s) ==
  /\ InProgress(s) => call[s].op \in {"add", "update"}
  /\ at[s] = "building" => call[s].body = locBuilding
  /\ at[s] = "room"     => call[s].body = locRoom
  /\ at[s] = "devices"  => call[s].body \subseteq RoomIds
  /\ at[s] = "devices" /\ "devices" \in Untouched => call[s].body = fullRoomDeviceList
  /\ at[s] = "config"   => call[s].body = locRoom

(* A room is updated at the ID on the page, under which the page created it. *)
UpdatesMade(s) ==
  at[s] = "room" /\ call[s].op = "update" => call[s].path = locRoom /\ locRoom \in made

(* A success on its way back is true.                                        *)
SuccessTrue(s) ==
  answer[s].arrived /\ answer[s].failed = {} =>
    /\ at[s] = "building" => locBuilding \in buildings
    /\ at[s] = "room"     => locRoom \in rooms
    /\ at[s] = "room" /\ call[s].op = "add" => locRoom \in made
    /\ at[s] = "devices"  => call[s].body \subseteq devices
    /\ at[s] = "config"   => locRoom \in configs /\ answer[s].ok # {}

(* So are the results that have no error among them.                         *)
ResultsTrue(s) ==
  FALSE \notin results[s] =>
    /\ at[s] \in {"room", "devices", "config"} => locBuilding \in buildings
    /\ at[s] \in {"devices", "config"} => locRoom \in rooms
    /\ at[s] = "config" /\ "devices" \in Untouched => fullRoomDeviceList \subseteq devices

SubmissionTrue(s) ==
  CallIsOfPage(s) /\ UpdatesMade(s) /\ SuccessTrue(s) /\ ResultsTrue(s)

WalkInv ==
  /\ WalkTypes /\ FlagsTrue /\ NotOverwritten /\ KeptOut
  /\ \A s \in Submissions : SubmissionTrue(s)

-----------------------------------------------------------------------------
(* What stays on the page while a submission is in progress.                 *)
PageKept ==
  /\ locBuilding' = locBuilding /\ locRoom' = locRoom
  /\ "devices" \in Untouched => fullRoomDeviceList' = fullRoomDeviceList

(* The database, and what this page has created, only grow.                  *)
OnlyGrows ==
  /\ rooms \subseteq rooms' /\ buildings \subseteq buildings'
  /\ devices \subseteq devices' /\ configs \subseteq configs' /\ made \subseteq made'

SubKept(s) ==
  /\ at'[s] = at[s] /\ call'[s] = call[s]
  /\ answer'[s] = answer[s] /\ results'[s] = results[s]

LEMMA OtherSubmissions ==
  ASSUME NEW s \in Submissions, SubmissionTrue(s), PageKept, OnlyGrows, SubKept(s)
  PROVE  SubmissionTrue(s)'
<1>1. CallIsOfPage(s)' /\ UpdatesMade(s)'
  BY DEF SubmissionTrue, CallIsOfPage, UpdatesMade, InProgress, PageKept, OnlyGrows, SubKept
<1>2. SuccessTrue(s)'
  BY DEF SubmissionTrue, SuccessTrue, PageKept, OnlyGrows, SubKept
<1>3. ResultsTrue(s)'
  BY DEF SubmissionTrue, ResultsTrue, PageKept, OnlyGrows, SubKept
<1>4. QED
  BY <1>1, <1>2, <1>3 DEF SubmissionTrue

(* A submission that waits for nothing.                                      *)
LEMMA QuietSubmission ==
  ASSUME NEW s \in Submissions, at'[s] \notin Calls
  PROVE  SubmissionTrue(s)'
  BY DEF SubmissionTrue, CallIsOfPage, UpdatesMade, SuccessTrue, ResultsTrue, InProgress, Calls

-----------------------------------------------------------------------------
(* What happens around the user.                                             *)
LEMMA ListsKeepInv ==
  ASSUME WalkInv, LoadBuildings \/ LoadRooms \/ \E r \in Rooms : OtherAddsRoom(r)
  PROVE  WalkInv'
<1>1. /\ PageKept /\ OnlyGrows /\ \A s \in Submissions : SubKept(s)
      /\ made' = made /\ overwrote' = overwrote
      /\ at' = at /\ call' = call /\ answer' = answer /\ results' = results
      /\ step' = step /\ fullRoomDeviceList' = fullRoomDeviceList
      /\ UNCHANGED flags
  <2>1. /\ UNCHANGED <<place, loc, flags, subs, hist>> /\ fullRoomDeviceList' = fullRoomDeviceList
        /\ rooms \subseteq rooms' /\ UNCHANGED <<buildings, devices, configs>>
    BY DEF LoadBuildings, LoadRooms, OtherAddsRoom, db
  <2>2. QED
    BY <2>1 DEF place, loc, subs, hist, PageKept, OnlyGrows, SubKept
<1>2. WalkTypes'
  <2>1. /\ buildingList' \subseteq buildings' /\ allRoomList' \subseteq rooms'
        /\ rooms' \subseteq Rooms /\ buildings' \subseteq Buildings
    BY DEF WalkInv, WalkTypes, LoadBuildings, LoadRooms, OtherAddsRoom, db, lists
  <2>2. QED
    BY <1>1, <2>1 DEF WalkInv, WalkTypes, PageKept, flags
<1>3. FlagsTrue' /\ NotOverwritten' /\ KeptOut'
  BY <1>1 DEF flags, WalkInv, FlagsTrue, NotOverwritten, KeptOut, PageKept, OnlyGrows, InProgress
<1>4. \A s \in Submissions : SubmissionTrue(s)'
  BY <1>1, OtherSubmissions DEF WalkInv
<1>5. QED
  BY <1>2, <1>3, <1>4 DEF WalkInv

(* The user touches what is left alone during a submission: there is none.   *)
LEMMA NobodyWaits ==
  ASSUME NEW what \in Untouched, CanUse(what), UNCHANGED subs
  PROVE  \A s \in Submissions : SubmissionTrue(s)' /\ ~InProgress(s)'
<1>1. \A s \in Submissions : at'[s] \notin Calls
  BY DEF CanUse, InProgress, subs
<1>2. QED
  BY <1>1, QuietSubmission DEF InProgress

(* What the user does otherwise.                                             *)
LEMMA SubmissionsKept ==
  ASSUME WalkInv, PageKept, UNCHANGED <<db, hist>>, UNCHANGED subs
  PROVE  \A s \in Submissions : SubmissionTrue(s)'
<1>1. OnlyGrows /\ \A s \in Submissions : SubKept(s)
  BY DEF OnlyGrows, SubKept, db, hist, subs
<1>2. QED
  BY <1>1, OtherSubmissions DEF WalkInv

LEMMA GoToKeepsInv ==
  ASSUME WalkInv, NEW i \in 0..4, GoTo(i)
  PROVE  WalkInv'
<1>1. /\ step' = i /\ (roomExists => i = 0) /\ UNCHANGED <<db, lists, loc, flags, hist>>
      /\ UNCHANGED subs /\ fullRoomDeviceList' = fullRoomDeviceList
  BY DEF GoTo, MayGo, MoveTo
<1>2. WalkTypes' /\ FlagsTrue' /\ NotOverwritten'
  BY <1>1 DEF WalkInv, WalkTypes, FlagsTrue, NotOverwritten, db, lists, loc, flags, hist, subs
<1>3. KeptOut'
  BY <1>1 DEF WalkInv, KeptOut, InProgress, loc, flags, hist, subs
<1>4. PageKept
  BY <1>1 DEF PageKept, loc
<1>5. QED
  BY <1>1, <1>2, <1>3, <1>4, SubmissionsKept DEF WalkInv

LEMMA ValidateKeepsInv ==
  ASSUME "location" \in Untouched, WalkInv, NEW r \in Rooms, ValidateLocation(r)
  PROVE  WalkInv'
<1>1. /\ step' \in {0, 1} /\ UNCHANGED <<db, lists, hist>>
      /\ UNCHANGED subs /\ fullRoomDeviceList' = fullRoomDeviceList /\ CanUse("location")
      /\ locBuilding' = BuildingOf[r] /\ locRoom' = r
  BY DEF ValidateLocation, MoveTo, place
<1>2. /\ roomExists' => r \in allRoomList /\ RoomIDToUpdate' = r
      /\ RoomIDToUpdate' \in {r, RoomIDToUpdate}
  BY Zenon DEF ValidateLocation
<1>3. /\ buildingExists' => BuildingOf[r] \in buildingList /\ BuildingIDToUpdate' = BuildingOf[r]
      /\ BuildingIDToUpdate' \in {BuildingOf[r], BuildingIDToUpdate}
  BY Zenon DEF ValidateLocation
<1>4. BuildingOf[r] \in BldgIds /\ r \in RoomIds
  BY WalkAssumption DEF BldgIds, RoomIds
<1>5. WalkTypes' /\ FlagsTrue' /\ NotOverwritten'
  BY <1>1, <1>2, <1>3, <1>4 DEF WalkInv, WalkTypes, FlagsTrue, NotOverwritten, db, lists, hist, subs
<1>6. \A s \in Submissions : SubmissionTrue(s)' /\ ~InProgress(s)'
  BY <1>1, NobodyWaits
<1>7. KeptOut'
  BY <1>1, <1>6 DEF KeptOut
<1>8. QED
  BY <1>5, <1>6, <1>7 DEF WalkInv

LEMMA EditKeepsInv ==
  ASSUME "location" \in Untouched, WalkInv, EditLocation
  PROVE  WalkInv'
<1>1. /\ UNCHANGED <<db, lists, place, flags, hist>> /\ UNCHANGED subs /\ CanUse("location")
      /\ locBuilding' \in BldgIds /\ locRoom' \in RoomIds /\ (roomExists => locRoom' = locRoom)
      /\ fullRoomDeviceList' = fullRoomDeviceList
  BY DEF EditLocation, loc, WalkInv, WalkTypes, BldgIds, RoomIds
<1>2. WalkTypes' /\ FlagsTrue' /\ NotOverwritten'
  BY <1>1 DEF WalkInv, WalkTypes, FlagsTrue, NotOverwritten, db, lists, place, flags, hist, subs
<1>3. \A s \in Submissions : SubmissionTrue(s)' /\ ~InProgress(s)'
  BY <1>1, NobodyWaits
<1>4. KeptOut'
  BY <1>1, <1>3 DEF WalkInv, KeptOut, flags, place, hist
<1>5. QED
  BY <1>2, <1>3, <1>4 DEF WalkInv

LEMMA DevicesChosenKeepInv ==
  ASSUME WalkInv, UpdateAccordion
  PROVE  WalkInv'
<1>1. /\ UNCHANGED <<db, lists, place, loc, flags, hist>> /\ UNCHANGED subs /\ CanUse("devices")
      /\ fullRoomDeviceList' \subseteq RoomIds
  BY DEF UpdateAccordion, WalkInv, WalkTypes
<1>2. WalkTypes' /\ FlagsTrue' /\ NotOverwritten' /\ KeptOut'
  BY <1>1 DEF WalkInv, WalkTypes, FlagsTrue, NotOverwritten, KeptOut, InProgress,
     db, lists, place, loc, flags, hist, subs
<1>3. \A s \in Submissions : SubmissionTrue(s)'
  <2>1. CASE "devices" \in Untouched
    BY <1>1, <2>1, NobodyWaits
  <2>2. CASE "devices" \notin Untouched
    BY <1>1, <2>2, SubmissionsKept DEF PageKept, loc
  <2>3. QED
    BY <2>1, <2>2
<1>4. QED
  BY <1>2, <1>3 DEF WalkInv

-----------------------------------------------------------------------------
(* One step of one submission.                                               *)
PageStays ==
  /\ locBuilding' = locBuilding /\ locRoom' = locRoom /\ step' = step
  /\ fullRoomDeviceList' = fullRoomDeviceList

StepOf(s) ==
  /\ PageStays /\ OnlyGrows /\ lists' = lists
  /\ \A t \in Submissions \ {s} : SubKept(t)
  /\ at' \in [Submissions -> Calls \cup {"idle", "shown", "closed"}]
  /\ call' \in [Submissions -> CallMade]
  /\ answer' \in [Submissions -> AnswerMade]
  /\ results' \in [Submissions -> SUBSET BOOLEAN]

LEMMA SubmissionStep ==
  ASSUME WalkInv, NEW s \in Submissions, StepOf(s), SubmissionTrue(s)',
         rooms' \subseteq Rooms, buildings' \subseteq Buildings,
         BuildingIDToUpdate' \in BldgIds, RoomIDToUpdate' \in RoomIds,
         FlagsTrue', NotOverwritten', KeptOut'
  PROVE  WalkInv'
<1>1. WalkTypes'
  BY DEF WalkInv, WalkTypes, StepOf, PageStays, OnlyGrows, lists
<1>2. ASSUME NEW t \in Submissions \ {s} PROVE SubmissionTrue(t)'
  BY OtherSubmissions DEF WalkInv, StepOf, PageStays, PageKept
<1>3. QED
  BY <1>1, <1>2 DEF WalkInv

(* No submission begins but on the last step.                                *)
LEMMA StillKeptOut ==
  ASSUME WalkInv, NEW s \in Submissions, StepOf(s), roomExists' = roomExists,
         InProgress(s) \/ ~InProgress(s)' \/ step = 4
  PROVE  KeptOut'
  BY DEF WalkInv, KeptOut, StepOf, SubKept, PageStays, OnlyGrows, InProgress

(* A step that sets no flag.                                                 *)
LEMMA FlagsKept ==
  ASSUME WalkInv, PageStays, OnlyGrows, UNCHANGED flags
  PROVE  /\ FlagsTrue' /\ roomExists' = roomExists
         /\ BuildingIDToUpdate' \in BldgIds /\ RoomIDToUpdate' \in RoomIds
  BY DEF WalkInv, WalkTypes, FlagsTrue, PageStays, OnlyGrows, flags

LEMMA MadeKept ==
  ASSUME WalkInv, UNCHANGED <<rooms, buildings, hist>>
  PROVE  /\ NotOverwritten'
         /\ rooms' \subseteq Rooms /\ buildings' \subseteq Buildings
  BY DEF WalkInv, WalkTypes, NotOverwritten, hist

(* A call is made: nothing is known of it yet.                               *)
LEMMA SendStep ==
  ASSUME WalkInv, NEW s \in Submissions, NEW c \in Calls \cup {"shown"}, NEW q \in CallMade,
         Send(s, c, q), PageStays, UNCHANGED <<db, lists, hist>>,
         results' = results \/ Pushed(s)
  PROVE  /\ StepOf(s) /\ OnlyGrows
         /\ at'[s] = c /\ call'[s] = q /\ answer'[s] = Pending
<1>1. WalkTypes /\ Pending \in AnswerMade
  BY DEF WalkInv, Pending, AnswerMade
<1>2. /\ results' \in [Submissions -> SUBSET BOOLEAN]
      /\ \A t \in Submissions \ {s} : results'[t] = results[t]
  <2> DEFINE o == Outcomes(s)
  <2>1. o \in SUBSET BOOLEAN
    BY DEF Outcomes
  <2>2. results' = results \/ results' = [results EXCEPT ![s] = @ \cup o]
    BY DEF Pushed
  <2> HIDE DEF o
  <2>3. QED
    BY <1>1, <2>1, <2>2 DEF WalkTypes
<1>3. /\ at' \in [Submissions -> Calls \cup {"idle", "shown", "closed"}]
      /\ call' \in [Submissions -> CallMade] /\ answer' \in [Submissions -> AnswerMade]
      /\ at'[s] = c /\ call'[s] = q /\ answer'[s] = Pending
      /\ \A t \in Submissions \ {s} :
           at'[t] = at[t] /\ call'[t] = call[t] /\ answer'[t] = answer[t]
  BY <1>1 DEF Send, WalkTypes
<1>4. OnlyGrows
  BY DEF OnlyGrows, db, hist
<1>5. QED
  BY <1>2, <1>3, <1>4 DEF StepOf, SubKept

LEMMA FinishKeepsInv ==
  ASSUME WalkInv, NEW s \in Submissions, Finish(s)
  PROVE  WalkInv'
<1> DEFINE q == AddOrUpdate(buildingExists, BuildingIDToUpdate, locBuilding)
<1>1. /\ Send(s, "building", q) /\ PageStays /\ UNCHANGED <<db, lists, hist>> /\ results' = results
      /\ UNCHANGED flags /\ step = 4
  BY DEF Finish, PageStays, place, loc
<1>2. q \in CallMade /\ q.body = locBuilding /\ q.op \in {"add", "update"}
  BY DEF AddOrUpdate, CallMade, DocIds, WalkInv, WalkTypes
<1> HIDE DEF q
<1>3. /\ StepOf(s) /\ OnlyGrows
      /\ at'[s] = "building" /\ call'[s] = q /\ answer'[s] = Pending
  BY <1>1, <1>2, SendStep DEF Calls
<1>4. SubmissionTrue(s)'
  BY <1>1, <1>2, <1>3 DEF SubmissionTrue, CallIsOfPage, UpdatesMade, SuccessTrue, ResultsTrue,
     InProgress, PageStays, Pending
<1>5. QED
  BY <1>1, <1>3, <1>4, FlagsKept, StillKeptOut, MadeKept, SubmissionStep DEF db

(* The answer of a call of the server.                                       *)
LEMMA AnswerStep ==
  ASSUME WalkInv, NEW s \in Submissions, NEW ok \in SUBSET DocIds, NEW failed \in SUBSET DocIds,
         Answers(s, ok, failed), PageStays, OnlyGrows, lists' = lists,
         UNCHANGED <<at, call, results>>
  PROVE  /\ StepOf(s) /\ answer'[s].ok = ok /\ answer'[s].failed = failed
<1>1. [arrived |-> TRUE, ok |-> ok, failed |-> failed] \in AnswerMade
  BY DEF AnswerMade
<1>2. /\ answer' \in [Submissions -> AnswerMade]
      /\ answer'[s] = [arrived |-> TRUE, ok |-> ok, failed |-> failed]
      /\ \A t \in Submissions \ {s} : answer'[t] = answer[t]
  BY <1>1 DEF Answers, WalkInv, WalkTypes
<1>3. QED
  BY <1>2 DEF StepOf, SubKept, WalkInv, WalkTypes

LEMMA RefusesKeepsInv ==
  ASSUME WalkInv, NEW s \in Submissions, ServerRefuses(s)
  PROVE  WalkInv'
<1> DEFINE f == {call[s].body}
<1>1. /\ Answers(s, {}, f) /\ PageStays /\ UNCHANGED <<db, lists, hist, flags>>
      /\ UNCHANGED <<at, call, results>> /\ InProgress(s) /\ at[s] # "devices"
  BY DEF ServerRefuses, PageStays, place, loc
<1>2. OnlyGrows
  BY <1>1 DEF OnlyGrows, db, hist
<1>3. f \in SUBSET DocIds /\ {} \in SUBSET DocIds /\ f # {}
  BY <1>1 DEF WalkInv, WalkTypes, SubmissionTrue, CallIsOfPage, InProgress, Calls, DocIds
<1> HIDE DEF f
<1>4. StepOf(s) /\ answer'[s].failed = f
  BY <1>1, <1>2, <1>3, AnswerStep
<1>5. SubmissionTrue(s)'
  <2>1. CallIsOfPage(s)' /\ UpdatesMade(s)' /\ ResultsTrue(s)'
    BY <1>1, <1>2 DEF WalkInv, SubmissionTrue, CallIsOfPage, UpdatesMade, ResultsTrue, InProgress,
       PageStays, OnlyGrows
  <2>2. SuccessTrue(s)'
    BY <1>3, <1>4 DEF SuccessTrue
  <2>3. QED
    BY <2>1, <2>2 DEF SubmissionTrue
<1>6. QED
  BY <1>1, <1>2, <1>4, <1>5, FlagsKept, StillKeptOut, MadeKept, SubmissionStep DEF db
LEMMA AcceptsKeepsInv ==
  ASSUME WalkInv, NEW s \in Submissions, ServerAccepts(s)
  PROVE  WalkInv'
<1> DEFINE id == call[s].body
<1>1. /\ InProgress(s) /\ at[s] # "devices" /\ PageStays /\ lists' = lists /\ UNCHANGED flags
      /\ UNCHANGED <<at, call, results>>
      /\ Answers(s, {id}, {}) \/ Answers(s, {}, {id})
  BY DEF ServerAccepts, PageStays, place, loc
<1>2. /\ at[s] = "building" => id = locBuilding
      /\ at[s] \in {"room", "config"} => id = locRoom
      /\ locBuilding \in BldgIds /\ locRoom \in RoomIds /\ id \in DocIds
      /\ at[s] \in {"building", "room", "config"}
  BY <1>1 DEF WalkInv, WalkTypes, SubmissionTrue, CallIsOfPage, InProgress, Calls, DocIds
<1>3. /\ buildings' = IF at[s] = "building" THEN buildings \cup {id} ELSE buildings
      /\ rooms' = IF at[s] = "room" THEN rooms \cup {id} ELSE rooms
      /\ configs' = IF at[s] = "config" THEN configs \cup {id} ELSE configs
      /\ made' = IF at[s] = "room" /\ call[s].op = "add" THEN made \cup {id} ELSE made
      /\ overwrote' = IF at[s] = "room" /\ call[s].op = "update"
                        THEN overwrote \cup {call[s].path} ELSE overwrote
      /\ devices' = devices
  BY DEF ServerAccepts
<1>9. /\ at[s] = "room" => id \in Rooms
      /\ at[s] = "building" => id \in Buildings
  <2>1. /\ at[s] = "room" => id \in rooms \/ id # Undefined
        /\ at[s] = "building" => id \in buildings \/ id # Undefined
    BY DEF ServerAccepts, Acceptable, Existing
  <2>2. QED
    BY <1>2, <2>1 DEF WalkInv, WalkTypes, RoomIds, BldgIds
<1> HIDE DEF id
<1>4. OnlyGrows /\ rooms' \subseteq Rooms /\ buildings' \subseteq Buildings
  BY <1>3, <1>9 DEF OnlyGrows, WalkInv, WalkTypes
<1>5. NotOverwritten'
  BY <1>3, <1>4 DEF NotOverwritten, OnlyGrows, WalkInv, SubmissionTrue, UpdatesMade
<1>6. ASSUME NEW ok \in SUBSET DocIds, NEW failed \in SUBSET DocIds, Answers(s, ok, failed),
             failed = {} => ok # {}
      PROVE  WalkInv'
  <2>1. StepOf(s) /\ answer'[s].ok = ok /\ answer'[s].failed = failed
    BY <1>1, <1>4, <1>6, AnswerStep
  <2>2. CallIsOfPage(s)' /\ UpdatesMade(s)' /\ ResultsTrue(s)'
    BY <1>1, <1>4 DEF WalkInv, SubmissionTrue, CallIsOfPage, UpdatesMade, ResultsTrue, InProgress,
       PageStays, OnlyGrows
  <2>3. SuccessTrue(s)'
    BY <1>1, <1>2, <1>3, <1>6, <2>1 DEF SuccessTrue, PageStays
  <2>4. SubmissionTrue(s)'
    BY <2>2, <2>3 DEF SubmissionTrue
  <2>5. QED
    BY <1>1, <1>4, <1>5, <2>1, <2>4, FlagsKept, StillKeptOut, SubmissionStep
<1>7. {id} \in SUBSET DocIds /\ {} \in SUBSET DocIds /\ {id} # {}
  BY <1>2
<1>8. QED
  BY <1>1, <1>6, <1>7

LEMMA DevicesKeepInv ==
  ASSUME WalkInv, NEW s \in Submissions, ServerTakesDevices(s)
  PROVE  WalkInv'
<1>1. /\ at[s] = "devices" /\ InProgress(s) /\ PageStays /\ lists' = lists /\ UNCHANGED <<flags, hist>>
      /\ UNCHANGED <<rooms, buildings, configs>> /\ UNCHANGED <<at, call, results>>
  BY DEF ServerTakesDevices, PageStays, place, loc, InProgress, Calls
<1> DEFINE ds == call[s].body
<1>2. ds \subseteq RoomIds
  BY <1>1 DEF WalkInv, SubmissionTrue, CallIsOfPage
<1>3. PICK new \in SUBSET (ds \ (devices \cup {Undefined})) :
        /\ devices' = devices \cup new
        /\ \/ Answers(s, new, ds \ new)
           \/ Answers(s, {}, ds \cup {Undefined})
  BY <1>1 DEF ServerTakesDevices
<1>9. ds' = ds
  BY <1>1
<1> HIDE DEF ds
<1>4. OnlyGrows
  BY <1>1, <1>3 DEF OnlyGrows, hist
<1>5. ASSUME NEW ok \in SUBSET DocIds, NEW failed \in SUBSET DocIds, Answers(s, ok, failed),
             failed = {} => ds \subseteq devices'
      PROVE  WalkInv'
  <2>1. StepOf(s) /\ answer'[s].failed = failed
    BY <1>1, <1>4, <1>5, AnswerStep
  <2>2. CallIsOfPage(s)' /\ UpdatesMade(s)' /\ ResultsTrue(s)'
    BY <1>1, <1>4 DEF WalkInv, SubmissionTrue, CallIsOfPage, UpdatesMade, ResultsTrue, InProgress,
       PageStays, OnlyGrows
  <2>3. SuccessTrue(s)'
    BY <1>1, <1>5, <1>9, <2>1 DEF SuccessTrue, PageStays, ds
  <2>4. SubmissionTrue(s)'
    BY <2>2, <2>3 DEF SubmissionTrue
  <2>5. QED
    BY <1>1, <1>4, <2>1, <2>4, FlagsKept, StillKeptOut, MadeKept, SubmissionStep
<1>6. CASE Answers(s, new, ds \ new)
  <2> DEFINE f == ds \ new
  <2>1. new \in SUBSET DocIds /\ f \in SUBSET DocIds /\ (f = {} => ds \subseteq devices')
    BY <1>2, <1>3 DEF DocIds
  <2> HIDE DEF f
  <2>2. QED
    BY <1>5, <1>6, <2>1 DEF f
<1>7. CASE Answers(s, {}, ds \cup {Undefined})
  <2> DEFINE f == ds \cup {Undefined}
  <2>1. {} \in SUBSET DocIds /\ f \in SUBSET DocIds /\ f # {}
    BY <1>2 DEF DocIds, RoomIds
  <2> HIDE DEF f
  <2>2. QED
    BY <1>5, <1>7, <2>1 DEF f
<1>8. QED
  BY <1>3, <1>6, <1>7

-----------------------------------------------------------------------------
(* The callbacks.  The results so far have no error only if the answer has   *)
(* none.                                                                     *)
LEMMA PushedTrue ==
  ASSUME WalkInv, NEW s \in Submissions, Pushed(s), FALSE \notin results'[s]
  PROVE  FALSE \notin results[s] /\ Succeeded(s)
<1> DEFINE o == Outcomes(s)
<1>1. results'[s] = results[s] \cup o
  BY DEF Pushed, WalkInv, WalkTypes
<1>2. FALSE \notin o => answer[s].failed = {}
  BY DEF Outcomes
<1> HIDE DEF o
<1>3. QED
  BY <1>1, <1>2 DEF Succeeded

LEMMA AfterBuildingKeepsInv ==
  ASSUME WalkInv, NEW s \in Submissions, AfterBuilding(s)
  PROVE  WalkInv'
<1> DEFINE q == AddOrUpdate(roomExists, RoomIDToUpdate, locRoom)
<1>1. /\ at[s] = "building" /\ InProgress(s) /\ answer[s].arrived /\ Pushed(s) /\ Send(s, "room", q)
      /\ PageStays /\ UNCHANGED <<db, lists, hist>>
      /\ RoomIDToUpdate' = RoomIDToUpdate /\ roomExists' = roomExists
  BY DEF AfterBuilding, Arrived, PageStays, place, loc, InProgress, Calls
<1>2. q \in CallMade /\ q.body = locRoom /\ q.op \in {"add", "update"}
  BY DEF AddOrUpdate, CallMade, DocIds, WalkInv, WalkTypes
<1>3. q.op = "update" => q.path = locRoom /\ locRoom \in made
  <2>1. q.op = "update" => roomExists /\ q.path = RoomIDToUpdate
    BY DEF AddOrUpdate
  <2>2. roomExists => RoomIDToUpdate = locRoom /\ locRoom \in made
    BY <1>1 DEF WalkInv, KeptOut, FlagsTrue
  <2>3. QED
    BY <2>1, <2>2
<1> HIDE DEF q
<1>4. StepOf(s) /\ OnlyGrows /\ at'[s] = "room" /\ call'[s] = q /\ answer'[s] = Pending
  BY <1>1, <1>2, SendStep DEF Calls
<1>5. Succeeded(s) => locBuilding \in buildings
  BY <1>1 DEF Succeeded, WalkInv, SubmissionTrue, SuccessTrue
<1>6. SubmissionTrue(s)'
  <2>1. CallIsOfPage(s)' /\ UpdatesMade(s)' /\ SuccessTrue(s)'
    BY <1>1, <1>2, <1>3, <1>4 DEF WalkInv, SubmissionTrue, CallIsOfPage, UpdatesMade, SuccessTrue,
       InProgress, Calls, PageStays, OnlyGrows, Pending
  <2>2. ResultsTrue(s)'
    BY <1>1, <1>4, <1>5, PushedTrue DEF ResultsTrue, PageStays, OnlyGrows
  <2>3. QED
    BY <2>1, <2>2 DEF SubmissionTrue
<1>7. /\ FlagsTrue' /\ KeptOut' /\ BuildingIDToUpdate' \in BldgIds /\ RoomIDToUpdate' \in RoomIds
  <2>1. \/ UNCHANGED <<buildingExists, BuildingIDToUpdate>>
        \/ Succeeded(s) /\ BuildingIDToUpdate' = locBuilding
    BY DEF AfterBuilding
  <2>2. KeptOut' /\ RoomIDToUpdate' \in RoomIds
    BY <1>1, <1>4 DEF WalkInv, WalkTypes, KeptOut, PageStays, OnlyGrows
  <2>3. FlagsTrue' /\ BuildingIDToUpdate' \in BldgIds
    BY <1>1, <1>4, <1>5, <2>1 DEF WalkInv, WalkTypes, FlagsTrue, PageStays, OnlyGrows
  <2>4. QED
    BY <2>2, <2>3
<1>8. QED
  BY <1>1, <1>4, <1>6, <1>7, MadeKept, SubmissionStep DEF db

LEMMA AfterRoomKeepsInv ==
  ASSUME WalkInv, NEW s \in Submissions, AfterRoom(s)
  PROVE  WalkInv'
<1> DEFINE q == [op |-> "add", body |-> fullRoomDeviceList]
<1>1. /\ at[s] = "room" /\ InProgress(s) /\ answer[s].arrived /\ Pushed(s) /\ Send(s, "devices", q)
      /\ PageStays /\ UNCHANGED <<db, lists, hist>>
      /\ BuildingIDToUpdate' = BuildingIDToUpdate /\ buildingExists' = buildingExists
  BY DEF AfterRoom, Arrived, PageStays, place, loc, InProgress, Calls
<1>2. q \in CallMade /\ q.body = fullRoomDeviceList /\ q.op \in {"add", "update"} /\ fullRoomDeviceList \subseteq RoomIds
  BY DEF CallMade, WalkInv, WalkTypes
<1> HIDE DEF q
<1>3. StepOf(s) /\ OnlyGrows /\ at'[s] = "devices" /\ call'[s] = q /\ answer'[s] = Pending
  BY <1>1, <1>2, SendStep DEF Calls
<1>4. /\ Succeeded(s) => locRoom \in rooms
      /\ Succeeded(s) /\ call[s].op = "add" => locRoom \in made
  BY <1>1 DEF Succeeded, WalkInv, SubmissionTrue, SuccessTrue
<1>5. SubmissionTrue(s)'
  <2>1. CallIsOfPage(s)' /\ UpdatesMade(s)' /\ SuccessTrue(s)'
    BY <1>1, <1>2, <1>3 DEF WalkInv, SubmissionTrue, CallIsOfPage, UpdatesMade, SuccessTrue,
       InProgress, Calls, PageStays, OnlyGrows, Pending
  <2>2. ResultsTrue(s)'
    BY <1>1, <1>3, <1>4, PushedTrue DEF WalkInv, SubmissionTrue, ResultsTrue, PageStays, OnlyGrows
  <2>3. QED
    BY <2>1, <2>2 DEF SubmissionTrue
<1>6. /\ FlagsTrue' /\ KeptOut' /\ BuildingIDToUpdate' \in BldgIds /\ RoomIDToUpdate' \in RoomIds
  <2>1. \/ UNCHANGED <<roomExists, RoomIDToUpdate>>
        \/ Succeeded(s) /\ call[s].op = "add" /\ RoomIDToUpdate' = locRoom
    BY DEF AfterRoom
  <2>2. QED
    BY <1>1, <1>3, <1>4, <2>1 DEF WalkInv, WalkTypes, FlagsTrue, KeptOut, PageStays, OnlyGrows
<1>7. QED
  BY <1>1, <1>3, <1>5, <1>6, MadeKept, SubmissionStep DEF db

LEMMA AfterDevicesKeepsInv ==
  ASSUME WalkInv, NEW s \in Submissions, AfterDevices(s)
  PROVE  WalkInv'
<1> DEFINE q == AddOrUpdate(configExists, locRoom, locRoom)
<1>1. /\ at[s] = "devices" /\ InProgress(s) /\ answer[s].arrived /\ Pushed(s) /\ Send(s, "config", q)
      /\ PageStays /\ UNCHANGED <<db, lists, hist>> /\ UNCHANGED flags
  BY DEF AfterDevices, Arrived, PageStays, place, loc, InProgress, Calls
<1>2. q \in CallMade /\ q.body = locRoom /\ q.op \in {"add", "update"}
  BY DEF AddOrUpdate, CallMade, DocIds, WalkInv, WalkTypes
<1> HIDE DEF q
<1>3. StepOf(s) /\ OnlyGrows /\ at'[s] = "config" /\ call'[s] = q /\ answer'[s] = Pending
  BY <1>1, <1>2, SendStep DEF Calls
<1>4. Succeeded(s) /\ "devices" \in Untouched => fullRoomDeviceList \subseteq devices
  BY <1>1 DEF Succeeded, WalkInv, SubmissionTrue, SuccessTrue, CallIsOfPage
<1>5. SubmissionTrue(s)'
  <2>1. CallIsOfPage(s)' /\ UpdatesMade(s)' /\ SuccessTrue(s)'
    BY <1>1, <1>2, <1>3 DEF WalkInv, SubmissionTrue, CallIsOfPage, UpdatesMade, SuccessTrue,
       InProgress, Calls, PageStays, OnlyGrows, Pending
  <2>2. ResultsTrue(s)'
    BY <1>1, <1>3, <1>4, PushedTrue DEF WalkInv, SubmissionTrue, ResultsTrue, PageStays, OnlyGrows
  <2>3. QED
    BY <2>1, <2>2 DEF SubmissionTrue
<1>6. QED
  BY <1>1, <1>3, <1>5, FlagsKept, StillKeptOut, MadeKept, SubmissionStep DEF db

LEMMA AfterConfigKeepsInv ==
  ASSUME WalkInv, NEW s \in Submissions, AfterConfig(s)
  PROVE  WalkInv'
<1>1. /\ at[s] = "config" /\ InProgress(s) /\ Pushed(s) /\ Send(s, "shown", NoCall)
      /\ PageStays /\ UNCHANGED <<db, lists, hist>>
      /\ UNCHANGED <<buildingExists, roomExists, BuildingIDToUpdate, RoomIDToUpdate>>
  BY DEF AfterConfig, Arrived, PageStays, place, loc, InProgress, Calls
<1>2. NoCall \in CallMade
  BY DEF CallMade
<1>3. StepOf(s) /\ OnlyGrows /\ at'[s] = "shown"
  BY <1>1, <1>2, SendStep DEF Calls
<1>4. SubmissionTrue(s)'
  BY <1>3, QuietSubmission DEF Calls
<1>5. FlagsTrue' /\ BuildingIDToUpdate' \in BldgIds /\ RoomIDToUpdate' \in RoomIds
  BY <1>1, <1>3 DEF WalkInv, WalkTypes, FlagsTrue, PageStays, OnlyGrows
<1>6. QED
  BY <1>1, <1>3, <1>4, <1>5, StillKeptOut, MadeKept, SubmissionStep DEF db

LEMMA CloseKeepsInv ==
  ASSUME WalkInv, NEW s \in Submissions, CloseDialog(s)
  PROVE  WalkInv'
<1>1. /\ at' = [at EXCEPT ![s] = "closed"] /\ results' = [results EXCEPT ![s] = {}]
      /\ call' = call /\ answer' = answer
      /\ PageStays /\ UNCHANGED <<db, lists, hist>> /\ UNCHANGED flags
  BY DEF CloseDialog, PageStays, place, loc
<1>2. OnlyGrows
  BY <1>1 DEF OnlyGrows, db, hist
<1>3. StepOf(s) /\ at'[s] = "closed"
  BY <1>1, <1>2 DEF StepOf, SubKept, WalkInv, WalkTypes
<1>4. SubmissionTrue(s)' /\ ~InProgress(s)'
  BY <1>3, QuietSubmission DEF InProgress, Calls
<1>5. QED
  BY <1>1, <1>2, <1>3, <1>4, FlagsKept, StillKeptOut, MadeKept, SubmissionStep DEF db
-----------------------------------------------------------------------------
LEMMA WalkStep == ASSUME "location" \in Untouched PROVE WalkInv /\ [Next]_vars => WalkInv'
<1> SUFFICES ASSUME WalkInv, [Next]_vars PROVE WalkInv'
  OBVIOUS
<1>1. CASE UNCHANGED vars
  <2>1. PageStays /\ OnlyGrows /\ lists' = lists /\ UNCHANGED <<flags, hist, rooms, buildings, subs>>
    BY <1>1 DEF vars, db, place, loc, hist, PageStays, OnlyGrows
  <2>2. WalkTypes'
    BY <2>1 DEF WalkInv, WalkTypes, PageStays, lists, flags, subs
  <2>3. \A s \in Submissions : SubmissionTrue(s)'
    BY <2>1, OtherSubmissions DEF WalkInv, subs, SubKept, PageStays, PageKept
  <2>4. KeptOut'
    BY <2>1 DEF WalkInv, KeptOut, flags, hist, subs, InProgress, PageStays
  <2>5. QED
    BY <2>1, <2>2, <2>3, <2>4, FlagsKept, MadeKept DEF WalkInv
<1>2. CASE LoadBuildings \/ LoadRooms \/ \E r \in Rooms : OtherAddsRoom(r)
  BY <1>2, ListsKeepInv
<1>3. ASSUME NEW r \in Rooms, ValidateLocation(r) PROVE WalkInv'
  BY <1>3, ValidateKeepsInv
<1>4. ASSUME NEW i \in 0..4, GoTo(i) PROVE WalkInv'
  BY <1>4, GoToKeepsInv
<1>5. CASE EditLocation \/ UpdateAccordion
  BY <1>5, EditKeepsInv, DevicesChosenKeepInv
<1>6. ASSUME NEW s \in Submissions, Finish(s) PROVE WalkInv'
  BY <1>6, FinishKeepsInv
<1>7. ASSUME NEW s \in Submissions, Server(s) PROVE WalkInv'
  BY <1>7, AcceptsKeepsInv, DevicesKeepInv, RefusesKeepsInv DEF Server
<1>8. ASSUME NEW s \in Submissions, Callback(s) PROVE WalkInv'
  BY <1>8, AfterBuildingKeepsInv, AfterRoomKeepsInv, AfterDevicesKeepsInv, AfterConfigKeepsInv
     DEF Callback
<1>9. ASSUME NEW s \in Submissions, CloseDialog(s) PROVE WalkInv'
  BY <1>9, CloseKeepsInv
<1>10. QED
  BY <1>1, <1>2, <1>3, <1>4, <1>5, <1>6, <1>7, <1>8, <1>9 DEF Next

LEMMA WalkInit == Init => WalkInv
<1> SUFFICES ASSUME Init PROVE WalkInv
  OBVIOUS
<1>1. WalkTypes
  BY DEF Init, WalkTypes, RoomIds, BldgIds, CallMade, AnswerMade, Pending
<1>2. FlagsTrue /\ NotOverwritten /\ KeptOut
  BY DEF Init, FlagsTrue, NotOverwritten, KeptOut
<1>3. ASSUME NEW s \in Submissions PROVE SubmissionTrue(s)
  <2>1. at[s] = "idle" /\ answer[s] = Pending
    BY DEF Init
  <2>2. QED
    BY <2>1 DEF SubmissionTrue, CallIsOfPage, UpdatesMade, SuccessTrue, ResultsTrue, InProgress, Calls
<1>4. QED
  BY <1>1, <1>2, <1>3 DEF WalkInv

(* The invariant of the page: calls in progress are about what is on the     *)
(* page, and what their answers and results say is true of the database.     *)
THEOREM WalkInvariant == ASSUME "location" \in Untouched PROVE Spec => []WalkInv
<1>1. WalkInv /\ [Next]_vars => WalkInv'
  BY WalkStep
<1>2. QED
  BY <1>1, WalkInit, PTL DEF Spec

(* What the exist flags say exists does, and a room to be updated is the     *)
(* room on the page: AddOrUpdate never chooses from a stale list.            *)
THEOREM FlagsAreTrue == ASSUME "location" \in Untouched PROVE Spec => []FlagsTrue
<1>1. WalkInv => FlagsTrue
  BY DEF WalkInv
<1>2. QED
  BY <1>1, WalkInvariant, PTL

(* Finish updates no room but those this page has created, however often it  *)
(* is pressed and whatever rooms other users add.                            *)
THEOREM NothingOverwritten == ASSUME "location" \in Untouched PROVE Spec => []NotOverwritten
<1>1. WalkInv => NotOverwritten
  BY DEF WalkInv
<1>2. QED
  BY <1>1, WalkInvariant, PTL

(* ShowResults: the list is not empty when the dialog opens.                 *)
LEMMA DialogSays ==
  ASSUME WalkInv, NEW s \in Submissions, AfterConfig(s)
  PROVE  /\ results'[s] \in {{TRUE}, {FALSE}, {TRUE, FALSE}}
         /\ Dialog(s)' \in {"All Information Succeeded", "All Information Failed",
                            "Some Information Failed"}
         /\ Dialog(s)' = "All Information Succeeded" => results'[s] = {TRUE}
<1>1. at[s] = "config" /\ answer[s].arrived /\ Pushed(s)
  BY DEF AfterConfig, Arrived
<1>2. results'[s] \in {{TRUE}, {FALSE}, {TRUE, FALSE}}
  <2> DEFINE o == Outcomes(s)
  <2>1. o # {}
    <3>1. answer[s].failed = {} => answer[s].ok # {}
      BY <1>1 DEF WalkInv, SubmissionTrue, SuccessTrue
    <3>2. QED
      BY <3>1 DEF Outcomes
  <2>2. o \in SUBSET BOOLEAN
    BY DEF Outcomes
  <2>3. results'[s] = results[s] \cup o /\ results[s] \in SUBSET BOOLEAN
    BY <1>1 DEF Pushed, WalkInv, WalkTypes
  <2> HIDE DEF o
  <2>4. QED
    BY <2>1, <2>2, <2>3
<1>3. {TRUE} # {FALSE} /\ {TRUE} # {TRUE, FALSE} /\ {FALSE} # {TRUE, FALSE}
  OBVIOUS
<1>4. QED
  BY <1>2, <1>3 DEF Dialog

LEMMA DialogTrue ==
  ASSUME "devices" \in Untouched, WalkInv, NEW s \in Submissions, AfterConfig(s),
         Dialog(s)' = "All Information Succeeded"
  PROVE  /\ locBuilding \in buildings /\ locRoom \in rooms \cap configs
         /\ fullRoomDeviceList \subseteq devices
<1>1. at[s] = "config" /\ answer[s].arrived /\ Pushed(s)
  BY DEF AfterConfig, Arrived
<1>2. FALSE \notin results'[s]
  BY DialogSays
<1>3. FALSE \notin results[s] /\ answer[s].failed = {}
  BY <1>1, <1>2, PushedTrue DEF Succeeded
<1>4. QED
  BY <1>1, <1>3 DEF WalkInv, SubmissionTrue, SuccessTrue, ResultsTrue

(* When the dialog says that all information succeeded, everything on the    *)
(* page is in the database: every call of the chain, the updates and the     *)
(* devices one by one included, has really been carried out.                 *)
SuccessIsReal ==
  [][\A s \in Submissions :
       at[s] = "config" /\ at'[s] = "shown"
         /\ Dialog(s)' = "All Information Succeeded"
       => /\ locBuilding \in buildings /\ locRoom \in rooms \cap configs
          /\ fullRoomDeviceList \subseteq devices]_vars

(* When the dialog says that all information succeeded, every call of the    *)
(* chain has been carried out.                                               *)
THEOREM SuccessDialogIsReal == ASSUME {"location", "devices"} \subseteq Untouched PROVE Spec => SuccessIsReal
<1>1. WalkInv /\ [Next]_vars =>
        [\A s \in Submissions :
           at[s] = "config" /\ at'[s] = "shown" /\ Dialog(s)' = "All Information Succeeded"
           => /\ locBuilding \in buildings /\ locRoom \in rooms \cap configs
              /\ fullRoomDeviceList \subseteq devices]_vars
  <2> SUFFICES ASSUME WalkInv, [Next]_vars, NEW s \in Submissions,
                      at[s] = "config", at'[s] = "shown", Dialog(s)' = "All Information Succeeded"
               PROVE  /\ locBuilding \in buildings /\ locRoom \in rooms \cap configs
                      /\ fullRoomDeviceList \subseteq devices
    OBVIOUS
  <2>1. AfterConfig(s)
    <3>1. at'[s] # at[s]
      OBVIOUS
    <3>2. \E t \in Submissions : Finish(t) \/ Server(t) \/ Callback(t) \/ CloseDialog(t)
      BY <3>1 DEF Next, vars, LoadBuildings, LoadRooms, OtherAddsRoom, ValidateLocation, GoTo,
         EditLocation, UpdateAccordion, subs
    <3>3. PICK t \in Submissions : Finish(t) \/ Callback(t) \/ CloseDialog(t)
      BY <3>1, <3>2 DEF Server, ServerAccepts, ServerTakesDevices, ServerRefuses
    <3>4. PICK c : at' = [at EXCEPT ![t] = c]
      BY <3>3 DEF Finish, Callback, AfterBuilding, AfterRoom, AfterDevices, AfterConfig, CloseDialog, Send
    <3>5. t = s
      BY <3>1, <3>4 DEF WalkInv, WalkTypes
    <3>6. at'[s] = c
      BY <3>4, <3>5 DEF WalkInv, WalkTypes
    <3>7. AfterDevices(s) => FALSE
      BY DEF AfterDevices, Arrived
    <3>8. QED
      BY <3>3, <3>5, <3>7 DEF Finish, Callback, AfterBuilding, AfterRoom, CloseDialog, Arrived
  <2>2. QED
    BY <2>1, DialogTrue
<1>2. QED
  <2>1. "location" \in Untouched
    OBVIOUS
  <2>2. QED
    BY <1>1, <2>1, WalkInvariant, PTL DEF Spec, SuccessIsReal
-----------------------------------------------------------------------------
(* The walkthrough implements RoomSetup.  Most steps change nothing a user   *)
(* is promised anything of.                                                  *)
LEMMA ToldAsBefore ==
  ASSUME NEW s \in Submissions, at'[s] = at[s], results'[s] = results[s]
  PROVE  StageOf(s)' = StageOf(s) /\ SaidIn(s)' = SaidIn(s)
  BY DEF StageOf, SaidIn, Dialog, InProgress

LEMMA NotToldAnything ==
  ASSUME NEW s \in Submissions, InProgress(s), InProgress(s)'
  PROVE  StageOf(s)' = StageOf(s) /\ SaidIn(s)' = SaidIn(s)
  BY DEF StageOf, SaidIn, InProgress, Calls

SameDocs == UNCHANGED <<rooms, buildings, devices, configs>>
SamePage == UNCHANGED <<locBuilding, locRoom, fullRoomDeviceList>>
SameHist == UNCHANGED <<made, overwrote>>
SameTold == \A s \in Submissions : StageOf(s)' = StageOf(s) /\ SaidIn(s)' = SaidIn(s)

LEMMA SetupStutters ==
  ASSUME SameDocs, SamePage, SameHist, SameTold
  PROVE  UNCHANGED Setup!setupVars
  BY DEF SameDocs, SamePage, SameHist, SameTold, Setup!setupVars, Setup!docs, Setup!described,
     Setup!history

LEMMA SameSubs == ASSUME UNCHANGED subs PROVE SameTold
  BY ToldAsBefore DEF subs, SameTold

(* The user describes the room when nothing is under way.                    *)
LEMMA UserDescribes ==
  ASSUME NEW what \in Untouched, CanUse(what), UNCHANGED subs, SameDocs, SameHist,
         locBuilding' \in BldgIds, locRoom' \in RoomIds, fullRoomDeviceList' \subseteq RoomIds
  PROVE  Setup!Describe
<1>1. \A s \in Submissions : StageOf(s) \notin {"running", "told"}
  BY DEF CanUse, DialogOpen, StageOf
<1>2. SameTold
  BY SameSubs
<1>3. QED
  BY <1>1, <1>2 DEF Setup!Describe, Setup!Quiet, Setup!docs, Setup!history, SameDocs, SameHist,
     SameTold, BldgIds, RoomIds

LEMMA UserActsSetup ==
  ASSUME {"location", "devices"} \subseteq Untouched, WalkInv,
         EditLocation \/ UpdateAccordion \/ \E r \in Rooms : ValidateLocation(r)
  PROVE  Setup!Describe
<1>1. UNCHANGED subs /\ SameDocs /\ SameHist
  BY DEF EditLocation, UpdateAccordion, ValidateLocation, SameDocs, SameHist, db, hist
<1>2. CanUse("location") \/ CanUse("devices")
  BY DEF EditLocation, UpdateAccordion, ValidateLocation
<1>3. locBuilding' \in BldgIds /\ locRoom' \in RoomIds /\ fullRoomDeviceList' \subseteq RoomIds
  BY WalkAssumption DEF EditLocation, UpdateAccordion, ValidateLocation, loc, WalkInv, WalkTypes,
     BldgIds, RoomIds
<1>4. QED
  BY <1>1, <1>2, <1>3, UserDescribes

(* Finish begins a submission.                                               *)
LEMMA FinishBegins ==
  ASSUME WalkInv, NEW s \in Submissions, Finish(s)
  PROVE  Setup!Begin(s)
<1>1. /\ at' = [at EXCEPT ![s] = "building"] /\ results' = results /\ at[s] = "idle"
      /\ SameDocs /\ SamePage /\ SameHist /\ ~DialogOpen
  BY DEF Finish, Send, SameDocs, SamePage, SameHist, db, loc, hist
<1>2. at'[s] = "building" /\ \A t \in Submissions \ {s} : at'[t] = at[t]
  BY <1>1 DEF WalkInv, WalkTypes
<1>3. \A t \in Submissions \ {s} : StageOf(t)' = StageOf(t) /\ SaidIn(t)' = SaidIn(t)
  BY <1>1, <1>2, ToldAsBefore
<1>4. StageOf(s) = "idle" /\ StageOf(s)' = "running" /\ SaidIn(s)' = SaidIn(s)
  BY <1>1, <1>2 DEF StageOf, SaidIn, InProgress, Calls
<1>5. \A t \in Submissions : StageOf(t) # "told"
  BY <1>1 DEF DialogOpen, StageOf
<1>6. QED
  BY <1>1, <1>3, <1>4, <1>5 DEF Setup!Begin, Setup!docs, Setup!described, Setup!history,
     SameDocs, SamePage, SameHist
(* The server carries out calls of submissions under way.                    *)
LEMMA AnsweringTellsNothing ==
  ASSUME UNCHANGED <<at, results>>
  PROVE  SameTold
  BY ToldAsBefore DEF SameTold

LEMMA WriteIs ==
  ASSUME NEW s \in Submissions, InProgress(s), SamePage, SameTold,
         \/ Setup!WriteBuilding \/ Setup!CreateRoom \/ Setup!UpdateRoom
         \/ Setup!WriteDevices \/ Setup!WriteConfig
  PROVE  Setup!Write(s)
<1>1. StageOf(s) = "running"
  BY DEF StageOf, InProgress, Calls
<1>2. QED
  BY <1>1 DEF Setup!Write, Setup!described, SamePage, SameTold

LEMMA AcceptsWrites ==
  ASSUME WalkInv, NEW s \in Submissions, ServerAccepts(s)
  PROVE  Setup!Write(s)
<1> DEFINE id == call[s].body  op == call[s].op
<1>1. /\ InProgress(s) /\ at[s] \in {"building", "room", "config"} /\ SamePage
      /\ UNCHANGED <<at, results>> /\ devices' = devices /\ Acceptable(s)
  BY DEF ServerAccepts, InProgress, Calls, SamePage, loc
<1>2. /\ buildings' = IF at[s] = "building" THEN buildings \cup {id} ELSE buildings
      /\ rooms' = IF at[s] = "room" THEN rooms \cup {id} ELSE rooms
      /\ configs' = IF at[s] = "config" THEN configs \cup {id} ELSE configs
      /\ made' = IF at[s] = "room" /\ op = "add" THEN made \cup {id} ELSE made
      /\ overwrote' = IF at[s] = "room" /\ op = "update" THEN overwrote \cup {call[s].path}
                                                         ELSE overwrote
  BY DEF ServerAccepts
<1>3. CallIsOfPage(s) /\ UpdatesMade(s) /\ WalkTypes
  BY DEF WalkInv, SubmissionTrue
<1>4. op \in {"add", "update"}
  BY <1>1, <1>3 DEF CallIsOfPage
<1>5. CASE at[s] = "building"
  <2>1. id = locBuilding /\ id # Undefined
    BY <1>1, <1>3, <1>4, <1>5, WalkAssumption DEF CallIsOfPage, WalkTypes, Acceptable, Existing
  <2>2. Setup!WriteBuilding
    BY <1>1, <1>2, <1>5, <2>1 DEF Setup!WriteBuilding, Setup!history
  <2>3. QED
    BY <1>1, <2>2, AnsweringTellsNothing, WriteIs
<1>6. CASE at[s] = "room" /\ op = "add"
  <2>1. id = locRoom /\ id \notin rooms \cup {Undefined}
    BY <1>1, <1>3, <1>6 DEF CallIsOfPage, Acceptable, Existing
  <2>2. Setup!CreateRoom
    BY <1>1, <1>2, <1>6, <2>1 DEF Setup!CreateRoom
  <2>3. QED
    BY <1>1, <2>2, AnsweringTellsNothing, WriteIs
<1>7. CASE at[s] = "room" /\ op = "update"
  <2>1. id = locRoom /\ id \in rooms \cap made /\ call[s].path = locRoom
    BY <1>1, <1>3, <1>7 DEF CallIsOfPage, UpdatesMade, Acceptable, Existing
  <2>2. Setup!UpdateRoom
    BY <1>1, <1>2, <1>7, <2>1 DEF Setup!UpdateRoom, Setup!docs
  <2>3. QED
    BY <1>1, <2>2, AnsweringTellsNothing, WriteIs
<1>8. CASE at[s] = "config"
  <2>1. id = locRoom
    BY <1>3, <1>8 DEF CallIsOfPage
  <2>2. Setup!WriteConfig
    BY <1>1, <1>2, <1>8, <2>1 DEF Setup!WriteConfig, Setup!history
  <2>3. QED
    BY <1>1, <2>2, AnsweringTellsNothing, WriteIs
<1>9. QED
  BY <1>1, <1>4, <1>5, <1>6, <1>7, <1>8

LEMMA TakesDevicesWrites ==
  ASSUME "devices" \in Untouched, WalkInv, NEW s \in Submissions, ServerTakesDevices(s)
  PROVE  Setup!Write(s)
<1>1. /\ at[s] = "devices" /\ InProgress(s) /\ SamePage /\ UNCHANGED <<at, results>>
      /\ UNCHANGED <<rooms, buildings, configs>> /\ SameHist
  BY DEF ServerTakesDevices, InProgress, Calls, SamePage, SameHist, loc, hist
<1>2. call[s].body = fullRoomDeviceList
  BY <1>1 DEF WalkInv, SubmissionTrue, CallIsOfPage
<1>3. \E new \in SUBSET (fullRoomDeviceList \ {Undefined}) : devices' = devices \cup new
  BY <1>2 DEF ServerTakesDevices
<1>4. Setup!WriteDevices
  BY <1>1, <1>3 DEF Setup!WriteDevices, Setup!history, SameHist
<1>5. QED
  BY <1>1, <1>4, AnsweringTellsNothing, WriteIs

(* A callback that makes the next call tells nothing yet.                    *)
LEMMA CallbackStutters ==
  ASSUME WalkInv, NEW s \in Submissions, AfterBuilding(s) \/ AfterRoom(s) \/ AfterDevices(s)
  PROVE  UNCHANGED Setup!setupVars
<1>1. PICK c \in Calls : \E q : Send(s, c, q)
  BY DEF AfterBuilding, AfterRoom, AfterDevices, Calls
<1>2. InProgress(s) /\ Pushed(s) /\ SameDocs /\ SamePage /\ SameHist
  BY DEF AfterBuilding, AfterRoom, AfterDevices, Arrived, InProgress, Calls, SameDocs, SamePage,
     SameHist, db, loc, hist
<1>3. at'[s] = c /\ \A t \in Submissions \ {s} : at'[t] = at[t]
  BY <1>1 DEF Send, WalkInv, WalkTypes
<1>4. \A t \in Submissions \ {s} : results'[t] = results[t]
  BY <1>2 DEF Pushed, WalkInv, WalkTypes
<1>5. InProgress(s)'
  BY <1>3 DEF InProgress
<1>6. SameTold
  BY <1>2, <1>3, <1>4, <1>5, ToldAsBefore, NotToldAnything DEF SameTold
<1>7. QED
  BY <1>2, <1>6, SetupStutters

(* The last one opens the dialog, which tells the truth.                     *)
LEMMA LastCallbackTells ==
  ASSUME "devices" \in Untouched, WalkInv, NEW s \in Submissions, AfterConfig(s)
  PROVE  \E how \in Setup!Verdicts : Setup!Tell(s, how)
<1>1. /\ at[s] = "config" /\ answer[s].arrived /\ Pushed(s) /\ Send(s, "shown", NoCall)
      /\ SameDocs /\ SamePage /\ SameHist
  BY DEF AfterConfig, Arrived, SameDocs, SamePage, SameHist, db, loc, hist
<1>2. at'[s] = "shown" /\ \A t \in Submissions \ {s} : at'[t] = at[t]
  BY <1>1 DEF Send, WalkInv, WalkTypes
<1>3. \A t \in Submissions \ {s} : results'[t] = results[t]
  BY <1>1 DEF Pushed, WalkInv, WalkTypes
<1>4. StageOf(s) = "running" /\ StageOf(s)' = "told" /\ SaidIn(s)' = Dialog(s)'
  BY <1>1, <1>2 DEF StageOf, SaidIn, InProgress, Calls
<1>5. \A t \in Submissions \ {s} : StageOf(t)' = StageOf(t) /\ SaidIn(t)' = SaidIn(t)
  BY <1>2, <1>3, ToldAsBefore
<1>6. Dialog(s)' \in Setup!Verdicts
  BY <1>1, DialogSays DEF Setup!Verdicts
<1>7. Dialog(s)' = "All Information Succeeded" => Setup!AllThere
  BY DialogTrue DEF Setup!AllThere
<1>8. Setup!Tell(s, Dialog(s)')
  BY <1>1, <1>4, <1>5, <1>7 DEF Setup!Tell, Setup!docs, Setup!described, Setup!history,
     SameDocs, SamePage, SameHist
<1>9. QED
  BY <1>6, <1>8

LEMMA CloseDismisses ==
  ASSUME WalkInv, NEW s \in Submissions, CloseDialog(s)
  PROVE  Setup!Dismiss(s)
<1>1. /\ at' = [at EXCEPT ![s] = "closed"] /\ results' = [results EXCEPT ![s] = {}]
      /\ at[s] = "shown" /\ SameDocs /\ SamePage /\ SameHist
  BY DEF CloseDialog, SameDocs, SamePage, SameHist, db, loc, hist
<1>2. /\ at'[s] = "closed"
      /\ \A t \in Submissions \ {s} : at'[t] = at[t] /\ results'[t] = results[t]
  BY <1>1 DEF WalkInv, WalkTypes
<1>3. StageOf(s) = "told" /\ StageOf(s)' = "over" /\ SaidIn(s)' = "nothing"
  BY <1>1, <1>2 DEF StageOf, SaidIn, InProgress, Calls
<1>4. \A t \in Submissions \ {s} : StageOf(t)' = StageOf(t) /\ SaidIn(t)' = SaidIn(t)
  BY <1>2, ToldAsBefore
<1>5. QED
  BY <1>1, <1>3, <1>4 DEF Setup!Dismiss, Setup!docs, Setup!described, Setup!history,
     SameDocs, SamePage, SameHist
LEMMA SetupStep ==
  ASSUME {"location", "devices"} \subseteq Untouched
  PROVE  WalkInv /\ [Next]_vars => [Setup!SetupNext]_(Setup!setupVars)
<1> SUFFICES ASSUME WalkInv, [Next]_vars
             PROVE  Setup!SetupNext \/ UNCHANGED Setup!setupVars
  OBVIOUS
<1>1. CASE UNCHANGED vars \/ LoadBuildings \/ LoadRooms \/ \E i \in 0..4 : GoTo(i)
  <2>1. SameDocs /\ SamePage /\ SameHist /\ UNCHANGED subs
    BY <1>1 DEF vars, LoadBuildings, LoadRooms, GoTo, SameDocs, SamePage, SameHist, db, loc, hist
  <2>2. QED
    BY <2>1, SameSubs, SetupStutters
<1>2. ASSUME NEW r \in Rooms, OtherAddsRoom(r) PROVE Setup!OthersAdd(r)
  <2>1. SameTold
    BY <1>2, SameSubs DEF OtherAddsRoom
  <2>2. QED
    BY <1>2, <2>1 DEF OtherAddsRoom, Setup!OthersAdd, Setup!described, Setup!history, SameTold,
       loc, hist
<1>3. CASE EditLocation \/ UpdateAccordion \/ \E r \in Rooms : ValidateLocation(r)
  BY <1>3, UserActsSetup DEF Setup!SetupNext
<1>4. ASSUME NEW s \in Submissions, Finish(s) PROVE Setup!Begin(s)
  BY <1>4, FinishBegins
<1>5. ASSUME NEW s \in Submissions, Server(s)
      PROVE  Setup!Write(s) \/ UNCHANGED Setup!setupVars
  <2>1. CASE ServerRefuses(s)
    <3>1. SameDocs /\ SamePage /\ SameHist /\ UNCHANGED <<at, results>>
      BY <2>1 DEF ServerRefuses, SameDocs, SamePage, SameHist, db, loc, hist
    <3>2. QED
      BY <3>1, AnsweringTellsNothing, SetupStutters
  <2>2. QED
    BY <1>5, <2>1, AcceptsWrites, TakesDevicesWrites DEF Server
<1>6. ASSUME NEW s \in Submissions, Callback(s)
      PROVE  (\E how \in Setup!Verdicts : Setup!Tell(s, how)) \/ UNCHANGED Setup!setupVars
  BY <1>6, CallbackStutters, LastCallbackTells DEF Callback
<1>7. ASSUME NEW s \in Submissions, CloseDialog(s) PROVE Setup!Dismiss(s)
  BY <1>7, CloseDismisses
<1>8. QED
  BY <1>1, <1>2, <1>3, <1>4, <1>5, <1>6, <1>7 DEF Next, Setup!SetupNext

LEMMA SetupInitially == Init => Setup!SetupInit
<1> SUFFICES ASSUME Init PROVE Setup!SetupInit
  OBVIOUS
<1>1. \A s \in Submissions : StageOf(s) = "idle" /\ SaidIn(s) = "nothing"
  BY DEF Init, StageOf, SaidIn, InProgress, Calls
<1>2. QED
  BY <1>1 DEF Init, Setup!SetupInit

(* Whatever calls fail and whatever answers are lost, the page writes what   *)
(* it shows and nothing else, touches no room but its own, and tells of      *)
(* success only when all is there: a chain of calls and callbacks does what  *)
(* RoomSetup promises of a submission.                                       *)
THEOREM WalkthroughKeepsPromise ==
  ASSUME {"location", "devices"} \subseteq Untouched
  PROVE  Spec => ImplementsRoomSetup
<1>1. WalkInv /\ [Next]_vars => [Setup!SetupNext]_(Setup!setupVars)
  BY SetupStep
<1>2. "location" \in Untouched
  OBVIOUS
<1>3. Spec => []WalkInv
  BY <1>2, WalkInvariant
<1>4. QED
  BY <1>1, <1>3, SetupInitially, PTL DEF Spec, ImplementsRoomSetup, Setup!SetupSpec
=============================================================================
