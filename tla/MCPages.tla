------------------------------ MODULE MCPages -------------------------------
(* Four pages on their own: the router (app-router.module.ts) shows one at a *)
(* time and makes it anew, so a behaviour is one visit to one of them.       *)
EXTENDS DevicePage, RoomBuilder, FormPages, RoomEvents, TLC

CONSTANTS r1, r2, b1, b2, disp, inp,                        \* device page
          d1, d2, pi, tv, hdmi,                         \* room builder
          c1, c2, p1, p2, e1, e2                        \* room events

VARIABLE open

pagesVars == <<open, deviceVars, builderVars, formVars, eventVars>>

InitPages ==
  /\ open \in {"device", "dnd", "building", "room", "test-ui"}
  /\ InitDevices /\ InitBuilder /\ InitForm /\ InitEvents
  /\ formPage = IF open = "building" THEN "building" ELSE "room"
  /\ open # "test-ui" => subscribed = {}

NextPages ==
  /\ UNCHANGED open
  /\ \/ /\ open = "device" /\ NextDevices
        /\ UNCHANGED <<builderVars, formVars, eventVars>>
     \/ /\ open = "dnd" /\ NextBuilder
        /\ UNCHANGED <<deviceVars, formVars, eventVars>>
     \/ /\ open \in {"building", "room"} /\ NextForm
        /\ UNCHANGED <<deviceVars, builderVars, eventVars>>
     \/ /\ open = "test-ui" /\ NextEvents
        /\ UNCHANGED <<deviceVars, builderVars, formVars>>

PagesSpec == InitPages /\ [][NextPages]_pagesVars

(* Type invariant of the pages.                                              *)
PagesTypeOK == DevicesTypeOK /\ BuilderTypeOK /\ FormTypeOK /\ EventsTypeOK

(* Once a user was hasty or a call failed, RoomFollowed and ShownOfRoom say  *)
(* nothing: such states are not explored further.                            *)
Untroubled == ~troubled

-----------------------------------------------------------------------------
(* Device page: a display with an input, and another room's display.         *)
MCPortsOf == disp :> {"a", "b"} @@ inp :> {}
MCBuildingOf == r1 :> b1 @@ r2 :> b1
MCDefaultPorts == disp :> [a |-> [source |-> "H", destination |-> "D"],
                           b |-> [source |-> "bogus", destination |-> "D"]]
MCIncludes == {<<"D1", "D">>, <<"D1", "1">>, <<"H1", "H">>, <<"H1", "1">>}
MCMayFeed == {<<inp, disp>>}
MCNumberOf == "D1" :> "1" @@ "H1" :> "1" @@ "X" :> "" @@ "" :> ""
MCDoc(id, t, w) == id :> [type |-> t, address |-> HostOf(id), wires |-> w]
MCStored ==
  MCDoc(<<r1, "D1">>, disp, "a" :> [source |-> <<r1, "H1">>, destination |-> <<r1, "D1">>])
    @@ MCDoc(<<r1, "H1">>, inp, [p \in {} |-> NoWire])
    @@ MCDoc(<<r2, "D1">>, disp, [p \in {"a", "b"} |-> NoWire])

(* Room builder: d2 exists already.                                          *)
MCBuildingPart == d1 :> b1 @@ d2 :> b1
MCBaseName == pi :> "CP" @@ tv :> "D" @@ hdmi :> "HDMI"
MCNameIncludes == {<<n, n>> : n \in {"CP", "D", "HDMI"}} \cup {<<"HDMI", "D">>}
MCIDRank == [r \in {d1, d2} |-> [CP |-> 1, D |-> 2, HDMI |-> 3]]
MCRoomDigits == d1 :> 2 @@ d2 :> 1

(* Building and room pages.                                                  *)
MCFormDoc(name, config, tags) == [name |-> name, config |-> config, tags |-> tags]
MCFormStored ==
  <<"b1">> :> MCFormDoc("n", NotChosen, <<>>)
    @@ <<"b2">> :> MCFormDoc("n", NotChosen, <<>>)
    @@ <<"b1", "1">> :> MCFormDoc("n", "Small", <<Tag>>)
    @@ <<"b1", "2">> :> MCFormDoc("", "Default", <<>>)
    @@ <<"b2", "1">> :> MCFormDoc("n", "Small", <<>>)
MCConfigNames == <<"Default", "Small", "Large">>
MCNewIDs == {<<"b3">>, <<"b1", "3">>}
MCRenamedIDs == {<<"x">>, <<"b1", "x">>}
=============================================================================
