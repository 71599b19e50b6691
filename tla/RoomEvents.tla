----------------------------- MODULE RoomEvents -----------------------------
(* The test page follows a room (test-ui.component.ts): it asks the server   *)
(* to subscribe to the room, and to unsubscribe from the one before; the     *)
(* server (handlers/events.go) has one subscription for all browsers, and    *)
(* writes every event it receives to the hub, whose promise is EventFeed;    *)
(* the page shows what its websocket (socket.service.ts) receives.           *)
(*                                                                           *)
(* A Client of the feed is a connection: a browser that lost one opens       *)
(* another.  The event node sends the messenger, a library, events of the    *)
(* rooms it is subscribed to: about[e] is the room of event e.  They wait in *)
(* its queue and in the hub's, taken here as one, until the hub publishes    *)
(* them, subscribed to still or not.  A call is sent, served, and answered,  *)
(* or fails, served or not; calls overtake each other.                       *)
EXTENDS EventFeed, FiniteSets, SequencesExt

CONSTANTS Browser, EventRoom,
          NoSub,                 \* undefined
          MaxChoices             \* bound: rooms chosen, one fewer for each further
                                 \* browser that chooses

ASSUME EventsAssumption == NoSub \notin EventRoom \cup Client

VARIABLES
  about,                         \* the room of each event received, published
                                 \* those up to log
  subscribed,                    \* the rooms the messenger is subscribed to
  conn,                          \* conn[b]: the connection of b
  newSub, oldSub,
  shown,                         \* shown[b]: its list of events
  asked,                         \* calls sent and not answered
  choices,
  chose,                         \* history: the rooms b has chosen
  settled,                       \* history: the events received by the last answer
  troubled                       \* history: a choice was hurried or repeated, or a
                                 \* call failed

pageVars  == <<newSub, oldSub, shown, chose, settled>>
eventVars == <<feedVars, about, subscribed, conn, pageVars, asked, choices, troubled>>

(* The server keeps the subscriptions of earlier visits: the page ends none  *)
(* when it is left.                                                          *)
InitEvents ==
  /\ FeedInit
  /\ about = <<>>
  /\ subscribed \in SUBSET EventRoom
  /\ conn = [b \in Browser |-> NoSub]
  /\ newSub = [b \in Browser |-> NoSub]
  /\ oldSub = [b \in Browser |-> NoSub]
  /\ shown = [b \in Browser |-> <<>>]
  /\ asked = {}
  /\ choices = 0
  /\ chose = [b \in Browser |-> {}]
  /\ settled = [b \in Browser |-> 0]
  /\ troubled = FALSE

Calls(b) == {k \in asked : k.from = b}

(* UpdateRoomSubscription: both calls are sent at once.  The room of before  *)
(* can be chosen again, from a list loaded anew.                             *)
UpdateRoomSubscription(b, r) ==
  /\ choices' = choices + 1
  /\ choices' + Cardinality({o \in Browser \ {b} : chose[o] # {}}) <= MaxChoices
  /\ newSub' = [newSub EXCEPT ![b] = r]
  /\ asked' = asked
       \cup {[call |-> "subscribe", from |-> b, room |-> r, n |-> choices', served |-> FALSE]}
       \cup IF oldSub[b] = NoSub THEN {}
            ELSE {[call |-> "unsubscribe", from |-> b, room |-> oldSub[b], n |-> choices',
                   served |-> FALSE]}
  /\ chose' = [chose EXCEPT ![b] = @ \cup {r}]
  /\ troubled' = (troubled \/ Calls(b) # {} \/ r = newSub[b])
  /\ UNCHANGED <<feedVars, about, subscribed, conn, oldSub, shown, settled>>

(* The handlers.                                                             *)
Served(k) == asked' = (asked \ {k}) \cup {[k EXCEPT !.served = TRUE]}

SubscribeToRoom(k) ==
  /\ k \in asked /\ k.call = "subscribe" /\ ~k.served /\ Served(k)
  /\ subscribed' = subscribed \cup {k.room}
  /\ UNCHANGED <<feedVars, about, conn, pageVars, choices, troubled>>

(* Mutant of UnsubscribeFromRoom: it is answered only.                       *)
UnsubscribeAnswered(k) ==
  /\ k \in asked /\ k.call = "unsubscribe" /\ ~k.served /\ Served(k)
  /\ UNCHANGED <<feedVars, about, subscribed, conn, pageVars, choices, troubled>>

UnsubscribeFromRoom(k) ==
  /\ k \in asked /\ k.call = "unsubscribe" /\ ~k.served /\ Served(k)
  /\ subscribed' = subscribed \ {k.room}
  /\ UNCHANGED <<feedVars, about, conn, pageVars, choices, troubled>>

(* The answers.                                                              *)
Cleared(b) ==
  /\ shown' = [shown EXCEPT ![b] = <<>>]
  /\ settled' = [settled EXCEPT ![b] = Len(about)]

Unsubscribed(k) ==
  /\ k \in asked /\ k.call = "unsubscribe" /\ k.served
  /\ asked' = asked \ {k}
  /\ Cleared(k.from)
  /\ UNCHANGED <<feedVars, about, subscribed, conn, newSub, oldSub, choices, chose, troubled>>

(* Mutant of Subscribed: the room subscribed to is not remembered.           *)
SubscribedForgets(k) ==
  /\ k \in asked /\ k.call = "subscribe" /\ k.served
  /\ asked' = asked \ {k}
  /\ Cleared(k.from)
  /\ UNCHANGED <<feedVars, about, subscribed, conn, newSub, oldSub, choices, chose, troubled>>

(* oldSub becomes the room chosen by then.                                   *)
Subscribed(k) ==
  /\ k \in asked /\ k.call = "subscribe" /\ k.served
  /\ asked' = asked \ {k}
  /\ oldSub' = [oldSub EXCEPT ![k.from] = newSub[k.from]]
  /\ Cleared(k.from)
  /\ UNCHANGED <<feedVars, about, subscribed, conn, newSub, choices, chose, troubled>>

Failed(k) ==
  /\ k \in asked
  /\ asked' = asked \ {k}
  /\ troubled' = TRUE
  /\ UNCHANGED <<feedVars, about, subscribed, conn, pageVars, choices>>

-----------------------------------------------------------------------------
(* The feed.                                                                 *)

(* The messenger receives an event.                                          *)
EventComes(r) ==
  /\ r \in subscribed
  /\ Len(about) < MaxEvents
  /\ about' = Append(about, r)
  /\ UNCHANGED <<feedVars, subscribed, conn, pageVars, asked, choices, troubled>>

(* The next event received goes to every connection, whatever its room.      *)
WriteEventsToSocket ==
  /\ log < Len(about)
  /\ FeedPublish
  /\ UNCHANGED <<about, subscribed, conn, pageVars, asked, choices, troubled>>

(* The socket service connects, again when its connection is lost.           *)
Connect(b) ==
  LET new == {c \in Client : start[c] = -1} IN
  /\ conn[b] = NoSub \/ conn[b] \in left
  /\ new # {}
  /\ conn' = [conn EXCEPT ![b] = CHOOSE c \in new : TRUE]
  /\ FeedJoin(conn'[b])
  /\ UNCHANGED <<about, subscribed, pageVars, asked, choices, troubled>>

ConnectionLost(b) ==
  /\ conn[b] # NoSub
  /\ FeedLeave(conn[b])
  /\ UNCHANGED <<about, subscribed, conn, pageVars, asked, choices, troubled>>

(* UpdateFromEvents: what the connection receives is added to the list.      *)
UpdateFromEvents(b) ==
  /\ conn[b] # NoSub
  /\ FeedShow(conn[b])
  /\ shown' = [shown EXCEPT ![b] = Append(@, Last(seen'[conn[b]]))]
  /\ UNCHANGED <<about, subscribed, conn, newSub, oldSub, asked, choices, chose, settled, troubled>>

NextEvents ==
  \/ \E b \in Browser :
       \/ \E r \in EventRoom : UpdateRoomSubscription(b, r)
       \/ Connect(b) \/ ConnectionLost(b) \/ UpdateFromEvents(b)
  \/ \E k \in asked : \/ SubscribeToRoom(k) \/ UnsubscribeFromRoom(k)
                      \/ Subscribed(k) \/ Unsubscribed(k) \/ Failed(k)
  \/ \E r \in EventRoom : EventComes(r)
  \/ WriteEventsToSocket

EventsSpec == InitEvents /\ [][NextEvents]_eventVars

-----------------------------------------------------------------------------
(* Type invariant of the page, its calls and the subscription.               *)
EventsTypeOK ==
  /\ about \in Seq(EventRoom)
  /\ log <= Len(about)
  /\ subscribed \subseteq EventRoom
  /\ conn \in [Browser -> Client \cup {NoSub}]
  /\ newSub \in [Browser -> EventRoom \cup {NoSub}]
  /\ oldSub \in [Browser -> EventRoom \cup {NoSub}]

(* No two browsers choose one room.                                          *)
Apart == \A a, b \in Browser : a # b => chose[a] \cap chose[b] = {}

(* Of the rooms a browser has chosen, the server is subscribed to the last   *)
(* only, once the calls are answered: as long as users wait for answers,     *)
(* none fails, and no two browsers choose one room (the subscriptions are    *)
(* shared, oldSub is set by a callback, and the calls of one change overtake *)
(* each other).                                                              *)
RoomFollowed ==
  ~troubled /\ Apart
    => \A b \in Browser :
         Calls(b) = {} => subscribed \cap chose[b] = {newSub[b]} \ {NoSub}

(* A browser is shown events in the order they came and each once, whatever  *)
(* connections were lost.  Under the conditions of RoomFollowed it is shown  *)
(* no event of a room it has left but those the server had received when the *)
(* change was answered: those still waiting in a queue then are shown after  *)
(* the list was cleared.  (Events of rooms it has not chosen, which others   *)
(* follow or followed, are shown to it as well.)                             *)
ShownOfRoom ==
  \A b \in Browser : \A i \in DOMAIN shown[b] :
    LET e == shown[b][i] IN
    /\ i > 1 => e > shown[b][i - 1]
    /\ ~troubled /\ Apart /\ Calls(b) = {} /\ e > settled[b] /\ about[e] \in chose[b]
         => about[e] = newSub[b]
=============================================================================
