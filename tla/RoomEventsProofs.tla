-------------------------- MODULE RoomEventsProofs --------------------------
(* Proof that the server follows the room each browser chose last, and that  *)
(* a browser is shown events in order and none of a room it left but those   *)
(* received before, for any browsers, rooms, connections, number of choices  *)
(* and subscriptions of earlier visits.                                      *)
EXTENDS RoomEvents, SequenceTheorems, TLAPS

CallType ==
  [call : {"subscribe", "unsubscribe"}, from : Browser, room : EventRoom, n : Nat,
   served : BOOLEAN]

FollowTypes ==
  /\ subscribed \subseteq EventRoom
  /\ newSub \in [Browser -> EventRoom \cup {NoSub}]
  /\ oldSub \in [Browser -> EventRoom \cup {NoSub}]
  /\ chose \in [Browser -> SUBSET EventRoom]
  /\ asked \subseteq CallType
  /\ choices \in Nat

Unserved(call, b) == {k \in asked : k.from = b /\ k.call = call /\ k.served = FALSE}

(* The browser's last room is one it chose.                                  *)
LastChosen(b) ==
  IF newSub[b] = NoSub THEN chose[b] = {} ELSE newSub[b] \in chose[b]

(* A subscribe under way is for that room, an unsubscribe for another of its.*)
CallsForLast(b) ==
  \A k \in asked : k.from = b =>
    IF k.call = "subscribe" THEN k.room = newSub[b] ELSE k.room \in chose[b] \ {newSub[b]}

(* Without a subscribe under way, oldSub is that room.                       *)
OldIsLast(b) ==
  oldSub[b] = newSub[b] \/ \E k \in asked : k.from = b /\ k.call = "subscribe"

(* That room is subscribed to, or will be.                                   *)
LastFollowed(b) ==
  newSub[b] \in subscribed \cup {NoSub} \/ Unserved("subscribe", b) # {}

(* Its other rooms are not, or will not be.                                  *)
OthersLeft(b) ==
  \A r \in subscribed \cap chose[b] :
    r = newSub[b] \/ \E k \in Unserved("unsubscribe", b) : k.room = r

Followed(b) ==
  LastChosen(b) /\ CallsForLast(b) /\ OldIsLast(b) /\ LastFollowed(b) /\ OthersLeft(b)

FollowInv == FollowTypes /\ (~troubled /\ Apart => \A b \in Browser : Followed(b))

-----------------------------------------------------------------------------
(* What the steps that concern the feed alone leave as it is.                *)
followVars == <<subscribed, newSub, oldSub, chose, asked, choices, troubled>>

(* The types of what the invariant speaks of are kept by every step.         *)
LEMMA TypesKept ==
  ASSUME FollowTypes, NextEvents \/ UNCHANGED followVars
  PROVE  FollowTypes'
<1>1. ASSUME NEW b \in Browser, NEW r \in EventRoom, UpdateRoomSubscription(b, r)
      PROVE  FollowTypes'
  <2>1. choices' \in Nat
    BY <1>1 DEF FollowTypes, UpdateRoomSubscription
  <2>2. asked' \subseteq CallType
    <3>1. oldSub[b] # NoSub => oldSub[b] \in EventRoom
      BY DEF FollowTypes
    <3>2. \A c \in {"subscribe", "unsubscribe"}, s \in EventRoom :
            [call |-> c, from |-> b, room |-> s, n |-> choices', served |-> FALSE] \in CallType
      BY <2>1 DEF CallType
    <3>3. asked \subseteq CallType
      BY DEF FollowTypes
    <3> HIDE DEF CallType
    <3>4. QED
      BY <1>1, <3>1, <3>2, <3>3 DEF UpdateRoomSubscription
  <2>3. chose' \in [Browser -> SUBSET EventRoom] /\ newSub' \in [Browser -> EventRoom \cup {NoSub}]
    BY <1>1 DEF FollowTypes, UpdateRoomSubscription
  <2>4. QED
    BY <1>1, <2>1, <2>2, <2>3 DEF FollowTypes, UpdateRoomSubscription
<1>2. ASSUME NEW k \in asked,
             SubscribeToRoom(k) \/ UnsubscribeFromRoom(k)
      PROVE  FollowTypes'
  <2>1. k.room \in EventRoom /\ [k EXCEPT !.served = TRUE] \in CallType
    BY DEF FollowTypes, CallType
  <2>2. QED
    BY <1>2, <2>1 DEF FollowTypes, SubscribeToRoom, UnsubscribeFromRoom, Served, pageVars
<1>3. ASSUME NEW k \in asked, Subscribed(k) \/ Unsubscribed(k) \/ Failed(k)
      PROVE  FollowTypes'
  <2>1. k.from \in Browser
    BY DEF FollowTypes, CallType
  <2>2. QED
    BY <1>3, <2>1 DEF FollowTypes, Subscribed, Unsubscribed, Failed, Cleared, pageVars
<1>4. CASE UNCHANGED followVars
  BY <1>4 DEF FollowTypes, followVars
<1>5. ASSUME NEW b \in Browser, Connect(b) \/ ConnectionLost(b) \/ UpdateFromEvents(b)
      PROVE  UNCHANGED followVars
  BY <1>5 DEF Connect, ConnectionLost, UpdateFromEvents, followVars, pageVars
<1>6. ASSUME WriteEventsToSocket \/ \E r \in EventRoom : EventComes(r)
      PROVE  UNCHANGED followVars
  BY <1>6 DEF WriteEventsToSocket, EventComes, followVars, pageVars
<1>7. QED
  BY <1>1, <1>2, <1>3, <1>4, <1>5, <1>6 DEF NextEvents, FollowTypes, followVars

(* A room chosen when nothing is under way: the room of before, which oldSub *)
(* holds, is left by a call of the same change.                              *)
LEMMA ChoiceKeeps ==
  ASSUME FollowTypes, NEW b \in Browser, NEW r \in EventRoom, UpdateRoomSubscription(b, r),
         ~troubled', NEW a \in Browser, Followed(a)
  PROVE  Followed(a)'
<1> DEFINE sub   == [call |-> "subscribe", from |-> b, room |-> r, n |-> choices', served |-> FALSE]
           unsub == [call |-> "unsubscribe", from |-> b, room |-> oldSub[b], n |-> choices',
                     served |-> FALSE]
<1>1. /\ asked' = asked \cup {sub} \cup (IF oldSub[b] = NoSub THEN {} ELSE {unsub})
      /\ newSub' = [newSub EXCEPT ![b] = r]
      /\ chose' = [chose EXCEPT ![b] = @ \cup {r}]
      /\ oldSub' = oldSub /\ subscribed' = subscribed
      /\ Calls(b) = {} /\ r # newSub[b]
  BY DEF UpdateRoomSubscription
<1>2. /\ sub.from = b /\ sub.call = "subscribe" /\ sub.room = r /\ sub.served = FALSE
      /\ unsub.from = b /\ unsub.call = "unsubscribe" /\ unsub.room = oldSub[b]
      /\ unsub.served = FALSE
  OBVIOUS
<1> HIDE DEF sub, unsub
<1>3. CASE a # b
  <2>1. newSub'[a] = newSub[a] /\ chose'[a] = chose[a]
    BY <1>1, <1>3 DEF FollowTypes
  <2>2. \A k : (k \in asked' /\ k.from = a) <=> (k \in asked /\ k.from = a)
    BY <1>1, <1>2, <1>3
  <2>3. LastChosen(a)' /\ CallsForLast(a)' /\ OldIsLast(a)'
    BY <1>1, <2>1, <2>2 DEF Followed, LastChosen, CallsForLast, OldIsLast
  <2>4. \A c : Unserved(c, a)' = Unserved(c, a)
    BY <2>2 DEF Unserved
  <2>5. LastFollowed(a)' /\ OthersLeft(a)'
    BY <1>1, <2>1, <2>4 DEF Followed, LastFollowed, OthersLeft
  <2>6. QED
    BY <2>3, <2>5 DEF Followed
<1>4. CASE a = b
  <2>1. newSub'[b] = r /\ chose'[b] = chose[b] \cup {r}
    BY <1>1 DEF FollowTypes
  <2>2. oldSub[b] = newSub[b]
    BY <1>1, <1>4 DEF Followed, OldIsLast, Calls
  <2>3. \A k \in asked : k.from # b
    BY <1>1 DEF Calls
  <2>4. newSub[b] # NoSub => newSub[b] \in chose[b]
    BY <1>4 DEF Followed, LastChosen
  <2>5. LastChosen(b)' /\ OldIsLast(b)' /\ LastFollowed(b)'
    BY <1>1, <1>2, <2>1, EventsAssumption
    DEF LastChosen, OldIsLast, LastFollowed, Unserved
  <2>6. CallsForLast(b)'
    <3>1. \A k \in asked' : k.from = b => k = sub \/ (k = unsub /\ oldSub[b] # NoSub)
      BY <1>1, <2>3
    <3>2. QED
      BY <1>1, <1>2, <2>1, <2>2, <2>4, <3>1 DEF CallsForLast
  <2>7. OthersLeft(b)'
    <3>1. \A s \in subscribed \cap chose[b] : s = newSub[b]
      BY <1>4, <2>3 DEF Followed, OthersLeft, Unserved
    <3>2. newSub[b] # NoSub => unsub \in Unserved("unsubscribe", b)'
      BY <1>1, <1>2, <2>2 DEF Unserved
    <3>3. \A s \in chose[b] : s # NoSub
      BY EventsAssumption DEF FollowTypes
    <3>4. QED
      BY <1>1, <1>2, <2>1, <2>2, <3>1, <3>2, <3>3 DEF OthersLeft
  <2>8. QED
    BY <1>4, <2>5, <2>6, <2>7 DEF Followed
<1>5. QED
  BY <1>3, <1>4

(* A call served keeps what it is about.                                     *)
LEMMA ServedCall ==
  ASSUME FollowTypes, NEW k \in asked, ~k.served
  PROVE  /\ k.from \in Browser /\ k.room \in EventRoom /\ k.room # NoSub /\ k.served = FALSE
         /\ [k EXCEPT !.served = TRUE].from = k.from
         /\ [k EXCEPT !.served = TRUE].call = k.call
         /\ [k EXCEPT !.served = TRUE].room = k.room
         /\ [k EXCEPT !.served = TRUE].served = TRUE
<1>1. k \in CallType
  BY DEF FollowTypes
<1>2. QED
  BY <1>1, EventsAssumption DEF CallType

(* The server subscribes to the last room of the browser that asked, which   *)
(* no other browser has chosen.                                              *)
LEMMA SubscribeKeeps ==
  ASSUME FollowTypes, NEW k \in asked, SubscribeToRoom(k), Apart,
         \A b \in Browser : Followed(b), NEW a \in Browser
  PROVE  Followed(a)'
<1> DEFINE m == [k EXCEPT !.served = TRUE]
<1>1. /\ asked' = (asked \ {k}) \cup {m} /\ subscribed' = subscribed \cup {k.room}
      /\ newSub' = newSub /\ oldSub' = oldSub /\ chose' = chose
      /\ k.call = "subscribe" /\ ~k.served
  BY DEF SubscribeToRoom, Served, pageVars
<1>2. /\ k.from \in Browser /\ k.room # NoSub /\ k.served = FALSE
      /\ m.from = k.from /\ m.call = k.call /\ m.room = k.room /\ m.served = TRUE
  BY <1>1, ServedCall
<1> HIDE DEF m
<1>3. k.room = newSub[k.from] /\ k.room \in chose[k.from]
  BY <1>1, <1>2 DEF Followed, CallsForLast, LastChosen
<1>4. LastChosen(a)' /\ CallsForLast(a)' /\ OldIsLast(a)'
  BY <1>1, <1>2 DEF Followed, LastChosen, CallsForLast, OldIsLast
<1>5. LastFollowed(a)'
  BY <1>1, <1>2, <1>3 DEF Followed, LastFollowed, Unserved
<1>6. OthersLeft(a)'
  <2>1. \A s \in subscribed' \cap chose[a] : s = newSub[a] \/ s \in subscribed
    BY <1>1, <1>2, <1>3 DEF Apart
  <2>2. Unserved("unsubscribe", a) \subseteq Unserved("unsubscribe", a)'
    BY <1>1 DEF Unserved
  <2>3. QED
    BY <1>1, <2>1, <2>2 DEF Followed, OthersLeft
<1>7. QED
  BY <1>4, <1>5, <1>6 DEF Followed

(* The server unsubscribes from another of the rooms of the browser that     *)
(* asked, which no other browser has chosen.                                 *)
LEMMA UnsubscribeKeeps ==
  ASSUME FollowTypes, NEW k \in asked, UnsubscribeFromRoom(k), Apart,
         \A b \in Browser : Followed(b), NEW a \in Browser
  PROVE  Followed(a)'
<1> DEFINE m == [k EXCEPT !.served = TRUE]
<1>1. /\ asked' = (asked \ {k}) \cup {m} /\ subscribed' = subscribed \ {k.room}
      /\ newSub' = newSub /\ oldSub' = oldSub /\ chose' = chose
      /\ k.call = "unsubscribe" /\ ~k.served
  BY DEF UnsubscribeFromRoom, Served, pageVars
<1>2. /\ k.from \in Browser /\ k.room # NoSub /\ k.served = FALSE
      /\ m.from = k.from /\ m.call = k.call /\ m.room = k.room /\ m.served = TRUE
  BY <1>1, ServedCall
<1> HIDE DEF m
<1>3. k.room # newSub[k.from] /\ k.room \in chose[k.from]
  BY <1>1, <1>2 DEF Followed, CallsForLast
<1>4. LastChosen(a)' /\ CallsForLast(a)' /\ OldIsLast(a)'
  BY <1>1, <1>2 DEF Followed, LastChosen, CallsForLast, OldIsLast
<1>5. LastFollowed(a)'
  <2>1. newSub[a] # k.room
    BY <1>2, <1>3 DEF Followed, LastChosen, Apart
  <2>2. Unserved("subscribe", a) \subseteq Unserved("subscribe", a)'
    BY <1>1 DEF Unserved
  <2>3. QED
    BY <1>1, <2>1, <2>2 DEF Followed, LastFollowed
<1>6. OthersLeft(a)'
  BY <1>1 DEF Followed, OthersLeft, Unserved
<1>7. QED
  BY <1>4, <1>5, <1>6 DEF Followed

(* An answer: the last room is remembered as the one to leave.               *)
LEMMA AnswerKeeps ==
  ASSUME FollowTypes, NEW k \in asked, Subscribed(k) \/ Unsubscribed(k),
         NEW a \in Browser, Followed(a)
  PROVE  Followed(a)'
<1>1. /\ asked' = asked \ {k} /\ k.served /\ k.from \in Browser
      /\ newSub' = newSub /\ chose' = chose /\ subscribed' = subscribed
  BY DEF Subscribed, Unsubscribed, FollowTypes, CallType, Cleared
<1>2. \A c : Unserved(c, a)' = Unserved(c, a)
  BY <1>1 DEF Unserved
<1>3. LastChosen(a)' /\ CallsForLast(a)'
  BY <1>1 DEF Followed, LastChosen, CallsForLast
<1>4. LastFollowed(a)' /\ OthersLeft(a)'
  BY <1>1, <1>2 DEF Followed, LastFollowed, OthersLeft
<1>5. OldIsLast(a)'
  <2>1. CASE Subscribed(k)
    <3>1. oldSub' = [oldSub EXCEPT ![k.from] = newSub[k.from]]
      BY <2>1 DEF Subscribed
    <3>2. oldSub'[a] = IF a = k.from THEN newSub[a] ELSE oldSub[a]
      BY <1>1, <3>1 DEF FollowTypes
    <3>3. QED
      BY <1>1, <3>2 DEF Followed, OldIsLast
  <2>2. CASE Unsubscribed(k)
    BY <1>1, <2>2 DEF Unsubscribed, Followed, OldIsLast
  <2>3. QED
    BY <2>1, <2>2
<1>6. QED
  BY <1>3, <1>4, <1>5 DEF Followed

-----------------------------------------------------------------------------
(* FollowInv is kept by every step: rooms are only ever added to those       *)
(* chosen, and what was troubled stays so.                                   *)
LEMMA FollowStep ==
  ASSUME FollowInv, [NextEvents]_eventVars
  PROVE  FollowInv'
<1> USE DEF FollowInv
<1>1. FollowTypes'
  BY TypesKept DEF eventVars, pageVars, followVars
<1>2. SUFFICES ASSUME ~troubled', Apart', NEW a \in Browser
               PROVE  Followed(a)'
  BY <1>1
<1>3. CASE UNCHANGED followVars
  <2>1. Apart /\ ~troubled
    BY <1>2, <1>3 DEF Apart, followVars
  <2>2. QED
    BY <1>3, <2>1 DEF followVars, Followed, LastChosen, CallsForLast, OldIsLast, LastFollowed,
                      OthersLeft, Unserved
<1>4. ASSUME NEW b \in Browser, NEW r \in EventRoom, UpdateRoomSubscription(b, r)
      PROVE  Followed(a)'
  <2>1. ~troubled
    BY <1>2, <1>4 DEF UpdateRoomSubscription
  <2>2. \A c \in Browser : chose[c] \subseteq chose'[c]
    BY <1>4 DEF UpdateRoomSubscription, FollowTypes
  <2>3. Apart
    BY <1>2, <2>2 DEF Apart
  <2>4. QED
    BY <1>2, <1>4, <2>1, <2>3, ChoiceKeeps
<1>5. ASSUME NEW k \in asked, SubscribeToRoom(k) \/ UnsubscribeFromRoom(k)
                               \/ Subscribed(k) \/ Unsubscribed(k)
      PROVE  Followed(a)'
  <2>1. chose' = chose /\ troubled' = troubled
    BY <1>5 DEF SubscribeToRoom, UnsubscribeFromRoom, Subscribed, Unsubscribed, pageVars
  <2>2. Apart /\ \A b \in Browser : Followed(b)
    BY <1>2, <2>1 DEF Apart
  <2>3. QED
    BY <1>5, <2>2, SubscribeKeeps, UnsubscribeKeeps, AnswerKeeps
<1>6. ASSUME NEW k \in asked, Failed(k)
      PROVE  FALSE
  BY <1>2, <1>6 DEF Failed
<1>7. ASSUME NEW b \in Browser, Connect(b) \/ ConnectionLost(b) \/ UpdateFromEvents(b)
      PROVE  UNCHANGED followVars
  BY <1>7 DEF Connect, ConnectionLost, UpdateFromEvents, followVars, pageVars
<1>8. ASSUME WriteEventsToSocket \/ \E r \in EventRoom : EventComes(r)
      PROVE  UNCHANGED followVars
  BY <1>8 DEF WriteEventsToSocket, EventComes, followVars, pageVars
<1>9. UNCHANGED eventVars => UNCHANGED followVars
  BY DEF eventVars, pageVars, followVars
<1>10. QED
  BY <1>3, <1>4, <1>5, <1>6, <1>7, <1>8, <1>9 DEF NextEvents

(* While choices wait for the answers to the last, no call fails and no two  *)
(* browsers choose one room, a browser's pending calls account for every     *)
(* difference between its choices and the subscriptions of the server        *)
(* (UpdateRoomSubscription of the page, the two handlers of the server).     *)
THEOREM FollowInvariant == EventsSpec => []FollowInv
<1>1. InitEvents => FollowInv
  <2>1. InitEvents => FollowTypes
    BY DEF InitEvents, FollowTypes
  <2>2. ASSUME InitEvents, NEW b \in Browser
        PROVE  Followed(b)
    BY <2>2 DEF InitEvents, Followed, LastChosen, CallsForLast, OldIsLast, LastFollowed,
                OthersLeft
  <2>3. QED
    BY <2>1, <2>2 DEF FollowInv
<1>2. QED
  BY <1>1, FollowStep, PTL DEF EventsSpec

(* The server ends up subscribed to the room a browser chose last and to no  *)
(* other it chose, once the calls of UpdateRoomSubscription are answered.    *)
THEOREM RoomIsFollowed == EventsSpec => []RoomFollowed
<1>1. FollowInv => RoomFollowed
  <2>1. SUFFICES ASSUME FollowInv, ~troubled, Apart, NEW b \in Browser, Calls(b) = {}
                 PROVE  subscribed \cap chose[b] = {newSub[b]} \ {NoSub}
    BY DEF RoomFollowed, Apart
  <2>2. Followed(b) /\ Unserved("subscribe", b) = {} /\ Unserved("unsubscribe", b) = {}
    BY <2>1 DEF FollowInv, Calls, Unserved
  <2>3. \A s \in subscribed : s # NoSub
    BY <2>1, EventsAssumption DEF FollowInv, FollowTypes
  <2>4. QED
    BY <2>2, <2>3 DEF Followed, LastChosen, LastFollowed, OthersLeft
<1>2. QED
  BY <1>1, FollowInvariant, PTL
-----------------------------------------------------------------------------
(* What the page shows.                                                      *)
FeedTypes ==
  /\ log \in Nat /\ about \in Seq(EventRoom) /\ log <= Len(about)
  /\ start \in [Client -> Nat \cup {-1}] /\ seen \in [Client -> Seq(Nat)]
  /\ conn \in [Browser -> Client \cup {NoSub}]
  /\ shown \in [Browser -> Seq(Nat)] /\ settled \in [Browser -> Nat]

Reach(c) == start[c] + Len(seen[c])

(* A connection is somewhere in the events there have been.                  *)
ReachInv ==
  \A c \in Client : IF start[c] = -1 THEN seen[c] = <<>> ELSE Reach(c) <= log

(* A browser has been shown events in order, up to where its connection is.  *)
ShownInOrder(b) ==
  /\ IF conn[b] = NoSub THEN shown[b] = <<>>
     ELSE /\ start[conn[b]] # -1
          /\ \A i \in 1..Len(shown[b]) : shown[b][i] \in 1..Reach(conn[b])
  /\ \A i \in 1..Len(shown[b]) : i > 1 => shown[b][i] > shown[b][i - 1]

(* Of the rooms chosen, the events received since the last answer are of the *)
(* last only.                                                                *)
SinceSettled(b) ==
  ~troubled /\ Apart /\ Calls(b) = {} =>
    \A e \in 1..Len(about) :
      e > settled[b] /\ about[e] \in chose[b] => about[e] = newSub[b]

ShownInv ==
  /\ FeedTypes /\ ReachInv
  /\ \A b \in Browser : ShownInOrder(b) /\ SinceSettled(b)

(* What the steps that concern the subscriptions alone leave as it is.       *)
feedSide == <<feedVars, about, conn>>

LEMMA ClearedKeepsOrder ==
  ASSUME FeedTypes, ReachInv, NEW a \in Browser, Cleared(a), UNCHANGED feedSide,
         \A b \in Browser : ShownInOrder(b)
  PROVE  /\ FeedTypes' /\ ReachInv' /\ \A b \in Browser : ShownInOrder(b)'
         /\ settled'[a] = Len(about) /\ \A b \in Browser \ {a} : settled'[b] = settled[b]
<1>1. /\ log' = log /\ start' = start /\ seen' = seen /\ about' = about /\ conn' = conn
  BY DEF feedSide, feedVars
<1>2. /\ shown' \in [Browser -> Seq(Nat)] /\ settled' \in [Browser -> Nat]
      /\ shown'[a] = <<>> /\ \A b \in Browser \ {a} : shown'[b] = shown[b]
      /\ settled'[a] = Len(about) /\ \A b \in Browser \ {a} : settled'[b] = settled[b]
  BY DEF Cleared, FeedTypes
<1>3. FeedTypes' /\ ReachInv'
  BY <1>1, <1>2 DEF FeedTypes, ReachInv, Reach
<1>4. ASSUME NEW b \in Browser PROVE ShownInOrder(b)'
  <2>1. CASE b = a
    BY <1>1, <1>2, <2>1 DEF ShownInOrder, Reach
  <2>2. CASE b # a
    BY <1>1, <1>2, <2>2 DEF ShownInOrder, Reach
  <2>3. QED
    BY <2>1, <2>2
<1>5. QED
  BY <1>2, <1>3, <1>4

LEMMA StillInOrder ==
  ASSUME FeedTypes, ReachInv, UNCHANGED feedSide, shown' = shown, settled' = settled,
         \A b \in Browser : ShownInOrder(b)
  PROVE  FeedTypes' /\ ReachInv' /\ \A b \in Browser : ShownInOrder(b)'
  BY DEF FeedTypes, ReachInv, ShownInOrder, Reach, feedSide, feedVars

(* The subscriptions.                                                        *)
LEMMA ChoiceKeepsShown ==
  ASSUME FollowTypes, ShownInv, NEW b \in Browser, NEW r \in EventRoom, UpdateRoomSubscription(b, r)
  PROVE  ShownInv'
<1> DEFINE sub   == [call |-> "subscribe", from |-> b, room |-> r, n |-> choices', served |-> FALSE]
           unsub == [call |-> "unsubscribe", from |-> b, room |-> oldSub[b], n |-> choices',
                     served |-> FALSE]
<1>1. /\ asked' = asked \cup {sub} \cup (IF oldSub[b] = NoSub THEN {} ELSE {unsub})
      /\ chose' = [chose EXCEPT ![b] = @ \cup {r}] /\ newSub' = [newSub EXCEPT ![b] = r]
      /\ troubled => troubled'
      /\ UNCHANGED feedSide /\ shown' = shown /\ settled' = settled
  BY DEF UpdateRoomSubscription, feedSide
<1>2. sub.from = b /\ unsub.from = b
  OBVIOUS
<1> HIDE DEF sub, unsub
<1>3. /\ chose'[b] = chose[b] \cup {r} /\ \A a \in Browser \ {b} : chose'[a] = chose[a]
      /\ \A a \in Browser \ {b} : newSub'[a] = newSub[a]
  BY <1>1 DEF FollowTypes
<1>4. ASSUME NEW a \in Browser PROVE SinceSettled(a)'
  <2>1. CASE a = b
    <3>1. Calls(b)' # {}
      BY <1>1, <1>2 DEF Calls
    <3>2. QED
      BY <2>1, <3>1 DEF SinceSettled
  <2>2. CASE a # b
    <3>1. Calls(a)' = Calls(a)
      BY <1>1, <1>2, <2>2 DEF Calls
    <3>2. Apart' => Apart
      <4>1. \A c \in Browser : chose[c] \subseteq chose'[c]
        BY <1>3
      <4>2. QED
        BY <4>1 DEF Apart
    <3>3. about' = about /\ chose'[a] = chose[a] /\ newSub'[a] = newSub[a]
      BY <1>1, <1>3, <2>2 DEF feedSide
    <3>4. QED
      BY <1>1, <3>1, <3>2, <3>3 DEF ShownInv, SinceSettled
  <2>3. QED
    BY <2>1, <2>2
<1>5. QED
  BY <1>1, <1>4, StillInOrder DEF ShownInv

LEMMA HandlersKeepShown ==
  ASSUME FollowTypes, ShownInv, NEW k \in asked, SubscribeToRoom(k) \/ UnsubscribeFromRoom(k)
  PROVE  ShownInv'
<1> DEFINE m == [k EXCEPT !.served = TRUE]
<1>1. /\ asked' = (asked \ {k}) \cup {m} /\ UNCHANGED feedSide
      /\ UNCHANGED <<newSub, shown, settled, chose, troubled>>
  BY DEF SubscribeToRoom, UnsubscribeFromRoom, Served, pageVars, feedSide
<1>2. m.from = k.from
  BY DEF FollowTypes, CallType
<1> HIDE DEF m
<1>3. ASSUME NEW a \in Browser PROVE SinceSettled(a)'
  <2>1. Calls(a)' = {} => Calls(a) = {}
    BY <1>1, <1>2 DEF Calls
  <2>2. QED
    BY <1>1, <2>1 DEF ShownInv, SinceSettled, Apart, feedSide
<1>4. QED
  BY <1>1, <1>3, StillInOrder DEF ShownInv

LEMMA AnswersKeepShown ==
  ASSUME FollowTypes, ShownInv, NEW k \in asked, Subscribed(k) \/ Unsubscribed(k)
  PROVE  ShownInv'
<1>1. /\ asked' = asked \ {k} /\ Cleared(k.from) /\ UNCHANGED feedSide
      /\ UNCHANGED <<newSub, chose, troubled>> /\ k.from \in Browser
  BY DEF Subscribed, Unsubscribed, feedSide, FollowTypes, CallType
<1>2. /\ FeedTypes' /\ ReachInv' /\ \A b \in Browser : ShownInOrder(b)'
      /\ settled'[k.from] = Len(about) /\ \A b \in Browser \ {k.from} : settled'[b] = settled[b]
  BY <1>1, ClearedKeepsOrder DEF ShownInv
<1>3. ASSUME NEW a \in Browser PROVE SinceSettled(a)'
  <2>1. about' = about /\ Len(about) \in Nat
    BY <1>1 DEF feedSide, ShownInv, FeedTypes
  <2>2. CASE a = k.from
    BY <1>2, <2>1, <2>2 DEF SinceSettled
  <2>3. CASE a # k.from
    <3>1. Calls(a)' = Calls(a) /\ settled'[a] = settled[a]
      BY <1>1, <1>2, <2>3 DEF Calls
    <3>2. QED
      BY <1>1, <2>1, <3>1 DEF ShownInv, SinceSettled, Apart
  <2>4. QED
    BY <2>2, <2>3
<1>4. QED
  BY <1>2, <1>3 DEF ShownInv

LEMMA FailedKeepsShown ==
  ASSUME ShownInv, NEW k \in asked, Failed(k)
  PROVE  ShownInv'
<1>1. /\ asked' \subseteq asked /\ troubled' = TRUE /\ UNCHANGED feedSide
      /\ shown' = shown /\ settled' = settled
  BY DEF Failed, pageVars, feedSide
<1>2. \A b \in Browser : SinceSettled(b)'
  BY <1>1 DEF SinceSettled
<1>3. QED
  BY <1>1, <1>2, StillInOrder DEF ShownInv

-----------------------------------------------------------------------------
(* An event is received: of a room subscribed to, which of those chosen by a *)
(* browser whose calls are answered is the last only.                        *)
LEMMA EventKeepsShown ==
  ASSUME FollowInv, ShownInv, NEW r \in EventRoom, EventComes(r)
  PROVE  ShownInv'
<1>1. /\ r \in subscribed /\ about' = Append(about, r) /\ UNCHANGED feedVars
      /\ UNCHANGED <<followVars, conn, shown, settled>>
  BY DEF EventComes, pageVars, followVars
<1>2. FeedTypes /\ log' = log /\ start' = start /\ seen' = seen
  BY <1>1 DEF ShownInv, feedVars
<1> DEFINE n == Len(about)
<1>3. /\ n \in Nat /\ about' \in Seq(EventRoom) /\ Len(about') = n + 1
      /\ \A e \in 1..n : about'[e] = about[e]
      /\ about'[n + 1] = r
  <2>1. about \in Seq(EventRoom)
    BY <1>2 DEF FeedTypes
  <2>2. QED
    BY <1>1, <2>1, AppendProperties
<1>4. log <= n
  BY <1>2 DEF FeedTypes
<1> HIDE DEF n
<1>5. FeedTypes'
  <2>1. log \in Nat /\ log <= n + 1
    BY <1>2, <1>3, <1>4 DEF FeedTypes
  <2>2. QED
    BY <1>1, <1>2, <1>3, <2>1 DEF FeedTypes
<1>6. ReachInv' /\ \A b \in Browser : ShownInOrder(b)'
  BY <1>1, <1>2 DEF ShownInv, ReachInv, ShownInOrder, Reach
<1>7. ASSUME NEW b \in Browser PROVE SinceSettled(b)'
  <2>1. SUFFICES ASSUME ~troubled', Apart', Calls(b)' = {}, NEW e \in 1..Len(about'), e > settled'[b],
                        about'[e] \in chose'[b]
                 PROVE  about'[e] = newSub'[b]
    BY DEF SinceSettled
  <2>2. /\ ~troubled /\ Apart /\ Calls(b) = {} /\ settled'[b] = settled[b]
        /\ newSub'[b] = newSub[b] /\ chose'[b] = chose[b]
    BY <1>1, <2>1 DEF followVars, Calls, Apart
  <2>3. CASE e \in 1..n
    BY <1>3, <2>1, <2>2, <2>3 DEF ShownInv, SinceSettled, n
  <2>4. CASE e = n + 1
    <3>1. Followed(b) /\ Unserved("unsubscribe", b) = {}
      BY <2>2 DEF FollowInv, Calls, Unserved
    <3>2. r \in chose[b]
      BY <1>3, <2>1, <2>2, <2>4
    <3>3. QED
      BY <1>1, <1>3, <2>2, <2>4, <3>1, <3>2 DEF Followed, OthersLeft
  <2>5. e \in 1..n \/ e = n + 1
    BY <1>3
  <2>6. QED
    BY <2>3, <2>4, <2>5
<1>8. QED
  BY <1>5, <1>6, <1>7 DEF ShownInv

(* The next event is published.                                              *)
LEMMA PublishKeepsShown ==
  ASSUME ShownInv, WriteEventsToSocket
  PROVE  ShownInv'
<1>1. /\ log < Len(about) /\ log' = log + 1 /\ about' = about
      /\ start' = start /\ seen' = seen /\ UNCHANGED <<followVars, conn, shown, settled>>
  BY DEF WriteEventsToSocket, FeedPublish, pageVars, followVars
<1>2. FeedTypes /\ log \in Nat /\ Len(about) \in Nat
  BY DEF ShownInv, FeedTypes
<1>3. FeedTypes'
  BY <1>1, <1>2 DEF FeedTypes
<1>4. ReachInv'
  <2>1. \A c \in Client : start[c] \in Nat \cup {-1} /\ Len(seen[c]) \in Nat
    BY <1>2 DEF FeedTypes
  <2>2. QED
    BY <1>1, <1>2, <2>1 DEF ShownInv, ReachInv, Reach
<1>5. ASSUME NEW b \in Browser PROVE ShownInOrder(b)' /\ SinceSettled(b)'
  BY <1>1 DEF ShownInv, ShownInOrder, Reach, SinceSettled, Apart, Calls, followVars
<1>6. QED
  BY <1>3, <1>4, <1>5 DEF ShownInv

(* What the steps of a connection leave as it is.                            *)
LEMMA ConnectionsOnly ==
  ASSUME ShownInv, UNCHANGED <<followVars, about, settled>>
  PROVE  \A b \in Browser : SinceSettled(b)'
  BY DEF ShownInv, SinceSettled, Calls, Apart, followVars

LEMMA ConnectKeepsShown ==
  ASSUME ShownInv, NEW b \in Browser, Connect(b)
  PROVE  ShownInv'
<1>1. PICK c \in Client : start[c] = -1 /\ conn' = [conn EXCEPT ![b] = c]
  BY DEF Connect
<1>2. /\ conn' = [conn EXCEPT ![b] = c] /\ start' = [start EXCEPT ![conn'[b]] = log]
      /\ log' = log /\ seen' = seen /\ UNCHANGED <<followVars, about, shown, settled>>
  BY <1>1 DEF Connect, FeedJoin, followVars, pageVars
<1>3. FeedTypes /\ log \in Nat /\ conn'[b] = c
  BY <1>2 DEF ShownInv, FeedTypes
<1>4. start'[c] = log /\ seen[c] = <<>> /\ \A d \in Client \ {c} : start'[d] = start[d]
  BY <1>1, <1>2, <1>3 DEF ShownInv, FeedTypes, ReachInv
<1>5. FeedTypes'
  BY <1>1, <1>2, <1>3 DEF FeedTypes
<1>6. ReachInv' /\ Reach(c)' = log
  <2>1. Reach(c)' = log
    BY <1>2, <1>3, <1>4 DEF Reach
  <2>2. ASSUME NEW d \in Client \ {c}
        PROVE  IF start'[d] = -1 THEN seen'[d] = <<>> ELSE Reach(d)' <= log'
    BY <1>2, <1>4 DEF ShownInv, ReachInv, Reach
  <2>3. log <= log' /\ log # -1
    BY <1>2, <1>3
  <2>4. QED
    BY <1>4, <2>1, <2>2, <2>3 DEF ReachInv
<1>7. ASSUME NEW a \in Browser PROVE ShownInOrder(a)'
  <2>1. \A i \in 1..Len(shown[a]) : shown[a][i] \in 1..log
    <3>1. CASE conn[a] = NoSub
      BY <3>1 DEF ShownInv, ShownInOrder
    <3>2. CASE conn[a] # NoSub
      <4>1. conn[a] \in Client /\ start[conn[a]] # -1
        BY <1>3, <3>2 DEF ShownInv, ShownInOrder, FeedTypes
      <4>2. Reach(conn[a]) <= log /\ Reach(conn[a]) \in Int
        BY <1>3, <4>1 DEF ShownInv, ReachInv, Reach, FeedTypes
      <4>3. QED
        BY <1>3, <3>2, <4>2 DEF ShownInv, ShownInOrder
    <3>3. QED
      BY <3>1, <3>2
  <2>2. CASE conn'[a] = c
    <3>1. start'[c] # -1 /\ Reach(c)' = log
      BY <1>3, <1>4, <1>6
    <3>2. conn'[a] # NoSub
      BY <1>1, <2>2, EventsAssumption
    <3>3. \A i \in 1..Len(shown'[a]) : shown'[a][i] \in 1..(start'[conn'[a]] + Len(seen'[conn'[a]]))
      BY <1>2, <2>1, <2>2, <3>1 DEF Reach
    <3>4. \A i \in 1..Len(shown'[a]) : i > 1 => shown'[a][i] > shown'[a][i - 1]
      BY <1>2 DEF ShownInv, ShownInOrder
    <3>5. QED
      BY <2>2, <3>1, <3>2, <3>3, <3>4 DEF ShownInOrder, Reach
  <2>3. CASE conn'[a] # c
    <3>1. conn'[a] = conn[a]
      BY <1>2, <1>3, <2>3 DEF FeedTypes
    <3>2. conn[a] # NoSub => start'[conn[a]] = start[conn[a]]
      BY <1>3, <1>4, <2>3, <3>1 DEF FeedTypes
    <3>3. QED
      BY <1>2, <3>1, <3>2 DEF ShownInv, ShownInOrder, Reach
  <2>4. QED
    BY <2>2, <2>3
<1>8. QED
  BY <1>2, <1>5, <1>6, <1>7, ConnectionsOnly DEF ShownInv

LEMMA LostKeepsShown ==
  ASSUME ShownInv, NEW b \in Browser, ConnectionLost(b)
  PROVE  ShownInv'
<1>1. /\ log' = log /\ start' = start /\ seen' = seen
      /\ UNCHANGED <<followVars, about, conn, shown, settled>>
  BY DEF ConnectionLost, FeedLeave, pageVars, followVars
<1>2. FeedTypes' /\ ReachInv' /\ \A a \in Browser : ShownInOrder(a)'
  BY <1>1 DEF ShownInv, FeedTypes, ReachInv, ShownInOrder, Reach
<1>3. QED
  BY <1>1, <1>2, ConnectionsOnly DEF ShownInv

(* An event is shown: it comes after those shown before.                     *)
LEMMA UpdateKeepsShown ==
  ASSUME ShownInv, NEW b \in Browser, UpdateFromEvents(b)
  PROVE  ShownInv'
<1>a. PICK c, e : c = conn[b] /\ e = start[c] + Len(seen[c]) + 1
  OBVIOUS
<1>1. /\ c # NoSub /\ start[c] # -1 /\ start[c] + Len(seen[c]) < log
      /\ seen' = [seen EXCEPT ![c] = Append(seen[c], e)]
      /\ shown' = [shown EXCEPT ![b] = Append(shown[b], Last(seen'[c]))]
      /\ log' = log /\ start' = start
      /\ UNCHANGED <<followVars, about, conn, settled>>
  BY <1>a DEF UpdateFromEvents, FeedShow, followVars
<1>2. FeedTypes /\ c \in Client /\ log \in Nat /\ start[c] \in Nat /\ Len(seen[c]) \in Nat
  BY <1>a, <1>1 DEF ShownInv, FeedTypes
<1>3. e \in 1..log
  BY <1>a, <1>1, <1>2
<1>4. /\ seen' \in [Client -> Seq(Nat)] /\ Len(seen'[c]) = Len(seen[c]) + 1
      /\ seen'[c][Len(seen[c]) + 1] = e /\ \A d \in Client \ {c} : seen'[d] = seen[d]
  <2>1. seen[c] \in Seq(Nat) /\ e \in Nat
    BY <1>2, <1>3 DEF FeedTypes
  <2>2. /\ Append(seen[c], e) \in Seq(Nat) /\ Len(Append(seen[c], e)) = Len(seen[c]) + 1
        /\ Append(seen[c], e)[Len(seen[c]) + 1] = e
    BY <2>1, AppendProperties
  <2>3. seen'[c] = Append(seen[c], e)
    BY <1>1, <1>2 DEF FeedTypes
  <2>4. QED
    BY <1>1, <1>2, <2>2, <2>3 DEF FeedTypes
<1>5. shown' = [shown EXCEPT ![b] = Append(shown[b], e)]
  BY <1>1, <1>4 DEF Last
<1>6. /\ shown' \in [Browser -> Seq(Nat)] /\ \A a \in Browser \ {b} : shown'[a] = shown[a]
      /\ Len(shown'[b]) = Len(shown[b]) + 1 /\ Len(shown[b]) \in Nat
      /\ shown'[b][Len(shown[b]) + 1] = e
      /\ \A i \in 1..Len(shown[b]) : shown'[b][i] = shown[b][i]
  <2>1. shown[b] \in Seq(Nat) /\ e \in Nat
    BY <1>2, <1>3 DEF FeedTypes
  <2>2. /\ Append(shown[b], e) \in Seq(Nat) /\ Len(Append(shown[b], e)) = Len(shown[b]) + 1
        /\ Append(shown[b], e)[Len(shown[b]) + 1] = e
        /\ \A i \in 1..Len(shown[b]) : Append(shown[b], e)[i] = shown[b][i]
    BY <2>1, AppendProperties
  <2>3. shown'[b] = Append(shown[b], e)
    BY <1>2, <1>5 DEF FeedTypes
  <2>4. QED
    BY <1>2, <1>5, <2>1, <2>2, <2>3 DEF FeedTypes
<1>7. FeedTypes'
  BY <1>1, <1>2, <1>4, <1>6 DEF FeedTypes
<1>8. Reach(c)' = e /\ Reach(c) = e - 1
  BY <1>a, <1>1, <1>2, <1>4 DEF Reach
<1>9. ReachInv'
  <2>1. ASSUME NEW d \in Client \ {c}
        PROVE  IF start'[d] = -1 THEN seen'[d] = <<>> ELSE Reach(d)' <= log'
    BY <1>1, <1>4 DEF ShownInv, ReachInv, Reach
  <2>2. Reach(c)' <= log'
    BY <1>1, <1>2, <1>3, <1>8
  <2>3. QED
    BY <1>1, <2>1, <2>2 DEF ReachInv
<1>10. ASSUME NEW a \in Browser PROVE ShownInOrder(a)'
  <2>1. conn'[a] = conn[a] /\ start' = start
    BY <1>1
  <2>2. ShownInOrder(a)
    BY DEF ShownInv
  <2>3. CASE a = b
    <3>1. conn[a] = c
      BY <1>a, <2>3
    <3>2. \A i \in 1..Len(shown[b]) : shown[b][i] \in 1..e - 1
      BY <1>1, <1>8, <2>2, <2>3, <3>1 DEF ShownInOrder
    <3> DEFINE n == Len(shown[b])
    <3>3. /\ n \in Nat /\ Len(shown'[b]) = n + 1 /\ shown'[b][n + 1] = e
          /\ \A i \in 1..n : shown'[b][i] = shown[b][i] /\ shown[b][i] \in 1..e - 1
          /\ \A i \in 1..n : i > 1 => shown[b][i] > shown[b][i - 1]
      BY <1>6, <2>2, <2>3, <3>2 DEF ShownInOrder
    <3>4. e \in Nat
      BY <1>3
    <3> HIDE DEF n
    <3>5. \A i \in 1..n + 1 : shown'[b][i] \in 1..e
      <4>1. SUFFICES ASSUME NEW i \in 1..n + 1 PROVE shown'[b][i] \in 1..e
        OBVIOUS
      <4>2. i \in 1..n \/ i = n + 1
        BY <3>3
      <4>3. e \in 1..e
        BY <1>3
      <4>4. QED
        BY <3>3, <3>4, <4>2, <4>3
    <3>6. \A i \in 1..n + 1 : i > 1 => shown'[b][i] > shown'[b][i - 1]
      <4>1. SUFFICES ASSUME NEW i \in 1..n + 1, i > 1 PROVE shown'[b][i] > shown'[b][i - 1]
        OBVIOUS
      <4>2. i - 1 \in 1..n
        BY <3>3, <4>1
      <4>3. CASE i \in 1..n
        BY <3>3, <4>1, <4>2, <4>3
      <4>4. CASE i = n + 1
        <5>1. shown'[b][i - 1] \in 1..e - 1 /\ shown'[b][i] = e
          BY <3>3, <4>2, <4>4
        <5>2. QED
          BY <3>4, <5>1
      <4>5. QED
        BY <3>3, <4>3, <4>4
    <3>7. QED
      BY <1>1, <1>8, <2>1, <2>3, <3>1, <3>3, <3>5, <3>6 DEF ShownInOrder
  <2>4. CASE a # b
    <3>1. shown'[a] = shown[a]
      BY <1>6, <2>4
    <3>2. CASE conn[a] = NoSub
      BY <2>1, <2>2, <3>1, <3>2 DEF ShownInOrder
    <3>3. CASE conn[a] # NoSub
      <4>1. PICK d \in Client : d = conn[a]
        BY <1>2, <3>3 DEF FeedTypes
      <4>2. Reach(d) \in Int /\ Reach(d)' \in Int /\ Reach(d) <= Reach(d)'
        <5>1. start[d] \in Int /\ Len(seen[d]) \in Nat
          BY <1>2 DEF FeedTypes
        <5>2. Len(seen'[d]) \in {Len(seen[d]), Len(seen[d]) + 1}
          BY <1>4
        <5>3. QED
          BY <2>1, <5>1, <5>2 DEF Reach
      <4>3. \A i \in 1..Len(shown[a]) : shown[a][i] \in 1..Reach(d)'
        <5>1. \A i \in 1..Len(shown[a]) : shown[a][i] \in 1..Reach(d)
          BY <2>2, <3>3, <4>1 DEF ShownInOrder, Reach
        <5>2. QED
          BY <4>2, <5>1
      <4>4. QED
        BY <2>1, <2>2, <3>1, <3>3, <4>1, <4>3 DEF ShownInOrder, Reach
    <3>4. QED
      BY <3>2, <3>3
  <2>5. QED
    BY <2>3, <2>4
<1>11. QED
  BY <1>1, <1>7, <1>9, <1>10, ConnectionsOnly DEF ShownInv

LEMMA ShownStep == FollowInv /\ ShownInv /\ [NextEvents]_eventVars => ShownInv'
<1> SUFFICES ASSUME FollowInv, ShownInv, [NextEvents]_eventVars PROVE ShownInv'
  OBVIOUS
<1>1. FollowTypes
  BY DEF FollowInv
<1>2. CASE UNCHANGED eventVars
  <2>1. UNCHANGED feedSide /\ shown' = shown /\ UNCHANGED <<followVars, about, settled>>
    BY <1>2 DEF eventVars, feedVars, pageVars, feedSide, followVars
  <2>2. QED
    BY <2>1, StillInOrder, ConnectionsOnly DEF ShownInv
<1>3. ASSUME NEW b \in Browser, NEW r \in EventRoom, UpdateRoomSubscription(b, r) PROVE ShownInv'
  BY <1>1, <1>3, ChoiceKeepsShown
<1>4. ASSUME NEW b \in Browser, Connect(b) PROVE ShownInv'
  BY <1>4, ConnectKeepsShown
<1>5. ASSUME NEW b \in Browser, ConnectionLost(b) PROVE ShownInv'
  BY <1>5, LostKeepsShown
<1>6. ASSUME NEW b \in Browser, UpdateFromEvents(b) PROVE ShownInv'
  BY <1>6, UpdateKeepsShown
<1>7. ASSUME NEW k \in asked, SubscribeToRoom(k) \/ UnsubscribeFromRoom(k) PROVE ShownInv'
  BY <1>1, <1>7, HandlersKeepShown
<1>8. ASSUME NEW k \in asked, Subscribed(k) \/ Unsubscribed(k) PROVE ShownInv'
  BY <1>1, <1>8, AnswersKeepShown
<1>9. ASSUME NEW k \in asked, Failed(k) PROVE ShownInv'
  BY <1>9, FailedKeepsShown
<1>10. ASSUME NEW r \in EventRoom, EventComes(r) PROVE ShownInv'
  BY <1>10, EventKeepsShown
<1>11. CASE WriteEventsToSocket
  BY <1>11, PublishKeepsShown
<1>12. QED
  BY <1>2, <1>3, <1>4, <1>5, <1>6, <1>7, <1>8, <1>9, <1>10, <1>11 DEF NextEvents

LEMMA ShownInit == InitEvents => ShownInv
<1> SUFFICES ASSUME InitEvents PROVE ShownInv
  OBVIOUS
<1>1. FeedTypes /\ ReachInv
  BY DEF InitEvents, FeedInit, FeedTypes, ReachInv
<1>2. ASSUME NEW b \in Browser PROVE ShownInOrder(b) /\ SinceSettled(b)
  BY DEF InitEvents, FeedInit, ShownInOrder, SinceSettled
<1>3. QED
  BY <1>1, <1>2 DEF ShownInv

LEMMA ShownInvariant == EventsSpec => []ShownInv
<1>1. FollowInv /\ ShownInv /\ [NextEvents]_eventVars => ShownInv'
  BY ShownStep
<1>2. QED
  BY <1>1, ShownInit, FollowInvariant, PTL DEF EventsSpec

(* Whatever connections are lost, a browser is shown events in the order     *)
(* they came and each once; once its calls are answered, an event of a room  *)
(* it left is shown only if the server had received it by then.              *)
THEOREM EventsShownAreOfRoom == EventsSpec => []ShownOfRoom
<1>1. ShownInv => ShownOfRoom
  <2>1. SUFFICES ASSUME ShownInv, NEW b \in Browser, NEW i \in DOMAIN shown[b]
                 PROVE  /\ i > 1 => shown[b][i] > shown[b][i - 1]
                        /\ /\ ~troubled /\ Apart /\ Calls(b) = {} /\ shown[b][i] > settled[b]
                           /\ about[shown[b][i]] \in chose[b]
                           => about[shown[b][i]] = newSub[b]
    BY DEF ShownOfRoom
  <2>2. /\ log \in Nat /\ Len(about) \in Nat /\ log <= Len(about) /\ shown[b] \in Seq(Nat) /\ ShownInOrder(b) /\ SinceSettled(b)
        /\ conn[b] \in Client \cup {NoSub}
    BY <2>1 DEF ShownInv, FeedTypes
  <2>3. i \in 1..Len(shown[b])
    BY <2>2
  <2>4. conn[b] # NoSub
    BY <2>2, <2>3 DEF ShownInOrder
  <2>5. shown[b][i] \in 1..Len(about)
    <3>1. conn[b] \in Client /\ start[conn[b]] # -1 /\ shown[b][i] \in 1..Reach(conn[b])
      BY <2>2, <2>3, <2>4 DEF ShownInOrder
    <3>2. Reach(conn[b]) \in Int /\ Reach(conn[b]) <= log
      BY <2>1, <3>1 DEF ShownInv, ReachInv, Reach, FeedTypes
    <3>3. QED
      BY <2>2, <3>1, <3>2
  <2>6. QED
    BY <2>1, <2>2, <2>3, <2>5 DEF ShownInOrder, SinceSettled
<1>2. QED
  BY <1>1, ShownInvariant, PTL

(* The events, connections and rooms the page keeps are of their types.      *)
THEOREM EventsTypesCorrect == EventsSpec => []EventsTypeOK
<1>1. FollowInv /\ ShownInv => EventsTypeOK
  BY DEF FollowInv, FollowTypes, ShownInv, FeedTypes, EventsTypeOK
<1>2. QED
  BY <1>1, FollowInvariant, ShownInvariant, PTL
=============================================================================
