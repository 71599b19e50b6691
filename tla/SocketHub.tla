----------------------------- MODULE SocketHub -----------------------------
(* The websocket hub (socket/manager.go), the two goroutines it starts for   *)
(* every connection (socket/client.go), and the goroutine that feeds it with *)
(* room events (handlers/events.go, WriteEventsToSocket).                    *)
(*                                                                           *)
(* An element of Client is one *Client, that is one websocket connection: a  *)
(* browser that reconnects is another Client.  Events are numbered in the    *)
(* order the messenger hands them out.  The buffered channels are sequences  *)
(* with the capacity make(chan) gave them; a blocked send is a disabled      *)
(* action.  The hub's loop over h.clients is one step per client, since the  *)
(* write goroutines drain send channels while it runs.                       *)
EXTENDS Integers, Sequences, Functions

CONSTANTS Client,        \* the connections that may be opened
          MaxEvents,     \* bound: number of events the messenger delivers
          BroadcastCap,  \* capacity of h.broadcast (1000 in the code)
          RequestCap,    \* capacity of h.register and h.unregister (100)
          SendCap        \* capacity of a client's send channel (256)

ASSUME CapAssumption ==
  /\ MaxEvents \in Nat
  /\ BroadcastCap \in Nat \ {0}
  /\ RequestCap \in Nat \ {0}
  /\ SendCap \in Nat \ {0}

VARIABLES
  clients,     \* h.clients: the registered clients
  register,    \* h.register
  unregister,  \* h.unregister
  broadcast,   \* h.broadcast
  msg,         \* run(): the message being fanned out
  todo,        \* run(): the clients the loop over h.clients has still to serve
  panicked,    \* run() sent on, or closed, a closed channel
  send,        \* send[c]: the events in c.send
  closed,      \* the clients whose send channel is closed
  link,        \* link[c]: c.conn as its two goroutines find it
  reader,      \* reader[c]: where ServeWebsocket and then c.read() are
  writer,      \* writer[c]: where c.write() is
  published,   \* number of events WriteEventsToSocket has put in broadcast
  from,        \* history: number of events fanned out before c was registered
  got          \* history: the events put on the wire to c's browser, in order

hubVars  == <<clients, register, unregister, broadcast, msg, todo, panicked>>
chanVars == <<send, closed>>
connVars == <<link, reader, writer>>
histVars == <<published, from, got>>
vars     == <<hubVars, chanVars, connVars, histVars>>

NotJoined == -1

(* The events the hub has taken out of broadcast so far.                     *)
Log == published - Len(broadcast)

HubTypes ==
  /\ clients \subseteq Client
  /\ register \in Seq(Client) /\ Len(register) <= RequestCap
  /\ unregister \in Seq(Client) /\ Len(unregister) <= RequestCap
  /\ broadcast \in Seq(1..MaxEvents) /\ Len(broadcast) <= BroadcastCap
  /\ msg \in 0..MaxEvents
  /\ todo \subseteq Client

ChanTypes ==
  /\ send \in [Client -> Seq(1..MaxEvents)]
  /\ \A c \in Client : Len(send[c]) <= SendCap
  /\ closed \subseteq Client

ConnTypes ==
  /\ link \in [Client -> {"none", "open", "lost", "closed"}]
  /\ reader \in [Client -> {"new", "registering", "reading",
                            "unregistering", "closing", "done"}]
  /\ writer \in [Client -> {"off", "writing", "done"}]

HistTypes ==
  /\ published \in 0..MaxEvents
  /\ from \in [Client -> 0..MaxEvents \cup {NotJoined}]
  /\ got \in [Client -> Seq(1..MaxEvents)]

(* panicked has no type of its own: NoPanic below says it is FALSE.          *)
TypeOK == HubTypes /\ ChanTypes /\ ConnTypes /\ HistTypes

Init ==
  /\ clients = {}
  /\ register = <<>>
  /\ unregister = <<>>
  /\ broadcast = <<>>
  /\ msg = 0
  /\ todo = {}
  /\ panicked = FALSE
  /\ send = [c \in Client |-> <<>>]
  /\ closed = {}
  /\ link = [c \in Client |-> "none"]
  /\ reader = [c \in Client |-> "new"]
  /\ writer = [c \in Client |-> "off"]
  /\ published = 0
  /\ from = [c \in Client |-> NotJoined]
  /\ got = [c \in Client |-> <<>>]

-----------------------------------------------------------------------------
(* ServeWebsocket.  Upgrade gives the handler an open connection; the        *)
(* blocking send on register is followed by nothing but the two go           *)
(* statements, so the goroutines exist as soon as the request is queued.     *)

Upgrade(c) ==
  /\ reader[c] = "new"
  /\ link' = [link EXCEPT ![c] = "open"]
  /\ reader' = [reader EXCEPT ![c] = "registering"]
  /\ UNCHANGED <<hubVars, chanVars, writer, histVars>>

Register(c) ==
  /\ reader[c] = "registering"
  /\ Len(register) < RequestCap
  /\ register' = Append(register, c)
  /\ reader' = [reader EXCEPT ![c] = "reading"]
  /\ writer' = [writer EXCEPT ![c] = "writing"]
  /\ UNCHANGED <<clients, unregister, broadcast, msg, todo, panicked, chanVars,
                 link, histVars>>

(* The browser goes away or the network fails.  From here on nothing         *)
(* written reaches it, whether or not the write reports an error: a failed   *)
(* write makes every later write on a gorilla connection fail.               *)
LinkBreaks(c) ==
  /\ link[c] = "open"
  /\ link' = [link EXCEPT ![c] = "lost"]
  /\ UNCHANGED <<hubVars, chanVars, reader, writer, histVars>>

-----------------------------------------------------------------------------
(* read().  ReadMessage fails when the link is lost or closed, and also on   *)
(* an open link: a pong later than pongWait, a message over maxMessageSize.  *)
(* The deferred function then sends on unregister, and closes the connection *)
(* only after that send has gone through.                                    *)

ReadFails(c) ==
  /\ reader[c] = "reading"
  /\ reader' = [reader EXCEPT ![c] = "unregistering"]
  /\ UNCHANGED <<hubVars, chanVars, link, writer, histVars>>

Unregister(c) ==
  /\ reader[c] = "unregistering"
  /\ Len(unregister) < RequestCap
  /\ unregister' = Append(unregister, c)
  /\ reader' = [reader EXCEPT ![c] = "closing"]
  /\ UNCHANGED <<clients, register, broadcast, msg, todo, panicked, chanVars,
                 link, writer, histVars>>

(* Mutant: the deferred function forgets conn.Close().                       *)
ReaderForgetsClose(c) ==
  /\ reader[c] = "closing"
  /\ reader' = [reader EXCEPT ![c] = "done"]
  /\ UNCHANGED <<hubVars, chanVars, link, writer, histVars>>

ReaderCloses(c) ==
  /\ reader[c] = "closing"
  /\ reader' = [reader EXCEPT ![c] = "done"]
  /\ link' = [link EXCEPT ![c] = "closed"]
  /\ UNCHANGED <<hubVars, chanVars, writer, histVars>>

-----------------------------------------------------------------------------
(* write().  The error of WriteJSON is dropped: the goroutine goes on        *)
(* draining c.send.  It ends when c.send is closed and drained, or when a    *)
(* ping fails, and closes the connection then.                               *)

(* Mutant: an event is written again instead of taken off the channel.       *)
WriteEventTwice(c) ==
  /\ writer[c] = "writing"
  /\ send[c] # <<>>
  /\ send' = [send EXCEPT ![c] = IF got[c] = <<>> THEN @ ELSE Tail(@)]
  /\ got' = IF link[c] = "open"
              THEN [got EXCEPT ![c] = Append(@, Head(send[c]))]
              ELSE got
  /\ UNCHANGED <<hubVars, closed, connVars, published, from>>

WriteEvent(c) ==
  /\ writer[c] = "writing"
  /\ send[c] # <<>>
  /\ send' = [send EXCEPT ![c] = Tail(@)]
  /\ got' = IF link[c] = "open"
              THEN [got EXCEPT ![c] = Append(@, Head(send[c]))]
              ELSE got
  /\ UNCHANGED <<hubVars, closed, connVars, published, from>>

(* Mutant: write() returns on a closed channel but leaves the connection.    *)
WriteCloseKeepsLink(c) ==
  /\ writer[c] = "writing"
  /\ send[c] = <<>>
  /\ c \in closed
  /\ writer' = [writer EXCEPT ![c] = "done"]
  /\ UNCHANGED <<hubVars, chanVars, link, reader, histVars>>

WriteClose(c) ==
  /\ writer[c] = "writing"
  /\ send[c] = <<>>
  /\ c \in closed
  /\ writer' = [writer EXCEPT ![c] = "done"]
  /\ link' = [link EXCEPT ![c] = "closed"]
  /\ UNCHANGED <<hubVars, chanVars, reader, histVars>>

PingFails(c) ==
  /\ writer[c] = "writing"
  /\ link[c] \in {"lost", "closed"}
  /\ writer' = [writer EXCEPT ![c] = "done"]
  /\ link' = [link EXCEPT ![c] = "closed"]
  /\ UNCHANGED <<hubVars, chanVars, reader, histVars>>

-----------------------------------------------------------------------------
(* WriteEventsToSocket and Manager.run().                                    *)

Publish ==
  /\ published < MaxEvents
  /\ Len(broadcast) < BroadcastCap
  /\ published' = published + 1
  /\ broadcast' = Append(broadcast, published + 1)
  /\ UNCHANGED <<clients, register, unregister, msg, todo, panicked, chanVars,
                 connVars, from, got>>

AtSelect == todo = {} /\ ~panicked

HubRegister ==
  /\ AtSelect
  /\ register # <<>>
  /\ register' = Tail(register)
  /\ clients' = clients \cup {Head(register)}
  /\ from' = [from EXCEPT ![Head(register)] = Log]
  /\ UNCHANGED <<unregister, broadcast, msg, todo, panicked, chanVars,
                 connVars, published, got>>

(* delete(h.clients, c) and close(c.send), in either order of the code: the  *)
(* runtime panics when the channel is closed already.                        *)
CloseSend(c) ==
  /\ clients' = clients \ {c}
  /\ closed' = closed \cup {c}
  /\ panicked' = (c \in closed)

(* Mutant: the membership test before close(client.send) is missing.         *)
HubUnregisterUnchecked ==
  /\ AtSelect
  /\ unregister # <<>>
  /\ unregister' = Tail(unregister)
  /\ CloseSend(Head(unregister))
  /\ UNCHANGED <<register, broadcast, msg, todo, send, connVars, histVars>>

HubUnregister ==
  /\ AtSelect
  /\ unregister # <<>>
  /\ unregister' = Tail(unregister)
  /\ IF Head(unregister) \in clients
       THEN CloseSend(Head(unregister))
       ELSE UNCHANGED <<clients, closed, panicked>>
  /\ UNCHANGED <<register, broadcast, msg, todo, send, connVars, histVars>>

HubTake ==
  /\ AtSelect
  /\ broadcast # <<>>
  /\ broadcast' = Tail(broadcast)
  /\ msg' = Head(broadcast)
  /\ todo' = clients
  /\ UNCHANGED <<clients, register, unregister, panicked, chanVars, connVars,
                 histVars>>

(* Mutants of the loop body: no bound on the buffer; a full buffer skips the *)
(* event and keeps the client; a full buffer loses its oldest event.         *)
HubOfferUnbounded(c) ==
  /\ send' = [send EXCEPT ![c] = Append(@, msg)]
  /\ UNCHANGED <<clients, closed, panicked>>

HubOfferSkips(c) ==
  /\ send' = IF Len(send[c]) < SendCap
               THEN [send EXCEPT ![c] = Append(@, msg)]
               ELSE send
  /\ UNCHANGED <<clients, closed, panicked>>

HubOfferDropsOldest(c) ==
  /\ send' = [send EXCEPT ![c] =
                Append(IF Len(@) < SendCap THEN @ ELSE Tail(@), msg)]
  /\ UNCHANGED <<clients, closed, panicked>>

(* One turn of the loop over h.clients: the send that never blocks.          *)
HubOffer(c) ==
  IF Len(send[c]) < SendCap
    THEN /\ send' = IF c \in closed
                      THEN send
                      ELSE [send EXCEPT ![c] = Append(@, msg)]
         /\ panicked' = (c \in closed)
         /\ UNCHANGED <<clients, closed>>
    ELSE CloseSend(c) /\ UNCHANGED send

HubFanOut(c) ==
  /\ ~panicked
  /\ c \in todo
  /\ HubOffer(c)
  /\ todo' = todo \ {c}
  /\ UNCHANGED <<register, msg, unregister, broadcast, connVars, histVars>>

-----------------------------------------------------------------------------
Serve(c) == Upgrade(c) \/ Register(c) \/ LinkBreaks(c)
Read(c)  == ReadFails(c) \/ Unregister(c) \/ ReaderCloses(c)
Write(c) == WriteEvent(c) \/ WriteClose(c) \/ PingFails(c)
Run      == HubRegister \/ HubUnregister \/ HubTake
              \/ \E c \in Client : HubFanOut(c)

Next == \/ Publish
        \/ Run
        \/ \E c \in Client : Serve(c) \/ Read(c) \/ Write(c)

Spec == Init /\ [][Next]_vars

(* Fairness.  The hub goroutine is never blocked inside the fan-out; its     *)
(* select picks a ready case uniformly at random, so a case that is ready    *)
(* again and again is taken (strong fairness).  A goroutine that can go on   *)
(* does (weak fairness).  That is enough for a blocked register or           *)
(* unregister too: a connection sends one request of each kind, so a channel *)
(* that is drained has room for those who wait.  A lost or closed connection *)
(* fails its reader by the read deadline, and a closed one fails the next    *)
(* ping.  Browsers owe nothing.                                              *)
HubFair == /\ SF_vars(HubRegister)
           /\ SF_vars(HubUnregister)
           /\ SF_vars(HubTake)
           /\ \A c \in Client : WF_vars(HubFanOut(c))

ConnFair(c) ==
  /\ WF_vars(Register(c))
  /\ WF_vars(link[c] # "open" /\ ReadFails(c))
  /\ WF_vars(Unregister(c))
  /\ WF_vars(ReaderCloses(c))
  /\ WF_vars(WriteEvent(c) \/ WriteClose(c))
  /\ WF_vars(link[c] = "closed" /\ PingFails(c))

FairSpec == Spec /\ HubFair /\ \A c \in Client : ConnFair(c)

-----------------------------------------------------------------------------
(* The hub never sends on a closed channel and never closes one twice        *)
(* (manager.go 111-130): either would panic and stop the whole server.       *)
NoPanic == ~panicked

(* Whatever reaches a browser is the events that follow its registration,    *)
(* in order, none missing and none twice, although the hub drops what does   *)
(* not fit a send buffer and write() ignores write errors.                   *)
NoGap ==
  \A c \in Client : \A i \in 1..Len(got[c]) : got[c][i] = from[c] + i

(* A client that is registered and still reachable has every event since it  *)
(* was registered either on the wire or in its buffer: the hub disconnects a *)
(* client rather than skip one event (manager.go 123-130).                   *)
NothingSkipped ==
  \A c \in clients \ todo :
    link[c] = "open" => from[c] + Len(got[c]) + Len(send[c]) = Log

(* Why those hold, as an inductive invariant.  A client asks to register     *)
(* once, and until the hub serves that it has no part in anything.           *)
QueuedOnce ==
  /\ \A i, j \in 1..Len(register) : register[i] = register[j] => i = j
  /\ \A i \in 1..Len(register) :
       /\ reader[register[i]] \notin {"new", "registering"}
       /\ from[register[i]] = NotJoined

LinkOfNew ==
  \A c \in Client : reader[c] = "new" => link[c] = "none"

NotJoinedYet ==
  \A c \in Client :
    /\ reader[c] \in {"new", "registering"} => from[c] = NotJoined
    /\ from[c] = NotJoined =>
         c \notin clients \cup closed /\ send[c] = <<>> /\ got[c] = <<>>

RegisteredIsOpen ==
  /\ clients \cap closed = {}
  /\ todo \subseteq clients

EventsInOrder ==
  /\ Len(broadcast) <= published
  /\ \A i \in 1..Len(broadcast) : broadcast[i] = Log + i
  /\ todo # {} => msg = Log /\ msg > 0

(* On an open link the buffer continues where the wire stops, and a          *)
(* registered client lacks at most the event being fanned out.               *)
BufferContinues ==
  \A c \in Client :
    link[c] = "open" =>
      /\ \A i \in 1..Len(send[c]) : send[c][i] = from[c] + Len(got[c]) + i
      /\ from[c] + Len(got[c]) + Len(send[c]) <= Log
      /\ c \in clients =>
           from[c] + Len(got[c]) + Len(send[c])
             = IF c \in todo THEN Log - 1 ELSE Log

HubInv == /\ TypeOK
          /\ NoPanic
          /\ QueuedOnce
          /\ LinkOfNew
          /\ NotJoinedYet
          /\ RegisteredIsOpen
          /\ EventsInOrder
          /\ BufferContinues
          /\ NoGap

(* A registered client that stays reachable is shown every event fanned out  *)
(* after its registration, or is disconnected.                               *)
Delivered ==
  \A c \in Client, e \in 1..MaxEvents :
    (c \in clients /\ from[c] < e /\ e <= Log)
      ~> (e \in Range(got[c]) \/ link[c] # "open")

(* When a connection fails, both of its goroutines end, whichever notices    *)
(* first and however full the hub's channels are: a reader blocked on the    *)
(* unregister channel behind another's request does get through.             *)
GoroutinesEnd ==
  \A c \in Client :
    link[c] \in {"lost", "closed"}
      ~> (reader[c] = "done" /\ writer[c] = "done")

(* A client the hub gives up on (full buffer, or unregistered) is told so:   *)
(* closing its send channel ends its connection.                             *)
DropEndsConnection ==
  \A c \in Client : c \in closed ~> link[c] = "closed"

(* The abstract feed.  A subscription ends when the link does.               *)
Feed == INSTANCE EventFeed WITH
          log <- Log, start <- from, seen <- got,
          left <- {c \in Client : link[c] \in {"lost", "closed"}}
ImplementsFeed == Feed!FeedSpec

=============================================================================
