-------------------------- MODULE SocketHubProofs --------------------------
(* Proofs about SocketHub, for every set of connections, every capacity and  *)
(* every number of events.                                                   *)
EXTENDS SocketHub, SequenceTheorems, TLAPS

(* The part of the invariant that stands on its own: types, and the events   *)
(* in broadcast being the ones that follow those already fanned out.         *)
TypeInv == TypeOK /\ EventsInOrder

LEMMA InitTyped == Init => TypeInv
<1> SUFFICES ASSUME Init PROVE TypeInv
  OBVIOUS
<1> USE CapAssumption DEF CapAssumption, Init, NotJoined
<1>1. HubTypes
  BY DEF HubTypes
<1>2. ChanTypes
  BY DEF ChanTypes
<1>3. ConnTypes
  BY DEF ConnTypes
<1>4. HistTypes
  BY DEF HistTypes
<1>5. EventsInOrder
  BY DEF EventsInOrder, Log
<1> QED
  BY <1>1, <1>2, <1>3, <1>4, <1>5 DEF TypeInv, TypeOK

LEMMA NextTyped == TypeInv /\ [Next]_vars => TypeInv'
<1> SUFFICES ASSUME TypeInv, [Next]_vars PROVE TypeInv'
  OBVIOUS
<1> USE CapAssumption DEF CapAssumption, TypeInv, TypeOK, NotJoined
<1>1. CASE Publish
  <2>1. HubTypes'
    BY <1>1 DEF Publish, HubTypes, HistTypes
  <2>2. ChanTypes' /\ ConnTypes' /\ HistTypes'
    BY <1>1 DEF Publish, ChanTypes, ConnTypes, HistTypes, chanVars, connVars
  <2>3. broadcast \in Seq(1..MaxEvents) /\ published \in Nat
    BY DEF HubTypes, HistTypes
  <2>4. Log' = Log /\ Len(broadcast') = Len(broadcast) + 1
    BY <1>1, <2>3 DEF Publish, Log
  <2>5. \A i \in 1..Len(broadcast') :
          broadcast'[i] = IF i <= Len(broadcast) THEN broadcast[i]
                                                 ELSE published + 1
    BY <1>1, <2>3 DEF Publish
  <2>6. \A i \in 1..Len(broadcast') : broadcast'[i] = Log + i
    BY <2>3, <2>4, <2>5 DEF EventsInOrder, Log
  <2>7. EventsInOrder'
    BY <1>1, <2>3, <2>4, <2>6 DEF Publish, EventsInOrder
  <2> QED
    BY <2>1, <2>2, <2>7
<1>2. CASE HubRegister
  <2>1. HubTypes'
    BY <1>2 DEF HubRegister, HubTypes
  <2>2. ChanTypes' /\ ConnTypes'
    BY <1>2 DEF HubRegister, ChanTypes, ConnTypes, chanVars, connVars
  <2>3. HistTypes'
    BY <1>2 DEF HubRegister, HistTypes, EventsInOrder, Log, HubTypes
  <2>4. EventsInOrder'
    BY <1>2 DEF HubRegister, EventsInOrder, Log
  <2> QED
    BY <2>1, <2>2, <2>3, <2>4
<1>3. CASE HubUnregister
  <2>1. HubTypes' /\ ChanTypes'
    BY <1>3 DEF HubUnregister, CloseSend, HubTypes, ChanTypes
  <2>2. ConnTypes' /\ HistTypes' /\ EventsInOrder'
    BY <1>3 DEF HubUnregister, ConnTypes, HistTypes, EventsInOrder, Log,
         connVars, histVars
  <2> QED
    BY <2>1, <2>2
<1>4. CASE HubTake
  <2>1. HubTypes'
    BY <1>4 DEF HubTake, HubTypes
  <2>2. ChanTypes' /\ ConnTypes' /\ HistTypes'
    BY <1>4 DEF HubTake, ChanTypes, ConnTypes, HistTypes, chanVars, connVars,
         histVars
  <2>3. EventsInOrder'
    BY <1>4 DEF HubTake, EventsInOrder, Log, HubTypes, HistTypes, histVars
  <2> QED
    BY <2>1, <2>2, <2>3
<1>5. ASSUME NEW c \in Client, HubFanOut(c) PROVE TypeInv'
  <2>1. HubTypes'
    BY <1>5 DEF HubFanOut, HubOffer, CloseSend, HubTypes
  <2>2. msg \in 1..MaxEvents
    BY <1>5 DEF HubFanOut, EventsInOrder, Log, HubTypes, HistTypes
  <2>3. ChanTypes'
    <3>1. CASE Len(send[c]) < SendCap /\ c \notin closed
      <4>1. /\ Append(send[c], msg) \in Seq(1..MaxEvents)
            /\ Len(Append(send[c], msg)) <= SendCap
        BY <2>2, <3>1 DEF ChanTypes
      <4> QED
        BY <1>5, <3>1, <4>1 DEF HubFanOut, HubOffer, ChanTypes
    <3>2. CASE ~(Len(send[c]) < SendCap /\ c \notin closed)
      BY <1>5, <3>2 DEF HubFanOut, HubOffer, CloseSend, ChanTypes
    <3> QED
      BY <3>1, <3>2
  <2>4. ConnTypes' /\ HistTypes' /\ EventsInOrder'
    BY <1>5 DEF HubFanOut, ConnTypes, HistTypes, EventsInOrder, Log, connVars,
         histVars
  <2> QED
    BY <2>1, <2>3, <2>4
<1>6. ASSUME NEW c \in Client, Serve(c) PROVE TypeInv'
  <2>1. HubTypes'
    <3>1. CASE Register(c)
      BY <3>1 DEF Register, HubTypes
    <3>2. CASE Upgrade(c) \/ LinkBreaks(c)
      BY <3>2 DEF Upgrade, LinkBreaks, HubTypes, hubVars
    <3> QED
      BY <1>6, <3>1, <3>2 DEF Serve
  <2>2. ConnTypes'
    BY <1>6 DEF Serve, Upgrade, Register, LinkBreaks, ConnTypes
  <2>3. ChanTypes' /\ HistTypes' /\ EventsInOrder'
    BY <1>6 DEF Serve, Upgrade, Register, LinkBreaks, ChanTypes, HistTypes,
         EventsInOrder, Log, hubVars, chanVars, histVars
  <2> QED
    BY <2>1, <2>2, <2>3
<1>7. ASSUME NEW c \in Client, Read(c) PROVE TypeInv'
  <2>1. HubTypes'
    <3>1. CASE Unregister(c)
      BY <3>1 DEF Unregister, HubTypes
    <3>2. CASE ReadFails(c) \/ ReaderCloses(c)
      BY <3>2 DEF ReadFails, ReaderCloses, HubTypes, hubVars
    <3> QED
      BY <1>7, <3>1, <3>2 DEF Read
  <2>2. ConnTypes'
    BY <1>7 DEF Read, ReadFails, Unregister, ReaderCloses, ConnTypes
  <2>3. ChanTypes' /\ HistTypes' /\ EventsInOrder'
    BY <1>7 DEF Read, ReadFails, Unregister, ReaderCloses, ChanTypes,
         HistTypes, EventsInOrder, Log, hubVars, chanVars, histVars
  <2> QED
    BY <2>1, <2>2, <2>3
<1>8. ASSUME NEW c \in Client, Write(c) PROVE TypeInv'
  <2>1. HubTypes' /\ EventsInOrder'
    BY <1>8 DEF Write, WriteEvent, WriteClose, PingFails, HubTypes,
         EventsInOrder, Log, hubVars, histVars
  <2>2. ConnTypes'
    BY <1>8 DEF Write, WriteEvent, WriteClose, PingFails, ConnTypes, connVars
  <2>3. CASE WriteEvent(c)
    <3>1. /\ send[c] \in Seq(1..MaxEvents) /\ send[c] # <<>>
          /\ got[c] \in Seq(1..MaxEvents)
      BY <2>3 DEF WriteEvent, ChanTypes, HistTypes
    <3>2. /\ Head(send[c]) \in 1..MaxEvents
          /\ Tail(send[c]) \in Seq(1..MaxEvents)
          /\ Len(Tail(send[c])) = Len(send[c]) - 1
      BY <3>1, HeadTailProperties
    <3>3. ChanTypes'
      BY <2>3, <3>1, <3>2 DEF WriteEvent, ChanTypes
    <3>4. Append(got[c], Head(send[c])) \in Seq(1..MaxEvents)
      BY <3>1, <3>2
    <3>5. HistTypes'
      BY <2>3, <3>1, <3>4 DEF WriteEvent, HistTypes
    <3> QED
      BY <2>1, <2>2, <3>3, <3>5
  <2>4. CASE WriteClose(c) \/ PingFails(c)
    BY <2>1, <2>2, <2>4 DEF WriteClose, PingFails, ChanTypes, HistTypes,
         chanVars, histVars
  <2> QED
    BY <1>8, <2>3, <2>4 DEF Write
<1>9. CASE UNCHANGED vars
  BY <1>9 DEF vars, hubVars, chanVars, connVars, histVars, HubTypes,
       ChanTypes, ConnTypes, HistTypes, EventsInOrder, Log
<1> QED
  BY <1>1, <1>2, <1>3, <1>4, <1>5, <1>6, <1>7, <1>8, <1>9 DEF Next, Run

(* Type correctness of the hub, its connections and its history variables.   *)
THEOREM TypeCorrect == Spec => []TypeOK
<1>1. Spec => []TypeInv
  BY InitTyped, NextTyped, PTL DEF Spec
<1> QED
  BY <1>1, PTL DEF TypeInv

-----------------------------------------------------------------------------
LEMMA InitInv == Init => HubInv
<1> SUFFICES ASSUME Init PROVE HubInv
  OBVIOUS
<1>1. TypeOK /\ EventsInOrder
  BY InitTyped DEF TypeInv
<1>2. NoPanic /\ RegisteredIsOpen
  BY DEF Init, NoPanic, RegisteredIsOpen
<1>3. QueuedOnce /\ LinkOfNew /\ NotJoinedYet
  BY DEF Init, QueuedOnce, LinkOfNew, NotJoinedYet
<1>4. BufferContinues /\ NoGap
  BY DEF Init, BufferContinues, NoGap
<1> QED
  BY <1>1, <1>2, <1>3, <1>4 DEF HubInv

(* A registration request is queued once and served once.                    *)
LEMMA NextQueued ==
  TypeInv /\ NoPanic /\ QueuedOnce /\ NotJoinedYet /\ RegisteredIsOpen
    /\ [Next]_vars => QueuedOnce' /\ NotJoinedYet'
<1> SUFFICES ASSUME TypeInv, NoPanic, QueuedOnce, NotJoinedYet,
                    RegisteredIsOpen, [Next]_vars
             PROVE  QueuedOnce' /\ NotJoinedYet'
  OBVIOUS
<1> USE DEF NotJoined
<1>0. /\ register \in Seq(Client)
      /\ from \in [Client -> 0..MaxEvents \cup {NotJoined}]
      /\ reader = [d \in Client |-> reader[d]]
      /\ Log \in Nat
  <2>1. register \in Seq(Client) /\ broadcast \in Seq(1..MaxEvents)
    BY DEF TypeInv, TypeOK, HubTypes
  <2>2. from \in [Client -> 0..MaxEvents \cup {NotJoined}]
    BY DEF TypeInv, TypeOK, HistTypes
  <2>3. published \in Nat
    BY CapAssumption DEF CapAssumption, TypeInv, TypeOK, HistTypes
  <2>4. reader = [d \in Client |-> reader[d]]
    BY DEF TypeInv, TypeOK, ConnTypes
  <2>5. Log \in Nat
    BY <2>1, <2>3 DEF TypeInv, EventsInOrder, Log
  <2> QED
    BY <2>1, <2>2, <2>4, <2>5
<1>1. CASE Publish
  BY <1>1 DEF Publish, chanVars, connVars, QueuedOnce, NotJoinedYet
<1>2. CASE HubRegister
  <2>1. /\ Head(register) = register[1]
        /\ register' \in Seq(Client)
        /\ Len(register') = Len(register) - 1
        /\ \A i \in 1..Len(register') : register'[i] = register[i + 1]
    BY <1>0, <1>2, HeadTailProperties DEF HubRegister
  <2>2. Len(register) \in Nat \ {0} /\ Head(register) \in Client
    BY <1>0, <1>2 DEF HubRegister
  <2>3. \A i \in 1..Len(register') :
          register'[i] # Head(register) /\ register'[i] \in Client
    BY <1>0, <2>1, <2>2 DEF QueuedOnce
  <2>4. \A d \in Client : d # Head(register) => from'[d] = from[d]
    BY <1>0, <1>2, <2>2 DEF HubRegister
  <2>5. QueuedOnce'
    BY <1>2, <2>1, <2>2, <2>3, <2>4 DEF HubRegister, connVars, QueuedOnce
  <2>6. NotJoinedYet'
    BY <1>0, <1>2 DEF HubRegister, connVars, chanVars, QueuedOnce,
         NotJoinedYet
  <2> QED
    BY <2>5, <2>6
<1>3. CASE HubUnregister
  BY <1>3 DEF HubUnregister, CloseSend, connVars, histVars, QueuedOnce,
       NotJoinedYet
<1>4. CASE HubTake
  BY <1>4 DEF HubTake, chanVars, connVars, histVars, QueuedOnce, NotJoinedYet
<1>5. ASSUME NEW c \in Client, HubFanOut(c)
      PROVE  QueuedOnce' /\ NotJoinedYet'
  BY <1>5 DEF HubFanOut, HubOffer, CloseSend, connVars, histVars, QueuedOnce,
       NotJoinedYet, RegisteredIsOpen, TypeInv, TypeOK, ChanTypes
<1>6. ASSUME NEW c \in Client, Serve(c)
      PROVE  QueuedOnce' /\ NotJoinedYet'
  <2>1. CASE Register(c)
    <3>1. \A i \in 1..Len(register) : register[i] # c
      BY <2>1 DEF Register, QueuedOnce
    <3>2. /\ Len(register') = Len(register) + 1
          /\ \A i \in 1..Len(register') :
               register'[i] = IF i <= Len(register) THEN register[i] ELSE c
      BY <1>0, <2>1 DEF Register
    <3>3. QueuedOnce'
      BY <1>0, <2>1, <3>1, <3>2
         DEF Register, QueuedOnce, NotJoinedYet, histVars
    <3>4. NotJoinedYet'
      BY <1>0, <2>1 DEF Register, NotJoinedYet, chanVars, histVars
    <3> QED
      BY <3>3, <3>4
  <2>2. CASE Upgrade(c) \/ LinkBreaks(c)
    BY <1>0, <2>2 DEF Upgrade, LinkBreaks, QueuedOnce, NotJoinedYet, hubVars,
         chanVars, histVars
  <2> QED
    BY <1>6, <2>1, <2>2 DEF Serve
<1>7. ASSUME NEW c \in Client, Read(c)
      PROVE  QueuedOnce' /\ NotJoinedYet'
  <2>1. /\ register' = register /\ from' = from /\ clients' = clients
        /\ closed' = closed /\ send' = send /\ got' = got
    BY <1>7 DEF Read, ReadFails, Unregister, ReaderCloses, hubVars, chanVars,
         histVars
  <2>2. \A d \in Client : reader'[d] \in {"new", "registering"}
                            <=> reader[d] \in {"new", "registering"}
    BY <1>0, <1>7 DEF Read, ReadFails, Unregister, ReaderCloses
  <2> QED
    BY <1>0, <2>1, <2>2 DEF QueuedOnce, NotJoinedYet
<1>8. ASSUME NEW c \in Client, Write(c)
      PROVE  QueuedOnce' /\ NotJoinedYet'
  BY <1>8 DEF Write, WriteEvent, WriteClose, PingFails, QueuedOnce,
       NotJoinedYet, hubVars, chanVars, connVars, histVars, TypeInv, TypeOK,
       ChanTypes, HistTypes
<1>9. CASE UNCHANGED vars
  BY <1>9 DEF vars, hubVars, chanVars, connVars, histVars, QueuedOnce,
       NotJoinedYet
<1> QED
  BY <1>1, <1>2, <1>3, <1>4, <1>5, <1>6, <1>7, <1>8, <1>9 DEF Next, Run

(* The hub's own thread closes a channel only while it removes its client,   *)
(* so it never meets a closed one.                                           *)
LEMMA NextOpen ==
  TypeInv /\ NoPanic /\ QueuedOnce /\ NotJoinedYet /\ RegisteredIsOpen
    /\ [Next]_vars => NoPanic' /\ RegisteredIsOpen'
<1> SUFFICES ASSUME TypeInv, NoPanic, QueuedOnce, NotJoinedYet,
                    RegisteredIsOpen, [Next]_vars
             PROVE  NoPanic' /\ RegisteredIsOpen'
  OBVIOUS
<1> USE DEF NoPanic, RegisteredIsOpen
<1>1. CASE HubRegister
  <2>1. Head(register) \in Client /\ from[Head(register)] = NotJoined
    BY <1>1 DEF HubRegister, TypeInv, TypeOK, HubTypes, QueuedOnce
  <2>2. Head(register) \notin closed
    BY <2>1 DEF NotJoinedYet
  <2> QED
    BY <1>1, <2>2 DEF HubRegister, chanVars
<1>2. CASE HubUnregister
  BY <1>2 DEF HubUnregister, CloseSend, AtSelect
<1>3. CASE HubTake
  BY <1>3 DEF HubTake, chanVars
<1>4. ASSUME NEW c \in Client, HubFanOut(c)
      PROVE  NoPanic' /\ RegisteredIsOpen'
  BY <1>4 DEF HubFanOut, HubOffer, CloseSend
<1>5. CASE Publish
  BY <1>5 DEF Publish, chanVars
<1>6. ASSUME NEW c \in Client, Serve(c) \/ Read(c) \/ Write(c)
      PROVE  NoPanic' /\ RegisteredIsOpen'
  BY <1>6 DEF Serve, Upgrade, Register, LinkBreaks, Read, ReadFails,
       Unregister, ReaderCloses, Write, WriteEvent, WriteClose, PingFails,
       hubVars, chanVars
<1>7. CASE UNCHANGED vars
  BY <1>7 DEF vars, hubVars, chanVars
<1> QED
  BY <1>1, <1>2, <1>3, <1>4, <1>5, <1>6, <1>7 DEF Next, Run

-----------------------------------------------------------------------------
LEMMA NextLinkOfNew ==
  TypeInv /\ LinkOfNew /\ NotJoinedYet /\ [Next]_vars => LinkOfNew'
<1> SUFFICES ASSUME TypeInv, LinkOfNew, NotJoinedYet, [Next]_vars
             PROVE  LinkOfNew'
  OBVIOUS
<1> USE DEF LinkOfNew
<1>0. /\ link = [d \in Client |-> link[d]]
      /\ reader = [d \in Client |-> reader[d]]
  BY DEF TypeInv, TypeOK, ConnTypes
<1>1. ASSUME NEW c \in Client, Serve(c) \/ Read(c)
      PROVE  LinkOfNew'
  BY <1>0, <1>1 DEF Serve, Upgrade, Register, LinkBreaks, Read, ReadFails,
       Unregister, ReaderCloses
<1>2. ASSUME NEW c \in Client, Write(c)
      PROVE  LinkOfNew'
  BY <1>0, <1>2 DEF Write, WriteEvent, WriteClose, PingFails, NotJoinedYet,
       connVars
<1>3. CASE Run \/ Publish \/ UNCHANGED vars
  BY <1>3 DEF Run, HubRegister, HubUnregister, HubTake, HubFanOut, Publish,
       vars, connVars
<1> QED
  BY <1>1, <1>2, <1>3 DEF Next

(* The wire and the buffer of a reachable client together are the events     *)
(* after its registration.                                                   *)
LEMMA NextStream == HubInv /\ [Next]_vars => BufferContinues' /\ NoGap'
<1> SUFFICES ASSUME HubInv, [Next]_vars PROVE BufferContinues' /\ NoGap'
  OBVIOUS
<1>0. /\ TypeInv /\ NoPanic /\ QueuedOnce /\ NotJoinedYet
      /\ RegisteredIsOpen /\ BufferContinues /\ NoGap
  BY DEF HubInv, TypeInv
<1>a. /\ send \in [Client -> Seq(1..MaxEvents)]
      /\ got \in [Client -> Seq(1..MaxEvents)]
  BY <1>0 DEF TypeInv, TypeOK, ChanTypes, HistTypes
<1>b. /\ from \in [Client -> 0..MaxEvents \cup {-1}]
      /\ link = [d \in Client |-> link[d]]
  BY <1>0 DEF TypeInv, TypeOK, ConnTypes, HistTypes, NotJoined
<1>c. /\ published \in Int
      /\ broadcast \in Seq(1..MaxEvents)
      /\ Log \in Int /\ Log >= 0
  <2>1. published \in Int /\ broadcast \in Seq(1..MaxEvents)
    BY <1>0, CapAssumption DEF CapAssumption, TypeInv, TypeOK, HubTypes,
         HistTypes
  <2> QED
    BY <1>0, <2>1 DEF TypeInv, EventsInOrder, Log
<1>1. CASE Publish
  <2>1. Log' = Log
    BY <1>1, <1>c DEF Publish, Log
  <2> QED
    BY <1>0, <1>1, <2>1 DEF Publish, chanVars, connVars, BufferContinues, NoGap
<1>2. CASE HubRegister
  <2> DEFINE h == Head(register)
  <2>1. h \in Client /\ from[h] = NotJoined
    BY <1>0, <1>2 DEF HubRegister, TypeInv, TypeOK, HubTypes, QueuedOnce
  <2>2. send[h] = <<>> /\ got[h] = <<>>
    BY <1>0, <2>1 DEF NotJoinedYet
  <2>3. Log' = Log /\ todo = {} /\ todo' = {}
    BY <1>2 DEF HubRegister, AtSelect, Log
  <2>4. /\ from'[h] = Log
        /\ \A d \in Client : d # h => from'[d] = from[d]
    BY <1>2, <1>b, <2>1 DEF HubRegister
  <2>5. /\ clients' = clients \cup {h} /\ send' = send /\ got' = got
        /\ link' = link
    BY <1>2 DEF HubRegister, chanVars, connVars
  <2>6. NoGap'
    BY <1>0, <2>2, <2>4, <2>5 DEF NoGap
  <2>7. BufferContinues'
    BY <1>0, <1>c, <2>2, <2>3, <2>4, <2>5 DEF BufferContinues
  <2> QED
    BY <2>6, <2>7
<1>3. CASE HubUnregister
  <2>1. /\ clients' \subseteq clients /\ send' = send /\ got' = got
        /\ from' = from /\ link' = link /\ todo' = todo /\ Log' = Log
    BY <1>3 DEF HubUnregister, CloseSend, connVars, histVars, Log
  <2> QED
    BY <1>0, <2>1 DEF BufferContinues, NoGap
<1>4. CASE HubTake
  <2>1. Log' = Log + 1
    BY <1>4, <1>c, HeadTailProperties DEF HubTake, Log, histVars
  <2>2. /\ clients' = clients /\ send' = send /\ got' = got
        /\ from' = from /\ link' = link /\ todo = {} /\ todo' = clients
    BY <1>4 DEF HubTake, AtSelect, chanVars, connVars, histVars
  <2>3. NoGap'
    BY <1>0, <2>2 DEF NoGap
  <2>4. ASSUME NEW d \in Client,
               from[d] + Len(got[d]) + Len(send[d]) <= Log
        PROVE  from[d] + Len(got[d]) + Len(send[d]) <= Log + 1
    <3>1. from[d] \in Int /\ Len(got[d]) \in Int /\ Len(send[d]) \in Int
      BY <1>a, <1>b
    <3> QED
      BY <1>c, <2>4, <3>1
  <2>5. BufferContinues'
    BY <1>0, <1>c, <2>1, <2>2, <2>4 DEF BufferContinues
  <2> QED
    BY <2>3, <2>5
<1>5. ASSUME NEW c \in Client, HubFanOut(c) PROVE BufferContinues' /\ NoGap'
  <2>1. /\ got' = got /\ from' = from /\ link' = link /\ Log' = Log
        /\ c \in todo /\ todo' = todo \ {c} /\ c \in clients /\ c \notin closed
        /\ msg = Log
    BY <1>0, <1>5 DEF HubFanOut, connVars, histVars, Log, TypeInv,
         EventsInOrder, RegisteredIsOpen
  <2>2. NoGap'
    BY <1>0, <2>1 DEF NoGap
  <2>3. CASE Len(send[c]) < SendCap
    <3>1. clients' = clients /\ send' = [send EXCEPT ![c] = Append(@, msg)]
      BY <1>5, <2>1, <2>3 DEF HubFanOut, HubOffer
    <3>2. \A d \in Client : d # c => send'[d] = send[d]
      BY <1>a, <3>1
    <3>3. /\ Len(send'[c]) = Len(send[c]) + 1
          /\ \A i \in 1..Len(send'[c]) :
               send'[c][i] = IF i <= Len(send[c]) THEN send[c][i] ELSE msg
      BY <1>a, <3>1
    <3>4. Len(send[c]) \in Nat /\ Len(got[c]) \in Nat /\ from[c] \in Int
      BY <1>a, <1>b
    <3>5. ASSUME link[c] = "open"
          PROVE  /\ \A i \in 1..Len(send'[c]) :
                      send'[c][i] = from[c] + Len(got[c]) + i
                 /\ from[c] + Len(got[c]) + Len(send'[c]) = Log
      <4>1. /\ \A i \in 1..Len(send[c]) :
                 send[c][i] = from[c] + Len(got[c]) + i
            /\ from[c] + Len(got[c]) + Len(send[c]) = Log - 1
        BY <1>0, <2>1, <3>5 DEF BufferContinues
      <4>2. msg = from[c] + Len(got[c]) + Len(send[c]) + 1
        BY <1>c, <2>1, <3>4, <4>1
      <4>3. ASSUME NEW i \in 1..Len(send'[c])
            PROVE  send'[c][i] = from[c] + Len(got[c]) + i
        <5>1. CASE i <= Len(send[c])
          BY <3>3, <3>4, <4>1, <5>1
        <5>2. CASE ~(i <= Len(send[c]))
          BY <3>3, <3>4, <4>2, <5>2
        <5> QED
          BY <5>1, <5>2
      <4>4. Len(send'[c]) = Len(send[c]) + 1 /\ Len(send'[c]) \in Nat
        BY <3>3, <3>4
      <4>5. from[c] + Len(got[c]) + Len(send'[c]) = Log
        <5>1. from[c] + Len(got[c]) + Len(send[c]) = Log - 1 /\ Log \in Int
          BY <1>c, <4>1
        <5> QED
          BY <3>4, <4>4, <5>1
      <4> QED
        BY <4>3, <4>5
    <3>6. BufferContinues'
      BY <1>0, <1>c, <2>1, <3>1, <3>2, <3>5 DEF BufferContinues
    <3> QED
      BY <2>2, <3>6
  <2>4. CASE ~(Len(send[c]) < SendCap)
    <3>1. clients' = clients \ {c} /\ send' = send
      BY <1>5, <2>4 DEF HubFanOut, HubOffer, CloseSend
    <3> QED
      BY <1>0, <2>1, <2>2, <3>1 DEF BufferContinues
  <2> QED
    BY <2>3, <2>4
<1>6. ASSUME NEW c \in Client, Serve(c) \/ Read(c) \/ WriteClose(c)
                                 \/ PingFails(c)
      PROVE  BufferContinues' /\ NoGap'
  <2>1. /\ clients' = clients /\ send' = send /\ got' = got /\ from' = from
        /\ todo' = todo /\ Log' = Log
    BY <1>6 DEF Serve, Upgrade, Register, LinkBreaks, Read, ReadFails,
         Unregister, ReaderCloses, WriteClose, PingFails, hubVars, chanVars,
         histVars, Log
  <2>2. NoGap'
    BY <1>0, <2>1 DEF NoGap
  <2>3. CASE Upgrade(c)
    <3>1. /\ send[c] = <<>> /\ got[c] = <<>> /\ c \notin clients
          /\ from[c] = -1
          /\ \A d \in Client : d # c => link'[d] = link[d]
      BY <1>0, <1>b, <2>3 DEF Upgrade, NotJoinedYet, NotJoined
    <3>2. from[c] + Len(got[c]) + Len(send[c]) <= Log
      BY <1>c, <3>1
    <3> QED
      BY <1>0, <2>1, <2>2, <3>1, <3>2 DEF BufferContinues
  <2>4. CASE ~Upgrade(c)
    <3>1. \A d \in Client : link'[d] = "open" => link[d] = "open"
      BY <1>6, <1>b, <2>4 DEF Serve, Register, LinkBreaks, Read, ReadFails,
           Unregister, ReaderCloses, WriteClose, PingFails
    <3> QED
      BY <1>0, <2>1, <2>2, <3>1 DEF BufferContinues
  <2> QED
    BY <2>3, <2>4
<1>7. ASSUME NEW c \in Client, WriteEvent(c) PROVE BufferContinues' /\ NoGap'
  <2>1. /\ clients' = clients /\ from' = from /\ link' = link /\ todo' = todo
        /\ Log' = Log /\ send[c] # <<>>
        /\ send' = [send EXCEPT ![c] = Tail(@)]
    BY <1>7 DEF WriteEvent, hubVars, connVars, Log
  <2>2. \A d \in Client : d # c => send'[d] = send[d] /\ got'[d] = got[d]
    BY <1>7, <1>a, <2>1 DEF WriteEvent
  <2>3. CASE link[c] # "open"
    BY <1>0, <1>7, <2>1, <2>2, <2>3 DEF WriteEvent, BufferContinues, NoGap
  <2>4. CASE link[c] = "open"
    <3>1. /\ Len(send'[c]) = Len(send[c]) - 1
          /\ Head(send[c]) = send[c][1]
          /\ \A i \in 1..Len(send'[c]) : send'[c][i] = send[c][i + 1]
      BY <1>a, <2>1, HeadTailProperties
    <3>2. got'[c] = Append(got[c], send[c][1])
      BY <1>7, <1>a, <2>4, <3>1 DEF WriteEvent
    <3>3. /\ Len(got'[c]) = Len(got[c]) + 1
          /\ \A i \in 1..Len(got'[c]) :
               got'[c][i] = IF i <= Len(got[c]) THEN got[c][i] ELSE send[c][1]
      BY <1>a, <3>2
    <3>4. /\ Len(send[c]) \in Nat \ {0} /\ Len(got[c]) \in Nat
          /\ from[c] \in Int
      BY <1>a, <1>b, <2>1
    <3>5. \A i \in 1..Len(send[c]) : send[c][i] = from[c] + Len(got[c]) + i
      BY <1>0, <2>4 DEF BufferContinues
    <3>6. ASSUME NEW i \in 1..Len(got'[c])
          PROVE  got'[c][i] = from[c] + i
      <4>1. CASE i <= Len(got[c])
        BY <1>0, <3>3, <3>4, <4>1 DEF NoGap
      <4>2. CASE ~(i <= Len(got[c]))
        BY <3>3, <3>4, <3>5, <4>2
      <4> QED
        BY <4>1, <4>2
    <3>7. ASSUME NEW i \in 1..Len(send'[c])
          PROVE  send'[c][i] = from[c] + Len(got'[c]) + i
      <4>1. send[c][i + 1] = from[c] + Len(got[c]) + (i + 1)
        BY <3>1, <3>4, <3>5
      <4>2. send'[c][i] = send[c][i + 1]
        BY <3>1
      <4>3. Len(got'[c]) = Len(got[c]) + 1 /\ Len(got'[c]) \in Nat
        BY <3>3, <3>4
      <4>4. i \in Int
        BY <3>1, <3>4
      <4>5. from[c] + Len(got[c]) + (i + 1) = from[c] + Len(got'[c]) + i
        <5> DEFINE n == Len(got'[c])
        <5>1. n = Len(got[c]) + 1
          BY <4>3
        <5> HIDE DEF n
        <5>2. from[c] + Len(got[c]) + (i + 1) = from[c] + n + i
          BY <3>4, <4>4, <5>1
        <5> QED
          BY <5>2 DEF n
      <4> QED
        BY <4>1, <4>2, <4>5
    <3>8. from[c] + Len(got'[c]) + Len(send'[c])
            = from[c] + Len(got[c]) + Len(send[c])
      BY <3>1, <3>3, <3>4
    <3>9. BufferContinues'
      BY <1>0, <2>1, <2>2, <3>7, <3>8 DEF BufferContinues
    <3>10. NoGap'
      BY <1>0, <2>1, <2>2, <3>6 DEF NoGap
    <3> QED
      BY <3>9, <3>10
  <2> QED
    BY <2>3, <2>4
<1>8. CASE UNCHANGED vars
  BY <1>0, <1>8 DEF vars, hubVars, chanVars, connVars, histVars,
       BufferContinues, NoGap, Log
<1> QED
  BY <1>1, <1>2, <1>3, <1>4, <1>5, <1>6, <1>7, <1>8 DEF Next, Run, Write

THEOREM Invariance == Spec => []HubInv
<1>1. HubInv /\ [Next]_vars => HubInv'
  BY NextTyped, NextQueued, NextOpen, NextLinkOfNew, NextStream DEF HubInv, TypeInv
<1> QED
  BY <1>1, InitInv, PTL DEF Spec

(* The hub never sends on, nor closes, a closed channel (manager.go 111-130). *)
THEOREM PanicFree == Spec => []NoPanic
  BY Invariance, PTL DEF HubInv

(* A browser is shown the events after its registration in order, none       *)
(* missing, whatever the buffer sizes and whatever fails.                    *)
THEOREM GapFree == Spec => []NoGap
  BY Invariance, PTL DEF HubInv

(* A registered client on an open link has every event since it registered   *)
(* on the wire or in its buffer.                                             *)
THEOREM Skipless == Spec => []NothingSkipped
<1>1. HubInv => NothingSkipped
  BY DEF HubInv, BufferContinues, NothingSkipped, TypeOK, HubTypes
<1> QED
  BY <1>1, Invariance, PTL

-----------------------------------------------------------------------------
(* Refinement.  Taking a message publishes it, serving a registration joins, *)
(* a write on an open link shows, a lost or closed link leaves; every other  *)
(* step of the hub is invisible.                                             *)
LEMMA FeedInitOK == Init => Feed!FeedInit
<1> SUFFICES ASSUME Init PROVE Feed!FeedInit
  OBVIOUS
<1>1. Log = 0
  <2>1. published = 0 /\ Len(broadcast) = 0
    BY EmptySeq DEF Init
  <2> QED
    BY <2>1 DEF Log
<1>2. from = [c \in Client |-> -1] /\ got = [c \in Client |-> <<>>]
  BY DEF Init, NotJoined
<1>3. {c \in Client : link[c] \in {"lost", "closed"}} = {}
  BY DEF Init
<1> QED
  BY <1>1, <1>2, <1>3 DEF Feed!FeedInit

LEMMA FeedStepOK == HubInv /\ [Next]_vars => [Feed!FeedNext]_(Feed!feedVars)
<1> SUFFICES ASSUME HubInv, [Next]_vars
             PROVE  Feed!FeedNext \/ UNCHANGED Feed!feedVars
  OBVIOUS
<1> DEFINE Left == {c \in Client : link[c] \in {"lost", "closed"}}
<1>0. /\ TypeInv /\ QueuedOnce /\ LinkOfNew /\ NotJoinedYet
      /\ BufferContinues
  BY DEF HubInv, TypeInv
<1>a. /\ send \in [Client -> Seq(1..MaxEvents)]
      /\ got \in [Client -> Seq(1..MaxEvents)]
      /\ link = [d \in Client |-> link[d]]
      /\ from \in [Client -> 0..MaxEvents \cup {-1}]
  BY <1>0 DEF TypeInv, TypeOK, ChanTypes, ConnTypes, HistTypes, NotJoined
<1>b. /\ MaxEvents \in Nat /\ published \in 0..MaxEvents
      /\ broadcast \in Seq(1..MaxEvents) /\ Log \in Int
  BY <1>0, CapAssumption DEF CapAssumption, TypeInv, TypeOK, HubTypes,
       HistTypes, Log
<1>1. CASE Publish
  <2>1. Log' = Log /\ from' = from /\ got' = got /\ link' = link
    BY <1>1, <1>b DEF Publish, Log, connVars
  <2> QED
    BY <2>1 DEF Feed!feedVars
<1>2. CASE HubRegister
  <2>1. /\ Head(register) \in Client /\ from[Head(register)] = -1
    BY <1>0, <1>2 DEF HubRegister, TypeInv, TypeOK, HubTypes, QueuedOnce,
         NotJoined
  <2>2. /\ Log' = Log /\ got' = got /\ link' = link
        /\ from' = [from EXCEPT ![Head(register)] = Log]
    BY <1>2 DEF HubRegister, connVars, Log
  <2>3. Feed!FeedJoin(Head(register))
    BY <2>1, <2>2 DEF Feed!FeedJoin
  <2> QED
    BY <2>1, <2>3 DEF Feed!FeedNext
<1>3. CASE HubTake
  <2>1. /\ Log < MaxEvents /\ Log' = Log + 1
    BY <1>3, <1>b, HeadTailProperties DEF HubTake, Log, histVars
  <2>2. from' = from /\ got' = got /\ link' = link
    BY <1>3 DEF HubTake, connVars, histVars
  <2> QED
    BY <2>1, <2>2 DEF Feed!FeedNext, Feed!FeedPublish
<1>4. ASSUME NEW c \in Client, WriteEvent(c)
      PROVE  Feed!FeedNext \/ UNCHANGED Feed!feedVars
  <2>1. Log' = Log /\ from' = from /\ link' = link /\ send[c] # <<>>
    BY <1>4 DEF WriteEvent, hubVars, connVars, Log
  <2>2. CASE link[c] # "open"
    BY <1>4, <2>1, <2>2 DEF WriteEvent, Feed!feedVars
  <2>3. CASE link[c] = "open"
    <3>1. /\ Len(send[c]) \in Nat \ {0} /\ Len(got[c]) \in Nat
          /\ from[c] \in Int /\ Head(send[c]) = send[c][1]
      BY <1>a, <2>1, HeadTailProperties
    <3>2. /\ send[c][1] = from[c] + Len(got[c]) + 1
          /\ from[c] + Len(got[c]) + Len(send[c]) <= Log
      BY <1>0, <2>3, <3>1 DEF BufferContinues
    <3>3. from[c] + Len(got[c]) < Log
      BY <1>b, <3>1, <3>2
    <3>4. from[c] # -1
      BY <1>0, <2>1 DEF NotJoinedYet, NotJoined
    <3>5. got' = [got EXCEPT ![c] = Append(@, from[c] + Len(@) + 1)]
      BY <1>4, <1>a, <2>3, <3>1, <3>2 DEF WriteEvent
    <3>6. Feed!FeedShow(c)
      BY <2>1, <2>3, <3>3, <3>4, <3>5 DEF Feed!FeedShow
    <3> QED
      BY <3>6 DEF Feed!FeedNext
  <2> QED
    BY <2>2, <2>3
<1>5. ASSUME NEW c \in Client, Serve(c) \/ Read(c) \/ WriteClose(c)
                                 \/ PingFails(c)
      PROVE  Feed!FeedNext \/ UNCHANGED Feed!feedVars
  <2>1. Log' = Log /\ from' = from /\ got' = got
    BY <1>5 DEF Serve, Upgrade, Register, LinkBreaks, Read, ReadFails,
         Unregister, ReaderCloses, WriteClose, PingFails, hubVars, chanVars,
         histVars, Log
  <2>2. \/ link' = link
        \/ link[c] = "none" /\ link' = [link EXCEPT ![c] = "open"]
        \/ link' = [link EXCEPT ![c] = "lost"]
        \/ link' = [link EXCEPT ![c] = "closed"]
    BY <1>0, <1>5 DEF Serve, Upgrade, Register, LinkBreaks, Read, ReadFails,
         Unregister, ReaderCloses, WriteClose, PingFails, LinkOfNew
  <2>3. /\ \A d \in Client : d # c => link'[d] = link[d]
        /\ link'[c] \notin {"lost", "closed"}
             => link[c] \notin {"lost", "closed"}
    BY <1>a, <2>2
  <2>4. Left' = Left \/ (Left' = Left \cup {c} /\ c \notin Left)
    BY <2>3
  <2>5. CASE Left' = Left
    BY <2>1, <2>5 DEF Feed!feedVars
  <2>6. CASE Left' = Left \cup {c} /\ c \notin Left
    <3>1. Feed!FeedLeave(c)
      BY <2>1, <2>6 DEF Feed!FeedLeave
    <3> QED
      BY <3>1 DEF Feed!FeedNext
  <2> QED
    BY <2>4, <2>5, <2>6
<1>6. ASSUME NEW c \in Client, HubFanOut(c) PROVE UNCHANGED Feed!feedVars
  BY <1>6 DEF HubFanOut, connVars, histVars, Log, Feed!feedVars
<1>7. CASE HubUnregister
  BY <1>7 DEF HubUnregister, connVars, histVars, Log, Feed!feedVars
<1>8. CASE UNCHANGED vars
  BY <1>8 DEF vars, hubVars, connVars, histVars, Log, Feed!feedVars
<1> QED
  BY <1>1, <1>2, <1>3, <1>4, <1>5, <1>6, <1>7, <1>8 DEF Next, Run, Write

(* Every behaviour of the hub is, seen from the browsers, one of the feed.   *)
THEOREM HubImplementsFeed == Spec => ImplementsFeed
  BY Invariance, FeedInitOK, FeedStepOK, PTL
     DEF Spec, ImplementsFeed, Feed!FeedSpec

=============================================================================
