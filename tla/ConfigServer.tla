---------------------------- MODULE ConfigServer ----------------------------
(* The write side of the server: the handlers that add and update buildings, *)
(* rooms, devices and UI configurations (handlers/buildings.go, rooms.go,    *)
(* devices.go, uiconfig.go), the change log they fill (changelog.go) and the *)
(* counters of health.go.                                                    *)
(*                                                                           *)
(* Echo runs every request on its own goroutine, and neither the change log  *)
(* nor the counters are locked: cl.ChangeCount++, SS.X++ and x = append(x,y) *)
(* are a read and a later write.  A handler is the list of steps it has      *)
(* still to take; a step on a shared variable is taken in those two halves.  *)
(* Two appends that race leave one of the two entries, as their writes fall; *)
(* the three words of a slice are taken to be written together.              *)
(*                                                                           *)
(* The database (byuoitav/common/db) is not in the repository: a create      *)
(* fails when the document exists or has no ID, an update fails when it does *)
(* not exist, and any call may fail.  server.go sets handlers.Dev, which     *)
(* skips the role checks, so every request reaches its handler's body.       *)
EXTENDS Integers, FiniteSets, Sequences, FiniteSetsExt, SequencesExt

CONSTANTS Worker,       \* the requests that can be in progress at a time
          Kinds,        \* subset of building, room, device, uiconfig
          Ids, NoId,    \* document IDs, and the empty ID
          Vals, None,   \* document contents, and no document
          Ops,          \* subset of create, update, bulk, clear
          Users,        \* who sends requests
          OtherIds,     \* may a body carry another ID than the path
          MaxRequests   \* bound: requests in a behaviour

ASSUME ServerAssumption ==
  /\ Kinds \subseteq {"building", "room", "device", "uiconfig"}
  /\ Ops \subseteq {"create", "update", "bulk", "clear"}
  /\ NoId \notin Ids
  /\ None \notin Vals
  /\ OtherIds \in BOOLEAN
  /\ MaxRequests \in Nat

VARIABLES
  db,        \* db[k][i]: the document, or None
  changes,   \* changes[k]: the list of Change of that kind
  count,     \* changes.ChangeCount
  username,  \* changes.Username
  status,    \* SS: status["create"][k] and status["update"][k]
  requests,  \* number of requests received
  job,       \* job[w]: the request w serves and what it has come to, or Idle
  plan,      \* plan[w]: the steps its handler has still to take
  held,      \* held[w]: <<the value read by the step in progress>>, or <<>>
  done,      \* history: what finished requests changed in the database
  wrote      \* history: successful database calls by operation and kind

shared == <<changes, count, username, status>>
vars == <<db, shared, requests, job, plan, held, done, wrote>>

Idle == [req |-> [op |-> "none"]]

(* A UI configuration goes by its room, the others by the ID in the body.    *)
(* The body of an update may name another document than its path.            *)
DocId(r)   == IF r.kind = "uiconfig" THEN r.addr ELSE r.body
Crossed(r) == r.op = "update" /\ DocId(r) # r.addr

(* What the change log keeps of a change to a document: the two contents     *)
(* FindChanges compared; a new document replaces None.  n and crossed are    *)
(* for the properties only: the request, numbered, and whether it is crossed.*)
Change(j, i, old) ==
  [n |-> j.n, crossed |-> Crossed(j.req), by |-> j.req.user,
   kind |-> j.req.kind, id |-> i, old |-> old, new |-> j.req.val]

DocRequests ==
  [op : Ops \cap {"create", "update"}, user : Users, kind : Kinds, addr : Ids,
   body : Ids \cup {NoId}, val : Vals]
BulkRequests ==
  [op : Ops \cap {"bulk"}, user : Users, kind : Kinds \cap {"device"},
   ids : {S \in SUBSET Ids : IsFiniteSet(S)}, val : Vals]
Requests ==
  {r \in DocRequests : OtherIds \/ r.body = r.addr}
    \cup BulkRequests \cup [op : Ops \cap {"clear"}]

Counters == [{"create", "update"} -> [Kinds -> Nat]]
Zero     == [o \in {"create", "update"} |-> [k \in Kinds |-> 0]]
Plus1(counters, o, k) == [counters EXCEPT ![o][k] = @ + 1]

Init ==
  /\ db \in [Kinds -> [Ids -> {None} \cup Vals]]
  /\ changes = [k \in Kinds |-> <<>>]
  /\ count = 0
  /\ username = None
  /\ status = Zero
  /\ requests = 0
  /\ job = [w \in Worker |-> Idle]
  /\ plan = [w \in Worker |-> <<>>]
  /\ held = [w \in Worker |-> <<>>]
  /\ done = {}
  /\ wrote = Zero

-----------------------------------------------------------------------------
(* The check of the path parameter against the body, as each handler has it. *)
Accepts(r) ==
  \/ r.op \notin {"create", "update"}
  \/ r.kind = "uiconfig"
  \/ r.op = "create" /\ r.kind = "building" /\ r.body \in {r.addr, NoId}
  \/ r.op = "create" /\ r.kind = "room" /\ r.body = r.addr
  \/ r.op = "create" /\ r.kind = "device"
  \/ r.op = "update" /\ r.body # NoId

(* Mutant of Counted: devices have no counter either.                        *)
CountedWithoutDevices(k) ==
  IF k \in {"uiconfig", "device"} THEN <<>> ELSE <<"status">>

(* Only buildings, rooms and devices have a counter that is incremented.     *)
Counted(k) == IF k = "uiconfig" THEN <<>> ELSE <<"status">>

(* Mutant of Steps: the counter is incremented before the database is asked. *)
StepsCountFirst(r) ==
  CASE r.op = "create" -> Counted(r.kind) \o <<"count", "list", "db">>
    [] r.op = "update" -> Counted(r.kind) \o <<"fetch", "count", "list", "db">>
    [] r.op = "bulk"   -> <<"db">>
    [] r.op = "clear"  -> <<"flush", "zero">>

Steps(r) ==
  CASE r.op = "create" -> <<"count", "list", "db">> \o Counted(r.kind)
    [] r.op = "update" -> <<"fetch", "count", "list", "db">> \o Counted(r.kind)
    [] r.op = "bulk"   -> <<"db">>
    [] r.op = "clear"  -> <<"flush", "zero">>

At(w, step) == plan[w] # <<>> /\ Head(plan[w]) = step
Advance(w)  == plan' = [plan EXCEPT ![w] = Tail(@)]

(* The handler returns early with an error status.                           *)
Fail(w) == plan' = [plan EXCEPT ![w] = <<>>]

Receive(w, r) ==
  /\ job[w] = Idle
  /\ requests < MaxRequests
  /\ requests' = requests + 1
  /\ job' = [job EXCEPT ![w] = [req |-> r, n |-> requests + 1,
                                old |-> None, made |-> {}]]
  /\ plan' = [plan EXCEPT ![w] = IF Accepts(r) THEN Steps(r) ELSE <<>>]
  /\ UNCHANGED <<db, shared, held, done, wrote>>

(* The update handlers read the document to compare the new one with.        *)
Fetch(w) ==
  LET r == job[w].req
      old == db[r.kind][DocId(r)] IN
  /\ At(w, "fetch")
  /\ \/ /\ DocId(r) \in Ids /\ old # None
        /\ job' = [job EXCEPT ![w].old = old]
        /\ Advance(w)
     \/ /\ Fail(w)
        /\ UNCHANGED job
  /\ UNCHANGED <<db, shared, requests, held, done, wrote>>

-----------------------------------------------------------------------------
(* Steps on unlocked variables.  AddNew and AddChange log the change a       *)
(* handler is about to make; AddBulkChanges logs those a bulk has made.      *)

(* Mutant of ToLog: the document is compared with itself.                    *)
ToLogComparesNew(w) ==
  LET j == job[w] IN
  IF j.req.op = "bulk"
    THEN SetToSeq(j.made)
    ELSE <<Change(j, DocId(j.req), j.req.val)>>

ToLog(w) ==
  LET j == job[w] IN
  IF j.req.op = "bulk"
    THEN SetToSeq(j.made)
    ELSE <<Change(j, DocId(j.req), j.old)>>

StatusOp(r) == IF r.op = "bulk" THEN "create" ELSE r.op

SharedStep == {"count", "total", "list", "status"}

(* The four functions of the change log begin with cl.Username = username.   *)
FirstLogStep(r) == IF r.op = "bulk" THEN {"count", "list"} ELSE {"count"}

Load(w) ==
  LET r == job[w].req IN
  /\ plan[w] # <<>> /\ Head(plan[w]) \in SharedStep
  /\ held[w] = <<>>
  /\ held' = [held EXCEPT ![w] =
               <<CASE Head(plan[w]) \in {"count", "total"} -> count
                   [] Head(plan[w]) = "list" -> changes[r.kind]
                   [] Head(plan[w]) = "status" -> status[StatusOp(r)][r.kind]>>]
  /\ username' = IF Head(plan[w]) \in FirstLogStep(r) THEN r.user ELSE username
  /\ UNCHANGED <<db, changes, count, status, requests, job, plan, done, wrote>>

StoreCount(w) ==
  /\ \/ At(w, "count") /\ count' = held[w][1] + 1
     \/ At(w, "total") /\ count' = held[w][1] + Len(ToLog(w))
  /\ UNCHANGED <<changes, username, status>>

StoreList(w) ==
  /\ At(w, "list")
  /\ changes' = [changes EXCEPT ![job[w].req.kind] = held[w][1] \o ToLog(w)]
  /\ UNCHANGED <<count, username, status>>

StoreStatus(w) ==
  LET r == job[w].req IN
  /\ At(w, "status")
  /\ status' = [status EXCEPT ![StatusOp(r)][r.kind] = held[w][1] + 1]
  /\ UNCHANGED <<changes, count, username>>

Store(w) ==
  /\ held[w] # <<>>
  /\ StoreCount(w) \/ StoreList(w) \/ StoreStatus(w)
  /\ held' = [held EXCEPT ![w] = <<>>]
  /\ Advance(w)
  /\ UNCHANGED <<db, requests, job, done, wrote>>

-----------------------------------------------------------------------------
(* The database calls.                                                       *)

Creatable(k, i) == i \in Ids /\ db[k][i] = None

Create(w) ==
  LET r == job[w].req
      i == DocId(r) IN
  /\ At(w, "db") /\ r.op = "create"
  /\ \/ /\ Creatable(r.kind, i)
        /\ db' = [db EXCEPT ![r.kind][i] = r.val]
        /\ job' = [job EXCEPT ![w].made = {Change(job[w], i, None)}]
        /\ wrote' = Plus1(wrote, "create", r.kind)
        /\ Advance(w)
     \/ /\ Fail(w)
        /\ UNCHANGED <<db, job, wrote>>
  /\ UNCHANGED <<shared, requests, held, done>>

(* The document is addressed by the path, whatever ID the body has.          *)
Update(w) ==
  LET r == job[w].req IN
  /\ At(w, "db") /\ r.op = "update"
  /\ \/ /\ db[r.kind][r.addr] # None
        /\ db' = [db EXCEPT ![r.kind][r.addr] = r.val]
        /\ job' = [job EXCEPT ![w].made =
                     {Change(job[w], r.addr, db[r.kind][r.addr])}]
        /\ wrote' = Plus1(wrote, "update", r.kind)
        /\ Advance(w)
     \/ /\ Fail(w)
        /\ UNCHANGED <<db, job, wrote>>
  /\ UNCHANGED <<shared, requests, held, done>>

(* CreateBulkDevices answers for each device; the handler then counts every  *)
(* success (GetNewChange, DevicesCreated++) and logs them all at the end.    *)
(* Mutant of EachCreated: every success is logged with AddNew as well.       *)
EachLogged(S) ==
  [i \in 1..3 * Cardinality(S) |-> <<"count", "list", "status">>[1 + ((i - 1) % 3)]]

EachCreated(S) ==
  [i \in 1..2 * Cardinality(S) |-> IF i % 2 = 1 THEN "count" ELSE "status"]

CreateBulk(w) ==
  LET r == job[w].req IN
  /\ At(w, "db") /\ r.op = "bulk"
  /\ \E S \in SUBSET {i \in r.ids : Creatable(r.kind, i)} :
       /\ db' = [db EXCEPT ![r.kind] =
                   [i \in Ids |-> IF i \in S THEN r.val ELSE @[i]]]
       /\ job' = [job EXCEPT ![w].made =
                   {Change(job[w], i, None) : i \in S}]
       /\ wrote' = [wrote EXCEPT !["create"][r.kind] = @ + Cardinality(S)]
       /\ plan' = [plan EXCEPT ![w] = EachCreated(S) \o <<"list", "total">>]
  /\ UNCHANGED <<shared, requests, held, done>>

-----------------------------------------------------------------------------
(* Flush empties the lists and then the count.                               *)

Flush(w) ==
  /\ \/ /\ At(w, "flush")
        /\ changes' = [k \in Kinds |-> <<>>]
        /\ done' = {}
        /\ UNCHANGED count
     \/ /\ At(w, "zero")
        /\ count' = 0
        /\ UNCHANGED <<changes, done>>
  /\ Advance(w)
  /\ UNCHANGED <<db, username, status, requests, job, held, wrote>>

(* Mutant of Finish: the response is sent from a goroutine of its own.       *)
FinishEarly(w) ==
  /\ job[w] # Idle
  /\ done' = done \cup job[w].made
  /\ job' = [job EXCEPT ![w] = Idle]
  /\ UNCHANGED <<db, shared, requests, plan, held, wrote>>

(* The response is sent.                                                     *)
Finish(w) ==
  /\ job[w] # Idle /\ plan[w] = <<>>
  /\ done' = done \cup job[w].made
  /\ job' = [job EXCEPT ![w] = Idle]
  /\ UNCHANGED <<db, shared, requests, plan, held, wrote>>

Next ==
  \E w \in Worker :
    \/ \E r \in Requests : Receive(w, r)
    \/ Fetch(w) \/ Load(w) \/ Store(w)
    \/ Create(w) \/ Update(w) \/ CreateBulk(w)
    \/ Flush(w) \/ Finish(w)

Spec == Init /\ [][Next]_vars

-----------------------------------------------------------------------------
AllIdle == \A w \in Worker : job[w] = Idle
Logged  == UNION {Range(changes[k]) : k \in Kinds}

TypeOK ==
  /\ db \in [Kinds -> [Ids -> {None} \cup Vals]]
  /\ count \in Nat
  /\ username \in Users \cup {None}
  /\ status \in Counters /\ wrote \in Counters
  /\ requests \in 0..MaxRequests
  /\ \A w \in Worker :
       /\ job[w] = Idle \/ job[w].req \in Requests
       /\ job[w] = Idle => plan[w] = <<>>
       /\ held[w] # <<>> => plan[w] # <<>> /\ Head(plan[w]) \in SharedStep

(* changelog.go 34: the log is a total representation of what was changed.   *)
(* Every change a finished request made to the database since the log was    *)
(* last cleared is in it, under its ID and with the contents it really       *)
(* replaced.  A crossed update is there too, but told of the document its    *)
(* body names: devices.go 167-175 compares that one and changes the other.   *)
Tells(l, c) ==
  /\ l.n = c.n /\ l.by = c.by /\ l.kind = c.kind /\ l.new = c.new
  /\ c.crossed \/ l = c
Told(c) == \E l \in Logged : Tells(l, c)

LogIsTotal == \A c \in done : Told(c)

(* No change is listed twice, however the appends of concurrent requests     *)
(* and a Flush interleave.                                                   *)
LoggedOnce ==
  \A k \in Kinds : \A i, j \in DOMAIN changes[k] :
    changes[k][i] = changes[k][j] => i = j

(* The counters of the status page never claim more than the database did,   *)
(* whatever increments race: a lost increment only loses.                    *)
CountersNeverOver ==
  \A o \in {"create", "update"}, k \in Kinds : status[o][k] <= wrote[o][k]

(* With one request at a time they are exact.                                *)
CountersTell ==
  AllIdle => \A k \in Kinds \ {"uiconfig"} :
               \A o \in {"create", "update"} : status[o][k] = wrote[o][k]

=============================================================================
