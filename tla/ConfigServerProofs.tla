------------------------- MODULE ConfigServerProofs -------------------------
(* Proofs about the write side of the server for any number of workers,      *)
(* documents, contents, users and requests: no change is listed twice and    *)
(* the counters never claim too much, whatever steps on the unlocked log and *)
(* counters interleave; one request at a time, the log and the counters are  *)
(* exact.                                                                    *)
EXTENDS ConfigServer, FiniteSetTheorems, SequenceTheorems, TLAPS

DocOps   == {"create", "update"}
Contents == Vals \cup {None}
Entry    == [n : Nat, crossed : BOOLEAN, by : Users, kind : Kinds, id : Ids \cup {NoId},
             old : Contents, new : Vals]
Jobs     == [req : Requests, n : Nat, old : Contents, made : SUBSET Entry]

Busy(w) == job[w] # Idle
Req(w)  == job[w].req

StepName == {"fetch", "count", "list", "db", "status", "total", "flush", "zero"}

(* The m-th step from the end of the handler of r, and how many it has; a    *)
(* bulk that made S has two for each.                                        *)
Late(k) == IF k = "uiconfig" THEN 0 ELSE 1

StepFromEnd(r, m) ==
  IF r.op = "bulk" THEN IF m = 1 THEN "total" ELSE IF m = 2 THEN "list"
                        ELSE IF m % 2 = 1 THEN "status" ELSE "count"
  ELSE IF r.op = "clear" THEN IF m = 1 THEN "zero" ELSE "flush"
  ELSE IF m <= Late(r.kind) THEN "status"
  ELSE IF m = Late(r.kind) + 1 THEN "db"
  ELSE IF m = Late(r.kind) + 2 THEN "list"
  ELSE IF m = Late(r.kind) + 3 THEN "count" ELSE "fetch"

AtMostSteps(r, S) ==
  CASE r.op = "create" -> Late(r.kind) + 3
    [] r.op = "update" -> Late(r.kind) + 4
    [] r.op = "bulk"   -> 2 * Cardinality(S) + 2
    [] r.op = "clear"  -> 2

(* What is left of a handler is its last steps.                              *)
IsLastSteps(p, r, S) ==
  /\ Len(p) <= AtMostSteps(r, S)
  /\ \A i \in 1..Len(p) : p[i] = StepFromEnd(r, Len(p) + 1 - i)

BulkToMake(w) == Req(w).op = "bulk" /\ plan[w] = <<"db">>

PlanOf(w) ==
  IF Busy(w) THEN BulkToMake(w) \/ IsLastSteps(plan[w], Req(w), job[w].made)
             ELSE plan[w] = <<>>

HeldOf(w) ==
  held[w] # <<>> =>
    /\ plan[w] # <<>> /\ Head(plan[w]) \in SharedStep
    /\ held[w] = <<held[w][1]>>
    /\ held[w][1] \in IF Head(plan[w]) = "list" THEN Seq(Entry) ELSE Nat

JobOf(w) ==
  Busy(w) => /\ job[w].n \in 1..requests
             /\ IsFiniteSet(job[w].made)
             /\ \A c \in job[w].made : c.n = job[w].n

ServerTypes ==
  /\ db \in [Kinds -> [Ids -> Contents]]
  /\ changes \in [Kinds -> Seq(Entry)]
  /\ count \in Nat
  /\ username \in Users \cup {None}
  /\ status \in Counters /\ wrote \in Counters
  /\ requests \in 0..MaxRequests
  /\ job \in [Worker -> Jobs \cup {Idle}]
  /\ plan \in [Worker -> Seq(StepName)]
  /\ held \in [Worker -> Seq(Nat \cup Seq(Entry))]

NumbersApart == \A v, w \in Worker : Busy(v) /\ Busy(w) /\ v # w => job[v].n # job[w].n

HandlerInv ==
  /\ ServerTypes
  /\ NumbersApart
  /\ \A w \in Worker : PlanOf(w) /\ HeldOf(w) /\ JobOf(w)

-----------------------------------------------------------------------------
(* The lists there are: those of the log, and those a step has read and will *)
(* write back with its entry.                                                *)
HoldsList(w) == held[w] # <<>> /\ Head(plan[w]) = "list"
Lists == {changes[k] : k \in Kinds} \cup {held[w][1] : w \in {v \in Worker : HoldsList(v)}}

(* The handler has its entries still to write.                               *)
Owes(w) ==
  Busy(w) /\ (BulkToMake(w) \/ \E i \in 1..Len(plan[w]) : plan[w][i] = "list")

GoodList(l) ==
  /\ IsInjective(l)
  /\ \A i \in 1..Len(l) : /\ l[i].n <= requests
                          /\ \A w \in Worker : Owes(w) => l[i].n # job[w].n

ListsInv == \A l \in Lists : GoodList(l)

-----------------------------------------------------------------------------
(* The increments of a counter that finished calls of the database have      *)
(* still to bring, by worker and place in the plan.                          *)
Wrote(w) == \A i \in 1..Len(plan[w]) : plan[w][i] # "db"
Counts(w, o, k) == Busy(w) /\ Req(w).op # "clear" /\ Req(w).kind = k /\ StatusOp(Req(w)) = o
Due(o, k) ==
  {x \in Worker \X Nat :
     /\ Counts(x[1], o, k) /\ Wrote(x[1])
     /\ x[2] \in 1..Len(plan[x[1]])
     /\ plan[x[1]][Len(plan[x[1]]) + 1 - x[2]] = "status"}

HoldsCounter(w, o, k) == held[w] # <<>> /\ Head(plan[w]) = "status" /\ Counts(w, o, k)

CounterInv(o, k) ==
  /\ IsFiniteSet(Due(o, k))
  /\ status[o][k] + Cardinality(Due(o, k)) <= wrote[o][k]
  /\ \A w \in Worker :
       HoldsCounter(w, o, k) => held[w][1] + Cardinality(Due(o, k)) <= wrote[o][k]

CountersInv == \A o \in DocOps, k \in Kinds : CounterInv(o, k)

-----------------------------------------------------------------------------
(* One request at a time.                                                    *)
Serial == \A v, w \in Worker : v = w

ExactInv ==
  \A o \in DocOps, k \in Kinds \ {"uiconfig"} :
    /\ status[o][k] + Cardinality(Due(o, k)) = wrote[o][k]
    /\ \A w \in Worker : HoldsCounter(w, o, k) => held[w][1] = status[o][k]

(* The entry of a handler is in the log when it asks the database, and the   *)
(* document is still the one it was compared with.                           *)
Ahead(w, steps) == plan[w] # <<>> /\ Head(plan[w]) \in steps
Asked(w) == Change(job[w], DocId(Req(w)), job[w].old)

TotalOf(w) ==
  Busy(w) =>
    /\ Owes(w) \/ \A c \in job[w].made : Told(c)
    /\ Req(w).op = "clear" => job[w].made = {}
    /\ Req(w).op \in DocOps =>
         /\ Ahead(w, {"fetch", "count", "list", "db"}) => job[w].made = {}
         /\ Ahead(w, {"db"}) => Asked(w) \in Logged
    /\ Req(w).op = "create" => job[w].old = None
    /\ Req(w).op = "update" /\ Ahead(w, {"count", "list", "db"}) =>
         db[Req(w).kind][DocId(Req(w))] = job[w].old
    /\ HoldsList(w) => held[w][1] = changes[Req(w).kind]

TotalInv == LogIsTotal /\ \A w \in Worker : TotalOf(w)

-----------------------------------------------------------------------------
(* What requests and handlers are.                                           *)
LEMMA RequestFields ==
  ASSUME NEW r \in Requests
  PROVE  /\ r.op \in {"create", "update", "bulk", "clear"}
         /\ r.op \in {"create", "update", "bulk"} =>
              r.kind \in Kinds /\ r.user \in Users /\ r.val \in Vals
         /\ r.op \in DocOps => r.addr \in Ids /\ r.body \in Ids \cup {NoId}
         /\ r.op = "bulk" => /\ r.kind = "device"
                            /\ r.ids \subseteq Ids /\ IsFiniteSet(r.ids)
  BY DEF Requests, DocRequests, BulkRequests, DocOps

LEMMA ConcatSteps ==
  ASSUME NEW p \in Seq(StepName), NEW q \in Seq(StepName)
  PROVE  /\ p \o q \in Seq(StepName)
         /\ Len(p \o q) = Len(p) + Len(q)
         /\ \A i \in 1..Len(p) + Len(q) :
              (p \o q)[i] = IF i <= Len(p) THEN p[i] ELSE q[i - Len(p)]
  BY ConcatProperties

LEMMA DocStepsAre ==
  ASSUME NEW r \in Requests, r.op \in DocOps
  PROVE  /\ Steps(r) \in Seq(StepName) /\ Len(Steps(r)) > 2 /\ IsLastSteps(Steps(r), r, {})
         /\ Steps(r)[1] = IF r.op = "create" THEN "count" ELSE "fetch"
<1> DEFINE c == Counted(r.kind)
           create == <<"count", "list", "db">>
           update == <<"fetch", "count", "list", "db">>
<1>1. /\ c \in Seq(StepName) /\ Len(c) = Late(r.kind)
      /\ \A i \in 1..Len(c) : c[i] = "status"
  <2>1. CASE r.kind = "uiconfig"
    BY <2>1 DEF Counted, Late
  <2>2. CASE r.kind # "uiconfig"
    BY <2>2 DEF Counted, Late, StepName
  <2>3. QED
    BY <2>1, <2>2
<1>2. /\ create \in Seq(StepName) /\ Len(create) = 3
      /\ create[1] = "count" /\ create[2] = "list" /\ create[3] = "db"
      /\ update \in Seq(StepName) /\ Len(update) = 4
      /\ update[1] = "fetch" /\ update[2] = "count" /\ update[3] = "list" /\ update[4] = "db"
  BY DEF StepName
<1>3. Late(r.kind) \in Nat /\ (Late(r.kind) = 0 \/ Late(r.kind) = 1)
  BY DEF Late
<1>4. /\ r.op = "create" => Steps(r) = create \o c
      /\ r.op = "update" => Steps(r) = update \o c
  BY DEF Steps
<1> HIDE DEF c, create, update
<1>5. CASE r.op = "create"
  <2>1. /\ create \o c \in Seq(StepName) /\ Len(create \o c) = 3 + Late(r.kind)
        /\ \A i \in 1..3 + Late(r.kind) : (create \o c)[i] = IF i <= 3 THEN create[i] ELSE c[i - 3]
    <3>1. /\ create \o c \in Seq(StepName) /\ Len(create \o c) = Len(create) + Len(c)
          /\ \A i \in 1..Len(create) + Len(c) :
               (create \o c)[i] = IF i <= Len(create) THEN create[i] ELSE c[i - Len(create)]
      BY <1>1, <1>2, ConcatSteps
    <3>2. QED
      BY <1>1, <1>2, <1>3, <3>1
  <2>2. ASSUME NEW i \in 1..Len(create \o c)
        PROVE  (create \o c)[i] = StepFromEnd(r, Len(create \o c) + 1 - i)
    <3>1. i \in {1, 2, 3} \/ (i = 4 /\ Late(r.kind) = 1)
      BY <1>3, <2>1
    <3>2. QED
      BY <1>1, <1>2, <1>3, <1>5, <2>1, <3>1 DEF StepFromEnd
  <2>3. AtMostSteps(r, {}) = Late(r.kind) + 3
    BY <1>5 DEF AtMostSteps
  <2>4. IsLastSteps(create \o c, r, {})
    <3>1. Len(create \o c) <= AtMostSteps(r, {})
      BY <1>3, <2>1, <2>3
    <3>2. QED
      BY <2>2, <3>1 DEF IsLastSteps
  <2>5. Len(create \o c) > 2 /\ (create \o c)[1] = "count"
    BY <1>2, <1>3, <2>1
  <2>6. QED
    BY <1>4, <1>5, <2>1, <2>4, <2>5
<1>6. CASE r.op = "update"
  <2>1. /\ update \o c \in Seq(StepName) /\ Len(update \o c) = 4 + Late(r.kind)
        /\ \A i \in 1..4 + Late(r.kind) : (update \o c)[i] = IF i <= 4 THEN update[i] ELSE c[i - 4]
    <3>1. /\ update \o c \in Seq(StepName) /\ Len(update \o c) = Len(update) + Len(c)
          /\ \A i \in 1..Len(update) + Len(c) :
               (update \o c)[i] = IF i <= Len(update) THEN update[i] ELSE c[i - Len(update)]
      BY <1>1, <1>2, ConcatSteps
    <3>2. QED
      BY <1>1, <1>2, <1>3, <3>1
  <2>2. ASSUME NEW i \in 1..Len(update \o c)
        PROVE  (update \o c)[i] = StepFromEnd(r, Len(update \o c) + 1 - i)
    <3>1. i \in {1, 2, 3, 4} \/ (i = 5 /\ Late(r.kind) = 1)
      BY <1>3, <2>1
    <3>2. QED
      BY <1>1, <1>2, <1>3, <1>6, <2>1, <3>1 DEF StepFromEnd
  <2>3. AtMostSteps(r, {}) = Late(r.kind) + 4
    BY <1>6 DEF AtMostSteps
  <2>4. IsLastSteps(update \o c, r, {})
    <3>1. Len(update \o c) <= AtMostSteps(r, {})
      BY <1>3, <2>1, <2>3
    <3>2. QED
      BY <2>2, <3>1 DEF IsLastSteps
  <2>5. Len(update \o c) > 2 /\ (update \o c)[1] = "fetch"
    BY <1>2, <1>3, <2>1
  <2>6. QED
    BY <1>4, <1>6, <2>1, <2>4, <2>5
<1>7. QED
  BY <1>5, <1>6 DEF DocOps

LEMMA OtherStepsAre ==
  ASSUME NEW r \in Requests, r.op \notin DocOps
  PROVE  /\ Steps(r) \in Seq(StepName)
         /\ r.op = "bulk" => Steps(r) = <<"db">>
         /\ r.op = "clear" => IsLastSteps(Steps(r), r, {})
<1>1. r.op \in {"bulk", "clear"}
  BY RequestFields DEF DocOps
<1>2. CASE r.op = "bulk"
  BY <1>2 DEF Steps, StepName
<1>3. CASE r.op = "clear"
  <2>1. Steps(r) = <<"flush", "zero">>
    BY <1>3 DEF Steps
  <2>2. AtMostSteps(r, {}) = 2
    BY <1>3 DEF AtMostSteps
  <2>3. QED
    BY <1>3, <2>1, <2>2 DEF IsLastSteps, StepFromEnd, StepName
<1>4. QED
  BY <1>1, <1>2, <1>3

LEMMA BulkStepsAre ==
  ASSUME NEW S, IsFiniteSet(S), NEW M, Cardinality(M) = Cardinality(S),
         NEW r, r.op = "bulk"
  PROVE  LET p == EachCreated(S) \o <<"list", "total">> IN
         /\ p \in Seq(StepName) /\ Len(p) = 2 * Cardinality(S) + 2
         /\ IsLastSteps(p, r, M)
<1> DEFINE n == Cardinality(S)
           e == EachCreated(S)
           l == <<"list", "total">>
           p == e \o l
<1>1. n \in Nat
  BY FS_CardinalityType
<1>2. /\ e \in Seq(StepName) /\ Len(e) = 2 * n
      /\ \A i \in 1..2 * n : e[i] = IF i % 2 = 1 THEN "count" ELSE "status"
  <2>1. 2 * n \in Nat
    BY <1>1
  <2>2. e = [i \in 1..2 * n |-> IF i % 2 = 1 THEN "count" ELSE "status"]
    BY DEF EachCreated
  <2> HIDE DEF n, e
  <2>3. QED
    BY <2>1, <2>2 DEF StepName
<1>3. l \in Seq(StepName) /\ Len(l) = 2 /\ l[1] = "list" /\ l[2] = "total"
  BY DEF StepName
<1>4. AtMostSteps(r, M) = 2 * n + 2
  BY DEF AtMostSteps
<1> HIDE DEF n, e, l
<1>5. /\ p \in Seq(StepName) /\ Len(p) = 2 * n + 2
      /\ \A i \in 1..2 * n + 2 : p[i] = IF i <= 2 * n THEN e[i] ELSE l[i - 2 * n]
  <2>1. /\ e \o l \in Seq(StepName) /\ Len(e \o l) = Len(e) + Len(l)
        /\ \A i \in 1..Len(e) + Len(l) :
             (e \o l)[i] = IF i <= Len(e) THEN e[i] ELSE l[i - Len(e)]
    BY <1>2, <1>3, ConcatSteps
  <2>2. QED
    BY <1>1, <1>2, <1>3, <2>1
<1> HIDE DEF p
<1>6. ASSUME NEW i \in 1..2 * n + 2
      PROVE  p[i] = StepFromEnd(r, 2 * n + 3 - i)
  <2>1. CASE i \in 1..2 * n
    <3>1. p[i] = IF i % 2 = 1 THEN "count" ELSE "status"
      BY <1>1, <1>2, <1>5, <2>1
    <3>2. (2 * n + 3 - i) % 2 = 1 <=> i % 2 # 1
      BY <1>1, <2>1
    <3>3. 2 * n + 3 - i > 2
      BY <1>1, <2>1
    <3>4. QED
      BY <3>1, <3>2, <3>3 DEF StepFromEnd
  <2>2. CASE i = 2 * n + 1
    BY <1>1, <1>3, <1>5, <2>2 DEF StepFromEnd
  <2>3. CASE i = 2 * n + 2
    BY <1>1, <1>3, <1>5, <2>3 DEF StepFromEnd
  <2>4. QED
    BY <1>1, <2>1, <2>2, <2>3
<1>7. IsLastSteps(p, r, M)
  BY <1>1, <1>4, <1>5, <1>6 DEF IsLastSteps
<1>8. QED
  BY <1>5, <1>7 DEF p, n, e, l

(* Taking a step leaves the last steps.                                      *)
LEMMA TailIsLastSteps ==
  ASSUME NEW p \in Seq(StepName), p # <<>>, NEW r, NEW S
  PROVE  /\ Tail(p) \in Seq(StepName) /\ Len(Tail(p)) = Len(p) - 1
         /\ \A i \in 1..Len(Tail(p)) : Tail(p)[i] = p[i + 1]
         /\ Head(p) = p[1] /\ Len(p) \in Nat \ {0}
         /\ AtMostSteps(r, S) \in Nat /\ IsLastSteps(p, r, S) => IsLastSteps(Tail(p), r, S)
<1>1. /\ Tail(p) \in Seq(StepName) /\ Len(Tail(p)) = Len(p) - 1
      /\ \A i \in 1..Len(Tail(p)) : Tail(p)[i] = p[i + 1]
      /\ Head(p) = p[1] /\ Len(p) \in Nat \ {0}
  OBVIOUS
<1>2. ASSUME AtMostSteps(r, S) \in Nat, IsLastSteps(p, r, S)
      PROVE  IsLastSteps(Tail(p), r, S)
  <2>1. Len(Tail(p)) <= AtMostSteps(r, S)
    BY <1>1, <1>2 DEF IsLastSteps
  <2>2. ASSUME NEW i \in 1..Len(Tail(p))
        PROVE  Tail(p)[i] = StepFromEnd(r, Len(Tail(p)) + 1 - i)
    BY <1>1, <1>2 DEF IsLastSteps
  <2>3. QED
    BY <2>1, <2>2 DEF IsLastSteps
<1>3. QED
  BY <1>1, <1>2

LEMMA SetToSeqLists ==
  ASSUME NEW S, IsFiniteSet(S)
  PROVE  /\ SetToSeq(S) \in [1..Cardinality(S) -> S]
         /\ IsInjective(SetToSeq(S))
         /\ SetToSeq(S) \in Seq(S) /\ Len(SetToSeq(S)) = Cardinality(S)
<1>1. Cardinality(S) \in Nat /\ ExistsBijection(1..Cardinality(S), S)
  BY FS_CardinalityType
<1>2. \E f \in [1..Cardinality(S) -> S] : IsInjective(f)
  BY <1>1 DEF ExistsBijection, Bijection, Injection
<1>3. SetToSeq(S) \in [1..Cardinality(S) -> S] /\ IsInjective(SetToSeq(S))
  BY <1>2 DEF SetToSeq
<1>4. QED
  BY <1>1, <1>3

-----------------------------------------------------------------------------
(* Requests in progress.                                                     *)
LEMMA JobFields ==
  ASSUME NEW j \in Jobs
  PROVE  /\ j # Idle /\ j.req \in Requests /\ j.n \in Nat /\ j.old \in Contents
         /\ j.made \subseteq Entry
<1>1. j.req \in Requests /\ j.n \in Nat /\ j.old \in Contents /\ j.made \subseteq Entry
  BY DEF Jobs
<1>2. j.req.op # "none"
  BY <1>1, RequestFields
<1>3. QED
  BY <1>1, <1>2 DEF Idle

LEMMA Plus1Counts ==
  ASSUME NEW c \in Counters, NEW o \in DocOps, NEW k \in Kinds
  PROVE  /\ Plus1(c, o, k) \in Counters
         /\ \A p \in DocOps, l \in Kinds :
              /\ c[p][l] \in Nat
              /\ Plus1(c, o, k)[p][l] = IF p = o /\ l = k THEN c[p][l] + 1 ELSE c[p][l]
<1>1. c \in [DocOps -> [Kinds -> Nat]]
  BY DEF Counters, DocOps
<1>2. Plus1(c, o, k) = [c EXCEPT ![o] = [c[o] EXCEPT ![k] = c[o][k] + 1]]
  BY <1>1 DEF Plus1
<1>3. c[o] \in [Kinds -> Nat] /\ c[o][k] + 1 \in Nat
  BY <1>1
<1> DEFINE d == [c[o] EXCEPT ![k] = c[o][k] + 1]
<1>4. d \in [Kinds -> Nat] /\ \A l \in Kinds : d[l] = IF l = k THEN c[o][l] + 1 ELSE c[o][l]
  BY <1>3
<1> HIDE DEF d
<1>5. [c EXCEPT ![o] = d] \in [DocOps -> [Kinds -> Nat]]
  BY <1>1, <1>4
<1>6. \A p \in DocOps : [c EXCEPT ![o] = d][p] = IF p = o THEN d ELSE c[p]
  BY <1>1
<1>7. \A p \in DocOps, l \in Kinds : c[p][l] \in Nat
  BY <1>1
<1>8. QED
  BY <1>2, <1>4, <1>5, <1>6, <1>7 DEF d, Counters, DocOps

LEMMA JobWithMade ==
  ASSUME NEW j \in Jobs, NEW M, M \subseteq Entry
  PROVE  /\ [j EXCEPT !.made = M] \in Jobs
         /\ [j EXCEPT !.made = M].made = M /\ [j EXCEPT !.made = M].req = j.req
         /\ [j EXCEPT !.made = M].n = j.n /\ [j EXCEPT !.made = M].old = j.old
  BY DEF Jobs

LEMMA JobWithOld ==
  ASSUME NEW j \in Jobs, NEW x \in Contents
  PROVE  /\ [j EXCEPT !.old = x] \in Jobs
         /\ [j EXCEPT !.old = x].made = j.made /\ [j EXCEPT !.old = x].req = j.req
         /\ [j EXCEPT !.old = x].n = j.n /\ [j EXCEPT !.old = x].old = x
  BY DEF Jobs

LEMMA NewJob ==
  ASSUME NEW r \in Requests, NEW m \in Nat
  PROVE  LET j == [req |-> r, n |-> m, old |-> None, made |-> {}] IN
         j \in Jobs /\ j.req = r /\ j.n = m /\ j.made = {} /\ j.old = None
  BY DEF Jobs, Contents

LEMMA ChangeIsEntry ==
  ASSUME NEW j \in Jobs, j.req.op # "clear", NEW i \in Ids \cup {NoId}, NEW x \in Contents
  PROVE  /\ Change(j, i, x) \in Entry /\ Change(j, i, x).n = j.n /\ Change(j, i, x).id = i
         /\ Change(j, i, x).old = x /\ Change(j, i, x).kind = j.req.kind
<1>1. j.req \in Requests /\ j.n \in Nat
  BY JobFields
<1>2. j.req.kind \in Kinds /\ j.req.user \in Users /\ j.req.val \in Vals
  BY <1>1, RequestFields
<1>3. QED
  BY <1>1, <1>2 DEF Change, Crossed, Entry

LEMMA DocIdIsId ==
  ASSUME NEW r \in Requests, r.op \in DocOps
  PROVE  DocId(r) \in Ids \cup {NoId}
  BY RequestFields DEF DocId

(* What the next step of a handler says of its request.                      *)
LEMMA NextStep ==
  ASSUME HandlerInv, NEW w \in Worker, plan[w] # <<>>
  PROVE  /\ Busy(w) /\ job[w] \in Jobs /\ Req(w) \in Requests
         /\ plan[w] \in Seq(StepName) /\ Len(plan[w]) \in Nat \ {0}
         /\ Head(plan[w]) \in {"flush", "zero"} <=> Req(w).op = "clear"
         /\ Head(plan[w]) = "total" => Req(w).op = "bulk"
         /\ Req(w).op = "bulk" => (Head(plan[w]) = "db" <=> BulkToMake(w))
         /\ ~BulkToMake(w) => /\ IsLastSteps(plan[w], Req(w), job[w].made)
                             /\ Head(plan[w]) = StepFromEnd(Req(w), Len(plan[w]))
<1>1. plan[w] \in Seq(StepName) /\ job[w] \in Jobs \cup {Idle} /\ PlanOf(w)
  BY DEF HandlerInv, ServerTypes
<1>2. Busy(w)
  BY <1>1 DEF PlanOf
<1>3. job[w] \in Jobs /\ Req(w) \in Requests
  BY <1>1, <1>2, JobFields DEF Busy, Req
<1>4. Len(plan[w]) \in Nat \ {0} /\ Head(plan[w]) = plan[w][1]
  BY <1>1
<1>5. Req(w).op \in {"create", "update", "bulk", "clear"}
  BY <1>3, RequestFields
<1>6. CASE BulkToMake(w)
  BY <1>1, <1>2, <1>3, <1>4, <1>6 DEF BulkToMake
<1>7. CASE ~BulkToMake(w)
  <2>1. IsLastSteps(plan[w], Req(w), job[w].made)
    BY <1>1, <1>2, <1>7 DEF PlanOf
  <2>2. Head(plan[w]) = StepFromEnd(Req(w), Len(plan[w]))
    BY <1>4, <2>1 DEF IsLastSteps
  <2>3. Late(Req(w).kind) \in Nat
    BY DEF Late
  <2>4. /\ Head(plan[w]) \in {"flush", "zero"} <=> Req(w).op = "clear"
        /\ Head(plan[w]) = "total" => Req(w).op = "bulk"
        /\ Req(w).op = "bulk" => Head(plan[w]) # "db"
    BY <1>4, <1>5, <2>2, <2>3 DEF StepFromEnd
  <2>5. QED
    BY <1>1, <1>2, <1>3, <1>4, <1>7, <2>1, <2>2, <2>4
<1>8. QED
  BY <1>6, <1>7

(* A step of one handler leaves the others as they are.                      *)
LEMMA OthersKept ==
  ASSUME HandlerInv, NEW v \in Worker,
         job'[v] = job[v], plan'[v] = plan[v], held'[v] = held[v],
         requests' \in Nat, requests <= requests'
  PROVE  PlanOf(v)' /\ HeldOf(v)' /\ JobOf(v)'
<1>1. requests \in Nat /\ PlanOf(v) /\ HeldOf(v) /\ JobOf(v)
  BY DEF HandlerInv, ServerTypes, ServerAssumption
<1>2. PlanOf(v)'
  BY <1>1 DEF PlanOf, Busy, Req, BulkToMake
<1>3. HeldOf(v)'
  BY <1>1 DEF HeldOf
<1>4. JobOf(v)'
  BY <1>1 DEF JobOf, Busy
<1>5. QED
  BY <1>2, <1>3, <1>4

(* A step taken, or an early return.                                         *)
LEMMA PlanAdvances ==
  ASSUME HandlerInv, NEW w \in Worker, plan[w] # <<>>, ~BulkToMake(w),
         NEW p, p = Tail(plan[w]) \/ p = <<>>,
         NEW M, Req(w).op = "bulk" => M = job[w].made
  PROVE  p \in Seq(StepName) /\ IsLastSteps(p, Req(w), M)
<1>1. /\ plan[w] \in Seq(StepName) /\ Req(w) \in Requests
      /\ IsLastSteps(plan[w], Req(w), job[w].made) /\ Busy(w)
  BY NextStep
<1>2. IsFiniteSet(job[w].made)
  BY <1>1 DEF HandlerInv, JobOf
<1>3. AtMostSteps(Req(w), job[w].made) \in Nat /\ AtMostSteps(Req(w), job[w].made) = AtMostSteps(Req(w), M)
  <2>1. Req(w).op \in {"create", "update", "bulk", "clear"}
    BY <1>1, RequestFields
  <2>2. Late(Req(w).kind) \in Nat
    BY DEF Late
  <2>3. Cardinality(job[w].made) \in Nat
    BY <1>2, FS_CardinalityType
  <2>4. QED
    BY <2>1, <2>2, <2>3 DEF AtMostSteps
<1>4. CASE p = <<>>
  BY <1>3, <1>4 DEF IsLastSteps
<1>5. CASE p = Tail(plan[w])
  <2>1. Tail(plan[w]) \in Seq(StepName) /\ IsLastSteps(Tail(plan[w]), Req(w), job[w].made)
    BY <1>1, <1>3, TailIsLastSteps
  <2>2. QED
    BY <1>3, <1>5, <2>1 DEF IsLastSteps
<1>6. QED
  BY <1>4, <1>5

-----------------------------------------------------------------------------
(* Every step keeps HandlerInv.                                              *)

(* The parts of a step of w that are the same whatever it does.              *)
LEMMA HandlerKept ==
  ASSUME HandlerInv, NEW w \in Worker, ServerTypes',
         \A v \in Worker \ {w} : job'[v] = job[v] /\ plan'[v] = plan[v] /\ held'[v] = held[v],
         requests <= requests',
         job'[w] = Idle \/ (job'[w].n = job[w].n /\ Busy(w)) \/ job'[w].n > requests,
         PlanOf(w)', HeldOf(w)', JobOf(w)'
  PROVE  HandlerInv'
<1>1. \A v \in Worker : PlanOf(v)' /\ HeldOf(v)' /\ JobOf(v)'
  <2>1. requests' \in Nat
    BY DEF ServerTypes, ServerAssumption
  <2>2. QED
    BY <2>1, OthersKept
<1>2. NumbersApart'
  <2>1. SUFFICES ASSUME NEW u \in Worker, NEW v \in Worker, Busy(u)', Busy(v)', u # v
                 PROVE  job'[u].n # job'[v].n
    BY DEF NumbersApart
  <2>2. requests \in Nat
    BY DEF HandlerInv, ServerTypes, ServerAssumption
  <2>3. \A x \in Worker : Busy(x) => job[x].n <= requests /\ job[x].n \in Nat
    BY <2>2 DEF HandlerInv, JobOf
  <2>4. \A x, y \in Worker : Busy(x) /\ Busy(y) /\ x # y => job[x].n # job[y].n
    BY DEF HandlerInv, NumbersApart
  <2>5. CASE u # w /\ v # w
    BY <2>1, <2>4, <2>5 DEF Busy
  <2>6. CASE u = w
    <3>1. v # w /\ Busy(v) /\ job'[v] = job[v] /\ job'[w] # Idle
      BY <2>1, <2>6 DEF Busy
    <3>2. QED
      BY <2>2, <2>3, <2>4, <2>6, <3>1
  <2>7. CASE v = w
    <3>1. u # w /\ Busy(u) /\ job'[u] = job[u] /\ job'[w] # Idle
      BY <2>1, <2>7 DEF Busy
    <3>2. QED
      BY <2>2, <2>3, <2>4, <2>7, <3>1
  <2>8. QED
    BY <2>5, <2>6, <2>7
<1>3. QED
  BY <1>1, <1>2 DEF HandlerInv

LEMMA ReceiveKeepsHandlers ==
  ASSUME HandlerInv, NEW w \in Worker, NEW r \in Requests, Receive(w, r)
  PROVE  HandlerInv'
<1>1. ServerTypes /\ PlanOf(w) /\ HeldOf(w) /\ requests \in Nat /\ MaxRequests \in Nat
  BY ServerAssumption DEF HandlerInv, ServerTypes
<1>2. plan[w] = <<>> /\ held[w] = <<>> /\ held[w]' = <<>>
  BY <1>1 DEF PlanOf, HeldOf, Busy, Receive
<1> DEFINE j == [req |-> r, n |-> requests + 1, old |-> None, made |-> {}]
           p == IF Accepts(r) THEN Steps(r) ELSE <<>>
<1>3. j \in Jobs /\ j.req = r /\ j.n = requests + 1 /\ j.made = {} /\ j # Idle
  BY <1>1, NewJob, JobFields
<1>4. /\ requests' = requests + 1 /\ requests < MaxRequests
      /\ job' = [job EXCEPT ![w] = j] /\ plan' = [plan EXCEPT ![w] = p]
      /\ UNCHANGED <<db, changes, count, username, status, held, wrote>>
  BY DEF Receive, shared
<1>5. p \in Seq(StepName) /\ ((r.op = "bulk" /\ p = <<"db">>) \/ IsLastSteps(p, r, {}))
  <2>1. CASE ~Accepts(r)
    <3>1. AtMostSteps(r, {}) \in Nat
      <4>1. r.op \in {"create", "update", "bulk", "clear"}
        BY RequestFields
      <4>2. Late(r.kind) \in Nat /\ Cardinality({}) = 0
        BY FS_EmptySet DEF Late
      <4>3. QED
        BY <4>1, <4>2 DEF AtMostSteps
    <3>2. QED
      BY <2>1, <3>1 DEF IsLastSteps
  <2>2. CASE Accepts(r)
    <3>1. r.op \in {"create", "update", "bulk", "clear"}
      BY RequestFields
    <3>2. QED
      BY <2>2, <3>1, DocStepsAre, OtherStepsAre DEF DocOps
  <2>3. QED
    BY <2>1, <2>2
<1> HIDE DEF j, p
<1>6. /\ job'[w] = j /\ plan'[w] = p /\ requests <= requests'
      /\ \A v \in Worker \ {w} : job'[v] = job[v] /\ plan'[v] = plan[v] /\ held'[v] = held[v]
  BY <1>1, <1>4 DEF ServerTypes
<1>7. ServerTypes'
  BY <1>1, <1>3, <1>4, <1>5 DEF ServerTypes
<1>8. PlanOf(w)'
  BY <1>3, <1>5, <1>6 DEF PlanOf, Busy, Req, BulkToMake
<1>9. HeldOf(w)'
  BY <1>2 DEF HeldOf
<1>10. JobOf(w)'
  <2>1. j.n \in 1..requests'
    BY <1>1, <1>3, <1>4
  <2>2. IsFiniteSet(j.made) /\ \A c \in j.made : c.n = j.n
    BY <1>3, FS_EmptySet
  <2>3. QED
    BY <1>6, <2>1, <2>2 DEF JobOf
<1>11. QED
  BY <1>1, <1>3, <1>6, <1>7, <1>8, <1>9, <1>10, HandlerKept

(* A step that returns early or goes on.                                     *)
OnlyOf(w) ==
  \A v \in Worker \ {w} : job'[v] = job[v] /\ plan'[v] = plan[v] /\ held'[v] = held[v]

Took(w) ==
  /\ OnlyOf(w) /\ held'[w] = <<>>
  /\ plan'[w] = Tail(plan[w]) \/ plan'[w] = <<>>
  /\ job'[w] \in Jobs /\ job'[w].req = Req(w) /\ job'[w].n = job[w].n
  /\ plan' \in [Worker -> Seq(StepName)] /\ job' \in [Worker -> Jobs \cup {Idle}]
  /\ held' \in [Worker -> Seq(Nat \cup Seq(Entry))]

LEMMA AdvanceKeepsHandlers ==
  ASSUME HandlerInv, NEW w \in Worker, plan[w] # <<>>, ~BulkToMake(w),
         ServerTypes', Took(w), requests' = requests,
         IsFiniteSet(job'[w].made), \A c \in job'[w].made : c.n = job[w].n,
         Req(w).op = "bulk" => job'[w].made = job[w].made
  PROVE  HandlerInv'
<1>1. ServerTypes /\ JobOf(w) /\ Busy(w) /\ requests \in Nat
  BY NextStep, ServerAssumption DEF HandlerInv, ServerTypes
<1>2. plan'[w] \in Seq(StepName) /\ IsLastSteps(plan'[w], Req(w), job'[w].made)
  BY PlanAdvances DEF Took
<1>3. job'[w] # Idle
  BY JobFields DEF Took
<1>4. PlanOf(w)'
  BY <1>2, <1>3 DEF Took, PlanOf, Busy, Req, BulkToMake
<1>5. HeldOf(w)' /\ JobOf(w)'
  BY <1>1 DEF Took, HeldOf, JobOf
<1>6. requests <= requests'
  BY <1>1
<1>7. QED
  BY <1>1, <1>4, <1>5, <1>6, HandlerKept DEF Took, OnlyOf

(* Its changes to the three variables of the handlers.                       *)
LEMMA StepTaken ==
  ASSUME HandlerInv, NEW w \in Worker, plan[w] # <<>>,
         NEW p \in Seq(StepName), plan' = [plan EXCEPT ![w] = p],
         NEW j \in Jobs, job' = [job EXCEPT ![w] = j],
         held' = [held EXCEPT ![w] = <<>>]
  PROVE  /\ OnlyOf(w) /\ plan'[w] = p /\ job'[w] = j /\ held'[w] = <<>>
         /\ plan' \in [Worker -> Seq(StepName)] /\ job' \in [Worker -> Jobs \cup {Idle}]
         /\ held' \in [Worker -> Seq(Nat \cup Seq(Entry))]
  BY DEF HandlerInv, ServerTypes, OnlyOf

LEMMA NothingHeld ==
  ASSUME HandlerInv, NEW w \in Worker
  PROVE  /\ plan[w] = <<>> \/ Head(plan[w]) \notin SharedStep => held[w] = <<>>
         /\ held[w] = <<>> => held = [held EXCEPT ![w] = <<>>]
         /\ job = [job EXCEPT ![w] = job[w]]
  BY DEF HandlerInv, HeldOf, ServerTypes

(* What a step puts into the log is entries of its own request.              *)
LEMMA ToLogIsEntries ==
  ASSUME HandlerInv, NEW w \in Worker, plan[w] # <<>>, Req(w).op # "clear"
  PROVE  /\ ToLog(w) \in Seq(Entry) /\ Len(ToLog(w)) \in Nat /\ IsInjective(ToLog(w))
         /\ \A i \in 1..Len(ToLog(w)) : ToLog(w)[i].n = job[w].n
<1>1. job[w] \in Jobs /\ Req(w) \in Requests /\ Busy(w) /\ JobOf(w)
  BY NextStep DEF HandlerInv
<1>2. IsFiniteSet(job[w].made) /\ job[w].made \subseteq Entry /\ job[w].old \in Contents
  BY <1>1, JobFields DEF JobOf
<1>3. CASE Req(w).op = "bulk"
  <2> DEFINE q == SetToSeq(job[w].made)
  <2>1. /\ q \in Seq(job[w].made) /\ IsInjective(q)
        /\ \A i \in 1..Len(q) : q[i] \in job[w].made
    BY <1>2, SetToSeqLists
  <2>2. ToLog(w) = q
    BY <1>3 DEF ToLog, Req
  <2> HIDE DEF q
  <2>3. q \in Seq(Entry) /\ Len(q) \in Nat
    BY <1>2, <2>1, SeqMonotonic
  <2>4. \A i \in 1..Len(q) : q[i].n = job[w].n
    BY <1>1, <2>1 DEF JobOf
  <2>5. QED
    BY <2>1, <2>2, <2>3, <2>4
<1>4. CASE Req(w).op # "bulk"
  <2> DEFINE c == Change(job[w], DocId(job[w].req), job[w].old)
  <2>1. c \in Entry /\ c.n = job[w].n
    <3>1. Req(w).op \in DocOps
      BY <1>1, <1>4, RequestFields DEF DocOps
    <3>2. DocId(Req(w)) \in Ids \cup {NoId}
      BY <1>1, <3>1, DocIdIsId
    <3>3. QED
      BY <1>1, <1>2, <3>2, ChangeIsEntry DEF Req
  <2>2. ToLog(w) = <<c>>
    BY <1>4 DEF ToLog, Req
  <2> HIDE DEF c
  <2>3. QED
    BY <2>1, <2>2 DEF IsInjective
<1>5. QED
  BY <1>3, <1>4

LEMMA FetchKeepsHandlers ==
  ASSUME HandlerInv, NEW w \in Worker, Fetch(w)
  PROVE  HandlerInv'
<1>1. /\ plan[w] # <<>> /\ Head(plan[w]) = "fetch"
      /\ UNCHANGED <<db, changes, count, username, status, requests, held, wrote>>
  BY DEF Fetch, At, shared
<1>2. /\ job[w] \in Jobs /\ Busy(w) /\ JobOf(w) /\ ServerTypes /\ Req(w) \in Requests
      /\ ~BulkToMake(w) /\ Req(w).op # "clear"
  BY <1>1, NextStep DEF HandlerInv, BulkToMake
<1>3. held' = [held EXCEPT ![w] = <<>>] /\ job = [job EXCEPT ![w] = job[w]]
  BY <1>1, NothingHeld DEF SharedStep
<1>4. Tail(plan[w]) \in Seq(StepName) /\ <<>> \in Seq(StepName)
  BY <1>1, <1>2 DEF ServerTypes
<1> DEFINE x == db[Req(w).kind][DocId(Req(w))]
           k == [job[w] EXCEPT !.old = x]
<1>5. ASSUME DocId(Req(w)) \in Ids, job' = [job EXCEPT ![w] = k],
             plan' = [plan EXCEPT ![w] = Tail(plan[w])]
      PROVE  Took(w) /\ job'[w].made = job[w].made
  <2>1. x \in Contents
    BY <1>2, <1>5, RequestFields DEF ServerTypes
  <2>2. k \in Jobs /\ k.req = Req(w) /\ k.n = job[w].n /\ k.made = job[w].made
    BY <1>2, <2>1, JobWithOld DEF Req
  <2> HIDE DEF k
  <2>3. /\ OnlyOf(w) /\ plan'[w] = Tail(plan[w]) /\ job'[w] = k /\ held'[w] = <<>>
        /\ plan' \in [Worker -> Seq(StepName)] /\ job' \in [Worker -> Jobs \cup {Idle}]
        /\ held' \in [Worker -> Seq(Nat \cup Seq(Entry))]
    BY <1>1, <1>3, <1>4, <1>5, <2>2, StepTaken, Zenon
  <2>4. QED
    BY <2>2, <2>3 DEF Took
<1>6. ASSUME UNCHANGED job, plan' = [plan EXCEPT ![w] = <<>>]
      PROVE  Took(w) /\ job'[w].made = job[w].made
  <2>1. /\ OnlyOf(w) /\ plan'[w] = <<>> /\ job'[w] = job[w] /\ held'[w] = <<>>
        /\ plan' \in [Worker -> Seq(StepName)] /\ job' \in [Worker -> Jobs \cup {Idle}]
        /\ held' \in [Worker -> Seq(Nat \cup Seq(Entry))]
    BY <1>1, <1>2, <1>3, <1>4, <1>6, StepTaken, Zenon
  <2>2. QED
    BY <1>2, <2>1 DEF Took, Req
<1>7. Took(w) /\ job'[w].made = job[w].made
  BY <1>5, <1>6 DEF Fetch, Advance, Fail, Req
<1> HIDE DEF k, x
<1>8. ServerTypes'
  BY <1>1, <1>2, <1>7 DEF ServerTypes, Took
<1>9. QED
  BY <1>1, <1>2, <1>7, <1>8, AdvanceKeepsHandlers DEF JobOf

LEMMA LoadKeepsHandlers ==
  ASSUME HandlerInv, NEW w \in Worker, Load(w)
  PROVE  HandlerInv'
<1>1. /\ plan[w] # <<>> /\ Head(plan[w]) \in SharedStep /\ held[w] = <<>>
      /\ UNCHANGED <<db, changes, count, status, requests, job, plan, wrote>>
  BY DEF Load
<1>2. /\ job[w] \in Jobs /\ Busy(w) /\ ServerTypes /\ Req(w) \in Requests /\ Req(w).op # "clear"
      /\ PlanOf(w) /\ JobOf(w)
  BY <1>1, NextStep DEF HandlerInv, SharedStep
<1>3. Req(w).kind \in Kinds /\ Req(w).user \in Users /\ StatusOp(Req(w)) \in DocOps
  BY <1>2, RequestFields DEF StatusOp, DocOps
<1> DEFINE x == CASE Head(plan[w]) \in {"count", "total"} -> count
                  [] Head(plan[w]) = "list" -> changes[Req(w).kind]
                  [] Head(plan[w]) = "status" -> status[StatusOp(Req(w))][Req(w).kind]
<1>4. held' = [held EXCEPT ![w] = <<x>>]
  BY DEF Load, Req
<1>5. username' \in Users \cup {None}
  BY <1>2, <1>3 DEF Load, ServerTypes, Req
<1>6. x \in IF Head(plan[w]) = "list" THEN Seq(Entry) ELSE Nat
  <2>1. CASE Head(plan[w]) = "list"
    BY <1>2, <1>3, <2>1 DEF ServerTypes
  <2>2. CASE Head(plan[w]) \in {"count", "total"}
    BY <1>2, <2>2 DEF ServerTypes
  <2>3. CASE Head(plan[w]) = "status"
    BY <1>2, <1>3, <2>3 DEF ServerTypes, Counters, DocOps
  <2>4. QED
    BY <1>1, <2>1, <2>2, <2>3 DEF SharedStep
<1> HIDE DEF x
<1>7. /\ held'[w] = <<x>> /\ held'[w][1] = x /\ held' \in [Worker -> Seq(Nat \cup Seq(Entry))]
      /\ \A v \in Worker \ {w} : held'[v] = held[v]
  <2> DEFINE Held == Nat \cup Seq(Entry)
  <2>1. held \in [Worker -> Seq(Held)] /\ x \in Held
    BY <1>2, <1>6 DEF ServerTypes
  <2> HIDE DEF Held
  <2>2. <<x>> \in Seq(Held) /\ <<x>>[1] = x
    BY <2>1
  <2>3. /\ held'[w] = <<x>> /\ held' \in [Worker -> Seq(Held)]
        /\ \A v \in Worker \ {w} : held'[v] = held[v]
    BY <1>4, <2>1, <2>2
  <2>4. QED
    BY <2>2, <2>3 DEF Held
<1>8. ServerTypes'
  BY <1>1, <1>2, <1>5, <1>7 DEF ServerTypes
<1>9. PlanOf(w)' /\ JobOf(w)'
  BY <1>1, <1>2 DEF PlanOf, Busy, Req, BulkToMake, JobOf
<1>10. HeldOf(w)'
  BY <1>1, <1>6, <1>7 DEF HeldOf
<1>11. requests <= requests'
  BY <1>1, <1>2, ServerAssumption DEF ServerTypes
<1>12. QED
  BY <1>1, <1>2, <1>7, <1>8, <1>9, <1>10, <1>11, HandlerKept

LEMMA StepTakes ==
  ASSUME HandlerInv, NEW w \in Worker, plan[w] # <<>>,
         NEW p, p = Tail(plan[w]) \/ p = <<>>, plan' = [plan EXCEPT ![w] = p],
         NEW j \in Jobs, job' = [job EXCEPT ![w] = j], j.req = Req(w), j.n = job[w].n,
         held' = [held EXCEPT ![w] = <<>>]
  PROVE  Took(w) /\ plan'[w] = p /\ job'[w] = j
<1>1. p \in Seq(StepName)
  <2>1. plan[w] \in Seq(StepName)
    BY DEF HandlerInv, ServerTypes
  <2>2. Tail(plan[w]) \in Seq(StepName) /\ <<>> \in Seq(StepName)
    BY <2>1
  <2>3. QED
    BY <2>2
<1>2. /\ OnlyOf(w) /\ plan'[w] = p /\ job'[w] = j /\ held'[w] = <<>>
      /\ plan' \in [Worker -> Seq(StepName)] /\ job' \in [Worker -> Jobs \cup {Idle}]
      /\ held' \in [Worker -> Seq(Nat \cup Seq(Entry))]
  BY <1>1, StepTaken, Zenon
<1>3. QED
  BY <1>2 DEF Took

LEMMA StoreKeepsHandlers ==
  ASSUME HandlerInv, NEW w \in Worker, Store(w)
  PROVE  HandlerInv'
<1>1. /\ held[w] # <<>> /\ held' = [held EXCEPT ![w] = <<>>]
      /\ plan' = [plan EXCEPT ![w] = Tail(plan[w])]
      /\ UNCHANGED <<db, requests, job, wrote>>
  BY DEF Store, Advance
<1>2. /\ plan[w] # <<>> /\ Head(plan[w]) \in SharedStep /\ HeldOf(w) /\ JobOf(w) /\ ServerTypes
      /\ held[w][1] \in IF Head(plan[w]) = "list" THEN Seq(Entry) ELSE Nat
  BY <1>1 DEF HandlerInv, HeldOf
<1>3. /\ job[w] \in Jobs /\ Busy(w) /\ Req(w) \in Requests /\ ~BulkToMake(w)
      /\ Req(w).op # "clear" /\ job' = [job EXCEPT ![w] = job[w]]
  BY <1>1, <1>2, NextStep, NothingHeld DEF BulkToMake, SharedStep
<1>4. Req(w).kind \in Kinds /\ StatusOp(Req(w)) \in DocOps
  BY <1>3, RequestFields DEF StatusOp, DocOps
<1>5. ToLog(w) \in Seq(Entry) /\ Len(ToLog(w)) \in Nat
  BY <1>2, <1>3, ToLogIsEntries
<1>6. Took(w) /\ job'[w] = job[w]
  BY <1>1, <1>2, <1>3, StepTakes, Zenon DEF Req
<1>7. changes' \in [Kinds -> Seq(Entry)] /\ count' \in Nat /\ username' = username /\ status' \in Counters
  <2>1. CASE StoreCount(w)
    <3>1. held[w][1] \in Nat
      BY <1>2, <2>1 DEF StoreCount, At
    <3>2. count' \in Nat
      BY <1>5, <2>1, <3>1 DEF StoreCount
    <3>3. QED
      BY <1>2, <2>1, <3>2 DEF StoreCount, ServerTypes
  <2>2. CASE StoreList(w)
    <3>1. held[w][1] \in Seq(Entry)
      BY <1>2, <2>2 DEF StoreList, At
    <3>2. held[w][1] \o ToLog(w) \in Seq(Entry)
      BY <1>5, <3>1
    <3>3. changes' \in [Kinds -> Seq(Entry)]
      BY <1>2, <2>2, <3>2 DEF StoreList, ServerTypes
    <3>4. QED
      BY <1>2, <2>2, <3>3 DEF StoreList, ServerTypes
  <2>3. CASE StoreStatus(w)
    <3>1. held[w][1] + 1 \in Nat
      BY <1>2, <2>3 DEF StoreStatus, At
    <3>2. status' \in Counters
      BY <1>2, <1>4, <2>3, <3>1 DEF StoreStatus, ServerTypes, Counters, DocOps, Req
    <3>3. QED
      BY <1>2, <2>3, <3>2 DEF StoreStatus, ServerTypes
  <2>4. QED
    BY <2>1, <2>2, <2>3 DEF Store
<1>8. ServerTypes'
  BY <1>1, <1>2, <1>6, <1>7 DEF ServerTypes, Took
<1>9. QED
  BY <1>1, <1>2, <1>3, <1>6, <1>8, AdvanceKeepsHandlers DEF JobOf

(* A create or an update that the database refuses.                          *)
LEMMA RefusalKeepsHandlers ==
  ASSUME HandlerInv, NEW w \in Worker, At(w, "db"), ~BulkToMake(w), Fail(w),
         UNCHANGED <<db, changes, count, username, status, requests, job, held, wrote>>
  PROVE  HandlerInv'
<1>1. plan[w] # <<>> /\ Head(plan[w]) = "db"
  BY DEF At
<1>2. job[w] \in Jobs /\ Busy(w) /\ Req(w) \in Requests /\ ServerTypes /\ JobOf(w)
  BY <1>1, NextStep DEF HandlerInv
<1>3. held' = [held EXCEPT ![w] = <<>>] /\ job' = [job EXCEPT ![w] = job[w]]
  BY <1>1, NothingHeld DEF SharedStep
<1>4. plan' = [plan EXCEPT ![w] = <<>>]
  BY DEF Fail
<1>5. Took(w) /\ job'[w] = job[w]
  BY <1>1, <1>2, <1>3, <1>4, StepTakes, Zenon DEF Req
<1>6. ServerTypes'
  BY <1>2, <1>5 DEF ServerTypes, Took
<1>7. QED
  BY <1>1, <1>2, <1>5, <1>6, AdvanceKeepsHandlers DEF JobOf

(* And one that it carries out.                                              *)
LEMMA SuccessKeepsHandlers ==
  ASSUME HandlerInv, NEW w \in Worker, At(w, "db"), Req(w).op \in DocOps, Advance(w),
         NEW i \in Ids, NEW x \in Contents,
         db' = [db EXCEPT ![Req(w).kind][i] = Req(w).val],
         job' = [job EXCEPT ![w].made = {Change(job[w], i, x)}],
         wrote' = Plus1(wrote, Req(w).op, Req(w).kind),
         UNCHANGED <<changes, count, username, status, requests, held>>
  PROVE  HandlerInv'
<1>1. plan[w] # <<>> /\ Head(plan[w]) = "db" /\ plan' = [plan EXCEPT ![w] = Tail(plan[w])]
  BY DEF At, Advance
<1>2. /\ job[w] \in Jobs /\ Busy(w) /\ Req(w) \in Requests /\ ServerTypes /\ JobOf(w)
      /\ ~BulkToMake(w) /\ Req(w).op # "clear" /\ Req(w).op # "bulk"
  BY <1>1, NextStep DEF HandlerInv, BulkToMake, DocOps
<1>3. held' = [held EXCEPT ![w] = <<>>]
  BY <1>1, NothingHeld DEF SharedStep
<1> DEFINE c == Change(job[w], i, x)
           j == [job[w] EXCEPT !.made = {c}]
<1>4. c \in Entry /\ c.n = job[w].n
  BY <1>2, ChangeIsEntry DEF Req
<1>5. job' = [job EXCEPT ![w] = j]
  OBVIOUS
<1> HIDE DEF c
<1>6. j \in Jobs /\ j.req = Req(w) /\ j.n = job[w].n /\ j.made = {c}
  BY <1>2, <1>4, JobWithMade DEF Req
<1> HIDE DEF j
<1>7. Took(w) /\ job'[w] = j
  BY <1>1, <1>2, <1>3, <1>5, <1>6, StepTakes, Zenon
<1>8. db' \in [Kinds -> [Ids -> Contents]]
  <2>1. Req(w).kind \in Kinds /\ Req(w).val \in Contents
    BY <1>2, RequestFields DEF Contents, DocOps
  <2>2. QED
    BY <1>2, <2>1 DEF ServerTypes
<1>9. wrote' \in Counters
  <2>1. wrote \in Counters /\ Req(w).kind \in Kinds
    BY <1>2, RequestFields DEF ServerTypes, DocOps
  <2>2. QED
    BY <2>1, Plus1Counts
<1>10. ServerTypes'
  BY <1>2, <1>7, <1>8, <1>9 DEF ServerTypes, Took
<1>11. IsFiniteSet(j.made) /\ \A d \in j.made : d.n = job[w].n
  BY <1>4, <1>6, FS_Singleton
<1>12. QED
  BY <1>1, <1>2, <1>6, <1>7, <1>10, <1>11, AdvanceKeepsHandlers

LEMMA CreateKeepsHandlers ==
  ASSUME HandlerInv, NEW w \in Worker, Create(w)
  PROVE  HandlerInv'
<1>1. /\ At(w, "db") /\ Req(w).op = "create" /\ ~BulkToMake(w)
      /\ UNCHANGED <<changes, count, username, status, requests, held>>
  BY DEF Create, Req, BulkToMake, shared
<1>2. CASE Fail(w) /\ UNCHANGED <<db, job, wrote>>
  BY <1>1, <1>2, RefusalKeepsHandlers
<1>3. CASE /\ Creatable(Req(w).kind, DocId(Req(w))) /\ Advance(w)
           /\ db' = [db EXCEPT ![Req(w).kind][DocId(Req(w))] = Req(w).val]
           /\ job' = [job EXCEPT ![w].made = {Change(job[w], DocId(Req(w)), None)}]
           /\ wrote' = Plus1(wrote, "create", Req(w).kind)
  <2>1. DocId(Req(w)) \in Ids /\ None \in Contents /\ Req(w).op \in DocOps
    BY <1>1, <1>3 DEF Creatable, Contents, DocOps
  <2>2. wrote' = Plus1(wrote, Req(w).op, Req(w).kind)
    BY <1>1, <1>3
  <2>3. QED
    BY <1>1, <1>3, <2>1, <2>2, SuccessKeepsHandlers, Zenon
<1>4. QED
  BY <1>2, <1>3 DEF Create, Req

LEMMA UpdateKeepsHandlers ==
  ASSUME HandlerInv, NEW w \in Worker, Update(w)
  PROVE  HandlerInv'
<1>1. /\ At(w, "db") /\ Req(w).op = "update" /\ ~BulkToMake(w)
      /\ UNCHANGED <<changes, count, username, status, requests, held>>
  BY DEF Update, Req, BulkToMake, shared
<1>2. CASE Fail(w) /\ UNCHANGED <<db, job, wrote>>
  BY <1>1, <1>2, RefusalKeepsHandlers
<1>3. CASE /\ Advance(w)
           /\ db' = [db EXCEPT ![Req(w).kind][Req(w).addr] = Req(w).val]
           /\ job' = [job EXCEPT ![w].made =
                        {Change(job[w], Req(w).addr, db[Req(w).kind][Req(w).addr])}]
           /\ wrote' = Plus1(wrote, "update", Req(w).kind)
  <2>1. plan[w] # <<>> /\ Req(w) \in Requests /\ ServerTypes
    BY <1>1, NextStep DEF At, HandlerInv
  <2>2. Req(w).addr \in Ids /\ Req(w).kind \in Kinds /\ Req(w).op \in DocOps
    BY <1>1, <2>1, RequestFields DEF DocOps
  <2>3. db[Req(w).kind][Req(w).addr] \in Contents
    BY <2>1, <2>2 DEF ServerTypes
  <2>4. wrote' = Plus1(wrote, Req(w).op, Req(w).kind)
    BY <1>1, <1>3
  <2>5. QED
    BY <1>1, <1>3, <2>2, <2>3, <2>4, SuccessKeepsHandlers, Zenon
<1>4. QED
  BY <1>2, <1>3 DEF Update, Req

(* What a bulk has made: as many entries as documents.                       *)
LEMMA BulkMade ==
  ASSUME NEW j \in Jobs, j.req.op = "bulk", NEW S \in SUBSET j.req.ids
  PROVE  LET M == {Change(j, i, None) : i \in S} IN
         /\ M \subseteq Entry /\ \A c \in M : c.n = j.n
         /\ IsFiniteSet(S) /\ IsFiniteSet(M) /\ Cardinality(M) = Cardinality(S)
<1> DEFINE M == {Change(j, i, None) : i \in S}
           f == [i \in S |-> Change(j, i, None)]
<1>1. j.req \in Requests /\ None \in Contents
  BY JobFields DEF Contents
<1>2. S \subseteq Ids /\ IsFiniteSet(S)
  BY <1>1, RequestFields, FS_Subset
<1>3. \A i \in S : Change(j, i, None) \in Entry /\ Change(j, i, None).n = j.n
                   /\ Change(j, i, None).id = i
  BY <1>1, <1>2, ChangeIsEntry
<1>4. f \in [S -> M] /\ \A i \in S : f[i] = Change(j, i, None)
  OBVIOUS
<1>5. \A a, b \in S : f[a] = f[b] => a = b
  BY <1>3
<1>6. \A c \in M : \E i \in S : f[i] = c
  OBVIOUS
<1>7. /\ M \subseteq Entry
      /\ \A c \in M : c.n = j.n
  BY <1>3
<1> HIDE DEF M, f
<1>8. f \in Bijection(S, M)
  BY <1>4, <1>5, <1>6 DEF Bijection, Injection, Surjection, IsInjective
<1>9. ExistsBijection(S, M)
  BY <1>8 DEF ExistsBijection
<1>10. IsFiniteSet(M) /\ Cardinality(M) = Cardinality(S)
  BY <1>2, <1>9, FS_Bijection
<1>11. QED
  BY <1>2, <1>7, <1>10 DEF M

LEMMA CreateBulkKeepsHandlers ==
  ASSUME HandlerInv, NEW w \in Worker, CreateBulk(w)
  PROVE  HandlerInv'
<1>1. plan[w] # <<>> /\ Head(plan[w]) = "db" /\ Req(w).op = "bulk" /\ held' = held
  BY DEF CreateBulk, At, Req
<1>2. /\ job[w] \in Jobs /\ Busy(w) /\ Req(w) \in Requests /\ ServerTypes /\ JobOf(w)
      /\ Req(w).kind \in Kinds /\ Req(w).val \in Vals
  BY <1>1, NextStep, RequestFields DEF HandlerInv
<1>3. held' = [held EXCEPT ![w] = <<>>]
  BY <1>1, NothingHeld DEF SharedStep
<1>4. PICK S \in SUBSET Req(w).ids :
        /\ db' = [db EXCEPT ![Req(w).kind] = [i \in Ids |-> IF i \in S THEN Req(w).val ELSE @[i]]]
        /\ job' = [job EXCEPT ![w].made = {Change(job[w], i, None) : i \in S}]
        /\ wrote' = [wrote EXCEPT !["create"][Req(w).kind] = @ + Cardinality(S)]
        /\ plan' = [plan EXCEPT ![w] = EachCreated(S) \o <<"list", "total">>]
  BY DEF CreateBulk, Req
<1>5. UNCHANGED <<changes, count, username, status, requests>>
  BY DEF CreateBulk, shared
<1> DEFINE M == {Change(job[w], i, None) : i \in S}
           j == [job[w] EXCEPT !.made = M]
           p == EachCreated(S) \o <<"list", "total">>
<1>6. M \subseteq Entry /\ (\A c \in M : c.n = job[w].n) /\ IsFiniteSet(S) /\ IsFiniteSet(M)
      /\ Cardinality(M) = Cardinality(S)
  <2>1. S \in SUBSET job[w].req.ids /\ job[w].req.op = "bulk"
    BY <1>1 DEF Req
  <2>2. QED
    BY <1>2, <2>1, BulkMade
<1>7. p \in Seq(StepName) /\ IsLastSteps(p, Req(w), M)
  <2> HIDE DEF M
  <2>1. QED
    BY <1>1, <1>6, BulkStepsAre
<1>8. job' = [job EXCEPT ![w] = j] /\ plan' = [plan EXCEPT ![w] = p]
  BY <1>4
<1> HIDE DEF M
<1>9. j \in Jobs /\ j.req = Req(w) /\ j.n = job[w].n /\ j.made = M
  BY <1>2, <1>6, JobWithMade DEF Req
<1> HIDE DEF j, p
<1>10. /\ OnlyOf(w) /\ plan'[w] = p /\ job'[w] = j /\ held'[w] = <<>>
       /\ plan' \in [Worker -> Seq(StepName)] /\ job' \in [Worker -> Jobs \cup {Idle}]
       /\ held' \in [Worker -> Seq(Nat \cup Seq(Entry))]
  BY <1>1, <1>3, <1>7, <1>8, <1>9, StepTaken, Zenon
<1>11. wrote' \in Counters /\ db' \in [Kinds -> [Ids -> Contents]]
  <2>1. Cardinality(S) \in Nat
    BY <1>6, FS_CardinalityType
  <2> DEFINE n == Cardinality(S)
  <2> HIDE DEF n
  <2>2. n \in Nat /\ wrote' = [wrote EXCEPT !["create"][Req(w).kind] = @ + n]
    BY <1>4, <2>1 DEF n
  <2>3. wrote' \in Counters
    BY <1>2, <2>2 DEF ServerTypes, Counters
  <2>4. db' \in [Kinds -> [Ids -> Contents]]
    BY <1>2, <1>4 DEF ServerTypes, Contents
  <2>5. QED
    BY <2>3, <2>4
<1>12. ServerTypes'
  BY <1>2, <1>5, <1>10, <1>11 DEF ServerTypes
<1>13. PlanOf(w)'
  <2>1. j # Idle
    BY <1>9, JobFields
  <2>2. QED
    BY <1>7, <1>9, <1>10, <2>1 DEF PlanOf, Busy, Req, BulkToMake
<1>14. HeldOf(w)' /\ JobOf(w)'
  BY <1>2, <1>5, <1>6, <1>9, <1>10 DEF HeldOf, JobOf
<1>15. requests <= requests'
  BY <1>2, <1>5, ServerAssumption DEF ServerTypes
<1>16. QED
  BY <1>2, <1>9, <1>10, <1>12, <1>13, <1>14, <1>15, HandlerKept DEF OnlyOf

LEMMA FlushKeepsHandlers ==
  ASSUME HandlerInv, NEW w \in Worker, Flush(w)
  PROVE  HandlerInv'
<1>1. /\ plan[w] # <<>> /\ Head(plan[w]) \in {"flush", "zero"}
      /\ plan' = [plan EXCEPT ![w] = Tail(plan[w])]
      /\ UNCHANGED <<db, username, status, requests, job, held, wrote>>
  BY DEF Flush, At, Advance
<1>2. /\ job[w] \in Jobs /\ Busy(w) /\ Req(w) \in Requests /\ ServerTypes /\ JobOf(w)
      /\ Req(w).op = "clear" /\ ~BulkToMake(w)
  BY <1>1, NextStep DEF HandlerInv, BulkToMake
<1>3. held' = [held EXCEPT ![w] = <<>>] /\ job' = [job EXCEPT ![w] = job[w]]
  BY <1>1, NothingHeld DEF SharedStep
<1>4. Took(w) /\ job'[w] = job[w]
  BY <1>1, <1>2, <1>3, StepTakes, Zenon DEF Req
<1>5. changes' \in [Kinds -> Seq(Entry)] /\ count' \in Nat
  <2>1. CASE changes' = [k \in Kinds |-> <<>>] /\ UNCHANGED count
    BY <1>2, <2>1 DEF ServerTypes
  <2>2. CASE count' = 0 /\ UNCHANGED changes
    BY <1>2, <2>2 DEF ServerTypes
  <2>3. QED
    BY <2>1, <2>2 DEF Flush
<1>6. ServerTypes'
  BY <1>1, <1>2, <1>4, <1>5 DEF ServerTypes, Took
<1>7. QED
  BY <1>1, <1>2, <1>4, <1>6, AdvanceKeepsHandlers DEF JobOf

LEMMA FinishKeepsHandlers ==
  ASSUME HandlerInv, NEW w \in Worker, Finish(w)
  PROVE  HandlerInv'
<1>1. /\ plan[w] = <<>> /\ job' = [job EXCEPT ![w] = Idle]
      /\ UNCHANGED <<db, changes, count, username, status, requests, plan, held, wrote>>
  BY DEF Finish, shared
<1>2. ServerTypes /\ HeldOf(w)
  BY DEF HandlerInv
<1>3. held[w] = <<>>
  BY <1>1, <1>2 DEF HeldOf
<1>4. /\ job'[w] = Idle /\ \A v \in Worker \ {w} : job'[v] = job[v]
      /\ job' \in [Worker -> Jobs \cup {Idle}]
  BY <1>1, <1>2 DEF ServerTypes
<1>5. ServerTypes'
  BY <1>1, <1>2, <1>4 DEF ServerTypes
<1>6. PlanOf(w)' /\ HeldOf(w)' /\ JobOf(w)'
  BY <1>1, <1>3, <1>4 DEF PlanOf, HeldOf, JobOf, Busy
<1>7. requests <= requests'
  BY <1>1, <1>2, ServerAssumption DEF ServerTypes
<1>8. \A v \in Worker \ {w} : job'[v] = job[v] /\ plan'[v] = plan[v] /\ held'[v] = held[v]
  BY <1>1, <1>4
<1>9. job'[w] = Idle \/ (job'[w].n = job[w].n /\ Busy(w)) \/ job'[w].n > requests
  BY <1>4
<1>10. QED
  BY <1>5, <1>6, <1>7, <1>8, <1>9, HandlerKept

LEMMA HandlerInit == Init => HandlerInv
<1> SUFFICES ASSUME Init PROVE HandlerInv
  OBVIOUS
<1>1. ServerTypes
  BY ServerAssumption DEF Init, ServerTypes, Contents, Counters, Zero
<1>2. \A w \in Worker : job[w] = Idle /\ plan[w] = <<>> /\ held[w] = <<>>
  BY DEF Init
<1>3. QED
  BY <1>1, <1>2 DEF HandlerInv, NumbersApart, PlanOf, HeldOf, JobOf, Busy

LEMMA HandlerStep == HandlerInv /\ [Next]_vars => HandlerInv'
<1> SUFFICES ASSUME HandlerInv, [Next]_vars PROVE HandlerInv'
  OBVIOUS
<1>1. CASE UNCHANGED vars
  BY <1>1 DEF vars, shared, HandlerInv, ServerTypes, NumbersApart, PlanOf, HeldOf, JobOf,
              Busy, Req, BulkToMake
<1>2. ASSUME NEW w \in Worker, NEW r \in Requests, Receive(w, r) PROVE HandlerInv'
  BY <1>2, ReceiveKeepsHandlers
<1>3. ASSUME NEW w \in Worker, Fetch(w) PROVE HandlerInv'
  BY <1>3, FetchKeepsHandlers
<1>4. ASSUME NEW w \in Worker, Load(w) PROVE HandlerInv'
  BY <1>4, LoadKeepsHandlers
<1>5. ASSUME NEW w \in Worker, Store(w) PROVE HandlerInv'
  BY <1>5, StoreKeepsHandlers
<1>6. ASSUME NEW w \in Worker, Create(w) PROVE HandlerInv'
  BY <1>6, CreateKeepsHandlers
<1>7. ASSUME NEW w \in Worker, Update(w) PROVE HandlerInv'
  BY <1>7, UpdateKeepsHandlers
<1>8. ASSUME NEW w \in Worker, CreateBulk(w) PROVE HandlerInv'
  BY <1>8, CreateBulkKeepsHandlers
<1>9. ASSUME NEW w \in Worker, Flush(w) PROVE HandlerInv'
  BY <1>9, FlushKeepsHandlers
<1>10. ASSUME NEW w \in Worker, Finish(w) PROVE HandlerInv'
  BY <1>10, FinishKeepsHandlers
<1>11. QED
  BY <1>1, <1>2, <1>3, <1>4, <1>5, <1>6, <1>7, <1>8, <1>9, <1>10 DEF Next

(* Every handler follows the steps of its request to the end or to an early  *)
(* return, a step on a shared variable holds a value only between its two    *)
(* halves, and no two requests in progress have the same number.             *)
THEOREM HandlersFollowTheirSteps == Spec => []HandlerInv
<1>1. Init => HandlerInv
  BY HandlerInit
<1>2. HandlerInv /\ [Next]_vars => HandlerInv'
  BY HandlerStep
<1>3. QED
  BY <1>1, <1>2, PTL DEF Spec

(* The variables of the server keep the types TLC checks.                    *)
THEOREM ServerTypeOK == Spec => []TypeOK
<1>1. HandlerInv => TypeOK
  <2> SUFFICES ASSUME HandlerInv PROVE TypeOK
    OBVIOUS
  <2>1. ServerTypes /\ \A w \in Worker : PlanOf(w) /\ HeldOf(w)
    BY DEF HandlerInv
  <2>2. /\ db \in [Kinds -> [Ids -> {None} \cup Vals]]
        /\ count \in Nat /\ username \in Users \cup {None}
        /\ status \in Counters /\ wrote \in Counters /\ requests \in 0..MaxRequests
    BY <2>1 DEF ServerTypes, Contents
  <2>3. ASSUME NEW w \in Worker
        PROVE  /\ job[w] = Idle \/ job[w].req \in Requests
               /\ job[w] = Idle => plan[w] = <<>>
               /\ held[w] # <<>> => plan[w] # <<>> /\ Head(plan[w]) \in SharedStep
    <3>1. job[w] \in Jobs \cup {Idle}
      BY <2>1 DEF ServerTypes
    <3>2. job[w] = Idle \/ job[w].req \in Requests
      BY <3>1, JobFields
    <3>3. QED
      BY <2>1, <3>2 DEF PlanOf, HeldOf, Busy
  <2>4. QED
    BY <2>2, <2>3 DEF TypeOK
<1>2. QED
  BY <1>1, HandlersFollowTheirSteps, PTL

-----------------------------------------------------------------------------
(* What an action of w leaves alone.                                         *)
ActionOf(w) ==
  \/ \E r \in Requests : Receive(w, r)
  \/ Fetch(w) \/ Load(w) \/ Store(w)
  \/ Create(w) \/ Update(w) \/ CreateBulk(w)
  \/ Flush(w) \/ Finish(w)

LEMMA ActionIsOfOne ==
  ASSUME HandlerInv, NEW w \in Worker, ActionOf(w)
  PROVE  OnlyOf(w) /\ requests \in Nat /\ requests' \in Nat /\ requests <= requests'
<1>1. ServerTypes /\ requests \in Nat
  BY ServerAssumption DEF HandlerInv, ServerTypes
<1>2. /\ job' = job \/ \E j : job' = [job EXCEPT ![w] = j]
      /\ plan' = plan \/ \E p : plan' = [plan EXCEPT ![w] = p]
      /\ held' = held \/ \E h : held' = [held EXCEPT ![w] = h]
      /\ requests' = requests \/ requests' = requests + 1
  <2>1. CASE \E r \in Requests : Receive(w, r)
    BY <2>1 DEF Receive, shared
  <2>2. CASE Fetch(w)
    BY <2>2 DEF Fetch, Advance, Fail, shared
  <2>3. CASE Load(w)
    BY <2>3 DEF Load
  <2>4. CASE Store(w)
    BY <2>4 DEF Store, Advance
  <2>5. CASE Create(w)
    BY <2>5 DEF Create, Advance, Fail
  <2>6. CASE Update(w)
    BY <2>6 DEF Update, Advance, Fail
  <2>7. CASE CreateBulk(w)
    BY <2>7 DEF CreateBulk
  <2>8. CASE Flush(w)
    BY <2>8 DEF Flush, Advance
  <2>9. CASE Finish(w)
    BY <2>9 DEF Finish
  <2>10. QED
    BY <2>1, <2>2, <2>3, <2>4, <2>5, <2>6, <2>7, <2>8, <2>9 DEF ActionOf
<1>3. \A v \in Worker \ {w} : job'[v] = job[v] /\ plan'[v] = plan[v] /\ held'[v] = held[v]
  BY <1>1, <1>2 DEF ServerTypes
<1>4. QED
  BY <1>1, <1>2, <1>3 DEF OnlyOf

(* A handler that goes on or returns early; one that is at a step on a       *)
(* database or at the end holds nothing.                                     *)
GoesOn(w) ==
  /\ plan[w] # <<>> /\ ~BulkToMake(w) /\ job'[w].req = Req(w) /\ job'[w].n = job[w].n
  /\ plan'[w] = Tail(plan[w]) \/ plan'[w] = <<>>
  /\ held'[w] = <<>>

LEMMA StepsGoOn ==
  ASSUME HandlerInv, NEW w \in Worker, Fetch(w) \/ Store(w) \/ Create(w) \/ Update(w) \/ Flush(w)
  PROVE  GoesOn(w)
<1>1. ServerTypes
  BY DEF HandlerInv
<1>2. CASE Fetch(w)
  <2>1. plan[w] # <<>> /\ Head(plan[w]) = "fetch" /\ held' = held
    BY <1>2 DEF Fetch, At
  <2>2. job[w] \in Jobs /\ held[w] = <<>> /\ ~BulkToMake(w)
    BY <2>1, NextStep, NothingHeld DEF BulkToMake, SharedStep
  <2>3. job'[w].req = job[w].req /\ job'[w].n = job[w].n
    <3>1. CASE job' = job
      BY <3>1
    <3>2. CASE job' = [job EXCEPT ![w].old = db[job[w].req.kind][DocId(job[w].req)]]
      BY <1>1, <2>2, <3>2 DEF ServerTypes, Jobs
    <3>3. QED
      BY <1>2, <3>1, <3>2 DEF Fetch
  <2>4. plan'[w] = Tail(plan[w]) \/ plan'[w] = <<>>
    BY <1>1, <1>2 DEF Fetch, Advance, Fail, ServerTypes
  <2>5. QED
    BY <2>1, <2>2, <2>3, <2>4 DEF GoesOn, Req
<1>3. CASE Store(w)
  <2>1. /\ plan[w] # <<>> /\ Head(plan[w]) \in SharedStep /\ held'[w] = <<>>
        /\ plan'[w] = Tail(plan[w]) /\ job' = job
    BY <1>1, <1>3 DEF Store, Advance, HandlerInv, HeldOf, ServerTypes
  <2>2. ~BulkToMake(w)
    BY <2>1 DEF BulkToMake, SharedStep
  <2>3. QED
    BY <2>1, <2>2 DEF GoesOn, Req
<1>4. CASE Create(w) \/ Update(w)
  <2>1. /\ plan[w] # <<>> /\ Head(plan[w]) = "db" /\ held' = held /\ Req(w).op # "bulk"
        /\ plan'[w] = Tail(plan[w]) \/ plan'[w] = <<>>
        /\ job' = job \/ \E M : job' = [job EXCEPT ![w].made = M]
    BY <1>1, <1>4 DEF Create, Update, At, Advance, Fail, ServerTypes, Req
  <2>2. job[w] \in Jobs /\ held[w] = <<>> /\ ~BulkToMake(w)
    BY <2>1, NextStep, NothingHeld DEF BulkToMake, SharedStep
  <2>3. job'[w].req = job[w].req /\ job'[w].n = job[w].n
    BY <1>1, <2>1, <2>2 DEF ServerTypes, Jobs
  <2>4. QED
    BY <2>1, <2>2, <2>3 DEF GoesOn, Req
<1>5. CASE Flush(w)
  <2>1. /\ plan[w] # <<>> /\ Head(plan[w]) \in {"flush", "zero"} /\ held' = held /\ job' = job
        /\ plan'[w] = Tail(plan[w])
    BY <1>1, <1>5 DEF Flush, At, Advance, ServerTypes
  <2>2. held[w] = <<>> /\ ~BulkToMake(w)
    BY <2>1, NothingHeld DEF BulkToMake, SharedStep
  <2>3. QED
    BY <2>1, <2>2 DEF GoesOn, Req
<1>6. QED
  BY <1>2, <1>3, <1>4, <1>5

(* What is left of a plan that goes on.                                      *)
LEMMA LeftOfPlan ==
  ASSUME HandlerInv, NEW w \in Worker, GoesOn(w)
  PROVE  /\ Busy(w) /\ ~BulkToMake(w)'
         /\ plan[w] \in Seq(StepName) /\ plan'[w] \in Seq(StepName)
         /\ Len(plan[w]) \in Nat \ {0} /\ Len(plan'[w]) \in Nat
         /\ Len(plan'[w]) < Len(plan[w])
         /\ plan'[w] # <<>> => Len(plan'[w]) = Len(plan[w]) - 1
         /\ \A i \in 1..Len(plan'[w]) : plan'[w][i] = plan[w][i + 1]
<1>1. /\ plan[w] \in Seq(StepName) /\ Busy(w) /\ Req(w) \in Requests
      /\ IsLastSteps(plan[w], Req(w), job[w].made) /\ plan[w] # <<>>
  BY NextStep DEF GoesOn
<1>2. /\ Tail(plan[w]) \in Seq(StepName) /\ Len(Tail(plan[w])) = Len(plan[w]) - 1
      /\ \A i \in 1..Len(Tail(plan[w])) : Tail(plan[w])[i] = plan[w][i + 1]
      /\ Len(plan[w]) \in Nat \ {0}
  BY <1>1, TailIsLastSteps
<1>3. /\ plan'[w] \in Seq(StepName) /\ Len(plan'[w]) \in Nat /\ Len(plan'[w]) < Len(plan[w])
      /\ plan'[w] # <<>> => Len(plan'[w]) = Len(plan[w]) - 1
      /\ \A i \in 1..Len(plan'[w]) : plan'[w][i] = plan[w][i + 1]
  <2>1. CASE plan'[w] = <<>>
    BY <1>2, <2>1
  <2>2. CASE plan'[w] = Tail(plan[w])
    BY <1>2, <2>2
  <2>3. QED
    BY <2>1, <2>2 DEF GoesOn
<1>4. ~BulkToMake(w)'
  <2>1. SUFFICES ASSUME Req(w).op = "bulk", plan'[w] = <<"db">> PROVE FALSE
    BY DEF BulkToMake, GoesOn, Req
  <2>2. Len(plan'[w]) = 1 /\ plan'[w][1] = "db" /\ plan'[w] # <<>>
    BY <2>1
  <2>3. Len(plan[w]) = 2 /\ plan[w][2] = "db"
    BY <1>2, <1>3, <2>2
  <2>4. plan[w][2] = StepFromEnd(Req(w), 1)
    BY <1>1, <2>3 DEF IsLastSteps
  <2>5. QED
    BY <2>1, <2>3, <2>4 DEF StepFromEnd
<1>5. QED
  BY <1>1, <1>2, <1>3, <1>4

-----------------------------------------------------------------------------
(* Every step keeps ListsInv.                                                *)
LEMMA HoldsNoList ==
  ASSUME NEW w, held'[w] = <<>>
  PROVE  ~HoldsList(w)'
  BY DEF HoldsList

GoodNext(l) ==
  /\ IsInjective(l)
  /\ \A i \in 1..Len(l) : /\ l[i].n <= requests'
                          /\ \A w \in Worker : Owes(w)' => l[i].n # job'[w].n

LEMMA ListsAreEntries ==
  ASSUME HandlerInv, NEW l \in Lists
  PROVE  l \in Seq(Entry) /\ \A i \in 1..Len(l) : l[i].n \in Nat
<1>1. l \in Seq(Entry)
  BY DEF Lists, HandlerInv, ServerTypes, HeldOf, HoldsList
<1>2. \A i \in 1..Len(l) : l[i] \in Entry
  BY <1>1
<1>3. QED
  BY <1>1, <1>2 DEF Entry

LEMMA ListsKept ==
  ASSUME HandlerInv, ListsInv, NEW w \in Worker, ActionOf(w),
         HoldsList(w)' => held'[w][1] \in Lists,
         Owes(w)' => (Owes(w) /\ job'[w].n = job[w].n) \/ job'[w].n > requests,
         \A k \in Kinds : changes'[k] \in Lists \/ GoodNext(changes'[k])
  PROVE  ListsInv'
<1>1. OnlyOf(w) /\ requests \in Nat /\ requests' \in Nat /\ requests <= requests'
  BY ActionIsOfOne
<1>2. \A v \in Worker : Owes(v)' => (Owes(v) /\ job'[v].n = job[v].n) \/ job'[v].n > requests
  BY <1>1 DEF OnlyOf, Owes, Busy, BulkToMake, Req
<1>3. ASSUME NEW l \in Lists PROVE GoodNext(l)
  <2>1. GoodList(l) /\ l \in Seq(Entry) /\ \A i \in 1..Len(l) : l[i].n \in Nat
    BY <1>3, ListsAreEntries DEF ListsInv
  <2>2. ASSUME NEW i \in 1..Len(l)
        PROVE  l[i].n <= requests' /\ \A v \in Worker : Owes(v)' => l[i].n # job'[v].n
    <3>1. l[i].n \in Nat /\ l[i].n <= requests /\ \A v \in Worker : Owes(v) => l[i].n # job[v].n
      BY <2>1 DEF GoodList
    <3>2. l[i].n <= requests'
      BY <1>1, <3>1
    <3>3. ASSUME NEW v \in Worker, Owes(v)' PROVE l[i].n # job'[v].n
      <4>1. CASE Owes(v) /\ job'[v].n = job[v].n
        BY <3>1, <4>1
      <4>2. CASE job'[v].n > requests
        BY <1>1, <3>1, <4>2
      <4>3. QED
        BY <1>2, <3>3, <4>1, <4>2
    <3>4. QED
      BY <3>2, <3>3
  <2>3. QED
    BY <2>1, <2>2 DEF GoodList, GoodNext
<1>4. ASSUME NEW l \in Lists' PROVE GoodNext(l)
  <2>1. CASE \E k \in Kinds : l = changes'[k]
    BY <1>3, <2>1
  <2>2. CASE \E v \in Worker : HoldsList(v)' /\ l = held'[v][1]
    <3>1. PICK v \in Worker : HoldsList(v)' /\ l = held'[v][1]
      BY <2>2
    <3>2. CASE v = w
      BY <1>3, <3>1, <3>2
    <3>3. CASE v # w
      <4>1. HoldsList(v) /\ l = held[v][1]
        BY <1>1, <3>1, <3>3 DEF OnlyOf, HoldsList
      <4>2. l \in Lists
        BY <4>1 DEF Lists
      <4>3. QED
        BY <1>3, <4>2
    <3>4. QED
      BY <3>2, <3>3
  <2>3. QED
    BY <1>4, <2>1, <2>2 DEF Lists
<1>5. QED
  BY <1>4 DEF ListsInv, GoodList, GoodNext

(* A handler has one step on the log.                                        *)
LEMMA ListStepOnce ==
  ASSUME NEW r \in Requests, NEW a \in Nat, NEW b \in Nat,
         StepFromEnd(r, a) = "list", StepFromEnd(r, b) = "list"
  PROVE  a = b
<1>1. r.op \in {"create", "update", "bulk", "clear"} /\ Late(r.kind) \in Nat
  BY RequestFields DEF Late
<1>2. QED
  BY <1>1 DEF StepFromEnd

LEMMA OwesLess ==
  ASSUME HandlerInv, NEW w \in Worker, GoesOn(w)
  PROVE  /\ Owes(w)' => Owes(w) /\ job'[w].n = job[w].n
         /\ Head(plan[w]) = "list" => Owes(w) /\ ~Owes(w)'
<1>1. /\ Busy(w) /\ ~BulkToMake(w)' /\ plan[w] \in Seq(StepName) /\ plan'[w] \in Seq(StepName)
      /\ Len(plan[w]) \in Nat \ {0} /\ Len(plan'[w]) \in Nat /\ Len(plan'[w]) < Len(plan[w])
      /\ \A i \in 1..Len(plan'[w]) : plan'[w][i] = plan[w][i + 1]
  BY LeftOfPlan
<1>2. \A i \in 1..Len(plan'[w]) : i + 1 \in 1..Len(plan[w])
  BY <1>1
<1>3. Owes(w)' => \E i \in 1..Len(plan'[w]) : plan'[w][i] = "list"
  BY <1>1 DEF Owes
<1>4. Owes(w)' => Owes(w)
  BY <1>1, <1>2, <1>3 DEF Owes
<1>5. ASSUME Head(plan[w]) = "list" PROVE Owes(w) /\ ~Owes(w)'
  <2>1. /\ IsLastSteps(plan[w], Req(w), job[w].made) /\ Req(w) \in Requests
        /\ Head(plan[w]) = plan[w][1]
    BY <1>1, NextStep DEF GoesOn
  <2>2. Owes(w)
    BY <1>1, <1>5, <2>1 DEF Owes
  <2>3. ASSUME NEW i \in 1..Len(plan'[w]), plan'[w][i] = "list" PROVE FALSE
    <3>1. StepFromEnd(Req(w), Len(plan[w])) = "list" /\ StepFromEnd(Req(w), Len(plan[w]) - i) = "list"
      <4>1. plan[w][i + 1] = "list" /\ plan[w][1] = "list"
        BY <1>1, <1>5, <2>1, <2>3
      <4>2. \A m \in 1..Len(plan[w]) : plan[w][m] = StepFromEnd(Req(w), Len(plan[w]) + 1 - m)
        BY <2>1 DEF IsLastSteps
      <4> DEFINE L == Len(plan[w])
      <4>3. L \in Nat \ {0} /\ i \in Nat
        BY <1>1
      <4>4. i + 1 \in 1..L
        BY <1>2
      <4> HIDE DEF L
      <4>5. 1 \in 1..L /\ L + 1 - 1 = L /\ L + 1 - (i + 1) = L - i
        BY <4>3
      <4>6. plan[w][1] = StepFromEnd(Req(w), L + 1 - 1) /\ plan[w][i + 1] = StepFromEnd(Req(w), L + 1 - (i + 1))
        BY <4>2, <4>4, <4>5 DEF L
      <4>7. QED
        BY <4>1, <4>5, <4>6 DEF L
    <3>2. Len(plan[w]) - i \in Nat /\ Len(plan[w]) \in Nat /\ Len(plan[w]) # Len(plan[w]) - i
      BY <1>1
    <3>3. QED
      BY <2>1, <3>1, <3>2, ListStepOnce
  <2>4. QED
    BY <1>3, <2>2, <2>3
<1>6. QED
  BY <1>4, <1>5 DEF GoesOn

LEMMA StoreKeepsLists ==
  ASSUME HandlerInv, ListsInv, NEW w \in Worker, Store(w)
  PROVE  ListsInv'
<1>1. GoesOn(w) /\ ActionOf(w) /\ ServerTypes /\ HeldOf(w) /\ JobOf(w)
  BY StepsGoOn DEF ActionOf, HandlerInv
<1>2. /\ held'[w] = <<>> /\ held[w] # <<>> /\ job' = job /\ plan[w] # <<>> /\ requests' = requests
      /\ Head(plan[w]) \in SharedStep
  BY <1>1 DEF GoesOn, Store, HeldOf
<1>3. Req(w).op # "clear" /\ Req(w) \in Requests /\ Busy(w) /\ job[w] \in Jobs
  BY <1>2, NextStep DEF SharedStep
<1>4. Req(w).kind \in Kinds
  BY <1>3, RequestFields
<1>5. CASE StoreCount(w) \/ StoreStatus(w)
  <2>1. \A k \in Kinds : changes'[k] \in Lists
    BY <1>5 DEF StoreCount, StoreStatus, Lists
  <2>2. QED
    BY <1>1, <1>2, <2>1, OwesLess, HoldsNoList, ListsKept
<1>6. CASE StoreList(w)
  <2> DEFINE h == held[w][1]
             t == ToLog(w)
  <2>1. /\ Head(plan[w]) = "list"
        /\ changes' = [changes EXCEPT ![Req(w).kind] = h \o t]
    BY <1>6 DEF StoreList, At, Req
  <2>2. Owes(w) /\ ~Owes(w)' /\ HoldsList(w)
    BY <1>1, <1>2, <2>1, OwesLess DEF HoldsList
  <2>3. h \in Lists
    BY <2>2 DEF Lists
  <2>4. /\ h \in Seq(Entry) /\ GoodList(h) /\ \A i \in 1..Len(h) : h[i].n \in Nat
    BY <2>3, ListsAreEntries DEF ListsInv
  <2>5. /\ t \in Seq(Entry) /\ Len(t) \in Nat /\ IsInjective(t)
        /\ \A i \in 1..Len(t) : t[i].n = job[w].n
    BY <1>2, <1>3, ToLogIsEntries
  <2> HIDE DEF h, t
  <2>6. /\ h \o t \in Seq(Entry) /\ Len(h \o t) = Len(h) + Len(t) /\ Len(h) \in Nat
        /\ \A i \in 1..Len(h) + Len(t) :
             (h \o t)[i] = IF i <= Len(h) THEN h[i] ELSE t[i - Len(h)]
    BY <2>4, <2>5, ConcatProperties
  <2>7. job[w].n <= requests
    BY <1>3, ServerAssumption DEF HandlerInv, JobOf, ServerTypes
  <2>8. \A i \in 1..Len(h) : h[i].n # job[w].n
    BY <2>2, <2>4 DEF GoodList
  <2>9. GoodNext(h \o t)
    <3> DEFINE q == h \o t
               m == Len(h)
               n == Len(t)
    <3>1. m \in Nat /\ n \in Nat /\ q \in Seq(Entry) /\ Len(q) = m + n
          /\ \A i \in 1..m + n : q[i] = IF i <= m THEN h[i] ELSE t[i - m]
      BY <2>5, <2>6
    <3>2. /\ \A i \in 1..m : h[i].n <= requests /\ h[i].n # job[w].n
          /\ \A i, j \in 1..m : h[i] = h[j] => i = j
          /\ \A i, j \in 1..n : t[i] = t[j] => i = j
      BY <2>4, <2>5, <2>8 DEF GoodList, IsInjective
    <3>3. \A i \in 1..n : t[i].n = job[w].n
      BY <2>5
    <3> HIDE DEF q, m, n
    <3>4. ASSUME NEW i \in 1..m + n
          PROVE  \/ i \in 1..m /\ q[i] = h[i]
                 \/ i - m \in 1..n /\ q[i] = t[i - m]
      BY <3>1
    <3>5. ASSUME NEW i \in 1..m + n, NEW j \in 1..m + n, q[i] = q[j] PROVE i = j
      <4>1. CASE i \in 1..m /\ q[i] = h[i] /\ j \in 1..m /\ q[j] = h[j]
        BY <3>2, <3>5, <4>1
      <4>2. CASE i \in 1..m /\ q[i] = h[i] /\ j - m \in 1..n /\ q[j] = t[j - m]
        BY <3>2, <3>3, <3>5, <4>2
      <4>3. CASE i - m \in 1..n /\ q[i] = t[i - m] /\ j \in 1..m /\ q[j] = h[j]
        BY <3>2, <3>3, <3>5, <4>3
      <4>4. CASE i - m \in 1..n /\ q[i] = t[i - m] /\ j - m \in 1..n /\ q[j] = t[j - m]
        <5>1. i - m = j - m
          BY <3>2, <3>5, <4>4
        <5>2. QED
          BY <3>1, <5>1
      <4>5. QED
        BY <3>4, <4>1, <4>2, <4>3, <4>4
    <3>6. ASSUME NEW i \in 1..m + n
          PROVE  /\ q[i].n <= requests'
                 /\ \A v \in Worker : Owes(v)' => q[i].n # job'[v].n
      <4>1. \A v \in Worker : Owes(v)' => Owes(v) /\ v # w
        <5>1. OnlyOf(w)
          BY <1>1, ActionIsOfOne
        <5>2. QED
          BY <2>2, <5>1 DEF OnlyOf, Owes, Busy, BulkToMake, Req
      <4>2. CASE i \in 1..m /\ q[i] = h[i]
        <5>1. h[i].n <= requests /\ \A v \in Worker : Owes(v) => h[i].n # job[v].n
          BY <2>4, <4>2 DEF GoodList, m
        <5>2. QED
          BY <1>2, <4>1, <4>2, <5>1
      <4>3. CASE i - m \in 1..n /\ q[i] = t[i - m]
        <5>1. q[i].n = job[w].n
          BY <3>3, <4>3
        <5>2. \A v \in Worker : Owes(v)' => job[w].n # job[v].n
          BY <1>3, <4>1 DEF HandlerInv, NumbersApart, Owes
        <5>3. QED
          BY <1>2, <2>7, <5>1, <5>2
      <4>4. QED
        BY <3>4, <4>2, <4>3
    <3>7. IsInjective(q)
      <4>1. DOMAIN q = 1..m + n
        BY <3>1
      <4>2. QED
        BY <3>5, <4>1 DEF IsInjective
    <3>8. QED
      BY <3>1, <3>6, <3>7 DEF GoodNext, q
  <2>10. \A k \in Kinds : changes'[k] \in Lists \/ changes'[k] = h \o t
    BY <1>1, <1>4, <2>1 DEF Lists, ServerTypes
  <2>11. QED
    BY <1>1, <1>2, <2>2, <2>9, <2>10, HoldsNoList, ListsKept
<1>7. QED
  BY <1>5, <1>6 DEF Store

LEMMA ListsStep == HandlerInv /\ ListsInv /\ [Next]_vars => ListsInv'
<1> SUFFICES ASSUME HandlerInv, ListsInv, [Next]_vars PROVE ListsInv'
  OBVIOUS
<1>1. CASE UNCHANGED vars
  BY <1>1 DEF vars, shared, ListsInv, Lists, GoodList, HoldsList, Owes, Busy, BulkToMake, Req
<1>2. ASSUME NEW w \in Worker, ActionOf(w) PROVE ListsInv'
  <2>1. ServerTypes /\ PlanOf(w) /\ HeldOf(w) /\ requests \in Nat
    BY ServerAssumption DEF HandlerInv, ServerTypes
  <2>2. \A k \in Kinds : changes[k] \in Lists
    BY DEF Lists
  <2>3. ASSUME NEW r \in Requests, Receive(w, r) PROVE ListsInv'
    <3>1. /\ held'[w] = <<>> /\ changes' = changes /\ job'[w].n = requests + 1
      BY <2>1, <2>3 DEF Receive, shared, PlanOf, HeldOf, Busy, ServerTypes
    <3>2. job'[w].n > requests
      BY <2>1, <3>1
    <3>3. QED
      BY <1>2, <2>2, <3>1, <3>2, HoldsNoList, ListsKept
  <2>4. CASE Fetch(w) \/ Create(w) \/ Update(w)
    <3>1. GoesOn(w) /\ changes' = changes
      BY <2>4, StepsGoOn DEF Fetch, Create, Update, shared
    <3>2. QED
      BY <1>2, <2>2, <3>1, OwesLess, HoldsNoList, ListsKept DEF GoesOn
  <2>5. CASE Load(w)
    <3>1. /\ plan[w] # <<>> /\ Head(plan[w]) \in SharedStep
          /\ job' = job /\ plan' = plan /\ changes' = changes
      BY <2>5 DEF Load
    <3>2. Req(w).kind \in Kinds
      BY <3>1, NextStep, RequestFields DEF SharedStep
    <3>3. Owes(w)' => Owes(w) /\ job'[w].n = job[w].n
      BY <3>1 DEF Owes, Busy, BulkToMake, Req
    <3>4. Head(plan[w]) = "list" => held'[w][1] \in Lists
      BY <2>1, <2>2, <2>5, <3>2 DEF Load, ServerTypes, Req
    <3>5. Head(plan[w]) # "list" => ~HoldsList(w)'
      BY <3>1 DEF HoldsList
    <3>6. QED
      BY <1>2, <2>2, <3>1, <3>3, <3>4, <3>5, HoldsNoList, ListsKept
  <2>6. CASE Store(w)
    BY <2>6, StoreKeepsLists
  <2>7. CASE CreateBulk(w)
    <3>1. /\ plan[w] # <<>> /\ Head(plan[w]) = "db" /\ held' = held /\ changes' = changes
          /\ Req(w).op = "bulk" /\ \E M : job' = [job EXCEPT ![w].made = M]
      BY <2>7 DEF CreateBulk, At, shared, Req
    <3>2. BulkToMake(w) /\ Busy(w) /\ held[w] = <<>> /\ job[w] \in Jobs
      BY <3>1, NextStep, NothingHeld DEF SharedStep
    <3>3. job'[w].n = job[w].n
      BY <2>1, <3>1, <3>2 DEF ServerTypes, Jobs
    <3>4. Owes(w)
      BY <3>2 DEF Owes
    <3>5. QED
      BY <1>2, <2>2, <3>1, <3>2, <3>3, <3>4, HoldsNoList, ListsKept
  <2>8. CASE Flush(w)
    <3>1. GoesOn(w)
      BY <2>8, StepsGoOn
    <3>2. GoodNext(<<>>)
      BY DEF GoodNext, IsInjective
    <3>3. \A k \in Kinds : changes'[k] \in Lists \/ changes'[k] = <<>>
      BY <2>2, <2>8 DEF Flush
    <3>4. QED
      BY <1>2, <3>1, <3>2, <3>3, OwesLess, HoldsNoList, ListsKept DEF GoesOn
  <2>9. CASE Finish(w)
    <3>1. held'[w] = <<>> /\ changes' = changes /\ job'[w] = Idle
      BY <2>1, <2>9 DEF Finish, shared, HeldOf, ServerTypes
    <3>2. ~Owes(w)'
      BY <3>1 DEF Owes, Busy
    <3>3. QED
      BY <1>2, <2>2, <3>1, <3>2, HoldsNoList, ListsKept
  <2>10. QED
    BY <1>2, <2>3, <2>4, <2>5, <2>6, <2>7, <2>8, <2>9 DEF ActionOf
<1>3. QED
  BY <1>1, <1>2 DEF Next, ActionOf

LEMMA ListsInit == Init => ListsInv
<1> SUFFICES ASSUME Init PROVE ListsInv
  OBVIOUS
<1>1. /\ \A k \in Kinds : changes[k] = <<>>
      /\ \A w \in Worker : held[w] = <<>>
  BY DEF Init
<1>2. \A l \in Lists : l = <<>>
  BY <1>1 DEF Lists, HoldsList
<1>3. GoodList(<<>>)
  BY DEF GoodList, IsInjective
<1>4. QED
  BY <1>2, <1>3 DEF ListsInv

(* No change is listed twice, and none is written back by a step that read   *)
(* the list before, however appends and clears of the log interleave.        *)
THEOREM LogHasNoRepeats == Spec => [](ListsInv /\ LoggedOnce)
<1>1. ListsInv => LoggedOnce
  <2>1. SUFFICES ASSUME ListsInv, NEW k \in Kinds PROVE IsInjective(changes[k])
    BY DEF LoggedOnce, IsInjective
  <2>2. changes[k] \in Lists
    BY DEF Lists
  <2>3. QED
    BY <2>1, <2>2 DEF ListsInv, GoodList
<1>2. Init => ListsInv
  BY ListsInit
<1>3. HandlerInv /\ ListsInv /\ [Next]_vars => ListsInv'
  BY ListsStep
<1>4. QED
  BY <1>1, <1>2, <1>3, HandlersFollowTheirSteps, PTL DEF Spec

-----------------------------------------------------------------------------
(* The increments that are due, by what is left of a plan.                   *)
DueShape ==
  \A w \in Worker, m \in Nat, o \in DocOps, k \in Kinds :
    <<w, m>> \in Due(o, k) <=>
      /\ Counts(w, o, k)
      /\ IF Req(w).op = "bulk"
           THEN ~BulkToMake(w) /\ m \in 3..Len(plan[w]) /\ m % 2 = 1
           ELSE k # "uiconfig" /\ m = 1 /\ Len(plan[w]) = 1

LEMMA DueHasShape == HandlerInv => DueShape
<1> SUFFICES ASSUME HandlerInv, NEW w \in Worker, NEW m \in Nat, NEW o \in DocOps, NEW k \in Kinds
             PROVE  <<w, m>> \in Due(o, k) <=>
                      /\ Counts(w, o, k)
                      /\ IF Req(w).op = "bulk"
                           THEN ~BulkToMake(w) /\ m \in 3..Len(plan[w]) /\ m % 2 = 1
                           ELSE k # "uiconfig" /\ m = 1 /\ Len(plan[w]) = 1
  BY DEF DueShape
<1> DEFINE L == Len(plan[w])
<1>1. <<w, m>> \in Due(o, k) <=>
        Counts(w, o, k) /\ Wrote(w) /\ m \in 1..L /\ plan[w][L + 1 - m] = "status"
  BY DEF Due
<1>2. CASE ~Counts(w, o, k)
  BY <1>1, <1>2
<1>3. CASE Counts(w, o, k) /\ BulkToMake(w)
  <2>1. plan[w] = <<"db">> /\ Req(w).op = "bulk"
    BY <1>3 DEF BulkToMake
  <2>2. ~Wrote(w)
    BY <2>1 DEF Wrote
  <2>3. QED
    BY <1>1, <1>3, <2>1, <2>2
<1>4. CASE Counts(w, o, k) /\ ~BulkToMake(w)
  <2> DEFINE r == Req(w)
  <2>1. /\ IsLastSteps(plan[w], r, job[w].made) /\ plan[w] \in Seq(StepName) /\ L \in Nat
        /\ r \in Requests /\ r.op # "clear" /\ r.kind = k
    BY <1>4, JobFields DEF HandlerInv, ServerTypes, PlanOf, Counts, Busy, Req
  <2>2. r.op \in {"create", "update", "bulk"} /\ Late(k) \in Nat
        /\ Late(k) = IF k = "uiconfig" THEN 0 ELSE 1
    BY <2>1, RequestFields DEF Late
  <2>3. \A i \in 1..L : plan[w][i] = StepFromEnd(r, L + 1 - i)
    BY <2>1 DEF IsLastSteps
  <2>4. Wrote(w) <=> \A i \in 1..L : plan[w][i] # "db"
    BY DEF Wrote
  <2> HIDE DEF L, r
  <2>5. m \in 1..L => plan[w][L + 1 - m] = StepFromEnd(r, m)
    <3>1. ASSUME m \in 1..L PROVE L + 1 - m \in 1..L /\ L + 1 - (L + 1 - m) = m
      BY <2>1, <3>1
    <3>2. QED
      BY <2>3, <3>1
  <2>6. CASE r.op = "bulk"
    <3>1. \A x : StepFromEnd(r, x) # "db"
      BY <2>6 DEF StepFromEnd
    <3>2. Wrote(w)
      BY <2>3, <2>4, <3>1
    <3>3. m \in 1..L => (StepFromEnd(r, m) = "status" <=> m > 2 /\ m % 2 = 1)
      BY <2>1, <2>6 DEF StepFromEnd
    <3>4. m \in 3..L <=> m \in 1..L /\ m > 2
      BY <2>1
    <3>5. QED
      BY <1>1, <1>4, <2>5, <2>6, <3>2, <3>3, <3>4 DEF r, L
  <2>7. CASE r.op # "bulk"
    <3>1. StepFromEnd(r, Late(k) + 1) = "db" /\ (StepFromEnd(r, 1) = "status" <=> Late(k) = 1)
      BY <2>1, <2>2, <2>7 DEF StepFromEnd
    <3>2. ASSUME Wrote(w), L > Late(k) PROVE FALSE
      <4>1. L - Late(k) \in 1..L /\ L + 1 - (L - Late(k)) = Late(k) + 1
        BY <2>1, <2>2, <3>2
      <4>2. plan[w][L - Late(k)] = "db"
        BY <2>3, <3>1, <4>1
      <4>3. QED
        BY <2>4, <3>2, <4>1, <4>2
    <3>3. ASSUME Wrote(w), m \in 1..L PROVE k # "uiconfig" /\ m = 1 /\ L = 1
      <4>1. L <= Late(k)
        BY <2>1, <2>2, <3>2, <3>3
      <4>2. QED
        BY <2>1, <2>2, <3>3, <4>1
    <3>4. ASSUME k # "uiconfig", m = 1, L = 1
          PROVE  Wrote(w) /\ m \in 1..L /\ plan[w][L + 1 - m] = "status"
      <4>1. m \in 1..L /\ plan[w][L + 1 - m] = "status" /\ L + 1 - m = 1
        BY <2>2, <2>5, <3>1, <3>4
      <4>2. \A i \in 1..L : i = 1
        BY <3>4
      <4>3. QED
        BY <2>4, <4>1, <4>2
    <3>5. QED
      BY <1>1, <1>4, <2>7, <3>3, <3>4 DEF r, L
  <2>8. QED
    BY <2>6, <2>7
<1>5. QED
  BY <1>2, <1>3, <1>4

LEMMA DueHasShapeNext == HandlerInv' => DueShape'
  BY DueHasShape, PTL

(* A step of w changes no increments but its own.                            *)
LEMMA DueOfOne ==
  ASSUME NEW w \in Worker, OnlyOf(w), NEW o \in DocOps, NEW k \in Kinds, NEW x
  PROVE  /\ x \in Due(o, k) => x \in Worker \X Nat /\ x = <<x[1], x[2]>>
         /\ x \in Due(o, k)' => x \in Worker \X Nat /\ x = <<x[1], x[2]>>
         /\ x[1] # w => (x \in Due(o, k)' <=> x \in Due(o, k))
<1>1. /\ x \in Due(o, k) => x \in Worker \X Nat /\ x = <<x[1], x[2]>>
      /\ x \in Due(o, k)' => x \in Worker \X Nat /\ x = <<x[1], x[2]>>
  BY DEF Due
<1>2. ASSUME x \in Worker \X Nat, x[1] # w PROVE x \in Due(o, k)' <=> x \in Due(o, k)
  <2>1. job'[x[1]] = job[x[1]] /\ plan'[x[1]] = plan[x[1]]
    BY <1>2 DEF OnlyOf
  <2>2. QED
    BY <2>1 DEF Due, Counts, Wrote, Busy, Req
<1>3. QED
  BY <1>1, <1>2

LEMMA DueKept ==
  ASSUME NEW w \in Worker, OnlyOf(w), NEW o \in DocOps, NEW k \in Kinds,
         \A m \in Nat : <<w, m>> \in Due(o, k)' <=> <<w, m>> \in Due(o, k)
  PROVE  Due(o, k)' = Due(o, k)
<1>1. ASSUME NEW x PROVE x \in Due(o, k)' <=> x \in Due(o, k)
  <2>1. /\ x \in Due(o, k) => x \in Worker \X Nat /\ x = <<x[1], x[2]>>
        /\ x \in Due(o, k)' => x \in Worker \X Nat /\ x = <<x[1], x[2]>>
        /\ x[1] # w => (x \in Due(o, k)' <=> x \in Due(o, k))
    BY DueOfOne
  <2>2. CASE x[1] # w
    BY <2>1, <2>2
  <2>3. CASE x[1] = w
    <3>1. x \in Worker \X Nat => x[2] \in Nat
      OBVIOUS
    <3>2. QED
      BY <2>1, <2>3, <3>1
  <2>4. QED
    BY <2>2, <2>3
<1>2. QED
  BY <1>1

LEMMA CountsKept ==
  ASSUME HandlerInv, NEW w \in Worker, GoesOn(w), NEW o \in DocOps, NEW k \in Kinds
  PROVE  /\ Counts(w, o, k)' <=> Counts(w, o, k)
         /\ Counts(w, o, k) <=> Req(w).op # "clear" /\ Req(w).kind = k /\ StatusOp(Req(w)) = o
<1>1. Req(w) \in Requests /\ Busy(w) /\ job'[w].req = Req(w)
  BY NextStep DEF GoesOn
<1>2. Req(w).op # "none"
  BY <1>1, RequestFields
<1>3. job'[w] # Idle
  BY <1>1, <1>2 DEF Idle
<1>4. QED
  BY <1>1, <1>3 DEF Counts, Busy, Req

(* A step other than an increment or a successful call of the database.      *)
LEMMA QuietDue ==
  ASSUME HandlerInv, HandlerInv', NEW w \in Worker, GoesOn(w), OnlyOf(w),
         NEW o \in DocOps, NEW k \in Kinds,
         \/ Head(plan[w]) \in {"fetch", "db"} /\ plan'[w] = <<>>
         \/ Head(plan[w]) \notin {"db", "status"} /\ plan'[w] = Tail(plan[w])
  PROVE  Due(o, k)' = Due(o, k)
<1>1. /\ plan[w] # <<>> /\ ~BulkToMake(w) /\ ~BulkToMake(w)'
      /\ Req(w) \in Requests /\ Head(plan[w]) = StepFromEnd(Req(w), Len(plan[w]))
      /\ Len(plan[w]) \in Nat \ {0} /\ Len(plan'[w]) \in Nat /\ Req(w)' = Req(w)
      /\ plan'[w] # <<>> => Len(plan'[w]) = Len(plan[w]) - 1
      /\ plan'[w] = <<>> => Len(plan'[w]) = 0
      /\ plan'[w] = Tail(plan[w]) => Len(plan'[w]) = Len(plan[w]) - 1
  <2>1. plan[w] # <<>> /\ ~BulkToMake(w) /\ Req(w)' = Req(w)
    BY DEF GoesOn, Req
  <2>2. /\ Req(w) \in Requests /\ Head(plan[w]) = StepFromEnd(Req(w), Len(plan[w]))
        /\ plan[w] \in Seq(StepName)
    BY <2>1, NextStep
  <2>3. Len(Tail(plan[w])) = Len(plan[w]) - 1
    BY <2>1, <2>2, TailIsLastSteps
  <2>4. /\ ~BulkToMake(w)' /\ Len(plan[w]) \in Nat \ {0} /\ Len(plan'[w]) \in Nat
        /\ plan'[w] # <<>> => Len(plan'[w]) = Len(plan[w]) - 1
    BY LeftOfPlan
  <2>5. /\ plan'[w] = <<>> => Len(plan'[w]) = 0
        /\ plan'[w] = Tail(plan[w]) => Len(plan'[w]) = Len(plan[w]) - 1
    <3>1. Len(<<>>) = 0
      OBVIOUS
    <3>2. QED
      BY <2>3, <3>1
  <2>6. QED
    BY <2>1, <2>2, <2>4, <2>5
<1> DEFINE r == Req(w)
           L == Len(plan[w])
           M == Len(plan'[w])
<1>2. r.op \in {"create", "update", "bulk", "clear"}
  BY <1>1, RequestFields
<1>3. ASSUME NEW m \in Nat PROVE <<w, m>> \in Due(o, k)' <=> <<w, m>> \in Due(o, k)
  <2>1. <<w, m>> \in Due(o, k) <=>
          /\ Counts(w, o, k)
          /\ IF r.op = "bulk" THEN m \in 3..L /\ m % 2 = 1
                              ELSE k # "uiconfig" /\ m = 1 /\ L = 1
    BY <1>1, DueHasShape DEF DueShape
  <2>2. <<w, m>> \in Due(o, k)' <=>
          /\ Counts(w, o, k)'
          /\ IF r.op = "bulk" THEN m \in 3..M /\ m % 2 = 1
                              ELSE k # "uiconfig" /\ m = 1 /\ M = 1
    BY <1>1, DueHasShapeNext DEF DueShape
  <2>3. Counts(w, o, k)' <=> Counts(w, o, k)
    BY CountsKept
  <2>4. Counts(w, o, k) => r.kind = k /\ r.op # "clear"
    BY DEF Counts
  <2> HIDE DEF r, L, M
  <2>5. CASE r.op = "bulk"
    <3>1. Head(plan[w]) \in {"total", "list", "status", "count"} /\ Head(plan[w]) = StepFromEnd(r, L)
      BY <1>1, <2>5 DEF StepFromEnd, r, L
    <3>2. M = L - 1 /\ L \in Nat \ {0} /\ M \in Nat
      BY <1>1, <3>1 DEF L, M
    <3>3. L <= 2 \/ L % 2 # 1
      BY <2>5, <3>1, <3>2 DEF StepFromEnd
    <3>4. m % 2 = 1 => (m \in 3..M <=> m \in 3..L)
      BY <3>2, <3>3
    <3>5. QED
      BY <2>1, <2>2, <2>3, <2>5, <3>4
  <2>6. CASE r.op # "bulk" /\ Counts(w, o, k) /\ k # "uiconfig"
    <3>1. Late(r.kind) = 1 /\ r.op \in {"create", "update"} /\ Head(plan[w]) = StepFromEnd(r, L)
          /\ L \in Nat \ {0} /\ M \in Nat
      BY <1>1, <1>2, <2>4, <2>6 DEF Late, r, L, M
    <3>2. CASE Head(plan[w]) \in {"fetch", "db"} /\ plan'[w] = <<>>
      <4>1. L # 1
        BY <3>1, <3>2 DEF StepFromEnd
      <4>2. M = 0
        BY <1>1, <3>2 DEF M
      <4>3. QED
        BY <2>1, <2>2, <2>6, <4>1, <4>2
    <3>3. CASE Head(plan[w]) \notin {"db", "status"} /\ plan'[w] = Tail(plan[w])
      <4>1. L > 2
        BY <3>1, <3>3 DEF StepFromEnd
      <4>2. M = L - 1
        BY <1>1, <3>3 DEF M, L
      <4>3. L # 1 /\ M # 1
        BY <3>1, <4>1, <4>2
      <4>4. QED
        BY <2>1, <2>2, <2>6, <4>3
    <3>4. QED
      BY <3>2, <3>3
  <2>7. CASE r.op # "bulk" /\ (~Counts(w, o, k) \/ k = "uiconfig")
    BY <2>1, <2>2, <2>3, <2>7
  <2>8. QED
    BY <2>5, <2>6, <2>7
<1>4. QED
  BY <1>3, DueKept

LEMMA DueGains ==
  ASSUME NEW w \in Worker, OnlyOf(w), NEW o \in DocOps, NEW k \in Kinds, NEW p \in Nat,
         \A m \in Nat : <<w, m>> \in Due(o, k)' <=> <<w, m>> \in Due(o, k) \/ m = p
  PROVE  Due(o, k)' = Due(o, k) \cup {<<w, p>>}
<1>1. ASSUME NEW x PROVE x \in Due(o, k)' <=> x \in Due(o, k) \/ x = <<w, p>>
  <2>1. /\ x \in Due(o, k) => x \in Worker \X Nat /\ x = <<x[1], x[2]>>
        /\ x \in Due(o, k)' => x \in Worker \X Nat /\ x = <<x[1], x[2]>>
        /\ x[1] # w => (x \in Due(o, k)' <=> x \in Due(o, k))
    BY DueOfOne
  <2>2. CASE x = <<w, p>>
    BY <2>2
  <2>3. CASE x # <<w, p>> /\ x[1] # w
    BY <2>1, <2>3
  <2>4. CASE x # <<w, p>> /\ x[1] = w
    <3>1. x \in Worker \X Nat /\ x = <<x[1], x[2]>> => x[2] \in Nat /\ x[2] # p /\ x = <<w, x[2]>>
      BY <2>4
    <3>2. QED
      BY <2>1, <2>4, <3>1
  <2>5. QED
    BY <2>2, <2>3, <2>4
<1>2. QED
  BY <1>1

LEMMA DueLoses ==
  ASSUME NEW w \in Worker, OnlyOf(w), NEW o \in DocOps, NEW k \in Kinds, NEW p \in Nat,
         \A m \in Nat : <<w, m>> \in Due(o, k)' <=> <<w, m>> \in Due(o, k) /\ m # p
  PROVE  Due(o, k)' = Due(o, k) \ {<<w, p>>}
<1>1. ASSUME NEW x PROVE x \in Due(o, k)' <=> x \in Due(o, k) /\ x # <<w, p>>
  <2>1. /\ x \in Due(o, k) => x \in Worker \X Nat /\ x = <<x[1], x[2]>>
        /\ x \in Due(o, k)' => x \in Worker \X Nat /\ x = <<x[1], x[2]>>
        /\ x[1] # w => (x \in Due(o, k)' <=> x \in Due(o, k))
    BY DueOfOne
  <2>2. CASE x = <<w, p>>
    BY <2>2
  <2>3. CASE x # <<w, p>> /\ x[1] # w
    BY <2>1, <2>3
  <2>4. CASE x # <<w, p>> /\ x[1] = w
    <3>1. x \in Worker \X Nat /\ x = <<x[1], x[2]>> => x[2] \in Nat /\ x[2] # p /\ x = <<w, x[2]>>
      BY <2>4
    <3>2. QED
      BY <2>1, <2>4, <3>1
  <2>5. QED
    BY <2>2, <2>3, <2>4
<1>2. QED
  BY <1>1

(* An increment is due no longer.                                            *)
LEMMA StatusDue ==
  ASSUME HandlerInv, HandlerInv', NEW w \in Worker, GoesOn(w), OnlyOf(w),
         NEW o \in DocOps, NEW k \in Kinds,
         Head(plan[w]) = "status", plan'[w] = Tail(plan[w])
  PROVE  /\ Counts(w, o, k) => /\ <<w, Len(plan[w])>> \in Due(o, k)
                               /\ Due(o, k)' = Due(o, k) \ {<<w, Len(plan[w])>>}
         /\ ~Counts(w, o, k) => Due(o, k)' = Due(o, k)
<1> DEFINE r == Req(w)
           L == Len(plan[w])
           M == Len(plan'[w])
<1>1. /\ plan[w] # <<>> /\ ~BulkToMake(w) /\ ~BulkToMake(w)'
      /\ r \in Requests /\ StepFromEnd(r, L) = "status" /\ r' = r
      /\ L \in Nat \ {0} /\ M = L - 1
  <2>1. plan[w] # <<>> /\ ~BulkToMake(w) /\ r' = r
    BY DEF GoesOn, Req
  <2>2. r \in Requests /\ "status" = StepFromEnd(r, L) /\ plan[w] \in Seq(StepName)
    BY <2>1, NextStep
  <2>3. M = L - 1 /\ L \in Nat \ {0}
    BY <2>1, <2>2, TailIsLastSteps
  <2>4. ~BulkToMake(w)'
    BY LeftOfPlan
  <2>5. QED
    BY <2>1, <2>2, <2>3, <2>4
<1>2. r.op \in {"create", "update", "bulk", "clear"} /\ Late(r.kind) \in Nat
      /\ (Late(r.kind) >= 1 => r.kind # "uiconfig" /\ Late(r.kind) = 1)
  BY <1>1, RequestFields DEF Late
<1>3. IF r.op = "bulk" THEN L > 2 /\ L % 2 = 1 ELSE r.kind # "uiconfig" /\ L = 1
  <2> HIDE DEF r, L
  <2>1. QED
    BY <1>1, <1>2 DEF StepFromEnd
<1>4. ASSUME NEW m \in Nat
      PROVE  /\ <<w, m>> \in Due(o, k) <=>
                  /\ Counts(w, o, k)
                  /\ IF r.op = "bulk" THEN m \in 3..L /\ m % 2 = 1
                                      ELSE k # "uiconfig" /\ m = 1 /\ L = 1
             /\ <<w, m>> \in Due(o, k)' <=>
                  /\ Counts(w, o, k)
                  /\ IF r.op = "bulk" THEN m \in 3..M /\ m % 2 = 1
                                      ELSE k # "uiconfig" /\ m = 1 /\ M = 1
  <2>1. <<w, m>> \in Due(o, k) <=>
          /\ Counts(w, o, k)
          /\ IF r.op = "bulk" THEN m \in 3..L /\ m % 2 = 1
                              ELSE k # "uiconfig" /\ m = 1 /\ L = 1
    BY <1>1, DueHasShape DEF DueShape
  <2>2. <<w, m>> \in Due(o, k)' <=>
          /\ Counts(w, o, k)'
          /\ IF r.op = "bulk" THEN m \in 3..M /\ m % 2 = 1
                              ELSE k # "uiconfig" /\ m = 1 /\ M = 1
    BY <1>1, DueHasShapeNext DEF DueShape
  <2>3. Counts(w, o, k)' <=> Counts(w, o, k)
    BY CountsKept
  <2>4. QED
    BY <2>1, <2>2, <2>3
<1>5. Counts(w, o, k) => r.kind = k
  BY DEF Counts
<1> HIDE DEF r, L, M
<1>6. CASE Counts(w, o, k)
  <2>1. <<w, L>> \in Due(o, k)
    <3>1. L \in Nat /\ (L > 2 => L \in 3..L)
      BY <1>1
    <3>2. QED
      BY <1>3, <1>4, <1>5, <1>6, <3>1
  <2>2. ASSUME NEW m \in Nat
        PROVE  <<w, m>> \in Due(o, k)' <=> <<w, m>> \in Due(o, k) /\ m # L
    <3>1. CASE r.op = "bulk"
      <4>1. m \in 3..M <=> m \in 3..L /\ m # L
        BY <1>1
      <4>2. QED
        BY <1>4, <3>1, <4>1
    <3>2. CASE r.op # "bulk"
      <4>1. L = 1 /\ M # 1
        BY <1>1, <1>3, <3>2
      <4>2. QED
        BY <1>4, <3>2, <4>1
    <3>3. QED
      BY <3>1, <3>2
  <2>3. L \in Nat
    BY <1>1
  <2>4. Due(o, k)' = Due(o, k) \ {<<w, L>>}
    BY <2>2, <2>3, DueLoses
  <2>5. QED
    BY <1>6, <2>1, <2>4 DEF L
<1>7. CASE ~Counts(w, o, k)
  BY <1>4, <1>7, DueKept
<1>8. QED
  BY <1>6, <1>7

(* A document written: one increment is due, unless it has no counter.       *)
LEMMA SuccessDue ==
  ASSUME HandlerInv, HandlerInv', NEW w \in Worker, GoesOn(w), OnlyOf(w),
         NEW o \in DocOps, NEW k \in Kinds,
         Head(plan[w]) = "db", plan'[w] = Tail(plan[w])
  PROVE  /\ Counts(w, o, k) /\ k # "uiconfig" => /\ <<w, 1>> \notin Due(o, k)
                                                /\ Due(o, k)' = Due(o, k) \cup {<<w, 1>>}
         /\ ~Counts(w, o, k) \/ k = "uiconfig" => Due(o, k)' = Due(o, k)
<1> DEFINE r == Req(w)
           L == Len(plan[w])
           M == Len(plan'[w])
<1>1. /\ plan[w] # <<>> /\ ~BulkToMake(w) /\ ~BulkToMake(w)' /\ r.op # "bulk"
      /\ r \in Requests /\ StepFromEnd(r, L) = "db" /\ r' = r
      /\ L \in Nat \ {0} /\ M = L - 1
  <2>1. plan[w] # <<>> /\ ~BulkToMake(w) /\ r' = r
    BY DEF GoesOn, Req
  <2>2. r \in Requests /\ "db" = StepFromEnd(r, L) /\ plan[w] \in Seq(StepName) /\ r.op # "bulk"
    BY <2>1, NextStep
  <2>3. M = L - 1 /\ L \in Nat \ {0}
    BY <2>1, <2>2, TailIsLastSteps
  <2>4. ~BulkToMake(w)'
    BY LeftOfPlan
  <2>5. QED
    BY <2>1, <2>2, <2>3, <2>4
<1>2. r.op \in {"create", "update", "bulk", "clear"}
      /\ Late(r.kind) = IF r.kind = "uiconfig" THEN 0 ELSE 1
  BY <1>1, RequestFields DEF Late
<1>3. L = Late(r.kind) + 1
  <2> HIDE DEF r, L
  <2>1. QED
    BY <1>1, <1>2 DEF StepFromEnd
<1>4. ASSUME NEW m \in Nat
      PROVE  /\ <<w, m>> \in Due(o, k) <=> Counts(w, o, k) /\ k # "uiconfig" /\ m = 1 /\ L = 1
             /\ <<w, m>> \in Due(o, k)' <=> Counts(w, o, k) /\ k # "uiconfig" /\ m = 1 /\ M = 1
  <2>1. <<w, m>> \in Due(o, k) <=> Counts(w, o, k) /\ k # "uiconfig" /\ m = 1 /\ L = 1
    BY <1>1, DueHasShape DEF DueShape
  <2>2. <<w, m>> \in Due(o, k)' <=> Counts(w, o, k)' /\ k # "uiconfig" /\ m = 1 /\ M = 1
    BY <1>1, DueHasShapeNext DEF DueShape
  <2>3. Counts(w, o, k)' <=> Counts(w, o, k)
    BY CountsKept
  <2>4. QED
    BY <2>1, <2>2, <2>3
<1>5. Counts(w, o, k) => r.kind = k
  BY DEF Counts
<1> HIDE DEF r, L, M
<1>6. CASE Counts(w, o, k) /\ k # "uiconfig"
  <2>1. L # 1 /\ M = 1
    BY <1>1, <1>2, <1>3, <1>5, <1>6
  <2>2. <<w, 1>> \notin Due(o, k)
    BY <1>4, <2>1
  <2>3. \A m \in Nat : <<w, m>> \in Due(o, k)' <=> <<w, m>> \in Due(o, k) \/ m = 1
    BY <1>4, <1>6, <2>1
  <2>4. Due(o, k)' = Due(o, k) \cup {<<w, 1>>}
    BY <2>3, DueGains
  <2>5. QED
    BY <1>6, <2>2, <2>4
<1>7. CASE ~Counts(w, o, k) \/ k = "uiconfig"
  BY <1>4, <1>7, DueKept
<1>8. QED
  BY <1>6, <1>7

(* A bulk: one increment is due for each document it made.                   *)
DueOfBulk(w, n) == {<<w, 2 * j + 1>> : j \in 1..n}

LEMMA BulkDueCount ==
  ASSUME NEW w, NEW n \in Nat
  PROVE  IsFiniteSet(DueOfBulk(w, n)) /\ Cardinality(DueOfBulk(w, n)) = n
<1> DEFINE E == DueOfBulk(w, n)
           f == [j \in 1..n |-> <<w, 2 * j + 1>>]
<1>1. f \in [1..n -> E] /\ \A e \in E : \E j \in 1..n : f[j] = e
  BY DEF DueOfBulk
<1>2. \A a, b \in 1..n : f[a] = f[b] => a = b
  <2>1. SUFFICES ASSUME NEW a \in 1..n, NEW b \in 1..n, <<w, 2 * a + 1>> = <<w, 2 * b + 1>>
                 PROVE  a = b
    OBVIOUS
  <2>2. 2 * a + 1 = 2 * b + 1
    BY <2>1
  <2>3. QED
    BY <2>2
<1> HIDE DEF E, f
<1>3. f \in Bijection(1..n, E)
  BY <1>1, <1>2 DEF Bijection, Injection, Surjection, IsInjective
<1>4. IsFiniteSet(1..n) /\ Cardinality(1..n) = n
  <2>1. /\ IsFiniteSet(1..n)
        /\ Cardinality(1..n) = IF 1 > n THEN 0 ELSE n - 1 + 1
    BY FS_Interval
  <2>2. QED
    BY <2>1
<1>5. ExistsBijection(1..n, E)
  BY <1>3 DEF ExistsBijection
<1>6. IsFiniteSet(E) /\ Cardinality(E) = n
  <2>1. IsFiniteSet(E) /\ Cardinality(E) = Cardinality(1..n)
    BY <1>4, <1>5, FS_Bijection
  <2>2. QED
    BY <1>4, <2>1
<1>7. QED
  BY <1>6 DEF E

LEMMA BulkDue ==
  ASSUME HandlerInv, HandlerInv', NEW w \in Worker, OnlyOf(w), BulkToMake(w), ~BulkToMake(w)',
         Req(w)' = Req(w), NEW n \in Nat, Len(plan'[w]) = 2 * n + 2,
         NEW o \in DocOps, NEW k \in Kinds, Counts(w, o, k)' <=> Counts(w, o, k)
  PROVE  /\ ~Counts(w, o, k) => Due(o, k)' = Due(o, k)
         /\ Counts(w, o, k) => /\ Due(o, k)' = Due(o, k) \cup DueOfBulk(w, n)
                               /\ Due(o, k) \cap DueOfBulk(w, n) = {}
<1>1. Req(w).op = "bulk"
  BY DEF BulkToMake
<1>2. ASSUME NEW m \in Nat
      PROVE  /\ <<w, m>> \notin Due(o, k)
             /\ <<w, m>> \in Due(o, k)' <=> Counts(w, o, k) /\ m \in 3..2 * n + 2 /\ m % 2 = 1
  <2>1. <<w, m>> \notin Due(o, k)
    BY <1>1, DueHasShape DEF DueShape
  <2>2. <<w, m>> \in Due(o, k)' <=> Counts(w, o, k) /\ m \in 3..2 * n + 2 /\ m % 2 = 1
    BY <1>1, DueHasShapeNext DEF DueShape
  <2>3. QED
    BY <2>1, <2>2
<1>3. CASE ~Counts(w, o, k)
  BY <1>2, <1>3, DueKept
<1>4. CASE Counts(w, o, k)
  <2> DEFINE E == DueOfBulk(w, n)
  <2>1. ASSUME NEW m \in Nat PROVE <<w, m>> \in E <=> m \in 3..2 * n + 2 /\ m % 2 = 1
    <3>1. <<w, m>> \in E <=> \E j \in 1..n : m = 2 * j + 1
      BY DEF DueOfBulk
    <3>2. ASSUME m \in 3..2 * n + 2, m % 2 = 1 PROVE m \div 2 \in 1..n /\ m = 2 * (m \div 2) + 1
      BY <3>2
    <3>3. ASSUME NEW j \in 1..n, m = 2 * j + 1 PROVE m \in 3..2 * n + 2 /\ m % 2 = 1
      BY <3>3
    <3>4. QED
      BY <3>1, <3>2, <3>3
  <2>2. \A x \in E : x \in Worker \X Nat /\ x[1] = w /\ x = <<w, x[2]>>
    BY DEF DueOfBulk
  <2> HIDE DEF E
  <2>3. ASSUME NEW x PROVE /\ x \in Due(o, k)' <=> x \in Due(o, k) \/ x \in E
                           /\ ~(x \in Due(o, k) /\ x \in E)
    <3>1. /\ x \in Due(o, k) => x \in Worker \X Nat /\ x = <<x[1], x[2]>>
          /\ x \in Due(o, k)' => x \in Worker \X Nat /\ x = <<x[1], x[2]>>
          /\ x[1] # w => (x \in Due(o, k)' <=> x \in Due(o, k))
      BY DueOfOne
    <3>2. CASE x[1] # w
      BY <2>2, <3>1, <3>2
    <3>3. CASE x[1] = w
      <4>1. x \in Worker \X Nat /\ x = <<x[1], x[2]>> => x[2] \in Nat /\ x = <<w, x[2]>>
        BY <3>3
      <4>2. CASE x \in Worker \X Nat /\ x = <<w, x[2]>>
        <5>1. x[2] \in Nat
          BY <4>2
        <5>2. QED
          BY <1>2, <1>4, <2>1, <4>2, <5>1
      <4>3. CASE ~(x \in Worker \X Nat /\ x = <<w, x[2]>>)
        BY <2>2, <3>1, <4>1, <4>3
      <4>4. QED
        BY <4>2, <4>3
    <3>4. QED
      BY <3>2, <3>3
  <2>4. Due(o, k)' = Due(o, k) \cup E /\ Due(o, k) \cap E = {}
    BY <2>3
  <2>5. QED
    BY <1>4, <2>4 DEF E
<1>5. QED
  BY <1>3, <1>4

-----------------------------------------------------------------------------
(* A step other than an increment: as many calls succeed as increments come  *)
(* to be due, but for the kind that has no counter.                          *)
Balanced(w, o, k) ==
  /\ IsFiniteSet(Due(o, k)')
  /\ status'[o][k] = status[o][k]
  /\ Cardinality(Due(o, k)') + wrote[o][k] <= Cardinality(Due(o, k)) + wrote'[o][k]
  /\ k # "uiconfig" =>
       Cardinality(Due(o, k)') + wrote[o][k] = Cardinality(Due(o, k)) + wrote'[o][k]
  /\ HoldsCounter(w, o, k)' => held'[w][1] = status[o][k]

LEMMA CountersAreNat ==
  ASSUME HandlerInv, CountersInv, NEW o \in DocOps, NEW k \in Kinds
  PROVE  /\ status[o][k] \in Nat /\ wrote[o][k] \in Nat
         /\ IsFiniteSet(Due(o, k)) /\ Cardinality(Due(o, k)) \in Nat
         /\ \A w \in Worker : HoldsCounter(w, o, k) => held[w][1] \in Nat
<1>1. status[o][k] \in Nat /\ wrote[o][k] \in Nat
  BY DEF HandlerInv, ServerTypes, Counters, DocOps
<1>2. IsFiniteSet(Due(o, k)) /\ Cardinality(Due(o, k)) \in Nat
  BY FS_CardinalityType DEF CountersInv, CounterInv
<1>3. \A w \in Worker : HoldsCounter(w, o, k) => held[w][1] \in Nat
  BY DEF HandlerInv, HeldOf, HoldsCounter
<1>4. QED
  BY <1>1, <1>2, <1>3

LEMMA SameDueBalanced ==
  ASSUME HandlerInv, CountersInv, NEW w \in Worker, NEW o \in DocOps, NEW k \in Kinds,
         Due(o, k)' = Due(o, k), status'[o][k] = status[o][k],
         wrote'[o][k] = wrote[o][k] \/ (k = "uiconfig" /\ wrote'[o][k] = wrote[o][k] + 1),
         HoldsCounter(w, o, k)' => held'[w][1] = status[o][k]
  PROVE  Balanced(w, o, k)
  BY CountersAreNat DEF Balanced

LEMMA HoldsNoCounter ==
  ASSUME NEW w, NEW o, NEW k, held'[w] = <<>>
  PROVE  ~HoldsCounter(w, o, k)'
  BY DEF HoldsCounter

LEMMA ReceiveBalanced ==
  ASSUME HandlerInv, HandlerInv', CountersInv, NEW w \in Worker, NEW r \in Requests, Receive(w, r),
         NEW o \in DocOps, NEW k \in Kinds
  PROVE  Balanced(w, o, k)
<1>1. ServerTypes /\ PlanOf(w) /\ HeldOf(w) /\ OnlyOf(w)
  BY ActionIsOfOne DEF HandlerInv, ActionOf
<1>2. /\ ~Busy(w) /\ held'[w] = <<>> /\ status' = status /\ wrote' = wrote
      /\ plan'[w] = (IF Accepts(r) THEN Steps(r) ELSE <<>>) /\ Req(w)' = r
  BY <1>1 DEF Receive, shared, PlanOf, HeldOf, Busy, Req, ServerTypes
<1>3. CASE r.op = "clear"
  <2>1. ~Counts(w, o, k) /\ ~Counts(w, o, k)'
    BY <1>2, <1>3 DEF Counts
  <2>2. \A m \in Nat : <<w, m>> \in Due(o, k)' <=> <<w, m>> \in Due(o, k)
    BY <2>1 DEF Due
  <2>3. QED
    BY <1>1, <1>2, <2>2, DueKept, SameDueBalanced, HoldsNoCounter
<1>4. CASE r.op # "clear"
  <2>1. r.op = "bulk" => (BulkToMake(w)' \/ Len(plan'[w]) = 0)
    BY <1>2, OtherStepsAre DEF BulkToMake, DocOps
  <2>2. ASSUME r.op # "bulk" PROVE Len(plan'[w]) # 1
    <3>1. r.op \in DocOps
      BY <1>4, <2>2, RequestFields DEF DocOps
    <3>2. Steps(r) \in Seq(StepName) /\ Len(Steps(r)) > 2
      BY <3>1, DocStepsAre
    <3>3. Len(Steps(r)) \in Nat
      BY <3>2, LenProperties
    <3>4. Len(Steps(r)) # 1
      <4> DEFINE l == Len(Steps(r))
      <4>1. l \in Nat /\ l > 2
        BY <3>2, <3>3
      <4> HIDE DEF l
      <4>2. l # 1
        BY <4>1
      <4>3. QED
        BY <4>2 DEF l
    <3>5. Len(<<>>) # 1
      OBVIOUS
    <3>6. QED
      BY <1>2, <3>4, <3>5
  <2>3. ASSUME NEW m \in Nat PROVE <<w, m>> \notin Due(o, k)' /\ <<w, m>> \notin Due(o, k)
    <3>1. <<w, m>> \notin Due(o, k)
      BY <1>2 DEF Due, Counts
    <3>2. <<w, m>> \in Due(o, k)' <=>
            /\ Counts(w, o, k)'
            /\ IF r.op = "bulk" THEN ~BulkToMake(w)' /\ m \in 3..Len(plan'[w]) /\ m % 2 = 1
                                ELSE k # "uiconfig" /\ m = 1 /\ Len(plan'[w]) = 1
      BY <1>2, DueHasShapeNext DEF DueShape
    <3>3. CASE r.op = "bulk"
      <4>1. m \notin 3..0
        OBVIOUS
      <4>2. BulkToMake(w)' \/ m \notin 3..Len(plan'[w])
        BY <2>1, <3>3, <4>1
      <4>3. QED
        BY <3>1, <3>2, <3>3, <4>2
    <3>4. CASE r.op # "bulk"
      <4>1. Len(plan'[w]) # 1
        BY <2>2, <3>4
      <4>2. QED
        BY <3>1, <3>2, <3>4, <4>1
    <3>5. QED
      BY <3>3, <3>4
  <2>4. QED
    BY <1>1, <1>2, <2>3, DueKept, SameDueBalanced, HoldsNoCounter
<1>5. QED
  BY <1>3, <1>4

LEMMA LoadBalanced ==
  ASSUME HandlerInv, CountersInv, NEW w \in Worker, Load(w), NEW o \in DocOps, NEW k \in Kinds
  PROVE  Balanced(w, o, k)
<1>1. /\ plan[w] # <<>> /\ job' = job /\ plan' = plan /\ status' = status /\ wrote' = wrote
      /\ ServerTypes
  BY DEF Load, HandlerInv
<1>2. Due(o, k)' = Due(o, k)
  BY <1>1 DEF Due, Counts, Wrote, Busy, Req
<1>3. ASSUME HoldsCounter(w, o, k)' PROVE held'[w][1] = status[o][k]
  <2>1. Head(plan[w]) = "status" /\ Req(w).kind = k /\ StatusOp(Req(w)) = o
    BY <1>1, <1>3 DEF HoldsCounter, Counts, Req
  <2>2. held'[w] = <<status[o][k]>>
    BY <1>1, <2>1 DEF Load, ServerTypes, Req
  <2>3. QED
    BY <2>2
<1>4. QED
  BY <1>1, <1>2, <1>3, SameDueBalanced

LEMMA FinishBalanced ==
  ASSUME HandlerInv, CountersInv, NEW w \in Worker, Finish(w), NEW o \in DocOps, NEW k \in Kinds
  PROVE  Balanced(w, o, k)
<1>1. /\ plan[w] = <<>> /\ job'[w] = Idle /\ status' = status /\ wrote' = wrote /\ held'[w] = <<>>
      /\ OnlyOf(w)
  BY ActionIsOfOne DEF Finish, shared, ActionOf, HandlerInv, ServerTypes, HeldOf
<1>2. \A m \in Nat : <<w, m>> \in Due(o, k)' <=> <<w, m>> \in Due(o, k)
  BY <1>1 DEF Due, Counts, Busy
<1>3. QED
  BY <1>1, <1>2, DueKept, SameDueBalanced, HoldsNoCounter

(* Steps before and after the database is asked, and refusals.               *)
LEMMA QuietBalanced ==
  ASSUME HandlerInv, HandlerInv', CountersInv, NEW w \in Worker, NEW o \in DocOps, NEW k \in Kinds,
         \/ Fetch(w) \/ Flush(w)
         \/ Store(w) /\ Head(plan[w]) # "status"
         \/ (Create(w) \/ Update(w)) /\ Fail(w) /\ wrote' = wrote
  PROVE  Balanced(w, o, k)
<1>1. GoesOn(w) /\ OnlyOf(w) /\ ServerTypes
  BY StepsGoOn, ActionIsOfOne DEF ActionOf, HandlerInv
<1>2. /\ plan[w] # <<>> /\ held'[w] = <<>> /\ status' = status /\ wrote' = wrote
      /\ \/ Head(plan[w]) \in {"fetch", "db"} /\ plan'[w] = <<>>
         \/ Head(plan[w]) \notin {"db", "status"} /\ plan'[w] = Tail(plan[w])
  <2>1. plan[w] # <<>> /\ held'[w] = <<>>
    BY <1>1 DEF GoesOn
  <2>2. CASE Fetch(w)
    BY <1>1, <2>1, <2>2 DEF Fetch, At, Advance, Fail, shared, ServerTypes
  <2>3. CASE Flush(w)
    BY <1>1, <2>1, <2>3 DEF Flush, At, Advance, ServerTypes
  <2>4. CASE Store(w) /\ Head(plan[w]) # "status"
    <3>1. Head(plan[w]) \in {"count", "total", "list"} /\ status' = status /\ wrote' = wrote
      BY <2>4 DEF Store, StoreCount, StoreList, StoreStatus, At
    <3>2. plan'[w] = Tail(plan[w])
      BY <1>1, <2>4 DEF Store, Advance, ServerTypes
    <3>3. QED
      BY <2>1, <3>1, <3>2
  <2>5. CASE (Create(w) \/ Update(w)) /\ Fail(w) /\ wrote' = wrote
    BY <1>1, <2>1, <2>5 DEF Create, Update, At, Fail, shared, ServerTypes
  <2>6. QED
    BY <2>2, <2>3, <2>4, <2>5
<1>3. Due(o, k)' = Due(o, k)
  BY <1>1, <1>2, QuietDue
<1>4. QED
  BY <1>2, <1>3, SameDueBalanced, HoldsNoCounter

(* A document written.                                                       *)
LEMMA WriteBalanced ==
  ASSUME HandlerInv, HandlerInv', CountersInv, NEW w \in Worker,
         Create(w) \/ Update(w), Advance(w), wrote' = Plus1(wrote, Req(w).op, Req(w).kind),
         NEW o \in DocOps, NEW k \in Kinds
  PROVE  Balanced(w, o, k)
<1>1. GoesOn(w) /\ OnlyOf(w) /\ ServerTypes
  BY StepsGoOn, ActionIsOfOne DEF ActionOf, HandlerInv
<1>2. /\ plan[w] # <<>> /\ Head(plan[w]) = "db" /\ plan'[w] = Tail(plan[w]) /\ status' = status
      /\ held'[w] = <<>> /\ Req(w).op \in DocOps /\ Req(w) \in Requests
  <2>1. /\ Head(plan[w]) = "db" /\ status' = status /\ Req(w).op \in DocOps
        /\ plan'[w] = Tail(plan[w])
    BY <1>1 DEF Create, Update, At, Advance, shared, DocOps, Req, ServerTypes
  <2>2. plan[w] # <<>> /\ held'[w] = <<>>
    BY <1>1 DEF GoesOn
  <2>3. QED
    BY <2>1, <2>2, NextStep
<1>3. Counts(w, o, k) <=> o = Req(w).op /\ k = Req(w).kind
  <2>1. StatusOp(Req(w)) = Req(w).op /\ Req(w).op # "clear"
    BY <1>2 DEF StatusOp, DocOps
  <2>2. QED
    BY <1>1, <2>1, CountsKept
<1>4. wrote'[o][k] = IF Counts(w, o, k) THEN wrote[o][k] + 1 ELSE wrote[o][k]
  <2>1. Req(w).kind \in Kinds /\ wrote \in Counters
    BY <1>1, <1>2, RequestFields DEF DocOps, ServerTypes
  <2>2. QED
    BY <1>2, <1>3, <2>1, Plus1Counts
<1>5. CASE Counts(w, o, k) /\ k # "uiconfig"
  <2>1. <<w, 1>> \notin Due(o, k) /\ Due(o, k)' = Due(o, k) \cup {<<w, 1>>}
    BY <1>1, <1>2, <1>5, SuccessDue
  <2>2. IsFiniteSet(Due(o, k)) /\ Cardinality(Due(o, k)) \in Nat /\ wrote[o][k] \in Nat
    BY CountersAreNat
  <2>3. IsFiniteSet(Due(o, k)') /\ Cardinality(Due(o, k)') = Cardinality(Due(o, k)) + 1
    <3> DEFINE D == Due(o, k)
               x == <<w, 1>>
    <3> HIDE DEF D, x
    <3>1. IsFiniteSet(D) /\ x \notin D
      BY <2>1, <2>2 DEF D, x
    <3>2. IsFiniteSet(D \cup {x}) /\ Cardinality(D \cup {x}) = Cardinality(D) + 1
      BY <3>1, FS_AddElement
    <3>3. QED
      BY <2>1, <3>2 DEF D, x
  <2>4. Cardinality(Due(o, k)') + wrote[o][k] = Cardinality(Due(o, k)) + wrote'[o][k]
    BY <1>4, <1>5, <2>2, <2>3
  <2>5. Cardinality(Due(o, k)') + wrote[o][k] <= Cardinality(Due(o, k)) + wrote'[o][k]
    BY <1>4, <1>5, <2>2, <2>3
  <2>6. QED
    BY <1>2, <2>3, <2>4, <2>5, HoldsNoCounter DEF Balanced
<1>6. CASE ~Counts(w, o, k) \/ k = "uiconfig"
  <2>1. Due(o, k)' = Due(o, k)
    BY <1>1, <1>2, <1>6, SuccessDue
  <2>2. wrote'[o][k] = wrote[o][k] \/ (k = "uiconfig" /\ wrote'[o][k] = wrote[o][k] + 1)
    BY <1>4, <1>6
  <2>3. QED
    BY <1>2, <2>1, <2>2, SameDueBalanced, HoldsNoCounter
<1>7. QED
  BY <1>5, <1>6

LEMMA BulkBalanced ==
  ASSUME HandlerInv, HandlerInv', CountersInv, NEW w \in Worker, CreateBulk(w),
         NEW o \in DocOps, NEW k \in Kinds
  PROVE  Balanced(w, o, k)
<1>1. /\ plan[w] # <<>> /\ Head(plan[w]) = "db" /\ Req(w).op = "bulk" /\ held' = held
      /\ status' = status
  BY DEF CreateBulk, At, Req, shared
<1>2. /\ job[w] \in Jobs /\ Busy(w) /\ Req(w) \in Requests /\ ServerTypes /\ OnlyOf(w)
      /\ BulkToMake(w) /\ Req(w).kind \in Kinds /\ held[w] = <<>>
  BY <1>1, NextStep, RequestFields, NothingHeld, ActionIsOfOne DEF HandlerInv, ActionOf, SharedStep
<1>3. PICK S \in SUBSET Req(w).ids :
        /\ job' = [job EXCEPT ![w].made = {Change(job[w], i, None) : i \in S}]
        /\ wrote' = [wrote EXCEPT !["create"][Req(w).kind] = @ + Cardinality(S)]
        /\ plan' = [plan EXCEPT ![w] = EachCreated(S) \o <<"list", "total">>]
  BY DEF CreateBulk, Req
<1> DEFINE n == Cardinality(S)
           p == EachCreated(S) \o <<"list", "total">>
<1>4. IsFiniteSet(S) /\ n \in Nat
  <2>1. IsFiniteSet(S)
    BY <1>1, <1>2, RequestFields, FS_Subset
  <2>2. QED
    BY <2>1, FS_CardinalityType
<1>5. p \in Seq(StepName) /\ Len(p) = 2 * n + 2 /\ plan'[w] = p
  <2>1. p \in Seq(StepName) /\ Len(p) = 2 * n + 2
    BY <1>1, <1>4, BulkStepsAre
  <2> HIDE DEF p
  <2>2. plan' = [plan EXCEPT ![w] = p]
    BY <1>3 DEF p
  <2>3. plan'[w] = p
    BY <1>2, <2>2 DEF ServerTypes
  <2>4. QED
    BY <2>1, <2>3
<1>6. Req(w)' = Req(w) /\ job'[w] # Idle
  <2>1. \E M : job' = [job EXCEPT ![w].made = M]
    BY <1>3
  <2>2. job'[w].req = job[w].req
    BY <1>2, <2>1 DEF ServerTypes, Jobs
  <2>3. QED
    BY <1>1, <2>2 DEF Req, Idle
<1> HIDE DEF n, p
<1>7. Len(plan'[w]) = 2 * n + 2 /\ ~BulkToMake(w)'
  <2>1. Len(plan'[w]) # 1
    BY <1>4, <1>5
  <2>2. Len(<<"db">>) = 1
    OBVIOUS
  <2>3. QED
    BY <1>5, <2>1, <2>2 DEF BulkToMake
<1>8. Counts(w, o, k)' <=> Counts(w, o, k)
  BY <1>2, <1>6 DEF Counts, Busy
<1>9. wrote'[o][k] = IF Counts(w, o, k) THEN wrote[o][k] + n ELSE wrote[o][k]
  <2>1. wrote' = [wrote EXCEPT !["create"][Req(w).kind] = wrote["create"][Req(w).kind] + n]
    BY <1>3 DEF n
  <2>2. Counts(w, o, k) <=> o = "create" /\ k = Req(w).kind
    BY <1>1, <1>2 DEF Counts, StatusOp
  <2>3. wrote \in [DocOps -> [Kinds -> Nat]] /\ "create" \in DocOps
    BY <1>2 DEF ServerTypes, Counters, DocOps
  <2>4. QED
    BY <1>2, <2>1, <2>2, <2>3
<1>10. /\ ~Counts(w, o, k) => Due(o, k)' = Due(o, k)
       /\ Counts(w, o, k) => /\ Due(o, k)' = Due(o, k) \cup DueOfBulk(w, n)
                             /\ Due(o, k) \cap DueOfBulk(w, n) = {}
  BY <1>2, <1>4, <1>6, <1>7, <1>8, BulkDue
<1>11. held'[w] = <<>>
  BY <1>1, <1>2
<1>12. CASE Counts(w, o, k)
  <2>1. /\ IsFiniteSet(Due(o, k)) /\ Cardinality(Due(o, k)) \in Nat /\ wrote[o][k] \in Nat
        /\ IsFiniteSet(DueOfBulk(w, n)) /\ Cardinality(DueOfBulk(w, n)) = n
    BY <1>4, CountersAreNat, BulkDueCount
  <2>2. /\ IsFiniteSet(Due(o, k)')
        /\ Cardinality(Due(o, k)') =
              Cardinality(Due(o, k)) + Cardinality(DueOfBulk(w, n)) - Cardinality(Due(o, k) \cap DueOfBulk(w, n))
    BY <1>10, <1>12, <2>1, FS_Union
  <2>3. Cardinality(Due(o, k) \cap DueOfBulk(w, n)) = 0
    BY <1>10, <1>12, FS_EmptySet
  <2>4. Cardinality(Due(o, k)') = Cardinality(Due(o, k)) + n
    BY <1>4, <2>1, <2>2, <2>3
  <2>5. /\ Cardinality(Due(o, k)') + wrote[o][k] = Cardinality(Due(o, k)) + wrote'[o][k]
        /\ Cardinality(Due(o, k)') + wrote[o][k] <= Cardinality(Due(o, k)) + wrote'[o][k]
    BY <1>4, <1>9, <1>12, <2>1, <2>4
  <2>6. QED
    BY <1>1, <1>11, <2>2, <2>5, HoldsNoCounter DEF Balanced
<1>13. CASE ~Counts(w, o, k)
  BY <1>1, <1>9, <1>10, <1>11, <1>13, SameDueBalanced, HoldsNoCounter
<1>14. QED
  BY <1>12, <1>13

LEMMA ActionsBalanced ==
  ASSUME HandlerInv, HandlerInv', CountersInv, NEW w \in Worker, ActionOf(w),
         NEW o \in DocOps, NEW k \in Kinds
  PROVE  Balanced(w, o, k) \/ (Store(w) /\ Head(plan[w]) = "status")
<1>1. ASSUME NEW r \in Requests, Receive(w, r) PROVE Balanced(w, o, k)
  BY <1>1, ReceiveBalanced
<1>2. CASE Fetch(w) \/ Flush(w) \/ (Store(w) /\ Head(plan[w]) # "status")
  BY <1>2, QuietBalanced
<1>3. CASE Load(w)
  BY <1>3, LoadBalanced
<1>4. CASE Create(w) \/ Update(w)
  <2>1. CASE Fail(w) /\ wrote' = wrote
    BY <1>4, <2>1, QuietBalanced
  <2>2. CASE Advance(w) /\ wrote' = Plus1(wrote, Req(w).op, Req(w).kind)
    BY <1>4, <2>2, WriteBalanced
  <2>3. QED
    BY <1>4, <2>1, <2>2 DEF Create, Update, Req
<1>5. CASE CreateBulk(w)
  BY <1>5, BulkBalanced
<1>6. CASE Finish(w)
  BY <1>6, FinishBalanced
<1>7. QED
  BY <1>1, <1>2, <1>3, <1>4, <1>5, <1>6 DEF ActionOf

(* An increment is written.                                                  *)
LEMMA StatusStored ==
  ASSUME HandlerInv, HandlerInv', CountersInv, NEW w \in Worker, Store(w), Head(plan[w]) = "status",
         NEW o \in DocOps, NEW k \in Kinds
  PROVE  /\ wrote' = wrote /\ held'[w] = <<>> /\ IsFiniteSet(Due(o, k)')
         /\ Counts(w, o, k) =>
              /\ HoldsCounter(w, o, k) /\ status'[o][k] = held[w][1] + 1
              /\ Cardinality(Due(o, k)') = Cardinality(Due(o, k)) - 1
         /\ ~Counts(w, o, k) => status'[o][k] = status[o][k] /\ Due(o, k)' = Due(o, k)
<1>1. GoesOn(w) /\ OnlyOf(w) /\ ServerTypes
  BY StepsGoOn, ActionIsOfOne DEF ActionOf, HandlerInv
<1>2. /\ plan'[w] = Tail(plan[w]) /\ wrote' = wrote /\ held'[w] = <<>> /\ held[w] # <<>>
      /\ status' = [status EXCEPT ![StatusOp(Req(w))][Req(w).kind] = held[w][1] + 1]
  BY <1>1 DEF Store, StoreCount, StoreList, StoreStatus, At, Advance, ServerTypes, Req
<1>3. Req(w) \in Requests /\ Req(w).op # "clear"
  BY <1>1, NextStep DEF GoesOn
<1>4. StatusOp(Req(w)) \in DocOps /\ Req(w).kind \in Kinds
  BY <1>3, RequestFields DEF StatusOp, DocOps
<1>5. Counts(w, o, k) <=> StatusOp(Req(w)) = o /\ Req(w).kind = k
  BY <1>1, <1>3, CountsKept
<1>6. status'[o][k] = IF Counts(w, o, k) THEN held[w][1] + 1 ELSE status[o][k]
  <2>1. status \in [DocOps -> [Kinds -> Nat]]
    BY <1>1 DEF ServerTypes, Counters, DocOps
  <2>2. QED
    BY <1>2, <1>4, <1>5, <2>1
<1>7. IsFiniteSet(Due(o, k)) /\ Cardinality(Due(o, k)) \in Nat
  BY CountersAreNat
<1>8. CASE Counts(w, o, k)
  <2> DEFINE D == Due(o, k)
             x == <<w, Len(plan[w])>>
  <2>1. x \in D /\ Due(o, k)' = D \ {x}
    BY <1>1, <1>2, <1>8, StatusDue
  <2>2. IsFiniteSet(D)
    BY <1>7
  <2> HIDE DEF D, x
  <2>3. IsFiniteSet(D \ {x}) /\ Cardinality(D \ {x}) = Cardinality(D) - 1
    BY <2>1, <2>2, FS_RemoveElement
  <2>4. HoldsCounter(w, o, k)
    BY <1>2, <1>8 DEF HoldsCounter
  <2>5. IsFiniteSet(Due(o, k)') /\ Cardinality(Due(o, k)') = Cardinality(Due(o, k)) - 1
    BY <2>1, <2>3 DEF D
  <2>6. QED
    BY <1>2, <1>6, <1>8, <2>4, <2>5
<1>9. CASE ~Counts(w, o, k)
  <2>1. Due(o, k)' = Due(o, k)
    BY <1>1, <1>2, <1>9, StatusDue
  <2>2. QED
    BY <1>2, <1>6, <1>7, <1>9, <2>1
<1>10. QED
  BY <1>8, <1>9

LEMMA OthersCounter ==
  ASSUME NEW w \in Worker, NEW v \in Worker \ {w}, OnlyOf(w), NEW o, NEW k
  PROVE  /\ HoldsCounter(v, o, k)' <=> HoldsCounter(v, o, k)
         /\ held'[v] = held[v]
  BY DEF OnlyOf, HoldsCounter, Counts, Busy, Req

LEMMA CountersStep == HandlerInv /\ HandlerInv' /\ CountersInv /\ [Next]_vars => CountersInv'
<1> SUFFICES ASSUME HandlerInv, HandlerInv', CountersInv, [Next]_vars PROVE CountersInv'
  OBVIOUS
<1>1. CASE UNCHANGED vars
  <2>1. ASSUME NEW o \in DocOps, NEW k \in Kinds PROVE CounterInv(o, k)'
    <3>1. /\ job' = job /\ plan' = plan /\ held' = held /\ status' = status /\ wrote' = wrote
          /\ CounterInv(o, k)
      BY <1>1 DEF vars, shared, CountersInv
    <3>2. Due(o, k)' = Due(o, k)
      BY <3>1 DEF Due, Counts, Wrote, Busy, Req
    <3>3. \A w \in Worker : HoldsCounter(w, o, k)' <=> HoldsCounter(w, o, k)
      BY <3>1 DEF HoldsCounter, Counts, Busy, Req
    <3>4. QED
      BY <3>1, <3>2, <3>3 DEF CounterInv
  <2>2. QED
    BY <2>1 DEF CountersInv
<1>2. ASSUME NEW w \in Worker, ActionOf(w), NEW o \in DocOps, NEW k \in Kinds
      PROVE  CounterInv(o, k)'
  <2> DEFINE c == Cardinality(Due(o, k))
             d == Cardinality(Due(o, k)')
             s == status[o][k]
             t == status'[o][k]
             a == wrote[o][k]
             b == wrote'[o][k]
  <2>1. /\ s \in Nat /\ a \in Nat /\ c \in Nat /\ t \in Nat /\ b \in Nat
        /\ \A v \in Worker : HoldsCounter(v, o, k) => held[v][1] \in Nat
    <3>1. t \in Nat /\ b \in Nat
      BY DEF HandlerInv, ServerTypes, Counters, DocOps
    <3>2. QED
      BY <3>1, CountersAreNat
  <2>2. OnlyOf(w)
    BY <1>2, ActionIsOfOne
  <2>3. s + c <= a /\ \A v \in Worker : HoldsCounter(v, o, k) => held[v][1] + c <= a
    BY DEF CountersInv, CounterInv
  <2>4. CASE Balanced(w, o, k)
    <3>1. IsFiniteSet(Due(o, k)') /\ t = s /\ d + a <= c + b
      BY <2>4 DEF Balanced
    <3>2. d \in Nat
      BY <3>1, FS_CardinalityType
    <3> HIDE DEF c, d, s, t, a, b
    <3>3. t + d <= b
      BY <2>1, <2>3, <3>1, <3>2
    <3>4. ASSUME NEW v \in Worker, HoldsCounter(v, o, k)' PROVE held'[v][1] + d <= b
      <4>1. CASE v = w
        <5>1. held'[w][1] = s
          BY <2>4, <3>4, <4>1 DEF Balanced, s
        <5>2. QED
          BY <2>1, <2>3, <3>1, <3>2, <4>1, <5>1
      <4>2. CASE v # w
        <5>1. HoldsCounter(v, o, k) /\ held'[v] = held[v]
          BY <2>2, <3>4, <4>2, OthersCounter
        <5>2. held[v][1] \in Nat /\ held[v][1] + c <= a
          BY <2>1, <2>3, <5>1
        <5>3. QED
          BY <2>1, <3>1, <3>2, <5>1, <5>2
      <4>3. QED
        BY <4>1, <4>2
    <3>5. QED
      BY <3>1, <3>3, <3>4 DEF CounterInv, c, d, t, b
  <2>5. CASE Store(w) /\ Head(plan[w]) = "status"
    <3>1. /\ b = a /\ held'[w] = <<>> /\ IsFiniteSet(Due(o, k)')
          /\ Counts(w, o, k) => HoldsCounter(w, o, k) /\ t = held[w][1] + 1 /\ d = c - 1
          /\ ~Counts(w, o, k) => t = s /\ d = c
      BY <2>5, StatusStored
    <3>2. d \in Nat
      BY <3>1, FS_CardinalityType
    <3> HIDE DEF c, d, s, t, a, b
    <3>3. d <= c /\ t + d <= b
      <4>1. CASE Counts(w, o, k)
        <5>1. held[w][1] \in Nat /\ held[w][1] + c <= a /\ t = held[w][1] + 1 /\ d = c - 1
          BY <2>1, <2>3, <3>1, <4>1
        <5>2. QED
          BY <2>1, <3>1, <3>2, <5>1
      <4>2. CASE ~Counts(w, o, k)
        BY <2>1, <2>3, <3>1, <4>2
      <4>3. QED
        BY <4>1, <4>2
    <3>4. ASSUME NEW v \in Worker, HoldsCounter(v, o, k)' PROVE held'[v][1] + d <= b
      <4>1. v # w
        BY <3>1, <3>4, HoldsNoCounter
      <4>2. HoldsCounter(v, o, k) /\ held'[v] = held[v]
        BY <2>2, <3>4, <4>1, OthersCounter
      <4>3. held[v][1] \in Nat /\ held[v][1] + c <= a
        BY <2>1, <2>3, <4>2
      <4>4. QED
        BY <2>1, <3>1, <3>2, <3>3, <4>2, <4>3
    <3>5. QED
      BY <3>1, <3>3, <3>4 DEF CounterInv, c, d, t, b
  <2>6. QED
    BY <1>2, <2>4, <2>5, ActionsBalanced
<1>3. QED
  BY <1>1, <1>2 DEF Next, ActionOf, CountersInv

LEMMA CountersInit == Init => CountersInv
<1> SUFFICES ASSUME Init, NEW o \in DocOps, NEW k \in Kinds PROVE CounterInv(o, k)
  BY DEF CountersInv
<1>1. /\ status[o][k] = 0 /\ wrote[o][k] = 0
      /\ \A w \in Worker : job[w] = Idle /\ held[w] = <<>>
  BY DEF Init, Zero, DocOps
<1>2. Due(o, k) = {}
  BY <1>1 DEF Due, Counts, Busy
<1>3. IsFiniteSet(Due(o, k)) /\ Cardinality(Due(o, k)) = 0
  BY <1>2, FS_EmptySet
<1>4. \A w \in Worker : ~HoldsCounter(w, o, k)
  BY <1>1 DEF HoldsCounter
<1>5. QED
  BY <1>1, <1>3, <1>4 DEF CounterInv

(* The counters of the status page, even with the increments that successful *)
(* calls of the database have still to bring, never exceed those calls,      *)
(* whatever increments are lost to one another.                              *)
THEOREM CountersNeverExceed == Spec => [](CountersInv /\ CountersNeverOver)
<1>1. HandlerInv /\ CountersInv => CountersNeverOver
  <2>1. SUFFICES ASSUME HandlerInv, CountersInv, NEW o \in DocOps, NEW k \in Kinds
                 PROVE  status[o][k] <= wrote[o][k]
    BY DEF CountersNeverOver, DocOps
  <2>2. status[o][k] \in Nat /\ wrote[o][k] \in Nat /\ Cardinality(Due(o, k)) \in Nat
    BY <2>1, CountersAreNat
  <2>3. status[o][k] + Cardinality(Due(o, k)) <= wrote[o][k]
    BY <2>1 DEF CountersInv, CounterInv
  <2>4. QED
    BY <2>2, <2>3
<1>2. Init => CountersInv
  BY CountersInit
<1>3. HandlerInv /\ HandlerInv' /\ CountersInv /\ [Next]_vars => CountersInv'
  BY CountersStep
<1>4. QED
  BY <1>1, <1>2, <1>3, HandlersFollowTheirSteps, PTL DEF Spec

-----------------------------------------------------------------------------
(* One request at a time: no increment is lost.                              *)
LEMMA ExactStep ==
  ASSUME Serial
  PROVE  HandlerInv /\ HandlerInv' /\ CountersInv /\ ExactInv /\ [Next]_vars => ExactInv'
<1> SUFFICES ASSUME HandlerInv, HandlerInv', CountersInv, ExactInv, [Next]_vars PROVE ExactInv'
  OBVIOUS
<1> DEFINE Exact(o, k) ==
             /\ status[o][k] + Cardinality(Due(o, k)) = wrote[o][k]
             /\ \A w \in Worker : HoldsCounter(w, o, k) => held[w][1] = status[o][k]
<1>1. CASE UNCHANGED vars
  <2>1. ASSUME NEW o \in DocOps, NEW k \in Kinds \ {"uiconfig"} PROVE Exact(o, k)'
    <3>1. /\ job' = job /\ plan' = plan /\ held' = held /\ status' = status /\ wrote' = wrote
          /\ Exact(o, k)
      BY <1>1 DEF vars, shared, ExactInv
    <3>2. Due(o, k)' = Due(o, k)
      BY <3>1 DEF Due, Counts, Wrote, Busy, Req
    <3>3. \A w \in Worker : HoldsCounter(w, o, k)' <=> HoldsCounter(w, o, k)
      BY <3>1 DEF HoldsCounter, Counts, Busy, Req
    <3>4. QED
      BY <3>1, <3>2, <3>3
  <2>2. QED
    BY <2>1 DEF ExactInv
<1>2. ASSUME NEW w \in Worker, ActionOf(w), NEW o \in DocOps, NEW k \in Kinds \ {"uiconfig"}
      PROVE  Exact(o, k)'
  <2> DEFINE c == Cardinality(Due(o, k))
             d == Cardinality(Due(o, k)')
             s == status[o][k]
             t == status'[o][k]
             a == wrote[o][k]
             b == wrote'[o][k]
  <2>1. s \in Nat /\ a \in Nat /\ c \in Nat /\ t \in Nat /\ b \in Nat
    <3>1. t \in Nat /\ b \in Nat
      BY DEF HandlerInv, ServerTypes, Counters, DocOps
    <3>2. QED
      BY <3>1, CountersAreNat
  <2>2. s + c = a /\ \A v \in Worker : HoldsCounter(v, o, k) => held[v][1] = s
    BY DEF ExactInv
  <2>3. \A v \in Worker : v = w
    BY DEF Serial
  <2>4. CASE Balanced(w, o, k)
    <3>1. IsFiniteSet(Due(o, k)') /\ t = s /\ d + a = c + b /\ (HoldsCounter(w, o, k)' => held'[w][1] = s)
      BY <2>4 DEF Balanced
    <3>2. d \in Nat
      BY <3>1, FS_CardinalityType
    <3> HIDE DEF c, d, s, t, a, b
    <3>3. t + d = b
      BY <2>1, <2>2, <3>1, <3>2
    <3>4. \A v \in Worker : HoldsCounter(v, o, k)' => held'[v][1] = t
      BY <2>3, <3>1
    <3>5. QED
      BY <3>3, <3>4 DEF d, t, b
  <2>5. CASE Store(w) /\ Head(plan[w]) = "status"
    <3>1. /\ b = a /\ held'[w] = <<>> /\ IsFiniteSet(Due(o, k)')
          /\ Counts(w, o, k) => HoldsCounter(w, o, k) /\ t = held[w][1] + 1 /\ d = c - 1
          /\ ~Counts(w, o, k) => t = s /\ d = c
      BY <2>5, StatusStored
    <3>2. d \in Nat
      BY <3>1, FS_CardinalityType
    <3>3. \A v \in Worker : ~HoldsCounter(v, o, k)'
      BY <2>3, <3>1, HoldsNoCounter
    <3> HIDE DEF c, d, s, t, a, b
    <3>4. t + d = b
      <4>1. CASE Counts(w, o, k)
        <5>1. t = s + 1 /\ d = c - 1
          BY <2>2, <3>1, <4>1
        <5>2. QED
          BY <2>1, <2>2, <3>1, <3>2, <5>1
      <4>2. CASE ~Counts(w, o, k)
        BY <2>1, <2>2, <3>1, <4>2
      <4>3. QED
        BY <4>1, <4>2
    <3>5. QED
      BY <3>3, <3>4 DEF d, t, b
  <2>6. QED
    BY <1>2, <2>4, <2>5, ActionsBalanced
<1>3. QED
  BY <1>1, <1>2 DEF Next, ActionOf, ExactInv

(* With one request at a time the counters of the status page are exact      *)
(* whenever no request is in progress; UI configurations are the one kind    *)
(* that has none.                                                            *)
THEOREM CountersExactInSeries ==
  ASSUME Serial
  PROVE  Spec => []CountersTell
<1>1. HandlerInv /\ CountersInv /\ ExactInv => CountersTell
  <2>1. SUFFICES ASSUME HandlerInv, CountersInv, ExactInv, AllIdle, NEW k \in Kinds \ {"uiconfig"}, NEW o \in DocOps
                 PROVE  status[o][k] = wrote[o][k]
    BY DEF CountersTell, DocOps
  <2>2. Due(o, k) = {}
    BY <2>1 DEF Due, Counts, Busy, AllIdle
  <2>3. Cardinality(Due(o, k)) = 0
    BY <2>2, FS_EmptySet
  <2>4. status[o][k] \in Nat /\ wrote[o][k] \in Nat /\ status[o][k] + Cardinality(Due(o, k)) = wrote[o][k]
    BY <2>1, CountersAreNat DEF ExactInv
  <2>5. QED
    BY <2>3, <2>4
<1>2. Init => ExactInv
  <2> SUFFICES ASSUME Init, NEW o \in DocOps, NEW k \in Kinds
               PROVE  /\ status[o][k] + Cardinality(Due(o, k)) = wrote[o][k]
                      /\ \A w \in Worker : HoldsCounter(w, o, k) => held[w][1] = status[o][k]
    BY DEF ExactInv
  <2>1. /\ status[o][k] = 0 /\ wrote[o][k] = 0
        /\ \A w \in Worker : job[w] = Idle /\ held[w] = <<>>
    BY DEF Init, Zero, DocOps
  <2>2. Due(o, k) = {}
    BY <2>1 DEF Due, Counts, Busy
  <2>3. Cardinality(Due(o, k)) = 0
    BY <2>2, FS_EmptySet
  <2>4. \A w \in Worker : ~HoldsCounter(w, o, k)
    BY <2>1 DEF HoldsCounter
  <2>5. QED
    BY <2>1, <2>3, <2>4
<1>3. HandlerInv /\ HandlerInv' /\ CountersInv /\ ExactInv /\ [Next]_vars => ExactInv'
  BY ExactStep
<1>4. QED
  BY <1>1, <1>2, <1>3, HandlersFollowTheirSteps, CountersNeverExceed, PTL DEF Spec

-----------------------------------------------------------------------------
(* One request at a time: the log tells what was done.                       *)
LEMMA ToldStays ==
  ASSUME Logged \subseteq Logged', NEW c, Told(c)
  PROVE  Told(c)'
  BY DEF Told, Tells

LEMMA TotalStays ==
  ASSUME LogIsTotal, Logged \subseteq Logged', done' = done
  PROVE  LogIsTotal'
  BY ToldStays DEF LogIsTotal

(* The order of the steps of a create or an update.                          *)
LEMMA DocOrder ==
  ASSUME HandlerInv, NEW w \in Worker, GoesOn(w), Req(w).op \in DocOps, plan'[w] # <<>>
  PROVE  /\ Head(plan[w]) \in {"fetch", "count", "list", "db", "status"}
         /\ Head(plan[w]) = "fetch"  => Head(plan'[w]) = "count"
         /\ Head(plan[w]) = "count"  => Head(plan'[w]) = "list"
         /\ Head(plan[w]) = "list"   => Head(plan'[w]) = "db"
         /\ Head(plan[w]) = "db"     => Head(plan'[w]) = "status"
         /\ Head(plan[w]) = "status" => Head(plan'[w]) = "status"
<1> DEFINE r == Req(w)
           L == Len(plan[w])
<1>1. /\ r \in Requests /\ IsLastSteps(plan[w], r, job[w].made) /\ plan[w] \in Seq(StepName)
      /\ plan[w] # <<>> /\ Head(plan[w]) = StepFromEnd(r, L) /\ L \in Nat \ {0}
  BY NextStep DEF GoesOn
<1>2. /\ Len(plan'[w]) = L - 1 /\ Len(plan'[w]) \in Nat /\ plan'[w] \in Seq(StepName)
      /\ \A i \in 1..Len(plan'[w]) : plan'[w][i] = plan[w][i + 1]
  BY LeftOfPlan
<1>3. L \in Nat /\ L >= 2
  <2>1. Len(plan'[w]) # 0
    BY <1>2
  <2>2. QED
    BY <1>1, <1>2, <2>1
<1>4. Head(plan'[w]) = StepFromEnd(r, L - 1)
  <2>1. Head(plan'[w]) = plan'[w][1] /\ 1 \in 1..Len(plan'[w])
    BY <1>2, <1>3
  <2>2. plan'[w][1] = plan[w][2]
    BY <1>2, <2>1
  <2>3. plan[w][2] = StepFromEnd(r, L + 1 - 2)
    BY <1>1, <1>3 DEF IsLastSteps
  <2> HIDE DEF L, r
  <2>4. L + 1 - 2 = L - 1
    BY <1>3
  <2>5. QED
    BY <2>1, <2>2, <2>3, <2>4
<1>5. L <= Late(r.kind) + 4 /\ Late(r.kind) \in Nat
  <2>1. Late(r.kind) \in Nat
    BY DEF Late
  <2>2. L <= AtMostSteps(r, job[w].made)
    BY <1>1 DEF IsLastSteps
  <2> HIDE DEF L, r
  <2>3. r.op = "create" \/ r.op = "update"
    BY DEF r, DocOps
  <2>4. QED
    BY <1>3, <2>1, <2>2, <2>3 DEF AtMostSteps
<1>6. r.op # "bulk" /\ r.op # "clear"
  BY DEF DocOps
<1> HIDE DEF L, r
<1>7. PICK l : l = Late(r.kind)
  OBVIOUS
<1>8. \A m \in Nat :
        /\ m <= l => StepFromEnd(r, m) = "status"
        /\ m = l + 1 => StepFromEnd(r, m) = "db"
        /\ m = l + 2 => StepFromEnd(r, m) = "list"
        /\ m = l + 3 => StepFromEnd(r, m) = "count"
        /\ m = l + 4 => StepFromEnd(r, m) = "fetch"
  BY <1>5, <1>6, <1>7 DEF StepFromEnd
<1>9. l \in Nat /\ L - 1 \in Nat /\ (L <= l \/ L = l + 1 \/ L = l + 2 \/ L = l + 3 \/ L = l + 4)
  BY <1>3, <1>5, <1>7
<1>10. QED
  <2>1. CASE L <= l
    BY <1>1, <1>3, <1>4, <1>8, <1>9, <2>1
  <2>2. CASE L = l + 1 \/ L = l + 2
    BY <1>1, <1>3, <1>4, <1>8, <1>9, <2>2
  <2>3. CASE L = l + 3 \/ L = l + 4
    BY <1>1, <1>3, <1>4, <1>8, <1>9, <2>3
  <2>4. QED
    BY <1>9, <2>1, <2>2, <2>3

LEMMA OwesStays ==
  ASSUME HandlerInv, NEW w \in Worker, GoesOn(w), plan'[w] = Tail(plan[w]),
         Head(plan[w]) # "list", Owes(w)
  PROVE  Owes(w)'
<1>1. /\ plan[w] # <<>> /\ plan[w] \in Seq(StepName) /\ Req(w) \in Requests /\ ~BulkToMake(w)
      /\ job'[w].req = Req(w)
  BY NextStep DEF GoesOn
<1>2. /\ Len(Tail(plan[w])) = Len(plan[w]) - 1 /\ Head(plan[w]) = plan[w][1]
      /\ \A i \in 1..Len(Tail(plan[w])) : Tail(plan[w])[i] = plan[w][i + 1]
      /\ Len(plan[w]) \in Nat
  BY <1>1, TailIsLastSteps
<1>3. PICK i \in 1..Len(plan[w]) : plan[w][i] = "list"
  BY <1>1 DEF Owes
<1>4. i # 1
  BY <1>2, <1>3
<1>5. i - 1 \in 1..Len(plan'[w]) /\ i - 1 + 1 = i
  BY <1>2, <1>4
<1>6. plan'[w][i - 1] = "list"
  BY <1>2, <1>3, <1>5
<1>7. job'[w] # Idle
  BY <1>1, RequestFields DEF Idle
<1>8. QED
  BY <1>5, <1>6, <1>7 DEF Owes, Busy

(* A step that leaves log and database as they are.                          *)
LEMMA TotalGoesOn ==
  ASSUME Serial, HandlerInv, TotalInv, NEW w \in Worker, GoesOn(w), plan'[w] = Tail(plan[w]),
         Head(plan[w]) \notin {"list", "db", "fetch"}, job' = job, db' = db, changes' = changes,
         done' = done
  PROVE  TotalInv'
<1>1. Logged' = Logged /\ Req(w)' = Req(w) /\ Busy(w) /\ plan[w] # <<>> /\ TotalOf(w) /\ held'[w] = <<>>
  BY NextStep DEF Logged, Req, GoesOn, TotalInv
<1>2. Owes(w)' \/ \A c \in job'[w].made : Told(c)'
  BY <1>1, OwesStays, ToldStays DEF TotalOf
<1>3. ASSUME Req(w).op \in DocOps, Ahead(w, {"fetch", "count", "list", "db"})'
      PROVE  Head(plan[w]) = "count" /\ Head(plan'[w]) = "list"
  <2>1. plan'[w] # <<>> /\ Head(plan'[w]) # "status"
    BY <1>3 DEF Ahead
  <2>2. QED
    BY <1>3, <2>1, DocOrder
<1>4. TotalOf(w)'
  <2>1. Ahead(w, {"db"})' => Ahead(w, {"fetch", "count", "list", "db"})' /\ Head(plan'[w]) = "db"
    BY DEF Ahead
  <2>2. Ahead(w, {"count", "list", "db"})' => Ahead(w, {"fetch", "count", "list", "db"})'
    BY DEF Ahead
  <2>3. Head(plan[w]) = "count" => Ahead(w, {"fetch", "count", "list", "db"}) /\ Ahead(w, {"count", "list", "db"})
    BY <1>1 DEF Ahead
  <2>4. ~HoldsList(w)'
    BY <1>1, HoldsNoList
  <2>5. "update" \in DocOps
    BY DEF DocOps
  <2>6. QED
    BY <1>1, <1>2, <1>3, <2>1, <2>2, <2>3, <2>4, <2>5 DEF TotalOf
<1>5. \A v \in Worker : v = w
  BY DEF Serial
<1>6. LogIsTotal'
  BY <1>1, TotalStays DEF TotalInv
<1>7. QED
  BY <1>4, <1>5, <1>6 DEF TotalInv

LEMMA TotalOfOne ==
  ASSUME Serial, NEW w \in Worker, LogIsTotal', TotalOf(w)'
  PROVE  TotalInv'
  BY DEF Serial, TotalInv

LEMMA TotalReceive ==
  ASSUME Serial, HandlerInv, TotalInv, NEW w \in Worker, NEW r \in Requests, Receive(w, r)
  PROVE  TotalInv'
<1>1. /\ changes' = changes /\ done' = done /\ Req(w)' = r /\ held'[w] = <<>>
      /\ job'[w].made = {} /\ job'[w].old = None
      /\ plan'[w] = IF Accepts(r) THEN Steps(r) ELSE <<>>
  BY DEF Receive, shared, HandlerInv, ServerTypes, PlanOf, HeldOf, Busy, Req
<1>2. LogIsTotal'
  BY <1>1, TotalStays DEF TotalInv, Logged
<1>3. ASSUME r.op \in DocOps, plan'[w] # <<>>
      PROVE  Head(plan'[w]) = IF r.op = "create" THEN "count" ELSE "fetch"
  <2>1. plan'[w] = Steps(r)
    BY <1>1, <1>3
  <2>2. Head(plan'[w]) = Steps(r)[1]
    BY <1>3, <2>1, DocStepsAre
  <2>3. QED
    BY <1>3, <2>2, DocStepsAre
<1>4. TotalOf(w)'
  <2>1. ~HoldsList(w)'
    BY <1>1, HoldsNoList
  <2>2. r.op \in DocOps => ~Ahead(w, {"db"})'
    BY <1>3 DEF Ahead
  <2>3. r.op = "update" => ~Ahead(w, {"count", "list", "db"})'
    BY <1>3 DEF Ahead, DocOps
  <2>4. QED
    BY <1>1, <2>1, <2>2, <2>3 DEF TotalOf
<1>5. QED
  BY <1>2, <1>4, TotalOfOne

(* A handler that returns early has changed nothing.                         *)
LEMMA TotalReturn ==
  ASSUME Serial, HandlerInv, TotalInv, NEW w \in Worker, GoesOn(w), plan'[w] = <<>>,
         Head(plan[w]) \in {"fetch", "db"}, Req(w).op \in DocOps,
         job' = job, db' = db, changes' = changes, done' = done
  PROVE  TotalInv'
<1>1. Logged' = Logged /\ Req(w)' = Req(w) /\ Busy(w) /\ plan[w] # <<>> /\ TotalOf(w) /\ held'[w] = <<>>
  BY NextStep DEF Logged, Req, GoesOn, TotalInv
<1>2. job[w].made = {}
  BY <1>1 DEF TotalOf, Ahead
<1>3. ~HoldsList(w)' /\ \A S : ~(plan'[w] # <<>> /\ Head(plan'[w]) \in S)
  BY <1>1, HoldsNoList
<1>4. TotalOf(w)'
  BY <1>1, <1>2, <1>3 DEF TotalOf, Ahead
<1>5. LogIsTotal'
  BY <1>1, TotalStays DEF TotalInv
<1>6. QED
  BY <1>4, <1>5, TotalOfOne

LEMMA TotalFetch ==
  ASSUME Serial, HandlerInv, TotalInv, NEW w \in Worker, Fetch(w)
  PROVE  TotalInv'
<1>1. /\ GoesOn(w) /\ Head(plan[w]) = "fetch" /\ db' = db /\ changes' = changes /\ done' = done
      /\ ServerTypes /\ TotalOf(w) /\ plan[w] # <<>>
  BY StepsGoOn DEF Fetch, At, shared, HandlerInv, TotalInv
<1>2. Req(w).op = "update" /\ Req(w) \in Requests /\ Busy(w) /\ job[w] \in Jobs
  <2>1. /\ Req(w) \in Requests /\ "fetch" = StepFromEnd(Req(w), Len(plan[w])) /\ Busy(w)
        /\ IsLastSteps(plan[w], Req(w), job[w].made) /\ Len(plan[w]) \in Nat \ {0}
        /\ job[w] \in Jobs
    BY <1>1, NextStep DEF GoesOn
  <2>2. Req(w).op \in {"create", "update", "bulk", "clear"} /\ Late(Req(w).kind) \in Nat
    BY <2>1, RequestFields DEF Late
  <2>3. Req(w).op = "create" => Len(plan[w]) <= Late(Req(w).kind) + 3
    BY <2>1 DEF IsLastSteps, AtMostSteps
  <2>4. QED
    BY <2>1, <2>2, <2>3 DEF StepFromEnd
<1>3. Req(w).op \in DocOps
  BY <1>2 DEF DocOps
<1>4. CASE plan'[w] = <<>> /\ job' = job
  BY <1>1, <1>3, <1>4, TotalReturn
<1>5. CASE /\ Advance(w)
           /\ job' = [job EXCEPT ![w].old = db[Req(w).kind][DocId(Req(w))]]
  <2>1. /\ job'[w].made = job[w].made /\ job'[w].old = db[Req(w).kind][DocId(Req(w))] /\ Req(w)' = Req(w)
        /\ plan'[w] = Tail(plan[w])
    BY <1>1, <1>2, <1>3, <1>5 DEF ServerTypes, Jobs, Req, Advance
  <2>2. job[w].made = {} /\ Logged' = Logged
    BY <1>1, <1>2, <1>3 DEF TotalOf, Ahead, Logged
  <2>3. plan'[w] # <<>> => Head(plan'[w]) = "count"
    BY <1>1, <1>3, DocOrder
  <2>4. ~HoldsList(w)' /\ ~Ahead(w, {"db"})'
    BY <1>1, <2>3, HoldsNoList DEF GoesOn, Ahead
  <2>5. TotalOf(w)'
    BY <1>1, <1>2, <2>1, <2>2, <2>4 DEF TotalOf
  <2>6. LogIsTotal'
    BY <1>1, <2>2, TotalStays DEF TotalInv
  <2>7. QED
    BY <2>5, <2>6, TotalOfOne
<1>6. QED
  BY <1>1, <1>4, <1>5 DEF Fetch, Fail, Req, ServerTypes

LEMMA TotalLoad ==
  ASSUME Serial, HandlerInv, TotalInv, NEW w \in Worker, Load(w)
  PROVE  TotalInv'
<1>1. /\ job' = job /\ plan' = plan /\ db' = db /\ changes' = changes /\ done' = done
      /\ ServerTypes /\ TotalOf(w) /\ Logged' = Logged
  BY DEF Load, HandlerInv, TotalInv, Logged
<1>2. HoldsList(w)' => held'[w][1] = changes[Req(w).kind]
  <2>1. HoldsList(w)' => Head(plan[w]) = "list"
    BY <1>1 DEF HoldsList
  <2>2. Head(plan[w]) = "list" => held'[w] = <<changes[Req(w).kind]>>
    BY <1>1 DEF Load, ServerTypes, Req
  <2>3. QED
    BY <2>1, <2>2
<1>3. TotalOf(w)'
  <2>1. /\ Owes(w)' <=> Owes(w)
        /\ Busy(w)' <=> Busy(w)
        /\ Req(w)' = Req(w) /\ Asked(w)' = Asked(w)
    BY <1>1 DEF Owes, Busy, BulkToMake, Req, Asked
  <2>2. /\ Ahead(w, {"fetch", "count", "list", "db"})' <=> Ahead(w, {"fetch", "count", "list", "db"})
        /\ Ahead(w, {"count", "list", "db"})' <=> Ahead(w, {"count", "list", "db"})
        /\ Ahead(w, {"db"})' <=> Ahead(w, {"db"})
    BY <1>1 DEF Ahead
  <2>3. \A c : Told(c) => Told(c)'
    BY <1>1, ToldStays
  <2>4. QED
    BY <1>1, <1>2, <2>1, <2>2, <2>3 DEF TotalOf
<1>4. LogIsTotal'
  BY <1>1, TotalStays DEF TotalInv
<1>5. QED
  BY <1>3, <1>4, TotalOfOne

LEMMA RangeOfConcat ==
  ASSUME NEW h \in Seq(Entry), NEW t \in Seq(Entry)
  PROVE  Range(h) \subseteq Range(h \o t) /\ Range(t) \subseteq Range(h \o t)
<1>1. /\ h \o t \in Seq(Entry) /\ Len(h \o t) = Len(h) + Len(t)
      /\ \A i \in 1..Len(h) + Len(t) :
           (h \o t)[i] = IF i <= Len(h) THEN h[i] ELSE t[i - Len(h)]
  BY ConcatProperties
<1> DEFINE q == h \o t
           m == Len(h)
           n == Len(t)
<1>2. /\ DOMAIN q = 1..m + n /\ DOMAIN h = 1..m /\ DOMAIN t = 1..n /\ m \in Nat /\ n \in Nat
      /\ \A i \in 1..m + n : q[i] = IF i <= m THEN h[i] ELSE t[i - m]
  BY <1>1
<1> HIDE DEF q, m, n
<1>3. ASSUME NEW i \in 1..m PROVE i \in 1..m + n /\ q[i] = h[i]
  BY <1>2
<1>4. ASSUME NEW i \in 1..n PROVE m + i \in 1..m + n /\ q[m + i] = t[i]
  <2>1. m + i \in 1..m + n /\ ~(m + i <= m) /\ m + i - m = i
    BY <1>2
  <2>2. q[m + i] = t[m + i - m]
    BY <1>2, <2>1
  <2>3. QED
    BY <2>1, <2>2
<1>5. ASSUME NEW x \in Range(h) PROVE x \in Range(q)
  <2>1. PICK i \in 1..m : h[i] = x
    BY <1>2 DEF Range
  <2>2. i \in DOMAIN q /\ q[i] = x
    BY <1>2, <1>3, <2>1
  <2>3. QED
    BY <2>2 DEF Range
<1>6. ASSUME NEW x \in Range(t) PROVE x \in Range(q)
  <2>1. PICK i \in 1..n : t[i] = x
    BY <1>2 DEF Range
  <2>2. m + i \in DOMAIN q /\ q[m + i] = x
    BY <1>2, <1>4, <2>1
  <2>3. QED
    BY <2>2 DEF Range
<1>7. QED
  BY <1>5, <1>6 DEF q

LEMMA TotalStore ==
  ASSUME Serial, HandlerInv, TotalInv, NEW w \in Worker, Store(w)
  PROVE  TotalInv'
<1>1. /\ GoesOn(w) /\ held[w] # <<>> /\ plan[w] # <<>> /\ plan'[w] = Tail(plan[w])
      /\ job' = job /\ db' = db /\ done' = done /\ ServerTypes /\ TotalOf(w) /\ held'[w] = <<>>
  BY StepsGoOn DEF Store, Advance, GoesOn, HandlerInv, ServerTypes, TotalInv
<1>2. CASE StoreCount(w) \/ StoreStatus(w)
  <2>1. changes' = changes /\ Head(plan[w]) \notin {"list", "db", "fetch"}
    BY <1>2 DEF StoreCount, StoreStatus, At
  <2>2. QED
    BY <1>1, <2>1, TotalGoesOn
<1>3. CASE StoreList(w)
  <2> DEFINE t == ToLog(w)
  <2>1. /\ Head(plan[w]) = "list"
        /\ changes' = [changes EXCEPT ![Req(w).kind] = held[w][1] \o t]
    BY <1>3 DEF StoreList, At, Req
  <2>2. Busy(w) /\ Req(w) \in Requests /\ Req(w).op # "clear" /\ ~Owes(w)' /\ Req(w).kind \in Kinds
    <3>1. Busy(w) /\ Req(w) \in Requests /\ Req(w).op # "clear"
      BY <1>1, <2>1, NextStep
    <3>2. QED
      BY <1>1, <2>1, <3>1, OwesLess, RequestFields
  <2>3. held[w][1] = changes[Req(w).kind] /\ changes[Req(w).kind] \in Seq(Entry)
    BY <1>1, <2>1, <2>2 DEF TotalOf, HoldsList, ServerTypes
  <2>4. t \in Seq(Entry)
    BY <1>1, <2>2, ToLogIsEntries
  <2> HIDE DEF t
  <2>5. Logged \subseteq Logged' /\ Range(t) \subseteq Logged'
    <3>1. /\ changes'[Req(w).kind] = changes[Req(w).kind] \o t
          /\ \A k \in Kinds \ {Req(w).kind} : changes'[k] = changes[k]
      BY <1>1, <2>1, <2>2, <2>3 DEF ServerTypes
    <3>2. /\ Range(changes[Req(w).kind]) \subseteq Range(changes'[Req(w).kind])
          /\ Range(t) \subseteq Range(changes'[Req(w).kind])
      BY <2>3, <2>4, <3>1, RangeOfConcat
    <3>3. \A k \in Kinds : Range(changes[k]) \subseteq Range(changes'[k])
      BY <3>1, <3>2
    <3>4. QED
      BY <2>2, <3>2, <3>3 DEF Logged
  <2>6. LogIsTotal'
    BY <1>1, <2>5, TotalStays DEF TotalInv
  <2>7. Req(w)' = Req(w) /\ ~HoldsList(w)'
    BY <1>1, HoldsNoList DEF Req
  <2>8. CASE Req(w).op = "bulk"
    <3>1. t = SetToSeq(job[w].made)
      BY <2>8 DEF t, ToLog, Req
    <3>2. IsFiniteSet(job[w].made)
      BY <2>2 DEF HandlerInv, JobOf
    <3>3. job[w].made \subseteq Range(SetToSeq(job[w].made))
      <4> DEFINE M == job[w].made
                 n == Cardinality(M)
                 f == SetToSeq(M)
      <4>1. f \in [1..n -> M] /\ IsInjective(f) /\ IsFiniteSet(M) /\ n \in Nat
        BY <3>2, SetToSeqLists, FS_CardinalityType
      <4>2. IsFiniteSet(1..n) /\ Cardinality(1..n) = n
        <5> HIDE DEF n
        <5>1. /\ IsFiniteSet(1..n)
              /\ Cardinality(1..n) = IF 1 > n THEN 0 ELSE n - 1 + 1
          BY <4>1, FS_Interval
        <5>2. QED
          BY <4>1, <5>1
      <4> HIDE DEF M, f
      <4>3. f \in Injection(1..n, M)
        BY <4>1 DEF Injection
      <4>4. f \in Surjection(1..n, M)
        <5>1. Cardinality(1..n) = Cardinality(M)
          BY <4>2 DEF n
        <5> HIDE DEF n
        <5>2. QED
          BY <4>1, <4>3, <5>1, FS_Injection
      <4> HIDE DEF n
      <4>5. \A c \in M : \E i \in 1..n : f[i] = c
        BY <4>4 DEF Surjection
      <4>6. DOMAIN f = 1..n
        BY <4>1
      <4>7. QED
        BY <4>5, <4>6 DEF Range, M, f
    <3>4. \A c \in job[w].made : Told(c)'
      BY <2>5, <3>1, <3>3 DEF Told, Tells
    <3>5. TotalOf(w)'
      BY <1>1, <2>7, <2>8, <3>4 DEF TotalOf, DocOps
    <3>6. QED
      BY <2>6, <3>5, TotalOfOne
  <2>9. CASE Req(w).op \in DocOps
    <3>1. job[w].made = {} /\ plan'[w] # <<>> => Head(plan'[w]) = "db"
      BY <1>1, <2>1, <2>9, DocOrder
    <3>2. job[w].made = {}
      BY <1>1, <2>1, <2>2, <2>9 DEF TotalOf, Ahead
    <3>3. t = <<Asked(w)>>
      BY <2>9 DEF t, ToLog, Asked, Req, DocOps
    <3>4. Asked(w) \in Logged' /\ Asked(w)' = Asked(w)
      BY <1>1, <2>5, <3>3 DEF Range, Asked, Req
    <3>5. Req(w).op = "update" => db[Req(w).kind][DocId(Req(w))] = job[w].old
      BY <1>1, <2>1, <2>2 DEF TotalOf, Ahead
    <3>6. TotalOf(w)'
      BY <1>1, <2>2, <2>7, <2>9, <3>2, <3>4, <3>5 DEF TotalOf
    <3>7. QED
      BY <2>6, <3>6, TotalOfOne
  <2>10. QED
    BY <2>2, <2>8, <2>9, RequestFields DEF DocOps
<1>4. QED
  BY <1>2, <1>3 DEF Store
(* The call of the database succeeds: it made what the log was told.         *)
LEMMA TotalWrite ==
  ASSUME Serial, HandlerInv, TotalInv, NEW w \in Worker, GoesOn(w), Req(w).op \in DocOps,
         At(w, "db"), plan'[w] = Tail(plan[w]), NEW c, Tells(Asked(w), c),
         job' = [job EXCEPT ![w].made = {c}], changes' = changes, done' = done
  PROVE  TotalInv'
<1>1. /\ plan[w] # <<>> /\ Head(plan[w]) = "db" /\ Busy(w) /\ job[w] \in Jobs /\ ServerTypes
      /\ TotalOf(w) /\ held'[w] = <<>> /\ Logged' = Logged
  BY NextStep DEF At, HandlerInv, TotalInv, GoesOn, Logged
<1>2. job'[w].made = {c} /\ job'[w].old = job[w].old /\ Req(w)' = Req(w)
  BY <1>1 DEF ServerTypes, Jobs, Req
<1>3. Asked(w) \in Logged
  BY <1>1 DEF TotalOf, Ahead
<1>4. ~HoldsList(w)' /\ ~Ahead(w, {"fetch", "count", "list", "db"})'
      /\ ~Ahead(w, {"count", "list", "db"})' /\ ~Ahead(w, {"db"})'
  BY <1>1, DocOrder, HoldsNoList DEF Ahead
<1>5. TotalOf(w)'
  <2>1. Req(w).op # "clear"
    BY DEF DocOps
  <2>2. QED
    BY <1>1, <1>2, <1>3, <1>4, <2>1 DEF TotalOf, Told, Tells
<1>6. LogIsTotal'
  BY <1>1, TotalStays DEF TotalInv
<1>7. QED
  BY <1>5, <1>6, TotalOfOne

LEMMA TotalCreate ==
  ASSUME Serial, HandlerInv, TotalInv, NEW w \in Worker, Create(w)
  PROVE  TotalInv'
<1>1. /\ GoesOn(w) /\ At(w, "db") /\ Req(w).op = "create" /\ changes' = changes /\ done' = done
      /\ ServerTypes /\ TotalOf(w) /\ Busy(w)
  BY StepsGoOn, NextStep DEF Create, At, Req, shared, HandlerInv, TotalInv
<1>2. Req(w).op \in DocOps /\ Head(plan[w]) = "db"
  BY <1>1 DEF DocOps, At
<1>3. CASE plan'[w] = <<>> /\ db' = db /\ job' = job
  BY <1>1, <1>2, <1>3, TotalReturn
<1>4. CASE /\ plan'[w] = Tail(plan[w])
           /\ job' = [job EXCEPT ![w].made = {Change(job[w], DocId(Req(w)), None)}]
  <2>1. Asked(w) = Change(job[w], DocId(Req(w)), None)
    BY <1>1 DEF Asked, TotalOf
  <2>2. job' = [job EXCEPT ![w].made = {Asked(w)}]
    BY <1>4, <2>1
  <2>3. Tells(Asked(w), Asked(w))
    BY DEF Tells
  <2>4. QED
    BY <1>1, <1>2, <1>4, <2>2, <2>3, TotalWrite
<1>5. QED
  BY <1>1, <1>3, <1>4 DEF Create, Fail, Advance, Req, ServerTypes

LEMMA TotalUpdate ==
  ASSUME Serial, HandlerInv, TotalInv, NEW w \in Worker, Update(w)
  PROVE  TotalInv'
<1>1. /\ GoesOn(w) /\ At(w, "db") /\ Req(w).op = "update" /\ changes' = changes /\ done' = done
      /\ ServerTypes /\ TotalOf(w) /\ Busy(w) /\ Req(w) \in Requests
  BY StepsGoOn, NextStep DEF Update, At, Req, shared, HandlerInv, TotalInv
<1>2. Req(w).op \in DocOps /\ Head(plan[w]) = "db" /\ plan[w] # <<>>
  BY <1>1 DEF DocOps, At
<1>3. CASE plan'[w] = <<>> /\ db' = db /\ job' = job
  BY <1>1, <1>2, <1>3, TotalReturn
<1>4. CASE /\ plan'[w] = Tail(plan[w])
           /\ job' = [job EXCEPT ![w].made =
                        {Change(job[w], Req(w).addr, db[Req(w).kind][Req(w).addr])}]
  <2> DEFINE c == Change(job[w], Req(w).addr, db[Req(w).kind][Req(w).addr])
  <2>1. db[Req(w).kind][DocId(Req(w))] = job[w].old
    BY <1>1, <1>2 DEF TotalOf, Ahead
  <2>2. Tells(Asked(w), c)
    <3>1. c.crossed = Crossed(Req(w))
      BY DEF Change, Req
    <3>2. CASE Crossed(Req(w))
      BY <3>1, <3>2 DEF Tells, Asked, Change
    <3>3. CASE ~Crossed(Req(w))
      <4>1. DocId(Req(w)) = Req(w).addr
        BY <1>1, <3>3 DEF Crossed
      <4>2. QED
        BY <2>1, <4>1 DEF Tells, Asked
    <3>4. QED
      BY <3>2, <3>3
  <2>3. QED
    BY <1>1, <1>2, <1>4, <2>2, TotalWrite
<1>5. QED
  BY <1>1, <1>3, <1>4 DEF Update, Fail, Advance, Req, ServerTypes

(* A bulk has its entries still to write.                                    *)
LEMMA TotalCreateBulk ==
  ASSUME Serial, HandlerInv, TotalInv, NEW w \in Worker, CreateBulk(w)
  PROVE  TotalInv'
<1>1. /\ plan[w] # <<>> /\ Head(plan[w]) = "db" /\ Req(w).op = "bulk" /\ held' = held
      /\ changes' = changes /\ done' = done
  BY DEF CreateBulk, At, Req, shared
<1>2. job[w] \in Jobs /\ Busy(w) /\ Req(w) \in Requests /\ ServerTypes /\ held[w] = <<>>
  BY <1>1, NextStep, NothingHeld DEF HandlerInv, SharedStep
<1>3. PICK S \in SUBSET Req(w).ids :
        /\ job' = [job EXCEPT ![w].made = {Change(job[w], i, None) : i \in S}]
        /\ plan' = [plan EXCEPT ![w] = EachCreated(S) \o <<"list", "total">>]
  BY DEF CreateBulk, Req
<1> DEFINE M == {Change(job[w], i, None) : i \in S}
           p == EachCreated(S) \o <<"list", "total">>
           n == Cardinality(S)
<1>4. IsFiniteSet(S) /\ n \in Nat /\ Cardinality(M) = n
  <2>1. S \in SUBSET job[w].req.ids /\ job[w].req.op = "bulk"
    BY <1>1 DEF Req
  <2>2. IsFiniteSet(S) /\ Cardinality(M) = n
    BY <1>2, <2>1, BulkMade
  <2>3. QED
    BY <2>2, FS_CardinalityType
<1>5. Len(p) = 2 * n + 2 /\ IsLastSteps(p, Req(w), M)
  <2> HIDE DEF M
  <2>1. QED
    BY <1>1, <1>4, BulkStepsAre
<1>6. plan'[w] = p /\ Req(w)' = Req(w)
  BY <1>2, <1>3 DEF ServerTypes, Jobs, Req
<1> HIDE DEF M, p, n
<1>7. \E i \in 1..Len(p) : p[i] = "list"
  <2>1. 2 * n + 1 \in 1..Len(p) /\ Len(p) + 1 - (2 * n + 1) = 2
    BY <1>4, <1>5
  <2>2. p[2 * n + 1] = StepFromEnd(Req(w), 2)
    BY <1>5, <2>1 DEF IsLastSteps
  <2>3. QED
    BY <1>1, <2>1, <2>2 DEF StepFromEnd
<1>8. Busy(w)'
  BY <1>1, <1>6 DEF Busy, Req, Idle
<1>9. Owes(w)' /\ ~HoldsList(w)'
  BY <1>1, <1>2, <1>6, <1>7, <1>8, HoldsNoList DEF Owes
<1>10. TotalOf(w)'
  BY <1>1, <1>6, <1>9 DEF TotalOf, DocOps
<1>11. LogIsTotal'
  BY <1>1, TotalStays DEF TotalInv, Logged
<1>12. QED
  BY <1>10, <1>11, TotalOfOne

LEMMA TotalFlush ==
  ASSUME Serial, HandlerInv, TotalInv, NEW w \in Worker, Flush(w)
  PROVE  TotalInv'
<1>1. /\ GoesOn(w) /\ plan[w] # <<>> /\ Head(plan[w]) \in {"flush", "zero"} /\ job' = job
      /\ TotalOf(w)
  BY StepsGoOn DEF Flush, At, HandlerInv, TotalInv
<1>2. Req(w).op = "clear" /\ Busy(w) /\ Req(w)' = Req(w) /\ held'[w] = <<>>
  BY <1>1, NextStep DEF GoesOn, Req
<1>3. job'[w].made = {}
  BY <1>1, <1>2 DEF TotalOf
<1>4. TotalOf(w)'
  BY <1>2, <1>3, HoldsNoList DEF TotalOf, DocOps
<1>5. LogIsTotal'
  <2>1. done' = {} \/ (done' = done /\ changes' = changes)
    BY DEF Flush
  <2>2. CASE done' = {}
    BY <2>2 DEF LogIsTotal
  <2>3. CASE done' = done /\ changes' = changes
    BY <2>3, TotalStays DEF TotalInv, Logged
  <2>4. QED
    BY <2>1, <2>2, <2>3
<1>6. QED
  BY <1>4, <1>5, TotalOfOne

LEMMA TotalFinish ==
  ASSUME Serial, HandlerInv, TotalInv, NEW w \in Worker, Finish(w)
  PROVE  TotalInv'
<1>1. /\ Busy(w) /\ plan[w] = <<>> /\ changes' = changes /\ done' = done \cup job[w].made
      /\ job' = [job EXCEPT ![w] = Idle] /\ ServerTypes /\ TotalOf(w)
  BY DEF Finish, Busy, shared, HandlerInv, TotalInv
<1>2. ~Owes(w)
  <2>1. Len(plan[w]) = 0 /\ plan[w] # <<"db">>
    BY <1>1
  <2>2. QED
    BY <2>1 DEF Owes, BulkToMake
<1>3. LogIsTotal'
  BY <1>1, <1>2 DEF TotalOf, TotalInv, LogIsTotal, Told, Logged
<1>4. TotalOf(w)'
  BY <1>1 DEF TotalOf, Busy, ServerTypes
<1>5. QED
  BY <1>3, <1>4, TotalOfOne

LEMMA TotalStep ==
  ASSUME Serial
  PROVE  HandlerInv /\ TotalInv /\ [Next]_vars => TotalInv'
<1> SUFFICES ASSUME HandlerInv, TotalInv, [Next]_vars PROVE TotalInv'
  OBVIOUS
<1>1. CASE UNCHANGED vars
  <2>1. /\ job' = job /\ plan' = plan /\ held' = held /\ changes' = changes /\ db' = db
        /\ done' = done /\ Logged' = Logged
    BY <1>1 DEF vars, shared, Logged
  <2>2. ASSUME NEW w \in Worker PROVE TotalOf(w)'
    BY <2>1 DEF TotalInv, TotalOf, Owes, Busy, BulkToMake, Req, HoldsList, Ahead, Asked, Told
  <2>3. QED
    BY <2>1, <2>2, TotalStays DEF TotalInv
<1>2. ASSUME NEW w \in Worker, NEW r \in Requests, Receive(w, r) PROVE TotalInv'
  BY <1>2, TotalReceive
<1>3. ASSUME NEW w \in Worker, Fetch(w) PROVE TotalInv'
  BY <1>3, TotalFetch
<1>4. ASSUME NEW w \in Worker, Load(w) PROVE TotalInv'
  BY <1>4, TotalLoad
<1>5. ASSUME NEW w \in Worker, Store(w) PROVE TotalInv'
  BY <1>5, TotalStore
<1>6. ASSUME NEW w \in Worker, Create(w) PROVE TotalInv'
  BY <1>6, TotalCreate
<1>7. ASSUME NEW w \in Worker, Update(w) PROVE TotalInv'
  BY <1>7, TotalUpdate
<1>8. ASSUME NEW w \in Worker, CreateBulk(w) PROVE TotalInv'
  BY <1>8, TotalCreateBulk
<1>9. ASSUME NEW w \in Worker, Flush(w) PROVE TotalInv'
  BY <1>9, TotalFlush
<1>10. ASSUME NEW w \in Worker, Finish(w) PROVE TotalInv'
  BY <1>10, TotalFinish
<1>11. QED
  BY <1>1, <1>2, <1>3, <1>4, <1>5, <1>6, <1>7, <1>8, <1>9, <1>10 DEF Next

(* With one request at a time the change log is total: what a finished       *)
(* request changed in the database since the log was cleared is listed, with *)
(* the contents it replaced unless its body named another document than its  *)
(* path.                                                                     *)
THEOREM LogIsTotalInSeries ==
  ASSUME Serial
  PROVE  Spec => []LogIsTotal
<1>1. Init => TotalInv
  BY DEF Init, TotalInv, LogIsTotal, TotalOf, Busy
<1>2. HandlerInv /\ TotalInv /\ [Next]_vars => TotalInv'
  BY TotalStep
<1>3. TotalInv => LogIsTotal
  BY DEF TotalInv
<1>4. QED
  BY <1>1, <1>2, <1>3, HandlersFollowTheirSteps, PTL DEF Spec
=============================================================================
