----------------------------- MODULE EventFeed -----------------------------
(* What the hub promises a browser, with no channels and no goroutines:      *)
(* events come one after the other; a subscriber that joins is shown, in     *)
(* order, the events after the one it joined at, none skipped and none       *)
(* twice, until its subscription ends, which may be at any moment and is     *)
(* for good.                                                                 *)
EXTENDS Integers, Sequences

CONSTANTS Client, MaxEvents

VARIABLES log,    \* the events published so far: 1..log
          start,  \* start[c]: the value of log when c joined, -1 before
          seen,   \* seen[c]: what c has been shown
          left    \* the clients whose subscription has ended

feedVars == <<log, start, seen, left>>

FeedInit ==
  /\ log = 0
  /\ start = [c \in Client |-> -1]
  /\ seen = [c \in Client |-> <<>>]
  /\ left = {}

FeedPublish ==
  /\ log < MaxEvents
  /\ log' = log + 1
  /\ UNCHANGED <<start, seen, left>>

FeedJoin(c) ==
  /\ start[c] = -1
  /\ start' = [start EXCEPT ![c] = log]
  /\ UNCHANGED <<log, seen, left>>

FeedShow(c) ==
  /\ start[c] # -1
  /\ c \notin left
  /\ start[c] + Len(seen[c]) < log
  /\ seen' = [seen EXCEPT ![c] = Append(@, start[c] + Len(@) + 1)]
  /\ UNCHANGED <<log, start, left>>

FeedLeave(c) ==
  /\ c \notin left
  /\ left' = left \cup {c}
  /\ UNCHANGED <<log, start, seen>>

FeedNext == \/ FeedPublish
            \/ \E c \in Client : FeedJoin(c) \/ FeedShow(c) \/ FeedLeave(c)

FeedSpec == FeedInit /\ [][FeedNext]_feedVars

=============================================================================
