---------------------------- MODULE EventStream ----------------------------
(***************************************************************************)
(* The event log and its subscribers: transactions that append events and  *)
(* prune old ones (db/events.py), the /v1/events middleware that polls the *)
(* log for each connection, statement by statement (event_stream.py), and  *)
(* clients that start from a snapshot and reconnect with the last id they  *)
(* applied.  An event is its id: what it says is in Inventory.             *)
(***************************************************************************)
EXTENDS Ordering, Sequences, SequencesExt

CONSTANTS
    Writers,        \* request threads that run mutations
    Clients,        \* subscribers
    NoWriter,       \* nobody holds the event_sequence row
    RetentionLimit, \* EVENT_RETENTION_LIMIT
    PageSize,       \* fetch_events_after's limit, 100 in the code
    MaxEvents,      \* bound: events ever appended
    MaxWire,        \* bound: messages in flight when a poll starts
    MaxLosses       \* bound: lost connections and restarts

ASSUME EventStreamAssumption ==
    /\ NoWriter \notin Writers
    /\ RetentionLimit \in Nat \ {0}
    /\ PageSize \in Nat \ {0}
    /\ MaxEvents \in Nat /\ MaxWire \in Nat /\ MaxLosses \in Nat

VARIABLES
    isolation,  \* "statement": each SELECT sees the latest commit (SQLite,
                \* PostgreSQL); "transaction": all of one poll's see what
                \* the first one saw (MySQL)
    log,        \* committed: event_sequence.value and the ids in inventory_events
    holder,     \* the writer whose UPDATE locked the event_sequence row
    work,       \* the log as that writer's transaction sees it
    conn,       \* the server's end of each client's connection
    wire,       \* messages sent to a client and not received
    cursor,     \* the last event a client applied
    synced,     \* the clients whose graph is the one at their cursor
    losses      \* connections lost so far

vars == <<isolation, log, holder, work, conn, wire, cursor, synced, losses>>

EmptyLog == [seq |-> 0, ids |-> {}]
First(S) == {i \in S : \A j \in S : i <= j}
-----------------------------------------------------------------------------
(* append_event.  The row lock is held until the transaction ends.           *)

\* Mutant: one event too many is pruned.
CutoffTooHigh(id) == id - RetentionLimit + 1

Cutoff(id) == id - RetentionLimit
Appended(l) ==
    LET id == l.seq + 1
    IN  [seq |-> id, ids |-> {i \in l.ids \cup {id} : i > Cutoff(id)}]

CanLock(w) == holder \in {NoWriter, w}

AppendEvent(w) ==
    /\ CanLock(w)
    /\ work.seq < MaxEvents
    /\ holder' = w
    /\ work' = Appended(work)
    /\ UNCHANGED <<isolation, log, conn, wire, cursor, synced, losses>>

Commit(w) ==
    /\ holder = w
    /\ holder' = NoWriter
    /\ log' = work
    /\ UNCHANGED <<isolation, work, conn, wire, cursor, synced, losses>>

Rollback(w) ==
    /\ holder = w
    /\ holder' = NoWriter
    /\ work' = log
    /\ UNCHANGED <<isolation, log, conn, wire, cursor, synced, losses>>
-----------------------------------------------------------------------------
(* The middleware.  A connection polls in statements: MIN(id), the sequence  *)
(* value, and in the loop the rows after its cursor.  The sequence value of  *)
(* a turn of the loop only fills the body of reset-required and is left out. *)

Closed == [phase |-> "closed", cursor |-> 0, minimum |-> {}, seen |-> EmptyLog]

Loop(position) == [phase |-> "minimum", cursor |-> position, minimum |-> {}, seen |-> EmptyLog]

\* Mutant: what is not committed yet can be read.
DirtyReads(c) == work

(* What a statement after the first one of a poll sees.                      *)
Later(c) == IF isolation = "transaction" THEN conn[c].seen ELSE log

ReadMinimum(c) ==
    /\ conn[c].phase \in {"open", "minimum"}
    /\ Len(wire[c]) <= MaxWire
    /\ conn' = [conn EXCEPT ![c].phase = IF @ = "open" THEN "maximum" ELSE "rows",
                            ![c].minimum = First(log.ids),
                            ![c].seen = IF isolation = "transaction" THEN log ELSE @]
    /\ UNCHANGED <<isolation, log, holder, work, wire, cursor, synced, losses>>

\* Mutants: the two ways to be off by one.
ExpiredTooSoon(c) == \E m \in conn[c].minimum : conn[c].cursor < m
ExpiredTooLate(c) == \E m \in conn[c].minimum : conn[c].cursor < m - 2

Expired(c) == \E m \in conn[c].minimum : conn[c].cursor < m - 1

Send(c, messages, end) ==
    /\ wire' = [wire EXCEPT ![c] = @ \o messages]
    /\ conn' = [conn EXCEPT ![c] = end]

Event(i) == [kind |-> "event", id |-> i]
Refusal(kind) == [kind |-> kind, id |-> 0]

(* Before the response starts: the cursor is checked against both bounds.    *)
ReadMaximum(c) ==
    /\ conn[c].phase = "maximum"
    /\ \/ conn[c].cursor > Later(c).seq /\ Send(c, <<Refusal("rejected")>>, Closed)
       \/ conn[c].cursor <= Later(c).seq /\ Expired(c) /\ Send(c, <<Refusal("reset")>>, Closed)
       \/ conn[c].cursor <= Later(c).seq /\ ~Expired(c) /\ Send(c, <<>>, Loop(conn[c].cursor))
    /\ UNCHANGED <<isolation, log, holder, work, cursor, synced, losses>>

(* The rows after the cursor.                                                *)
Waiting(c) == {i \in Later(c).ids : i > conn[c].cursor}

\* Mutant: the page is cut from a descending order.
NewestPage(c) ==
    LET rows == Ascending(Waiting(c))
    IN  SubSeq(rows, 1 + (IF Len(rows) < PageSize THEN 0 ELSE Len(rows) - PageSize), Len(rows))

\* Mutant: a page that is not full waits for more.
FullPages(c) == SubSeq(Ascending(Waiting(c)), 1, IF Cardinality(Waiting(c)) < PageSize THEN 0 ELSE PageSize)

\* Mutant: no LIMIT.
WholeBacklog(c) == Ascending(Waiting(c))

Page(c) ==
    LET rows == Ascending(Waiting(c))
    IN  SubSeq(rows, 1, IF Len(rows) < PageSize THEN Len(rows) ELSE PageSize)

(* The rest of one turn of the loop: the reset check on the minimum read      *)
(* before, then the rows.                                                    *)
ReadRows(c) ==
    /\ conn[c].phase = "rows"
    /\ \/ Expired(c) /\ Send(c, <<Refusal("reset")>>, Closed)
       \/ ~Expired(c) /\ Page(c) = <<>> /\ Send(c, <<>>, Loop(conn[c].cursor))
       \/ ~Expired(c) /\ Page(c) # <<>> /\ Send(c, [i \in DOMAIN Page(c) |-> Event(Page(c)[i])], Loop(Last(Page(c))))
    /\ UNCHANGED <<isolation, log, holder, work, cursor, synced, losses>>
-----------------------------------------------------------------------------
(* The client: the snapshot comes with the sequence value it is current for;  *)
(* a connection sends the last applied id; reset-required asks for a new      *)
(* snapshot.                                                                 *)

Snapshot(c) ==
    /\ c \notin synced
    /\ cursor' = [cursor EXCEPT ![c] = log.seq]
    /\ synced' = synced \cup {c}
    /\ UNCHANGED <<isolation, log, holder, work, conn, wire, losses>>

Connect(c) ==
    /\ c \in synced
    /\ conn[c].phase = "closed" /\ wire[c] = <<>>
    /\ conn' = [conn EXCEPT ![c] = [Loop(cursor[c]) EXCEPT !.phase = "open"]]
    /\ UNCHANGED <<isolation, log, holder, work, wire, cursor, synced, losses>>

Receive(c) ==
    /\ wire[c] # <<>>
    /\ LET message == Head(wire[c])
       IN  \/ message.kind = "event"
              /\ cursor' = [cursor EXCEPT ![c] = message.id]
              /\ UNCHANGED synced
           \/ message.kind # "event"
              /\ synced' = synced \ {c}
              /\ UNCHANGED cursor
    /\ wire' = [wire EXCEPT ![c] = Tail(@)]
    /\ UNCHANGED <<isolation, log, holder, work, conn, losses>>

(* A connection breaks with what is on it; the middleware returns.            *)
Lose(c) ==
    /\ losses < MaxLosses
    /\ conn[c].phase # "closed" \/ wire[c] # <<>>
    /\ conn' = [conn EXCEPT ![c] = Closed]
    /\ wire' = [wire EXCEPT ![c] = <<>>]
    /\ losses' = losses + 1
    /\ UNCHANGED <<isolation, log, holder, work, cursor, synced>>

(* The server stops and starts again: open transactions are gone, too.        *)
Restart ==
    /\ losses < MaxLosses
    /\ conn' = [c \in Clients |-> Closed]
    /\ wire' = [c \in Clients |-> <<>>]
    /\ holder' = NoWriter
    /\ work' = log
    /\ losses' = losses + 1
    /\ UNCHANGED <<isolation, log, cursor, synced>>
-----------------------------------------------------------------------------
Init ==
    /\ isolation \in {"statement", "transaction"}
    /\ log = EmptyLog /\ work = EmptyLog
    /\ holder = NoWriter
    /\ conn = [c \in Clients |-> Closed]
    /\ wire = [c \in Clients |-> <<>>]
    /\ cursor = [c \in Clients |-> 0]
    /\ synced = {}
    /\ losses = 0

Server(c) == ReadMinimum(c) \/ ReadMaximum(c) \/ ReadRows(c)
Client(c) == Snapshot(c) \/ Connect(c) \/ Receive(c)

Next ==
    \/ \E w \in Writers : AppendEvent(w) \/ Commit(w) \/ Rollback(w)
    \/ \E c \in Clients : Server(c) \/ Client(c) \/ Lose(c)
    \/ Restart

Spec == Init /\ [][Next]_vars

(* The middleware's loop runs as long as the connection is there, and a       *)
(* client that lost its connection opens another.  Nobody has to write.       *)
FairSpec ==
    /\ Spec
    /\ \A c \in Clients : WF_vars(Server(c)) /\ WF_vars(Client(c))
-----------------------------------------------------------------------------
EventIds == 1..MaxEvents
Cursors == 0..MaxEvents
Logs == [seq : Cursors, ids : SUBSET EventIds]
Messages == [kind : {"event"}, id : EventIds] \cup [kind : {"reset", "rejected"}, id : {0}]

TypeOK ==
    /\ isolation \in {"statement", "transaction"}
    /\ log \in Logs /\ work \in Logs
    /\ holder \in Writers \cup {NoWriter}
    /\ conn \in [Clients -> [phase : {"closed", "open", "minimum", "maximum", "rows"},
                            cursor : Cursors, minimum : SUBSET EventIds, seen : Logs]]
    /\ wire \in [Clients -> Seq(Messages)]
    /\ \A c \in Clients : Len(wire[c]) <= MaxWire + PageSize
    /\ cursor \in [Clients -> Cursors]
    /\ synced \subseteq Clients
    /\ losses \in 0..MaxLosses

(* Committed history is the last RetentionLimit ids without a hole, for       *)
(* every interleaving of appends, commits and rollbacks, so a client whose   *)
(* next id is in range can always be served (append_event).                  *)
IsTail(l) == l.ids = {i \in 1..l.seq : i > l.seq - RetentionLimit}
LogIsTail == IsTail(log) /\ IsTail(work)

(* The id the client will have when it has received all that is under way.    *)
Position(c) ==
    LET events == {i \in DOMAIN wire[c] : wire[c][i].kind = "event"}
    IN  IF events = {} THEN cursor[c]
        ELSE wire[c][CHOOSE i \in events : \A j \in events : j <= i].id

(* No client is ahead of what is committed, whatever is rolled back, so the   *)
(* server never turns down a cursor it has given out (event_stream.py 39-41). *)
NeverAhead ==
    \A c \in Clients :
        /\ Position(c) <= log.seq
        /\ \A i \in 1..Len(wire[c]) : wire[c][i].kind # "rejected"

(* A client is sent to the snapshot only when the event it needs next is      *)
(* really gone (event_stream.py 55-58, 65-68).                                *)
ResetsAreNeeded ==
    \A c \in Clients : \A i \in 1..Len(wire[c]) :
        wire[c][i].kind = "reset" => Position(c) < log.seq /\ Position(c) + 1 \notin log.ids

(* Over one connection after another, an event is handed to a client at most  *)
(* once and in order, and one that is passed over is one that has been        *)
(* pruned: as long as it is retained the client gets it (or a snapshot).      *)
OnlyPrunedEventsAreSkipped ==
    [][\A c \in synced : cursor'[c] # cursor[c] =>
          /\ cursor'[c] > cursor[c]
          /\ ((cursor[c] + 1)..(cursor'[c] - 1)) \cap log.ids = {}]_vars

(* The documented promise, README.md 305-306: a client whose cursor is older  *)
(* than the retained history is told so; it never misses an event silently.  *)
NothingIsSkipped ==
    [][\A c \in synced : cursor'[c] # cursor[c] => cursor'[c] = cursor[c] + 1]_vars

(* Where a poll reads one snapshot of the database the stream implements the  *)
(* exact feed, and where each statement reads its own the lossy one.          *)
PositionInFeed == INSTANCE Feed WITH
    head <- log.seq, position <- cursor, lossy <- isolation = "statement"
FollowsFeed == PositionInFeed!Spec

(* A committed event reaches every client, in the stream or in a snapshot,    *)
(* even if connections break and history is pruned meanwhile.                 *)
CatchesUp ==
    \A c \in Clients : \A e \in EventIds : (log.seq >= e) ~> (cursor[c] >= e)
=============================================================================
