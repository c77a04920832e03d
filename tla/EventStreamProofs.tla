-------------------------- MODULE EventStreamProofs --------------------------
(***************************************************************************)
(* What holds of EventStream for any number of writers and clients, any     *)
(* retention and page size, and any number of events and lost connections.  *)
(***************************************************************************)
EXTENDS EventStream, FiniteSetTheorems, SequenceTheorems, TLAPS

(* Nothing else holds the event_sequence row while a writer does, and what it   *)
(* has appended comes after what is committed.                                  *)
WriterIsAhead ==
    /\ holder = NoWriter => work = log
    /\ holder # NoWriter => work.seq > log.seq

Pruned(i) == i <= log.seq - RetentionLimit

(* What a poll has read so far is a state of the log that was committed; it may  *)
(* be old, but not older than its connection.                                   *)
InStep(c) ==
    /\ IsTail(conn[c].seen) /\ conn[c].seen.seq <= log.seq
    /\ \A m \in conn[c].minimum : m = 1 \/ Pruned(m - 1)
    /\ conn[c].phase \in {"maximum", "rows"} =>
          /\ Len(wire[c]) <= MaxWire
          /\ isolation = "transaction" => /\ conn[c].minimum = First(conn[c].seen.ids)
                                          /\ conn[c].cursor <= conn[c].seen.seq
PollsAreInStep == \A c \in Clients : InStep(c)

(* Two events that follow each other on the way to a client.                     *)
Follows(i, j) ==
    /\ i < j /\ j <= log.seq
    /\ \A k \in (i + 1)..(j - 1) : Pruned(k)
    /\ isolation = "transaction" => j = i + 1

(* The id the client has when it has received the messages before the n-th one.  *)
Before(c, n) == IF n = 1 THEN cursor[c] ELSE wire[c][n - 1].id

InOrder(c) ==
    /\ cursor[c] <= log.seq
    /\ \A n \in 1..Len(wire[c]) :
          \/ wire[c][n].kind = "event" /\ Follows(Before(c, n), wire[c][n].id)
          \/ /\ wire[c][n].kind = "reset" /\ Pruned(Before(c, n) + 1)
             /\ n = Len(wire[c]) /\ conn[c].phase = "closed"
    /\ conn[c].phase # "closed" => conn[c].cursor = Before(c, Len(wire[c]) + 1)
    /\ c \notin synced => conn[c].phase = "closed" /\ wire[c] = <<>>
StreamsAreInOrder == \A c \in Clients : InOrder(c)

IInv == TypeOK /\ LogIsTail /\ WriterIsAhead /\ PollsAreInStep /\ StreamsAreInOrder
-----------------------------------------------------------------------------
(* The rows of the inventory_events table.                                      *)

(* What a poll reads is a tail of the history.                                  *)
LEMMA LaterIsTail ==
    ASSUME TypeOK, LogIsTail, PollsAreInStep, NEW c \in Clients
    PROVE  /\ Later(c) \in Logs /\ IsTail(Later(c)) /\ Later(c).seq <= log.seq
           /\ conn[c].cursor \in Cursors
<1>1. conn[c] \in [phase : {"closed", "open", "minimum", "maximum", "rows"},
                   cursor : Cursors, minimum : SUBSET EventIds, seen : Logs]
  BY DEF TypeOK
<1>2. log \in Logs /\ log.seq \in Int
  BY DEF TypeOK, Logs, Cursors
<1>3. IsTail(conn[c].seen) /\ conn[c].seen.seq <= log.seq
  BY DEF PollsAreInStep, InStep
<1> QED BY <1>1, <1>2, <1>3 DEF LogIsTail, Later

(* The next event that a poll after position p can find in a history of n.      *)
Oldest(p, n) == IF p >= n - RetentionLimit THEN p + 1 ELSE n - RetentionLimit + 1

LEMMA AscendingInterval ==
    ASSUME NEW lo \in Int, NEW hi \in Int, lo <= hi + 1
    PROVE  Ascending(lo..hi) = [k \in 1..(hi - lo + 1) |-> lo + k - 1]
<1>1. Cardinality(lo..hi) = hi - lo + 1
  BY FS_Interval
<1>2. ASSUME NEW i \in lo..hi PROVE Cardinality({j \in lo..hi : j < i}) = i - lo
  <2>1. {j \in lo..hi : j < i} = lo..(i - 1)
    OBVIOUS
  <2>2. Cardinality(lo..(i - 1)) = i - lo
    <3>1. i - 1 \in Int /\ ~(lo > i - 1 + 1)
      OBVIOUS
    <3>2. Cardinality(lo..(i - 1)) = IF lo > i - 1 THEN 0 ELSE (i - 1) - lo + 1
      BY <3>1, FS_Interval
    <3> QED BY <3>1, <3>2
  <2> QED BY <2>1, <2>2
<1>3. ASSUME NEW k \in 1..(hi - lo + 1)
      PROVE  (CHOOSE i \in lo..hi : Cardinality({j \in lo..hi : j < i}) = k - 1) = lo + k - 1
  <2>1. \A i \in lo..hi : Cardinality({j \in lo..hi : j < i}) = k - 1 <=> i = lo + k - 1
    BY <1>2
  <2>2. lo + k - 1 \in lo..hi
    OBVIOUS
  <2> QED BY <2>1, <2>2
<1> QED BY <1>1, <1>3 DEF Ascending, Place

(* A page is the ids that follow one another from the oldest one on.            *)
LEMMA PageIsARun ==
    ASSUME TypeOK, LogIsTail, PollsAreInStep, NEW c \in Clients
    PROVE  LET n == Later(c).seq
               lo == Oldest(conn[c].cursor, n)
           IN  /\ Page(c) \in Seq(EventIds) /\ Len(Page(c)) <= PageSize
               /\ \A k \in 1..Len(Page(c)) : Page(c)[k] = lo + k - 1 /\ lo + k - 1 <= n
<1> DEFINE n == Later(c).seq
           p == conn[c].cursor
           lo == Oldest(p, n)
           hi == IF n < lo THEN lo - 1 ELSE n
<1>1. /\ n \in Cursors /\ p \in Cursors
      /\ Later(c).ids = {i \in 1..n : i > n - RetentionLimit}
  BY LaterIsTail DEF Logs, IsTail
<1>2. /\ n \in Nat /\ p \in Nat /\ n <= MaxEvents
      /\ RetentionLimit \in Nat \ {0} /\ PageSize \in Nat \ {0}
  BY <1>1, EventStreamAssumption DEF Cursors
<1>3. lo \in Int /\ lo >= 1 /\ hi \in Int /\ lo <= hi + 1
  BY <1>2 DEF Oldest
<1>4. Waiting(c) = lo..hi
  BY <1>1, <1>2 DEF Waiting, Oldest
<1> DEFINE rows == Ascending(Waiting(c))
<1>5. rows = [k \in 1..(hi - lo + 1) |-> lo + k - 1]
  BY <1>3, <1>4, AscendingInterval
<1>6. Len(rows) = hi - lo + 1
  BY <1>3, <1>5
<1>7. \A k \in 1..(hi - lo + 1) : rows[k] = lo + k - 1 /\ lo + k - 1 <= n /\ rows[k] \in EventIds
  <2> HIDE DEF lo, n, rows
  <2> SUFFICES ASSUME NEW k \in 1..(hi - lo + 1)
               PROVE  rows[k] = lo + k - 1 /\ lo + k - 1 <= n /\ rows[k] \in EventIds
    OBVIOUS
  <2>1. rows[k] = lo + k - 1 /\ lo + k - 1 \in Int /\ lo + k - 1 >= 1
    BY <1>3, <1>5
  <2>2. lo + k - 1 <= n
    BY <1>2, <1>3
  <2> QED BY <2>1, <2>2, <1>2, EventStreamAssumption DEF EventIds
<1> DEFINE m == IF hi - lo + 1 < PageSize THEN hi - lo + 1 ELSE PageSize
<1>8. m \in Int /\ m <= hi - lo + 1 /\ m <= PageSize /\ m >= 0
  BY <1>2, <1>3
<1>9. Page(c) = SubSeq(rows, 1, m)
  BY <1>6 DEF Page
<1> HIDE DEF rows, m, lo, hi, n
<1>10. \A k \in 1..m : rows[k] \in EventIds
  BY <1>3, <1>7, <1>8
<1>11. /\ SubSeq(rows, 1, m) \in Seq(EventIds)
       /\ Len(SubSeq(rows, 1, m)) = m
       /\ \A k \in 1..m : SubSeq(rows, 1, m)[k] = rows[k]
  <2>1. /\ SubSeq(rows, 1, m) \in Seq(EventIds)
        /\ Len(SubSeq(rows, 1, m)) = IF 1 <= m THEN m - 1 + 1 ELSE 0
        /\ \A k \in 1..(m - 1 + 1) : SubSeq(rows, 1, m)[k] = rows[1 + k - 1]
    BY <1>8, <1>10, SubSeqProperties
  <2> QED BY <2>1, <1>8
<1>12. \A k \in 1..m : Page(c)[k] = lo + k - 1 /\ lo + k - 1 <= n
  BY <1>3, <1>7, <1>8, <1>9, <1>11
<1> QED BY <1>8, <1>9, <1>11, <1>12 DEF lo, n
-----------------------------------------------------------------------------
(* What is known of one connection.                                             *)

Conns == [phase : {"closed", "open", "minimum", "maximum", "rows"},
          cursor : Cursors, minimum : SUBSET EventIds, seen : Logs]

LEMMA MessageTypes ==
    \A m \in Messages : /\ m.id \in Cursors /\ m.id \in Nat
                        /\ m.kind = "event" => m.id \in EventIds
BY EventStreamAssumption DEF Messages, EventIds, Cursors

LEMMA ConnectionTypes ==
    ASSUME TypeOK, NEW c \in Clients
    PROVE  /\ conn[c] \in Conns /\ conn[c].cursor \in Nat
           /\ wire[c] \in Seq(Messages) /\ Len(wire[c]) \in Nat
           /\ \A n \in 1..Len(wire[c]) : wire[c][n] \in Messages /\ wire[c][n].id \in Nat
           /\ cursor[c] \in Nat
           /\ log.seq \in Nat /\ log.seq <= MaxEvents
<1>1. conn[c] \in Conns /\ conn[c].cursor \in Nat
  BY EventStreamAssumption DEF TypeOK, Conns, Cursors
<1>2. wire[c] \in Seq(Messages) /\ Len(wire[c]) \in Nat
  BY DEF TypeOK
<1>3. \A n \in 1..Len(wire[c]) : wire[c][n] \in Messages
  BY <1>2
<1>4. log.seq \in Cursors /\ cursor[c] \in Cursors
  BY DEF TypeOK, Logs
<1> QED BY <1>1, <1>2, <1>3, <1>4, MessageTypes, EventStreamAssumption DEF Cursors

(* No id on its way to a client, or at either end, is newer than the log.       *)
LEMMA StreamIsBehind ==
    ASSUME TypeOK, StreamsAreInOrder, NEW c \in Clients
    PROVE  /\ \A n \in 1..(Len(wire[c]) + 1) : Before(c, n) \in Nat /\ Before(c, n) <= log.seq
           /\ conn[c].phase # "closed" => conn[c].cursor <= log.seq
<1> USE ConnectionTypes
<1>1. cursor[c] <= log.seq
  BY DEF StreamsAreInOrder, InOrder
<1>2. ASSUME NEW n \in 1..Len(wire[c])
      PROVE  wire[c][n].id \in Nat /\ wire[c][n].id <= log.seq
  <2>1. CASE wire[c][n].kind = "event"
    <3>1. Follows(Before(c, n), wire[c][n].id)
      BY <2>1 DEF StreamsAreInOrder, InOrder
    <3> QED BY <3>1 DEF Follows
  <2>2. CASE wire[c][n].kind # "event"
    <3>1. wire[c][n].id = 0
      BY <2>2 DEF Messages
    <3> QED BY <3>1
  <2> QED BY <2>1, <2>2
<1>3. \A n \in 1..(Len(wire[c]) + 1) : Before(c, n) \in Nat /\ Before(c, n) <= log.seq
  <2> SUFFICES ASSUME NEW n \in 1..(Len(wire[c]) + 1)
               PROVE  Before(c, n) \in Nat /\ Before(c, n) <= log.seq
    OBVIOUS
  <2>1. CASE n = 1
    BY <2>1, <1>1 DEF Before
  <2>2. CASE n # 1
    <3>1. n - 1 \in 1..Len(wire[c])
      BY <2>2
    <3> QED BY <3>1, <2>2, <1>2 DEF Before
  <2> QED BY <2>1, <2>2
<1>4. conn[c].phase # "closed" => conn[c].cursor = Before(c, Len(wire[c]) + 1)
  BY DEF StreamsAreInOrder, InOrder
<1>5. Len(wire[c]) + 1 \in 1..(Len(wire[c]) + 1)
  OBVIOUS
<1> QED BY <1>3, <1>4, <1>5

(* A history that only grows takes nothing back.                                *)
LEMMA HistoryGrows ==
    ASSUME IInv, log' \in Logs, log'.seq >= log.seq,
           UNCHANGED <<isolation, conn, wire, cursor, synced>>
    PROVE  PollsAreInStep' /\ StreamsAreInOrder'
<1>1. log.seq \in Nat /\ log'.seq \in Nat /\ RetentionLimit \in Nat
  BY EventStreamAssumption DEF IInv, TypeOK, Logs, Cursors
<1>2. \A i \in Int : Pruned(i) => Pruned(i)'
  BY <1>1 DEF Pruned
<1>3. \A c \in Clients : \A m \in conn[c].minimum : m \in Int
  BY ConnectionTypes DEF IInv, Conns, EventIds
<1>4. \A c \in Clients : conn[c].seen.seq \in Nat
  BY ConnectionTypes, EventStreamAssumption DEF IInv, Conns, Logs, Cursors
<1>5. PollsAreInStep'
  <2> SUFFICES ASSUME NEW c \in Clients
               PROVE  /\ IsTail(conn[c].seen) /\ conn[c].seen.seq <= log'.seq
                      /\ \A m \in conn[c].minimum : m = 1 \/ Pruned(m - 1)'
                      /\ conn[c].phase \in {"maximum", "rows"} =>
                            /\ Len(wire[c]) <= MaxWire
                            /\ isolation = "transaction" =>
                                  /\ conn[c].minimum = First(conn[c].seen.ids)
                                  /\ conn[c].cursor <= conn[c].seen.seq
    BY DEF PollsAreInStep, InStep, IsTail
  <2> QED BY <1>1, <1>2, <1>3, <1>4 DEF IInv, PollsAreInStep, InStep
<1>6. ASSUME NEW i \in Int, NEW j \in Int, Follows(i, j) PROVE Follows(i, j)'
  BY <1>1, <1>2, <1>6 DEF Follows
<1>7. StreamsAreInOrder'
  <2> SUFFICES ASSUME NEW c \in Clients
               PROVE  /\ cursor[c] <= log'.seq
                      /\ \A n \in 1..Len(wire[c]) :
                            \/ wire[c][n].kind = "event" /\ Follows(Before(c, n), wire[c][n].id)'
                            \/ /\ wire[c][n].kind = "reset" /\ Pruned(Before(c, n) + 1)'
                               /\ n = Len(wire[c]) /\ conn[c].phase = "closed"
                      /\ conn[c].phase # "closed" => conn[c].cursor = Before(c, Len(wire[c]) + 1)
                      /\ c \notin synced => conn[c].phase = "closed" /\ wire[c] = <<>>
    BY DEF StreamsAreInOrder, InOrder, Before
  <2>1. cursor[c] \in Nat /\ cursor[c] <= log'.seq
    BY <1>1, ConnectionTypes DEF IInv, StreamsAreInOrder, InOrder
  <2>2. ASSUME NEW n \in 1..Len(wire[c])
        PROVE  \/ wire[c][n].kind = "event" /\ Follows(Before(c, n), wire[c][n].id)'
               \/ /\ wire[c][n].kind = "reset" /\ Pruned(Before(c, n) + 1)'
                  /\ n = Len(wire[c]) /\ conn[c].phase = "closed"
    <3>1. Before(c, n) \in Int /\ Before(c, n) + 1 \in Int /\ wire[c][n].id \in Int
      BY StreamIsBehind, ConnectionTypes DEF IInv
    <3>2. Before(c, n)' = Before(c, n)
      BY DEF Before
    <3>3. \/ wire[c][n].kind = "event" /\ Follows(Before(c, n), wire[c][n].id)
          \/ /\ wire[c][n].kind = "reset" /\ Pruned(Before(c, n) + 1)
             /\ n = Len(wire[c]) /\ conn[c].phase = "closed"
      BY DEF IInv, StreamsAreInOrder, InOrder
    <3>4. CASE wire[c][n].kind = "event" /\ Follows(Before(c, n), wire[c][n].id)
      BY <3>1, <3>4, <1>6, <3>2 DEF Follows
    <3>5. CASE wire[c][n].kind = "reset" /\ Pruned(Before(c, n) + 1)
      BY <3>1, <3>3, <3>5, <1>2, <3>2 DEF Pruned
    <3> QED BY <3>3, <3>4, <3>5
  <2> QED BY <2>1, <2>2 DEF IInv, StreamsAreInOrder, InOrder
<1> QED BY <1>5, <1>7
-----------------------------------------------------------------------------
(* The writers.                                                                 *)

LEMMA AppendKeepsTail ==
    ASSUME NEW l \in Logs, IsTail(l), l.seq < MaxEvents
    PROVE  Appended(l) \in Logs /\ IsTail(Appended(l)) /\ Appended(l).seq = l.seq + 1
<1>1. l.seq \in Nat /\ MaxEvents \in Nat /\ RetentionLimit \in Nat \ {0}
  BY EventStreamAssumption DEF Logs, Cursors
<1>2. l.seq + 1 \in Cursors /\ l.seq + 1 \in EventIds
  BY <1>1 DEF Cursors, EventIds
<1> DEFINE kept == {i \in l.ids \cup {l.seq + 1} : i > l.seq + 1 - RetentionLimit}
<1>3. Appended(l) = [seq |-> l.seq + 1, ids |-> kept]
  <2> DEFINE next == l.seq + 1
  <2>1. Appended(l) = [seq |-> next, ids |-> {i \in l.ids \cup {next} : i > Cutoff(next)}]
    BY DEF Appended
  <2>2. Cutoff(next) = l.seq + 1 - RetentionLimit
    BY <1>1 DEF Cutoff
  <2> QED BY <2>1, <2>2
<1>4. kept \in SUBSET EventIds
  BY <1>2 DEF Logs
<1>5. kept = {i \in 1..(l.seq + 1) : i > l.seq + 1 - RetentionLimit}
  BY <1>1 DEF IsTail
<1> HIDE DEF kept
<1>6. Appended(l).seq = l.seq + 1 /\ Appended(l).ids = kept
  BY <1>3
<1>7. IsTail(Appended(l))
  BY <1>1, <1>5, <1>6 DEF IsTail
<1> QED BY <1>2, <1>3, <1>4, <1>6, <1>7 DEF Logs

LEMMA AppendEventKeeps == ASSUME IInv, NEW w \in Writers, AppendEvent(w) PROVE IInv'
<1> USE DEF IInv
<1>1. work \in Logs /\ log \in Logs /\ IsTail(work) /\ IsTail(log)
  BY DEF TypeOK, LogIsTail
<1>2. work' \in Logs /\ IsTail(work') /\ work'.seq = work.seq + 1
  BY <1>1, AppendKeepsTail DEF AppendEvent
<1>3. TypeOK'
  BY <1>2 DEF AppendEvent, TypeOK
<1>4. LogIsTail'
  BY <1>1, <1>2 DEF AppendEvent, LogIsTail, IsTail
<1>5. WriterIsAhead'
  <2>1. work.seq \in Int /\ log.seq \in Int
    BY <1>1 DEF Logs, Cursors
  <2>2. work.seq >= log.seq
    BY <2>1 DEF WriterIsAhead
  <2> QED BY <1>2, <2>1, <2>2, EventStreamAssumption DEF AppendEvent, WriterIsAhead
<1>6. PollsAreInStep' /\ StreamsAreInOrder'
  <2>1. log' = log /\ log.seq >= log.seq
    BY <1>1 DEF AppendEvent, Logs, Cursors
  <2> QED BY <1>1, <2>1, HistoryGrows DEF AppendEvent
<1> QED BY <1>3, <1>4, <1>5, <1>6

LEMMA CommitKeeps == ASSUME IInv, NEW w \in Writers, Commit(w) PROVE IInv'
<1> USE DEF IInv
<1>1. work \in Logs /\ log \in Logs /\ IsTail(work) /\ w # NoWriter
  BY EventStreamAssumption DEF TypeOK, LogIsTail
<1>2. TypeOK'
  BY <1>1 DEF Commit, TypeOK
<1>3. LogIsTail' /\ WriterIsAhead'
  BY <1>1 DEF Commit, LogIsTail, IsTail, WriterIsAhead
<1>4. log'.seq >= log.seq
  BY <1>1 DEF Commit, WriterIsAhead, Logs, Cursors
<1>5. PollsAreInStep' /\ StreamsAreInOrder'
  BY <1>1, <1>4, HistoryGrows DEF Commit
<1> QED BY <1>2, <1>3, <1>5

LEMMA RollbackKeeps == ASSUME IInv, NEW w \in Writers, Rollback(w) PROVE IInv'
<1> USE DEF IInv
<1>1. log \in Logs /\ IsTail(log) /\ log.seq >= log.seq
  BY DEF TypeOK, LogIsTail, Logs, Cursors
<1>2. TypeOK'
  BY <1>1 DEF Rollback, TypeOK
<1>3. LogIsTail' /\ WriterIsAhead'
  BY <1>1 DEF Rollback, LogIsTail, IsTail, WriterIsAhead
<1>4. PollsAreInStep' /\ StreamsAreInOrder'
  BY <1>1, HistoryGrows DEF Rollback
<1> QED BY <1>2, <1>3, <1>4
-----------------------------------------------------------------------------
(* The connections.  A step of one leaves the others alone, and the log.        *)

Apart(c) ==
    /\ UNCHANGED <<isolation, log>>
    /\ \A d \in Clients \ {c} :
          /\ conn'[d] = conn[d] /\ wire'[d] = wire[d] /\ cursor'[d] = cursor[d]
          /\ d \in synced' <=> d \in synced

LEMMA OneConnectionMoves ==
    ASSUME IInv, NEW c \in Clients, Apart(c), InStep(c)', InOrder(c)'
    PROVE  PollsAreInStep' /\ StreamsAreInOrder'
<1>1. \A d \in Clients : InStep(d) /\ InOrder(d)
  BY DEF IInv, PollsAreInStep, StreamsAreInOrder, InStep, InOrder
<1>2. \A d \in Clients \ {c} : InStep(d)' /\ InOrder(d)'
  BY <1>1 DEF Apart, InStep, InOrder, Before, Follows, Pruned, IsTail
<1>3. \A d \in Clients : InStep(d)' /\ InOrder(d)'
  BY <1>2
<1>4. PollsAreInStep'
  BY <1>3 DEF PollsAreInStep, InStep
<1>5. StreamsAreInOrder'
  BY <1>3 DEF StreamsAreInOrder, InOrder
<1> QED BY <1>4, <1>5

LEMMA ReadMinimumKeeps == ASSUME IInv, NEW c \in Clients, ReadMinimum(c) PROVE IInv'
<1> USE DEF IInv
<1> DEFINE phase == IF conn[c].phase = "open" THEN "maximum" ELSE "rows"
           seen == IF isolation = "transaction" THEN log ELSE conn[c].seen
<1>1. /\ conn[c] \in Conns /\ log \in Logs /\ IsTail(log) /\ log.seq \in Nat
      /\ conn[c].cursor <= log.seq /\ RetentionLimit \in Nat \ {0}
  BY ConnectionTypes, StreamIsBehind, EventStreamAssumption
  DEF TypeOK, LogIsTail, ReadMinimum
<1>2. /\ conn'[c] = [phase |-> phase, cursor |-> conn[c].cursor,
                     minimum |-> First(log.ids), seen |-> seen]
      /\ \A d \in Clients \ {c} : conn'[d] = conn[d]
      /\ conn' = [conn EXCEPT ![c] = conn'[c]]
  BY <1>1 DEF ReadMinimum, TypeOK, Conns
<1>3. First(log.ids) \in SUBSET EventIds
  BY <1>1 DEF First, Logs
<1>4. conn'[c] \in Conns
  BY <1>1, <1>2, <1>3 DEF Conns
<1>5. TypeOK'
  BY <1>2, <1>4 DEF ReadMinimum, TypeOK, Conns
<1>6. LogIsTail' /\ WriterIsAhead'
  BY DEF ReadMinimum, LogIsTail, WriterIsAhead, IsTail
<1>7. ASSUME NEW m \in First(log.ids) PROVE m = 1 \/ Pruned(m - 1)
  <2>1. m \in 1..log.seq /\ \A j \in log.ids : m <= j
    BY <1>1 DEF First, IsTail
  <2>2. m # 1 => m - 1 \in 1..log.seq /\ m - 1 \notin log.ids
    BY <1>1, <2>1
  <2> QED BY <1>1, <2>1, <2>2 DEF IsTail, Pruned
<1>8. IsTail(seen) /\ seen.seq <= log.seq
  BY <1>1 DEF PollsAreInStep, InStep
<1>9. InStep(c)'
  <2>1. IsTail(conn'[c].seen) /\ conn'[c].seen.seq <= log'.seq
    BY <1>2, <1>8 DEF IsTail, ReadMinimum
  <2>2. \A m \in First(log.ids) : m = 1 \/ Pruned(m - 1)'
    BY <1>7 DEF Pruned, ReadMinimum
  <2>3. phase \in {"maximum", "rows"} =>
          /\ Len(wire'[c]) <= MaxWire
          /\ isolation' = "transaction" => First(log.ids) = First(seen.ids) /\ conn[c].cursor <= seen.seq
    BY <1>1 DEF ReadMinimum
  <2>4. IsTail(conn[c].seen)' <=> IsTail(conn'[c].seen)
    BY DEF IsTail
  <2> QED BY <1>2, <2>1, <2>2, <2>3, <2>4 DEF InStep, First
<1>10. InOrder(c)'
  <2>1. InOrder(c) /\ conn[c].phase # "closed" /\ conn'[c].phase # "closed"
    BY <1>2 DEF StreamsAreInOrder, ReadMinimum
  <2>2. conn'[c].cursor = conn[c].cursor
    BY <1>2
  <2> QED BY <2>1, <2>2 DEF InOrder, Before, Follows, Pruned, ReadMinimum
<1>11. Apart(c)
  BY <1>2 DEF Apart, ReadMinimum
<1> QED BY <1>5, <1>6, <1>9, <1>10, <1>11, OneConnectionMoves

(* The answers of a poll go behind what is already on its way.                  *)
LEMMA SendKeeps ==
    ASSUME IInv, NEW c \in Clients, conn[c].phase \in {"maximum", "rows"},
           NEW messages \in Seq(Messages), Len(messages) <= PageSize,
           NEW end \in Conns, Send(c, messages, end),
           UNCHANGED <<isolation, log, holder, work, cursor, synced, losses>>,
           \A k \in 1..Len(messages) :
              LET before == IF k = 1 THEN conn[c].cursor ELSE messages[k - 1].id
              IN  \/ messages[k].kind = "event" /\ Follows(before, messages[k].id)
                  \/ /\ messages[k].kind = "reset" /\ Pruned(before + 1)
                     /\ k = Len(messages) /\ end.phase = "closed",
           \/ end = Closed
           \/ end = Loop(IF messages = <<>> THEN conn[c].cursor ELSE messages[Len(messages)].id)
    PROVE  IInv'
<1> USE DEF IInv
<1> DEFINE m == Len(messages)
<1>0. PICK l \in Nat : l = Len(wire[c])
  BY ConnectionTypes
<1>1. /\ l \in Nat /\ m \in Nat /\ l <= MaxWire /\ MaxWire \in Nat /\ PageSize \in Nat
      /\ wire[c] \in Seq(Messages) /\ conn[c].cursor \in Nat /\ conn[c].phase # "closed"
      /\ log.seq \in Nat /\ RetentionLimit \in Nat /\ cursor[c] \in Nat
  BY <1>0, ConnectionTypes, EventStreamAssumption DEF PollsAreInStep, InStep
<1>2. /\ conn'[c] = end /\ wire'[c] = wire[c] \o messages
      /\ \A d \in Clients \ {c} : conn'[d] = conn[d] /\ wire'[d] = wire[d]
  BY DEF Send, TypeOK
<1>3. /\ wire'[c] \in Seq(Messages) /\ Len(wire'[c]) = l + m
      /\ \A i \in 1..(l + m) : wire'[c][i] = IF i <= l THEN wire[c][i] ELSE messages[i - l]
  BY <1>0, <1>1, <1>2, ConcatProperties
<1> HIDE DEF m
<1>4. TypeOK'
  <2>1. conn' \in [Clients -> Conns]
    BY DEF Send, TypeOK, Conns
  <2>2. wire' \in [Clients -> Seq(Messages)]
    BY <1>2, <1>3 DEF Send, TypeOK
  <2>3. \A d \in Clients : Len(wire'[d]) <= MaxWire + PageSize
    <3>1. Len(wire'[c]) <= MaxWire + PageSize
      BY <1>1, <1>3 DEF m
    <3> QED BY <1>2, <3>1 DEF TypeOK
  <2> QED BY <2>1, <2>2, <2>3 DEF TypeOK, Conns
<1>5. LogIsTail' /\ WriterIsAhead'
  BY DEF LogIsTail, WriterIsAhead, IsTail
<1>6. InStep(c)'
  <2>1. end.seen = EmptyLog /\ end.minimum = {} /\ end.phase \in {"closed", "minimum"}
    BY DEF Closed, Loop
  <2>2. EmptyLog.seq = 0 /\ EmptyLog.ids = {}
    BY DEF EmptyLog
  <2>3. IsTail(EmptyLog)
    <3>1. {i \in 1..0 : i > 0 - RetentionLimit} = {}
      OBVIOUS
    <3> QED BY <3>1, <2>2 DEF IsTail
  <2> QED BY <1>1, <1>2, <2>1, <2>2, <2>3 DEF InStep, IsTail
<1>7. /\ \A n \in 1..(l + 1) : Before(c, n)' = Before(c, n)
      /\ \A n \in 2..(m + 1) : Before(c, l + n)' = messages[n - 1].id
      /\ Before(c, l + 1) = conn[c].cursor
  <2>1. Before(c, l + 1) = conn[c].cursor
    BY <1>0, <1>1 DEF StreamsAreInOrder, InOrder
  <2>2. ASSUME NEW n \in 1..(l + 1) PROVE Before(c, n)' = Before(c, n)
    <3>1. n # 1 => n - 1 \in 1..(l + m) /\ n - 1 <= l
      BY <1>1
    <3> QED BY <1>3, <3>1 DEF Before
  <2>3. ASSUME NEW n \in 2..(m + 1) PROVE Before(c, l + n)' = messages[n - 1].id
    <3>1. l + n # 1 /\ l + n - 1 \in 1..(l + m) /\ ~(l + n - 1 <= l) /\ l + n - 1 - l = n - 1
      BY <1>1
    <3> QED BY <1>3, <3>1 DEF Before
  <2> QED BY <2>1, <2>2, <2>3
<1>8. InOrder(c)'
  <2>1. cursor'[c] <= log'.seq
    BY DEF StreamsAreInOrder, InOrder
  <2>2. c \in synced'
    BY <1>1 DEF StreamsAreInOrder, InOrder
  <2>3. conn'[c].phase # "closed" => conn'[c].cursor = Before(c, l + m + 1)'
    <3>1. SUFFICES ASSUME conn'[c].phase # "closed"
                   PROVE  conn'[c].cursor = Before(c, l + m + 1)'
      OBVIOUS
    <3>2. conn'[c].cursor = IF messages = <<>> THEN conn[c].cursor ELSE messages[m].id
      BY <1>2, <3>1 DEF Closed, Loop, m
    <3>3. CASE messages = <<>>
      BY <3>2, <3>3, <1>1, <1>7 DEF m
    <3>4. CASE messages # <<>>
      <4>1. PICK n \in 2..(m + 1) : n = m + 1 /\ l + n = l + m + 1 /\ n - 1 = m
        BY <3>4, <1>1, EmptySeq DEF m
      <4>2. Before(c, l + n)' = messages[n - 1].id
        BY <4>1, <1>7
      <4> QED BY <3>2, <3>4, <4>1, <4>2
    <3> QED BY <3>3, <3>4
  <2>4. ASSUME NEW n \in 1..(l + m)
        PROVE  \/ wire'[c][n].kind = "event" /\ Follows(Before(c, n), wire[c][n].id)'
               \/ /\ wire'[c][n].kind = "reset" /\ Pruned(Before(c, n) + 1)'
                  /\ n = l + m /\ conn'[c].phase = "closed"
    <3>1. CASE n <= l
      <4>1. n \in 1..l /\ n \in 1..(l + 1) /\ wire'[c][n] = wire[c][n]
        BY <1>1, <1>3, <3>1
      <4>2. wire[c][n].kind = "event" /\ Follows(Before(c, n), wire[c][n].id)
        BY <1>0, <1>1, <4>1 DEF StreamsAreInOrder, InOrder
      <4> QED BY <1>7, <4>1, <4>2 DEF Follows, Pruned
    <3>2. CASE n > l
      <4> DEFINE k == n - l
                 before == IF k = 1 THEN conn[c].cursor ELSE messages[k - 1].id
      <4>1. k \in 1..m /\ wire'[c][n] = messages[k] /\ n = l + k
        BY <1>1, <1>3, <3>2
      <4>2. Before(c, n)' = before
        <5>1. CASE k = 1
          <6>1. n = l + 1 /\ n \in 1..(l + 1)
            BY <5>1, <4>1, <1>1
          <6> QED BY <5>1, <6>1, <1>7
        <5>2. CASE k # 1
          <6>1. k \in 2..(m + 1)
            BY <5>2, <4>1, <1>1
          <6> QED BY <5>2, <6>1, <4>1, <1>7
        <5> QED BY <5>1, <5>2
      <4>3. \/ messages[k].kind = "event" /\ Follows(before, messages[k].id)
            \/ /\ messages[k].kind = "reset" /\ Pruned(before + 1)
               /\ k = m /\ end.phase = "closed"
        BY <4>1 DEF m
      <4>4. CASE messages[k].kind = "event" /\ Follows(before, messages[k].id)
        BY <4>1, <4>2, <4>4 DEF Follows, Pruned
      <4>5. CASE messages[k].kind = "reset" /\ Pruned(before + 1) /\ k = m /\ end.phase = "closed"
        BY <1>2, <4>1, <4>2, <4>5 DEF Pruned
      <4> QED BY <4>3, <4>4, <4>5
    <3> QED BY <1>1, <3>1, <3>2
  <2>5. Before(c, Len(wire[c]) + 1)' = Before(c, l + m + 1)'
    BY <1>3
  <2> QED BY <1>3, <2>1, <2>2, <2>3, <2>4, <2>5 DEF InOrder
<1>9. Apart(c)
  BY <1>2 DEF Apart
<1> QED BY <1>4, <1>5, <1>6, <1>8, <1>9, OneConnectionMoves

(* A poll that finds its cursor too old has missed the next event for good.     *)
LEMMA ExpiredIsPruned ==
    ASSUME IInv, NEW c \in Clients, Expired(c)
    PROVE  Pruned(conn[c].cursor + 1)
<1>1. PICK m \in conn[c].minimum : conn[c].cursor < m - 1
  BY DEF Expired
<1>2. m \in Int /\ conn[c].cursor \in Nat /\ log.seq \in Nat /\ RetentionLimit \in Nat
  BY ConnectionTypes, EventStreamAssumption DEF IInv, Conns, EventIds
<1>3. m = 1 \/ Pruned(m - 1)
  BY DEF IInv, PollsAreInStep, InStep
<1> QED BY <1>1, <1>2, <1>3 DEF Pruned

(* A connection's own statements see what it was given before.                  *)
LEMMA CursorIsBehindPoll ==
    ASSUME IInv, NEW c \in Clients, conn[c].phase \in {"maximum", "rows"}
    PROVE  conn[c].cursor <= Later(c).seq
<1>1. isolation \in {"statement", "transaction"} /\ conn[c].cursor <= log.seq
  BY StreamIsBehind DEF IInv, TypeOK
<1>2. isolation = "transaction" => conn[c].cursor <= conn[c].seen.seq
  BY DEF IInv, PollsAreInStep, InStep
<1> QED BY <1>1, <1>2 DEF Later

LEMMA EndsAreTyped ==
    /\ Closed \in Conns
    /\ \A p \in Cursors : Loop(p) \in Conns
    /\ Refusal("reset") \in Messages
    /\ \A i \in EventIds : Event(i) \in Messages
<1>1. EmptyLog \in Logs /\ 0 \in Cursors
  BY EventStreamAssumption DEF EmptyLog, Logs, Cursors
<1> QED BY <1>1 DEF Closed, Loop, Refusal, Event, Messages, Conns

LEMMA ResetKeeps ==
    ASSUME IInv, NEW c \in Clients, conn[c].phase \in {"maximum", "rows"},
           Expired(c), Send(c, <<Refusal("reset")>>, Closed),
           UNCHANGED <<isolation, log, holder, work, cursor, synced, losses>>
    PROVE  IInv'
<1> DEFINE messages == <<Refusal("reset")>>
<1>1. messages \in Seq(Messages) /\ Len(messages) = 1 /\ messages[1] = Refusal("reset")
  BY EndsAreTyped
<1>2. Pruned(conn[c].cursor + 1) /\ PageSize >= 1
  BY ExpiredIsPruned, EventStreamAssumption
<1>3. Refusal("reset").kind = "reset" /\ Closed.phase = "closed" /\ Closed \in Conns
  BY EndsAreTyped DEF Refusal, Closed
<1> HIDE DEF messages
<1>4. \A k \in 1..Len(messages) :
        LET before == IF k = 1 THEN conn[c].cursor ELSE messages[k - 1].id
        IN  \/ messages[k].kind = "event" /\ Follows(before, messages[k].id)
            \/ /\ messages[k].kind = "reset" /\ Pruned(before + 1)
               /\ k = Len(messages) /\ Closed.phase = "closed"
  BY <1>1, <1>2, <1>3
<1> QED BY <1>1, <1>2, <1>3, <1>4, SendKeeps DEF messages

(* A turn of the loop that has nothing to send.                                 *)
LEMMA IdleTurnKeeps ==
    ASSUME IInv, NEW c \in Clients, conn[c].phase \in {"maximum", "rows"},
           Send(c, <<>>, Loop(conn[c].cursor)),
           UNCHANGED <<isolation, log, holder, work, cursor, synced, losses>>
    PROVE  IInv'
<1>1. PICK messages \in Seq(Messages) : messages = <<>> /\ Len(messages) = 0
  BY EmptySeq
<1>2. PICK p \in Cursors : p = conn[c].cursor
  BY ConnectionTypes DEF IInv, Conns
<1>3. Loop(p) \in Conns /\ Len(messages) <= PageSize
  BY <1>1, EndsAreTyped, EventStreamAssumption
<1>4. \A k \in 1..Len(messages) : FALSE
  BY <1>1
<1>5. Send(c, messages, Loop(p))
  BY <1>1, <1>2
<1> QED BY <1>1, <1>2, <1>3, <1>4, <1>5, SendKeeps

LEMMA ReadMaximumKeeps == ASSUME IInv, NEW c \in Clients, ReadMaximum(c) PROVE IInv'
<1>1. conn[c].phase \in {"maximum", "rows"} /\ conn[c].cursor <= Later(c).seq
  BY CursorIsBehindPoll DEF ReadMaximum
<1>2. /\ conn[c].cursor \in Nat /\ Later(c).seq \in Nat
      /\ ~(conn[c].cursor > Later(c).seq)
  BY <1>1, ConnectionTypes, LaterIsTail, EventStreamAssumption DEF IInv, Logs, Cursors
<1>3. CASE Expired(c) /\ Send(c, <<Refusal("reset")>>, Closed)
  BY <1>1, <1>3, ResetKeeps DEF ReadMaximum
<1>4. CASE Send(c, <<>>, Loop(conn[c].cursor))
  BY <1>1, <1>4, IdleTurnKeeps DEF ReadMaximum
<1> QED BY <1>2, <1>3, <1>4 DEF ReadMaximum

(* A poll of one snapshot that is not told to start again finds the next event. *)
LEMMA SnapshotPollsSkipNothing ==
    ASSUME IInv, NEW c \in Clients, conn[c].phase = "rows", ~Expired(c),
           isolation = "transaction", Oldest(conn[c].cursor, Later(c).seq) <= Later(c).seq
    PROVE  Oldest(conn[c].cursor, Later(c).seq) = conn[c].cursor + 1
<1> DEFINE n == Later(c).seq
           p == conn[c].cursor
<1>1. /\ Later(c) = conn[c].seen /\ conn[c].minimum = First(conn[c].seen.ids)
      /\ Later(c).ids = {i \in 1..n : i > n - RetentionLimit}
      /\ n \in Nat /\ p \in Nat /\ RetentionLimit \in Nat \ {0}
  BY ConnectionTypes, LaterIsTail, EventStreamAssumption
  DEF IInv, PollsAreInStep, InStep, Later, IsTail, Logs, Cursors
<1>2. SUFFICES ASSUME p < n - RetentionLimit PROVE FALSE
  BY <1>1 DEF Oldest
<1>3. n - RetentionLimit + 1 \in First(Later(c).ids)
  BY <1>1, <1>2 DEF First
<1>4. p < (n - RetentionLimit + 1) - 1
  BY <1>1, <1>2
<1> QED BY <1>1, <1>3, <1>4 DEF Expired

LEMMA ReadRowsKeeps == ASSUME IInv, NEW c \in Clients, ReadRows(c) PROVE IInv'
<1>1. conn[c].phase \in {"maximum", "rows"} /\ conn[c].phase = "rows"
  BY DEF ReadRows
<1>2. CASE Expired(c) /\ Send(c, <<Refusal("reset")>>, Closed)
  BY <1>1, <1>2, ResetKeeps DEF ReadRows
<1>3. CASE Send(c, <<>>, Loop(conn[c].cursor))
  BY <1>1, <1>3, IdleTurnKeeps DEF ReadRows
<1>4. CASE /\ ~Expired(c) /\ Page(c) # <<>>
           /\ Send(c, [i \in DOMAIN Page(c) |-> Event(Page(c)[i])], Loop(Last(Page(c))))
  <2>1. PICK page \in Seq(EventIds) : page = Page(c)
    BY PageIsARun DEF IInv
  <2>2. PICK p \in Nat : p = conn[c].cursor
    BY ConnectionTypes DEF IInv
  <2>3. PICK n \in Nat : n = Later(c).seq /\ n <= log.seq
    BY LaterIsTail, EventStreamAssumption DEF IInv, Logs, Cursors
  <2>4. PICK lo \in Int : lo = Oldest(p, n)
    BY <2>2, <2>3, EventStreamAssumption DEF Oldest
  <2>5. /\ Len(page) <= PageSize /\ page # <<>>
        /\ \A k \in 1..Len(page) : page[k] = lo + k - 1 /\ lo + k - 1 <= n
    BY <1>4, <2>1, <2>2, <2>3, <2>4, PageIsARun DEF IInv
  <2>6. Len(page) \in Nat /\ Len(page) >= 1 /\ DOMAIN page = 1..Len(page)
    BY <2>5, EmptySeq
  <2>7. lo > p /\ lo <= n /\ RetentionLimit \in Nat /\ log.seq \in Nat
    BY <2>2, <2>3, <2>4, <2>5, <2>6, EventStreamAssumption, ConnectionTypes DEF Oldest, IInv
  <2>8. Follows(p, lo)
    <3>1. isolation = "transaction" => lo = p + 1
      BY <1>1, <1>4, <2>2, <2>3, <2>4, <2>7, SnapshotPollsSkipNothing
    <3>2. \A k \in (p + 1)..(lo - 1) : Pruned(k)
      BY <2>2, <2>3, <2>4, <2>7 DEF Oldest, Pruned
    <3> QED BY <2>2, <2>3, <2>4, <2>7, <3>1, <3>2 DEF Follows
  <2> DEFINE messages == [i \in 1..Len(page) |-> Event(page[i])]
             end == Loop(page[Len(page)])
  <2>9. /\ messages \in Seq(Messages) /\ Len(messages) = Len(page)
        /\ \A k \in 1..Len(page) : messages[k].kind = "event" /\ messages[k].id = page[k]
    <3>1. \A i \in 1..Len(page) : page[i] \in EventIds /\ Event(page[i]) \in Messages
      BY EndsAreTyped
    <3> QED BY <2>6, <3>1 DEF Event
  <2>10. end \in Conns
    <3>1. page[Len(page)] \in EventIds /\ EventIds \subseteq Cursors
      BY <2>6, EventStreamAssumption DEF EventIds, Cursors
    <3> QED BY <3>1, EndsAreTyped
  <2>11. Send(c, messages, end)
    BY <1>4, <2>1, <2>6 DEF Last
  <2>12. end = Loop(messages[Len(messages)].id) /\ messages # <<>>
    <3>1. messages # <<>>
      BY <2>6, <2>9, EmptySeq
    <3> QED BY <2>6, <2>9, <3>1
  <2> HIDE DEF messages, end
  <2>13. ASSUME NEW k \in 1..Len(messages)
         PROVE  /\ messages[k].kind = "event"
                /\ Follows(IF k = 1 THEN conn[c].cursor ELSE messages[k - 1].id, messages[k].id)
    <3>1. messages[k].kind = "event" /\ messages[k].id = lo + k - 1 /\ lo + k - 1 <= n
      BY <2>5, <2>9
    <3>2. CASE k = 1
      BY <3>1, <3>2, <2>2, <2>8
    <3>3. CASE k # 1
      <4>1. k - 1 \in 1..Len(messages)
        BY <2>6, <2>9, <3>3
      <4>2. messages[k - 1].id = lo + (k - 1) - 1
        BY <4>1, <2>5, <2>9
      <4>3. Follows(lo + (k - 1) - 1, lo + k - 1)
        BY <2>3, <2>4, <2>7, <3>1, <3>3 DEF Follows
      <4> QED BY <3>1, <3>3, <4>2, <4>3
    <3> QED BY <3>2, <3>3
  <2> QED BY <1>1, <2>5, <2>9, <2>10, <2>11, <2>12, <2>13, SendKeeps DEF ReadRows
<1> QED BY <1>2, <1>3, <1>4 DEF ReadRows
-----------------------------------------------------------------------------
(* The clients.                                                                 *)

(* A step that leaves the server's side of a connection and the log alone, or   *)
(* closes it.                                                                   *)
LEMMA ClosedIsInStep ==
    ASSUME IInv, NEW c \in Clients, UNCHANGED log, conn'[c] = Closed
    PROVE  InStep(c)'
<1>1. Closed.phase = "closed" /\ Closed.minimum = {} /\ Closed.seen.seq = 0 /\ Closed.seen.ids = {}
  BY DEF Closed, EmptyLog
<1>2. {i \in 1..0 : i > 0 - RetentionLimit} = {}
  OBVIOUS
<1>3. IsTail(Closed.seen)
  BY <1>1, <1>2 DEF IsTail
<1>4. log.seq \in Nat
  BY ConnectionTypes DEF IInv
<1> QED BY <1>1, <1>3, <1>4 DEF InStep, IsTail

LEMMA SnapshotKeeps == ASSUME IInv, NEW c \in Clients, Snapshot(c) PROVE IInv'
<1> USE DEF IInv
<1>1. /\ log.seq \in Cursors /\ log.seq \in Nat /\ cursor'[c] = log.seq
      /\ \A d \in Clients \ {c} : cursor'[d] = cursor[d]
      /\ cursor' \in [Clients -> Cursors] /\ c \in synced' /\ synced' \subseteq Clients
  BY ConnectionTypes DEF Snapshot, TypeOK, Logs
<1>2. TypeOK'
  BY <1>1 DEF Snapshot, TypeOK
<1>3. LogIsTail' /\ WriterIsAhead' /\ InStep(c)'
  BY DEF Snapshot, LogIsTail, WriterIsAhead, PollsAreInStep, InStep, IsTail, Pruned
<1>4. conn[c].phase = "closed" /\ wire[c] = <<>>
  BY DEF Snapshot, StreamsAreInOrder, InOrder
<1>5. InOrder(c)'
  BY <1>1, <1>4 DEF Snapshot, InOrder
<1>6. Apart(c)
  BY <1>1 DEF Snapshot, Apart
<1> QED BY <1>2, <1>3, <1>5, <1>6, OneConnectionMoves

LEMMA ConnectKeeps == ASSUME IInv, NEW c \in Clients, Connect(c) PROVE IInv'
<1> USE DEF IInv
<1>1. conn'[c] = [phase |-> "open", cursor |-> cursor[c], minimum |-> {}, seen |-> EmptyLog]
      /\ \A d \in Clients \ {c} : conn'[d] = conn[d]
  BY DEF Connect, Loop, TypeOK
<1>2. EmptyLog \in Logs /\ EmptyLog.seq = 0 /\ EmptyLog.ids = {} /\ cursor[c] \in Cursors
  BY EventStreamAssumption DEF EmptyLog, Logs, Cursors, TypeOK
<1>3. conn'[c] \in Conns
  BY <1>1, <1>2 DEF Conns
<1>4. conn' \in [Clients -> Conns]
  BY <1>3 DEF Connect, TypeOK, Conns
<1>5. TypeOK'
  BY <1>4 DEF Connect, TypeOK, Conns
<1>6. LogIsTail' /\ WriterIsAhead'
  BY DEF Connect, LogIsTail, WriterIsAhead, IsTail
<1>7. InStep(c)'
  <2>1. {i \in 1..0 : i > 0 - RetentionLimit} = {}
    OBVIOUS
  <2>2. IsTail(EmptyLog)
    BY <1>2, <2>1 DEF IsTail
  <2>3. log.seq \in Nat
    BY ConnectionTypes
  <2> QED BY <1>1, <1>2, <2>2, <2>3 DEF Connect, InStep, IsTail
<1>8. InOrder(c)'
  <2>1. cursor[c] <= log.seq /\ c \in synced /\ wire[c] = <<>> /\ Len(wire[c]) = 0
    BY DEF Connect, StreamsAreInOrder, InOrder
  <2> QED BY <1>1, <2>1 DEF Connect, InOrder, Before
<1>9. Apart(c)
  BY <1>1 DEF Connect, Apart
<1> QED BY <1>5, <1>6, <1>7, <1>8, <1>9, OneConnectionMoves

LEMMA ReceiveKeeps == ASSUME IInv, NEW c \in Clients, Receive(c) PROVE IInv'
<1> USE DEF IInv
<1>0. PICK l \in Nat : l = Len(wire[c]) /\ l >= 1
  BY ConnectionTypes, EmptySeq DEF Receive
<1>1. /\ wire[c] \in Seq(Messages) /\ wire[c][1] \in Messages /\ Head(wire[c]) = wire[c][1]
      /\ \A n \in 1..l : wire[c][n] \in Messages
      /\ wire'[c] = Tail(wire[c]) /\ \A d \in Clients \ {c} : wire'[d] = wire[d]
      /\ wire[c] # <<>>
  BY <1>0, ConnectionTypes DEF Receive, TypeOK
<1>2. /\ wire'[c] \in Seq(Messages) /\ Len(wire'[c]) = l - 1
      /\ \A n \in 1..(l - 1) : wire'[c][n] = wire[c][n + 1]
  BY <1>0, <1>1, HeadTailProperties
<1>3. c \in synced
  BY <1>1 DEF StreamsAreInOrder, InOrder
<1>4. \/ wire[c][1].kind = "event" /\ Follows(cursor[c], wire[c][1].id)
      \/ wire[c][1].kind = "reset" /\ l = 1 /\ conn[c].phase = "closed"
  <2>1. Before(c, 1) = cursor[c] /\ 1 \in 1..Len(wire[c])
    BY <1>0 DEF Before
  <2> QED BY <1>0, <2>1 DEF StreamsAreInOrder, InOrder
<1>5. \/ /\ wire[c][1].kind = "event" /\ cursor'[c] = wire[c][1].id /\ synced' = synced
         /\ \A d \in Clients \ {c} : cursor'[d] = cursor[d]
         /\ cursor' = [cursor EXCEPT ![c] = wire[c][1].id]
      \/ wire[c][1].kind # "event" /\ cursor' = cursor /\ synced' = synced \ {c}
  BY <1>1 DEF Receive, TypeOK
<1>6. TypeOK'
  <2>1. wire' \in [Clients -> Seq(Messages)]
    BY <1>2 DEF Receive, TypeOK
  <2>2. \A d \in Clients : Len(wire'[d]) <= MaxWire + PageSize
    <3>1. Len(wire'[c]) <= MaxWire + PageSize
      BY <1>0, <1>2, EventStreamAssumption DEF TypeOK
    <3> QED BY <1>1, <3>1 DEF TypeOK
  <2>3. cursor' \in [Clients -> Cursors]
    BY <1>1, <1>5, MessageTypes DEF TypeOK
  <2>4. synced' \subseteq Clients
    BY <1>5 DEF TypeOK
  <2> QED BY <2>1, <2>2, <2>3, <2>4 DEF Receive, TypeOK
<1>7. LogIsTail' /\ WriterIsAhead'
  BY DEF Receive, LogIsTail, WriterIsAhead, IsTail
<1>8. InStep(c)'
  <2>1. Len(wire[c]) <= MaxWire => Len(wire'[c]) <= MaxWire
    BY <1>0, <1>2, EventStreamAssumption
  <2> QED BY <2>1 DEF Receive, PollsAreInStep, InStep, IsTail, Pruned
<1>9. InOrder(c)'
  <2>1. CASE wire[c][1].kind = "reset"
    <3>1. l = 1 /\ conn'[c].phase = "closed" /\ cursor'[c] <= log'.seq
      BY <2>1, <1>4, <1>5 DEF Receive, StreamsAreInOrder, InOrder
    <3>2. wire'[c] = <<>> /\ Len(wire'[c]) = 0
      BY <1>2, <3>1, EmptySeq
    <3> QED BY <3>1, <3>2 DEF InOrder
  <2>2. CASE wire[c][1].kind = "event"
    <3>1. cursor'[c] = wire[c][1].id /\ synced' = synced /\ cursor'[c] <= log'.seq
      BY <2>2, <1>4, <1>5 DEF Receive, Follows
    <3>2. ASSUME NEW n \in 1..l PROVE Before(c, n)' = Before(c, n + 1)
      <4>1. CASE n = 1
        BY <3>1, <4>1 DEF Before
      <4>2. CASE n # 1
        <5>1. n - 1 \in 1..(l - 1) /\ n + 1 # 1 /\ (n - 1) + 1 = (n + 1) - 1
          BY <1>0, <4>2
        <5> QED BY <1>2, <4>2, <5>1 DEF Before
      <4> QED BY <4>1, <4>2
    <3>3. ASSUME NEW n \in 1..(l - 1)
          PROVE  \/ wire'[c][n].kind = "event" /\ Follows(Before(c, n), wire[c][n].id)'
                 \/ /\ wire'[c][n].kind = "reset" /\ Pruned(Before(c, n) + 1)'
                    /\ n = l - 1 /\ conn'[c].phase = "closed"
      <4>1. n \in 1..l /\ n + 1 \in 1..l /\ wire'[c][n] = wire[c][n + 1]
        BY <1>0, <1>2
      <4>2. Before(c, n)' = Before(c, n + 1)
        BY <3>2, <4>1
      <4>3. \/ wire[c][n + 1].kind = "event" /\ Follows(Before(c, n + 1), wire[c][n + 1].id)
            \/ /\ wire[c][n + 1].kind = "reset" /\ Pruned(Before(c, n + 1) + 1)
               /\ n + 1 = l /\ conn[c].phase = "closed"
        BY <1>0, <4>1 DEF StreamsAreInOrder, InOrder
      <4>4. CASE wire[c][n + 1].kind = "event" /\ Follows(Before(c, n + 1), wire[c][n + 1].id)
        BY <4>1, <4>2, <4>4 DEF Receive, Follows, Pruned
      <4>5. CASE wire[c][n + 1].kind = "reset" /\ Pruned(Before(c, n + 1) + 1)
        BY <1>0, <4>1, <4>2, <4>3, <4>5 DEF Receive, Pruned
      <4> QED BY <4>3, <4>4, <4>5
    <3>4. conn'[c].phase # "closed" => conn'[c].cursor = Before(c, l)'
      <4>1. Before(c, l)' = Before(c, l + 1) /\ conn' = conn
        BY <1>0, <3>2 DEF Receive
      <4> QED BY <1>0, <4>1 DEF StreamsAreInOrder, InOrder
    <3>5. Before(c, Len(wire[c]) + 1)' = Before(c, l)'
      BY <1>0, <1>2
    <3> QED BY <1>2, <1>3, <3>1, <3>3, <3>4, <3>5 DEF InOrder
  <2> QED BY <1>4, <2>1, <2>2
<1>10. Apart(c)
  BY <1>1, <1>5 DEF Receive, Apart
<1> QED BY <1>6, <1>7, <1>8, <1>9, <1>10, OneConnectionMoves

LEMMA LoseKeeps == ASSUME IInv, NEW c \in Clients, Lose(c) PROVE IInv'
<1> USE DEF IInv
<1>1. /\ conn'[c] = Closed /\ wire'[c] = <<>> /\ Len(wire'[c]) = 0
      /\ \A d \in Clients \ {c} : conn'[d] = conn[d] /\ wire'[d] = wire[d]
      /\ conn' \in [Clients -> Conns] /\ wire' \in [Clients -> Seq(Messages)]
  BY EndsAreTyped DEF Lose, TypeOK, Conns
<1>2. losses' \in 0..MaxLosses
  BY EventStreamAssumption DEF Lose, TypeOK
<1>3. \A d \in Clients : Len(wire'[d]) <= MaxWire + PageSize
  <2>1. 0 <= MaxWire + PageSize
    BY EventStreamAssumption
  <2> QED BY <1>1, <2>1 DEF TypeOK
<1>4. TypeOK'
  BY <1>1, <1>2, <1>3 DEF Lose, TypeOK, Conns
<1>5. LogIsTail' /\ WriterIsAhead'
  BY DEF Lose, LogIsTail, WriterIsAhead, IsTail
<1>6. InStep(c)'
  BY <1>1, ClosedIsInStep DEF Lose
<1>7. InOrder(c)'
  BY <1>1 DEF Lose, StreamsAreInOrder, InOrder, Closed
<1>8. Apart(c)
  BY <1>1 DEF Lose, Apart
<1> QED BY <1>4, <1>5, <1>6, <1>7, <1>8, OneConnectionMoves

LEMMA RestartKeeps == ASSUME IInv, Restart PROVE IInv'
<1> USE DEF IInv
<1>1. /\ \A c \in Clients : conn'[c] = Closed /\ wire'[c] = <<>> /\ Len(wire'[c]) = 0
      /\ conn' \in [Clients -> Conns] /\ wire' \in [Clients -> Seq(Messages)]
  BY EndsAreTyped DEF Restart
<1>2. losses' \in 0..MaxLosses /\ 0 <= MaxWire + PageSize
  BY EventStreamAssumption DEF Restart, TypeOK
<1>3. TypeOK'
  BY <1>1, <1>2 DEF Restart, TypeOK, Conns
<1>4. LogIsTail' /\ WriterIsAhead'
  BY DEF Restart, LogIsTail, WriterIsAhead, IsTail
<1>5. PollsAreInStep'
  BY <1>1, ClosedIsInStep DEF Restart, PollsAreInStep
<1>6. ASSUME NEW c \in Clients PROVE InOrder(c)'
  BY <1>1 DEF Restart, StreamsAreInOrder, InOrder, Closed
<1> QED BY <1>3, <1>4, <1>5, <1>6 DEF StreamsAreInOrder
-----------------------------------------------------------------------------
LEMMA InitHasIInv == Init => IInv
<1> SUFFICES ASSUME Init PROVE IInv
  OBVIOUS
<1> USE EventStreamAssumption DEF Init
<1>1. EmptyLog \in Logs /\ EmptyLog.seq = 0 /\ EmptyLog.ids = {} /\ Closed \in Conns
  BY EndsAreTyped DEF EmptyLog, Logs, Cursors
<1>2. <<>> \in Seq(Messages) /\ Len(<<>>) = 0 /\ 0 <= MaxWire + PageSize /\ 0 \in Cursors
  BY EmptySeq DEF Cursors
<1>3. wire \in [Clients -> Seq(Messages)] /\ \A c \in Clients : wire[c] = <<>>
  BY <1>2
<1>4. TypeOK
  BY <1>1, <1>2, <1>3 DEF TypeOK, Conns
<1>5. {i \in 1..0 : i > 0 - RetentionLimit} = {}
  OBVIOUS
<1>6. LogIsTail /\ WriterIsAhead /\ IsTail(EmptyLog)
  BY <1>1, <1>5 DEF LogIsTail, WriterIsAhead, IsTail
<1>7. PollsAreInStep
  BY <1>1, <1>6 DEF PollsAreInStep, InStep, Closed
<1>8. StreamsAreInOrder
  BY <1>1, <1>2, <1>3 DEF StreamsAreInOrder, InOrder, Closed
<1> QED BY <1>4, <1>6, <1>7, <1>8 DEF IInv

LEMMA NextKeepsIInv == IInv /\ [Next]_vars => IInv'
<1> SUFFICES ASSUME IInv, [Next]_vars PROVE IInv'
  OBVIOUS
<1>1. ASSUME NEW w \in Writers, AppendEvent(w) \/ Commit(w) \/ Rollback(w) PROVE IInv'
  BY <1>1, AppendEventKeeps, CommitKeeps, RollbackKeeps
<1>2. ASSUME NEW c \in Clients, Server(c) PROVE IInv'
  BY <1>2, ReadMinimumKeeps, ReadMaximumKeeps, ReadRowsKeeps DEF Server
<1>3. ASSUME NEW c \in Clients, Client(c) \/ Lose(c) PROVE IInv'
  BY <1>3, SnapshotKeeps, ConnectKeeps, ReceiveKeeps, LoseKeeps DEF Client
<1>4. CASE Restart
  BY <1>4, RestartKeeps
<1>5. CASE UNCHANGED vars
  BY <1>5 DEF vars, IInv, TypeOK, LogIsTail, IsTail, WriterIsAhead, PollsAreInStep, InStep,
              StreamsAreInOrder, InOrder, Before, Follows, Pruned
<1> QED BY <1>1, <1>2, <1>3, <1>4, <1>5 DEF Next

LEMMA Invariance == Spec => []IInv
BY InitHasIInv, NextKeepsIInv, PTL DEF Spec

(* Every variable keeps to its set: no log, connection or cursor leaves the      *)
(* bounds, and no more than MaxWire + PageSize messages are ever under way.      *)
THEOREM TypeCorrect == Spec => []TypeOK
<1>1. IInv => TypeOK
  BY DEF IInv
<1> QED BY <1>1, Invariance, PTL

(* Committed history, and what a writer is about to commit, are the last         *)
(* RetentionLimit ids without a hole (append_event, db/events.py).               *)
THEOREM HistoryIsATail == Spec => []LogIsTail
<1>1. IInv => LogIsTail
  BY DEF IInv
<1> QED BY <1>1, Invariance, PTL

(* A stream is events and, at its end only, a request to start again.            *)
LEMMA PositionIsTheLastEvent ==
    ASSUME IInv, NEW c \in Clients
    PROVE  /\ \A n \in 1..Len(wire[c]) :
                 /\ wire[c][n].kind \in {"event", "reset"}
                 /\ wire[c][n].kind = "reset" =>
                       n = Len(wire[c]) /\ Pruned(Before(c, n) + 1) /\ Position(c) = Before(c, n)
           /\ Position(c) \in Nat /\ Position(c) <= log.seq
<1> DEFINE l == Len(wire[c])
           events == {i \in DOMAIN wire[c] : wire[c][i].kind = "event"}
           k == IF \E n \in 1..l : wire[c][n].kind = "reset" THEN l - 1 ELSE l
<1>1. l \in Nat /\ DOMAIN wire[c] = 1..l
  BY ConnectionTypes, LenProperties DEF IInv
<1>2. \A n \in 1..l : \/ wire[c][n].kind = "event"
                      \/ wire[c][n].kind = "reset" /\ Pruned(Before(c, n) + 1) /\ n = l
  BY DEF IInv, StreamsAreInOrder, InOrder
<1>3. k \in 0..l /\ events = 1..k
  BY <1>1, <1>2
<1>4. Position(c) = IF events = {} THEN cursor[c]
                    ELSE wire[c][CHOOSE i \in events : \A j \in events : j <= i].id
  BY DEF Position
<1> HIDE DEF l, events, k
<1>5. Position(c) = Before(c, k + 1)
  <2>1. CASE k = 0
    <3>1. events = {}
      BY <1>3, <2>1
    <3> QED BY <1>4, <2>1, <3>1 DEF Before
  <2>2. CASE k # 0
    <3>1. events # {} /\ k \in events /\ \A i \in events : (\A j \in events : j <= i) <=> i = k
      BY <1>1, <1>3, <2>2
    <3>2. (CHOOSE i \in events : \A j \in events : j <= i) = k
      BY <3>1
    <3>3. Position(c) = wire[c][k].id
      BY <1>4, <3>1, <3>2
    <3>4. Before(c, k + 1) = wire[c][k].id
      BY <1>1, <1>3, <2>2 DEF Before
    <3> QED BY <3>3, <3>4
  <2> QED BY <2>1, <2>2
<1>6. Position(c) \in Nat /\ Position(c) <= log.seq
  <2>1. k + 1 \in 1..(l + 1)
    BY <1>1, <1>3
  <2> QED BY <1>5, <2>1, StreamIsBehind DEF IInv, l
<1>7. ASSUME NEW n \in 1..l, wire[c][n].kind = "reset"
      PROVE  n = l /\ Pruned(Before(c, n) + 1) /\ k + 1 = n
  BY <1>1, <1>2, <1>7 DEF k
<1> QED BY <1>1, <1>2, <1>5, <1>6, <1>7 DEF l

(* However many events are rolled back or pruned, no client gets ahead of the    *)
(* committed history, and the server never refuses a cursor it has given out.    *)
THEOREM ClientsAreNeverAhead == Spec => []NeverAhead
<1>1. IInv => NeverAhead
  BY PositionIsTheLastEvent DEF NeverAhead
<1> QED BY <1>1, Invariance, PTL

(* reset-required is on its way only to a client whose next event is pruned.     *)
THEOREM ResetsAreForTheLate == Spec => []ResetsAreNeeded
<1>1. ASSUME IInv PROVE ResetsAreNeeded
  <2> SUFFICES ASSUME NEW c \in Clients, NEW i \in 1..Len(wire[c]), wire[c][i].kind = "reset"
               PROVE  Position(c) < log.seq /\ Position(c) + 1 \notin log.ids
    BY DEF ResetsAreNeeded
  <2>1. Pruned(Position(c) + 1) /\ Position(c) \in Nat
    BY <1>1, PositionIsTheLastEvent
  <2>2. log.seq \in Nat /\ RetentionLimit \in Nat /\ IsTail(log)
    BY <1>1, ConnectionTypes, EventStreamAssumption DEF IInv, LogIsTail
  <2> QED BY <2>1, <2>2 DEF Pruned, IsTail
<1> QED BY <1>1, Invariance, PTL
-----------------------------------------------------------------------------
(* Where a cursor can go: a client that follows applies the next message, and    *)
(* one that does not starts from a snapshot.                                     *)
LEMMA CursorsMoveByMessages ==
    ASSUME IInv, Next, NEW c \in Clients, cursor'[c] # cursor[c]
    PROVE  \/ Snapshot(c)
           \/ /\ Receive(c) /\ cursor' = [cursor EXCEPT ![c] = Head(wire[c]).id]
              /\ Follows(cursor[c], Head(wire[c]).id)
<1>1. ASSUME NEW w \in Writers, AppendEvent(w) \/ Commit(w) \/ Rollback(w) PROVE cursor' = cursor
  BY <1>1 DEF AppendEvent, Commit, Rollback
<1>2. ASSUME NEW d \in Clients, Server(d) \/ Connect(d) \/ Lose(d) PROVE cursor' = cursor
  BY <1>2 DEF Server, ReadMinimum, ReadMaximum, ReadRows, Connect, Lose
<1>3. Restart => cursor' = cursor
  BY DEF Restart
<1>4. PICK d \in Clients : Snapshot(d) \/ Receive(d)
  BY <1>1, <1>2, <1>3 DEF Next, Client
<1>5. c = d
  BY <1>4 DEF Snapshot, Receive, IInv, TypeOK
<1>6. CASE Receive(c)
  <2>1. Head(wire[c]).kind = "event" /\ cursor' = [cursor EXCEPT ![c] = Head(wire[c]).id]
    BY <1>6 DEF Receive
  <2>2. wire[c] \in Seq(Messages) /\ wire[c] # <<>> /\ 1 \in 1..Len(wire[c])
    BY <1>6, ConnectionTypes, EmptySeq DEF IInv, Receive
  <2>3. Head(wire[c]) = wire[c][1] /\ Before(c, 1) = cursor[c]
    BY <2>2 DEF Before
  <2>4. Follows(cursor[c], Head(wire[c]).id)
    BY <2>1, <2>2, <2>3 DEF IInv, StreamsAreInOrder, InOrder
  <2> QED BY <1>6, <2>1, <2>4
<1> QED BY <1>4, <1>5, <1>6

(* A client that follows the stream moves forward, and passes over an event      *)
(* only when it is no longer in the table.                                       *)
THEOREM SkippedEventsArePruned == Spec => OnlyPrunedEventsAreSkipped
<1>1. ASSUME IInv, [Next]_vars
      PROVE  [\A c \in synced : cursor'[c] # cursor[c] =>
                 /\ cursor'[c] > cursor[c]
                 /\ ((cursor[c] + 1)..(cursor'[c] - 1)) \cap log.ids = {}]_vars
  <2> SUFFICES ASSUME Next, NEW c \in synced, cursor'[c] # cursor[c]
               PROVE  /\ cursor'[c] > cursor[c]
                      /\ ((cursor[c] + 1)..(cursor'[c] - 1)) \cap log.ids = {}
    BY <1>1 DEF vars
  <2>1. c \in Clients /\ ~Snapshot(c)
    BY <1>1 DEF IInv, TypeOK, Snapshot
  <2>2. Follows(cursor[c], cursor'[c])
    BY <1>1, <2>1, CursorsMoveByMessages DEF IInv, TypeOK
  <2>3. cursor[c] \in Nat /\ cursor'[c] \in Nat
    BY <1>1, <2>1, NextKeepsIInv, ConnectionTypes, EventStreamAssumption DEF IInv, TypeOK, Cursors
  <2>4. log.seq \in Nat /\ RetentionLimit \in Nat /\ IsTail(log)
    BY <1>1, <2>1, ConnectionTypes, EventStreamAssumption DEF IInv, LogIsTail
  <2> QED BY <2>2, <2>3, <2>4 DEF Follows, Pruned, IsTail
<1> QED BY <1>1, Invariance, PTL DEF Spec, OnlyPrunedEventsAreSkipped

LEMMA FeedInit == Init => PositionInFeed!Init
BY DEF Init, PositionInFeed!Init, EmptyLog

LEMMA FeedStep ==
    ASSUME IInv, [Next]_vars
    PROVE  [PositionInFeed!Next]_<<log.seq, cursor, isolation = "statement">>
<1>1. CASE UNCHANGED vars
  BY <1>1 DEF vars
<1>2. ASSUME NEW w \in Writers, AppendEvent(w) \/ Rollback(w)
      PROVE  UNCHANGED <<log.seq, cursor, isolation = "statement">>
  BY <1>2 DEF AppendEvent, Rollback
<1>3. ASSUME NEW w \in Writers, Commit(w) PROVE PositionInFeed!Publish
  <2>1. log'.seq \in Nat /\ log'.seq > log.seq
    BY <1>3, EventStreamAssumption DEF Commit, IInv, WriterIsAhead, TypeOK, Logs, Cursors
  <2> QED BY <1>3, <2>1 DEF Commit, PositionInFeed!Publish
<1>4. ASSUME NEW c \in Clients, Server(c) \/ Connect(c) \/ Lose(c)
      PROVE  UNCHANGED <<log.seq, cursor, isolation = "statement">>
  BY <1>4 DEF Server, ReadMinimum, ReadMaximum, ReadRows, Connect, Lose
<1>5. ASSUME NEW c \in Clients, Snapshot(c) PROVE PositionInFeed!Reload(c)
  BY <1>5 DEF Snapshot, PositionInFeed!Reload, PositionInFeed!Move
<1>6. ASSUME NEW c \in Clients, Receive(c)
      PROVE  \/ UNCHANGED <<log.seq, cursor, isolation = "statement">>
             \/ PositionInFeed!Deliver(c) \/ PositionInFeed!Skip(c)
  <2>1. UNCHANGED <<isolation, log>> /\ ~Snapshot(c)
    BY <1>6 DEF Receive, Snapshot, IInv, StreamsAreInOrder, InOrder
  <2>2. CASE cursor'[c] = cursor[c]
    <3>1. cursor' = cursor
      BY <1>6, <2>2 DEF Receive, IInv, TypeOK
    <3> QED BY <2>1, <3>1
  <2>3. CASE cursor'[c] # cursor[c]
    <3> DEFINE k == Head(wire[c]).id
    <3>1. cursor' = [cursor EXCEPT ![c] = k] /\ Follows(cursor[c], k)
      BY <1>6, <2>1, <2>3, CursorsMoveByMessages DEF Next, Client
    <3>2. k \in Nat /\ cursor[c] \in Nat /\ log.seq \in Nat
      BY <1>6, ConnectionTypes, MessageTypes DEF IInv, Receive
    <3>3. isolation \in {"statement", "transaction"}
      BY DEF IInv, TypeOK
    <3> HIDE DEF k
    <3>4. CASE isolation = "transaction"
      <4>1. cursor[c] < log.seq /\ k = cursor[c] + 1
        BY <3>1, <3>2, <3>4 DEF Follows
      <4> QED BY <2>1, <3>1, <4>1 DEF PositionInFeed!Deliver, PositionInFeed!Move
    <3>5. CASE isolation = "statement"
      <4>1. k \in (cursor[c] + 1)..log.seq
        BY <3>1, <3>2 DEF Follows
      <4> QED BY <2>1, <3>1, <3>5, <4>1 DEF PositionInFeed!Skip, PositionInFeed!Move
    <3> QED BY <3>3, <3>4, <3>5
  <2> QED BY <2>2, <2>3
<1>7. CASE Restart
  BY <1>7 DEF Restart
<1> QED BY <1>1, <1>2, <1>3, <1>4, <1>5, <1>6, <1>7 DEF Next, Client, PositionInFeed!Next

(* The stream implements the feed: exact where a poll reads one snapshot of the  *)
(* database, lossy where each statement reads its own.                           *)
THEOREM StreamIsAFeed == Spec => FollowsFeed
BY FeedInit, FeedStep, Invariance, PTL DEF Spec, FollowsFeed, PositionInFeed!Spec
=============================================================================
