-------------------------- MODULE TransactionsProofs --------------------------
(***************************************************************************)
(* Theorems about Transactions.                                              *)
(*                                                                         *)
(* What is left of a program (Rest) writes within the request's rows (Scope) *)
(* and, unless it deletes, in one order (Rank): the node, its edge, tags and  *)
(* marks, the sequence of events.  Every statement is replaced by others that  *)
(* keep to this (Part), whatever it reads; so what a request holds never       *)
(* comes after what it will still ask for (HoldsInOrder).                      *)
(*                                                                         *)
(* On PostgreSQL, besides, what a transaction sees refers to nothing that is    *)
(* gone, and the rows it has made hold what they refer to (KeepsReferences).     *)
(* On SQLite, which has no foreign keys, there is one writer at a time, and what *)
(* a handler looked up stays until it writes, unless a deletion commits in       *)
(* between (FilesAreKept).                                                   *)
(***************************************************************************)
EXTENDS Transactions, OrderingProofs, TLAPS

Finish == <<"commit">>

Representations ==
    {Absent} \cup [kind : Kinds, parent : NodeIds \cup {NoNode}, tags : SUBSET Tags,
                   children : UNION {[D -> [kind : Kinds, tags : SUBSET Tags]] : D \in SUBSET NodeIds}]

(* Every statement but the last.                                               *)
Statements ==
    ({"fetch_node", "create_or_replace", "fetch_parent", "ensure_childless", "ensure_container",
      "find_home", "find_orphan_container", "fetch_children", "reassign_children", "delete_edge",
      "delete_child_edges", "delete_marks", "delete_node", "announce", "announce_update",
      "announce_deletion", "read_parent", "read_children", "read_child_tags", "read_tags"} \X NodeIds)
    \cup ({"ensure_acyclic", "reassign", "insert_edge"} \X NodeIds \X NodeIds)
    \cup ({"insert_node"} \X NodeIds \X Kinds)
    \cup ({"update_node"} \X NodeIds \X (Kinds \cup {Relabel}))
    \cup ({"insert_mark"} \X NodeIds \X Tags)
    \cup ({"insert_marks"} \X NodeIds \X SUBSET Tags)
    \cup ({"ensure_new_tag", "ensure_tag", "insert_tag", "assert_tag", "fetch_tag", "fetch_bearers",
           "delete_tag_marks", "delete_tag", "announce_bearers"} \X Tags)
    \cup ({"remove_row"} \X {row \in Rows : row[1] \in {"edge", "mark"}})
    \cup ({"append"} \X NodeIds \X Representations)
    \cup ({"append"} \X Tags \X BOOLEAN)
    \cup ({"announce_replacement"} \X NodeIds \X (NodeIds \cup {NoNode}))
    \cup {<<"pass_by">>, <<"announce_parents">>}
-----------------------------------------------------------------------------
(* The order in which rows are written: the node, its edge, its tags, the log.    *)
(* A statement (with those that it puts in front of the rest) writes rows from      *)
(* Lowest to Highest; one that only reads never stands in the way of another, and    *)
(* after insert_node no statement writes a node (so that its Highest is not 1 but 2).  *)

Rank(row) ==
    CASE row[1] = "node" -> 1
      [] row[1] = "edge" -> 2
      [] row[1] \in {"mark", "tag"} -> 3
      [] row[1] = "event_sequence" -> 4
      [] OTHER -> 0

AnnouncesTag(s) == s[1] = "append" /\ s[2] \in Tags /\ s[3] = TRUE

Wide == {"create_or_replace", "find_home", "find_orphan_container", "delete_node", "delete_tag"}
Stage(s) ==
    CASE s[1] \in {"insert_node", "update_node"} -> 1
      [] s[1] \in {"delete_edge", "insert_edge", "reassign", "reassign_children", "delete_child_edges"} -> 2
      [] s[1] \in {"delete_marks", "ensure_tag", "insert_tag", "insert_marks", "insert_mark",
                   "delete_tag_marks"} -> 3
      [] s[1] = "remove_row" -> Rank(s[2])
      [] s[1] \in {"announce", "announce_update", "announce_replacement", "announce_deletion",
                   "announce_bearers", "announce_parents", "read_parent", "read_children",
                   "read_child_tags", "read_tags"} -> 4
      [] s[1] = "append" -> IF AnnouncesTag(s) THEN 0 ELSE 4
      [] OTHER -> 0
Lowest(s) == IF s[1] \in Wide THEN 1 ELSE IF Stage(s) = 0 THEN 9 ELSE Stage(s)
Highest(s) == IF s[1] \in Wide THEN 4 ELSE IF s[1] = "insert_node" THEN 2 ELSE Stage(s)

(* The rows of nodes it may write (and whether it may create or replace the whole    *)
(* node, which only a PUT does), and whether it is part of a deletion.               *)
Whole(n) == <<"whole", n>>
MarksOf(n) == {Mark(n, u) : u \in Tags}
Reach(s) ==
    CASE s[1] \in {"insert_node", "update_node"} -> {Node(s[2])}
      [] s[1] \in {"delete_edge", "insert_edge"} -> {Edge(s[2])}
      [] s[1] \in {"delete_marks", "insert_marks", "insert_mark"} -> MarksOf(s[2])
      [] s[1] = "create_or_replace" -> {Whole(s[2]), Node(s[2]), Edge(s[2])} \cup MarksOf(s[2])
      [] s[1] = "remove_row" -> {s[2]}
      [] s[1] \in {"find_home", "find_orphan_container", "reassign_children", "reassign",
                   "delete_child_edges", "delete_tag_marks", "delete_node", "delete_tag"} -> Rows
      [] OTHER -> {}

DeletesSomething(s) ==
    \/ s[1] \in {"find_home", "find_orphan_container", "fetch_children", "reassign_children", "reassign",
                 "delete_child_edges", "delete_node", "announce_deletion", "fetch_tag", "fetch_bearers",
                 "delete_tag_marks", "delete_tag", "announce_bearers", "announce_parents"}
    \/ s[1] = "append" /\ s[2] \in Tags /\ s[3] = FALSE

(* Statements from lo to hi, within the rows R, that delete only if d.              *)
Part(a, lo, hi, R, d) ==
    /\ a \in Seq(Statements)
    /\ \A i \in 1..Len(a) : /\ lo <= Lowest(a[i]) /\ Highest(a[i]) <= hi
                            /\ Reach(a[i]) \subseteq R /\ (DeletesSomething(a[i]) => d)
    /\ d \/ \A i, j \in 1..Len(a) : i < j => Highest(a[i]) <= Lowest(a[j])

Rest(a, R, d) ==
    /\ a \in Seq(Statements \cup {Finish})
    /\ \A i \in 1..Len(a) : /\ a[i] = Finish <=> i = Len(a)
                            /\ Reach(a[i]) \subseteq R /\ (DeletesSomething(a[i]) => d)
    /\ d \/ \A i, j \in 1..Len(a) : i < j => Highest(a[i]) <= Lowest(a[j])
-----------------------------------------------------------------------------
(* The inductive invariant.                                                   *)

Fits(row, value) ==
    /\ row[1] = "node" => value \in Kinds \cup {"absent"}
    /\ row[1] = "edge" => value \in NodeIds \cup {NoNode}
    /\ row[1] \in {"tag", "mark"} => value \in BOOLEAN

Table(v) == DOMAIN v = Rows /\ \A row \in Rows : Fits(row, v[row])

Bodies(r) == r.op \in {"POST", "PUT", "PATCH"}
Scope(r) ==
    IF Deleting(r) THEN Rows
    ELSE IF Bodies(r)
         THEN {Node(r.node), Edge(r.node)} \cup (IF Lists(r) THEN MarksOf(r.node) ELSE {})
                  \cup (IF r.op = "PUT" THEN {Whole(r.node)} ELSE {})
    ELSE {}

Memory == [parent : NodeIds \cup {NoNode}, nodes : SUBSET NodeIds, home : NodeIds \cup {NoNode},
           resource : Representations]

WritesFit(t) ==
    /\ DOMAIN writes[t] \subseteq Rows
    /\ \A row \in DOMAIN writes[t] : Fits(row, writes[t][row])

ThreadOK(t) ==
    /\ Running(t) => request[t] \in Requests
    /\ Rest(todo[t], Scope(request[t]), Deleting(request[t]))
    /\ seen[t] \in Memory
    /\ WritesFit(t) /\ shares[t] \subseteq Rows
    /\ DOMAIN news[t] \subseteq NodeIds \cup Tags
    /\ \A u \in Tags \cap DOMAIN news[t] : news[t][u] \in BOOLEAN
    /\ overtook[t] \subseteq Threads \ {t}
    /\ answer[t] \in {0, 200, 400, 404, 409, 500}
    /\ ~Running(t) => writes[t] = <<>> /\ shares[t] = {} /\ news[t] = <<>>

Domains ==
    /\ DOMAIN todo = Threads /\ DOMAIN seen = Threads /\ DOMAIN writes = Threads
    /\ DOMAIN shares = Threads /\ DOMAIN news = Threads /\ DOMAIN overtook = Threads
    /\ DOMAIN answer = Threads
Typed ==
    /\ engine \in Engines /\ setting \in Settings
    /\ Table(db)
    /\ request \in [Threads -> Requests \cup {NoRequest}]
    /\ Domains
    /\ \A t \in Threads : ThreadOK(t)

(* What a request holds: its own rows, none of which it has removed for good, in   *)
(* order, and a new tag's row no longer than until the tag is announced.            *)
HoldsInOrder(t) == ~Deleting(request[t]) =>
    \A row \in DOMAIN writes[t] :
        /\ row[1] \in {"node", "edge", "mark"} => row \in Scope(request[t])
        /\ row[1] \in {"node", "tag"} => writes[t][row] # Gone(row)
        /\ row # Sequence \/ ~NewTag(t) => \A i \in 1..Len(todo[t]) : Rank(row) <= Lowest(todo[t][i])
        /\ row[1] = "tag" /\ ~NewTag(t) =>
              \/ AnnouncesTag(todo[t][1])
              \/ Len(todo[t]) >= 2 /\ todo[t][1][1] = "assert_tag" /\ AnnouncesTag(todo[t][2])

(* A request creates its node, or finds it to be replaced, before it writes anything. *)
Creating == {"insert_node", "create_or_replace"}
CreatesFirst(t) == Bodies(request[t]) =>
    \A i \in 1..Len(todo[t]) : todo[t][i][1] \in Creating => i = 1 /\ writes[t] = <<>>

(* A row is written by one open transaction at a time.                            *)
ThreadInv(t) == ThreadOK(t) /\ HoldsInOrder(t) /\ CreatesFirst(t)
LocksAreExclusive == engine = "postgres" =>
    \A t, o \in Threads : t # o => DOMAIN writes[t] \cap DOMAIN writes[o] = {}

IInv ==
    /\ Typed
    /\ LocksAreExclusive
    /\ \A t \in Threads : HoldsInOrder(t) /\ CreatesFirst(t)
-----------------------------------------------------------------------------
(* Statements and sequences of them.                                          *)

LEMMA Contents ==
    ASSUME NEW s \in Statements
    PROVE  /\ s # Finish
           /\ s[1] = "append" =>
                \/ s[2] \in NodeIds /\ s[3] \in Representations
                \/ s[2] \in Tags /\ s[3] \in BOOLEAN
           /\ s[1] = "remove_row" => s[2] \in Rows /\ s[2][1] \in {"edge", "mark"}
BY DEF Statements, Finish

LEMMA SinglePart ==
    ASSUME NEW s \in Statements, NEW lo, NEW hi, NEW R, NEW d, lo <= Lowest(s), Highest(s) <= hi,
           Reach(s) \subseteq R, DeletesSomething(s) => d
    PROVE  Part(<<s>>, lo, hi, R, d)
BY DEF Part

LEMMA NoPart == \A lo, hi, R, d : Part(<<>>, lo, hi, R, d)
BY DEF Part

LEMMA JoinedSeqs ==
    ASSUME NEW S, NEW a \in Seq(S), NEW b \in Seq(S)
    PROVE  /\ a \o b \in Seq(S) /\ Len(a \o b) = Len(a) + Len(b)
           /\ Len(a) \in Nat /\ Len(b) \in Nat
           /\ \A i \in 1..Len(a \o b) : (a \o b)[i] = IF i <= Len(a) THEN a[i] ELSE b[i - Len(a)]
OBVIOUS

LEMMA JoinParts ==
    ASSUME NEW lo \in Nat, NEW hi \in Nat, NEW mid \in Nat, NEW R, NEW d, lo <= mid, mid <= hi,
           NEW a, Part(a, lo, mid, R, d), NEW b, Part(b, mid, hi, R, d)
    PROVE  Part(a \o b, lo, hi, R, d)
<1>1. /\ a \o b \in Seq(Statements) /\ Len(a \o b) = Len(a) + Len(b)
      /\ Len(a) \in Nat /\ Len(b) \in Nat
      /\ \A i \in 1..Len(a \o b) : (a \o b)[i] = IF i <= Len(a) THEN a[i] ELSE b[i - Len(a)]
  BY JoinedSeqs DEF Part
<1>2. \A i \in 1..Len(a) : 
         /\ lo <= Lowest(a[i]) /\ Highest(a[i]) <= mid
         /\ Reach(a[i]) \subseteq R /\ (DeletesSomething(a[i]) => d)
  BY DEF Part
<1>3. \A i \in 1..Len(b) : 
         /\ mid <= Lowest(b[i]) /\ Highest(b[i]) <= hi
         /\ Reach(b[i]) \subseteq R /\ (DeletesSomething(b[i]) => d)
  BY DEF Part
<1>4. \A s : Lowest(s) \in Nat /\ Highest(s) \in Nat
  BY DEF Lowest, Highest, Stage, Rank
<1>5. ASSUME NEW i \in 1..Len(a \o b)
      PROVE  /\ lo <= Lowest((a \o b)[i]) /\ Highest((a \o b)[i]) <= hi
             /\ Reach((a \o b)[i]) \subseteq R /\ (DeletesSomething((a \o b)[i]) => d)
  <2>1. CASE i <= Len(a)
    <3>1. i \in 1..Len(a) /\ (a \o b)[i] = a[i]
      BY <1>1, <2>1
    <3> QED BY <1>2, <1>4, <3>1
  <2>2. CASE ~(i <= Len(a))
    <3>1. i - Len(a) \in 1..Len(b) /\ (a \o b)[i] = b[i - Len(a)]
      BY <1>1, <2>2
    <3> QED BY <1>3, <1>4, <3>1
  <2> QED BY <2>1, <2>2
<1>6. ASSUME ~d, NEW i \in 1..Len(a \o b), NEW j \in 1..Len(a \o b), i < j
      PROVE  Highest((a \o b)[i]) <= Lowest((a \o b)[j])
  <2>1. CASE j <= Len(a)
    <3>1. /\ i \in 1..Len(a) /\ (a \o b)[i] = a[i]
          /\ j \in 1..Len(a) /\ (a \o b)[j] = a[j]
      BY <1>1, <1>6, <2>1
    <3> QED BY <1>6, <3>1 DEF Part
  <2>2. CASE ~(i <= Len(a))
    <3>1. /\ i - Len(a) \in 1..Len(b) /\ (a \o b)[i] = b[i - Len(a)]
          /\ j - Len(a) \in 1..Len(b) /\ (a \o b)[j] = b[j - Len(a)] /\ i - Len(a) < j - Len(a)
      BY <1>1, <1>6, <2>2
    <3> QED BY <1>6, <3>1 DEF Part
  <2>3. CASE i <= Len(a) /\ ~(j <= Len(a))
    <3>1. /\ i \in 1..Len(a) /\ (a \o b)[i] = a[i]
          /\ j - Len(a) \in 1..Len(b) /\ (a \o b)[j] = b[j - Len(a)]
      BY <1>1, <2>3
    <3>2. Highest(a[i]) <= mid /\ mid <= Lowest(b[j - Len(a)])
      BY <1>2, <1>3, <3>1
    <3> QED BY <1>4, <3>1, <3>2
  <2> QED BY <2>1, <2>2, <2>3
<1> QED BY <1>1, <1>5, <1>6 DEF Part

(* Statements made one by one for the members of a list.                        *)
LEMMA EachPart ==
    ASSUME NEW k \in Nat, NEW a \in [1..k -> Statements], NEW x \in Nat, NEW lo, NEW hi, NEW R, NEW d,
           lo <= x, x <= hi,
           \A i \in 1..k : /\ x = Lowest(a[i]) /\ x = Highest(a[i])
                           /\ Reach(a[i]) \subseteq R /\ (DeletesSomething(a[i]) => d)
    PROVE  Part(a, lo, hi, R, d)
<1>1. a \in Seq(Statements) /\ Len(a) = k
  OBVIOUS
<1> QED BY <1>1 DEF Part

LEMMA WiderPart ==
    ASSUME NEW lo \in Nat, NEW hi \in Nat, NEW l \in Nat, NEW h \in Nat, l <= lo, hi <= h,
           NEW R, NEW S, R \subseteq S, NEW d, NEW e, d => e, NEW a, Part(a, lo, hi, R, d)
    PROVE  Part(a, l, h, S, e)
<1>1. \A s : Lowest(s) \in Nat /\ Highest(s) \in Nat
  BY DEF Lowest, Highest, Stage, Rank
<1> QED BY <1>1 DEF Part

(* The rest of a program after a step.                                         *)
LEMMA RestContinues ==
    ASSUME NEW R, NEW d, NEW s, Rest(s, R, d), s # <<>>, s[1] # Finish,
           NEW a, Part(a, Lowest(s[1]), Highest(s[1]), Reach(s[1]), DeletesSomething(s[1]))
    PROVE  /\ Rest(a \o Tail(s), R, d) /\ a \o Tail(s) # <<>>
           /\ Len(a) \in Nat /\ Len(s) \in Nat /\ Len(s) >= 2 /\ Len(a \o Tail(s)) = Len(a) + Len(s) - 1
           /\ \A i \in 1..Len(a \o Tail(s)) :
                 (a \o Tail(s))[i] = IF i <= Len(a) THEN a[i] ELSE s[i - Len(a) + 1]
<1> DEFINE All == Statements \cup {Finish}
           r == a \o Tail(s)
<1>1. s \in Seq(All) /\ a \in Seq(All) /\ a \in Seq(Statements)
  BY DEF Rest, Part
<1>2. Tail(s) \in Seq(All) /\ Len(s) \in Nat /\ Len(s) >= 1 /\ Len(Tail(s)) = Len(s) - 1
      /\ \A i \in 1..Len(Tail(s)) : Tail(s)[i] = s[i + 1]
  BY <1>1
<1>0. \A i \in 1..Len(s) : /\ s[i] = Finish <=> i = Len(s)
                           /\ Reach(s[i]) \subseteq R /\ (DeletesSomething(s[i]) => d)
  BY DEF Rest
<1>3. 1 \in 1..Len(s) /\ Len(s) \in 1..Len(s) /\ Len(s) >= 2 /\ s[Len(s)] = Finish
  <2>1. 1 \in 1..Len(s) /\ Len(s) \in 1..Len(s)
    BY <1>2
  <2>2. s[1] = Finish <=> 1 = Len(s)
    BY <1>0, <2>1
  <2>3. s[Len(s)] = Finish
    BY <1>0, <2>1
  <2> QED BY <1>2, <2>1, <2>2, <2>3
<1>4. /\ r \in Seq(All) /\ Len(a) \in Nat /\ Len(r) = Len(a) + Len(s) - 1
      /\ \A i \in 1..Len(r) : r[i] = IF i <= Len(a) THEN a[i] ELSE s[i - Len(a) + 1]
  BY <1>1, <1>2
<1> HIDE DEF All, r
<1>5. r # <<>>
  BY <1>3, <1>4
<1>6. ASSUME NEW i \in 1..Len(r)
      PROVE  /\ r[i] = Finish <=> i = Len(r)
             /\ Reach(r[i]) \subseteq R /\ (DeletesSomething(r[i]) => d)
  <2>1. CASE i <= Len(a)
    <3>1. i \in 1..Len(a) /\ r[i] = a[i] /\ i # Len(r)
      BY <1>2, <1>3, <1>4, <2>1
    <3>2. a[i] # Finish
      BY <1>1, <3>1, Contents
    <3>3. Reach(a[i]) \subseteq Reach(s[1]) /\ (DeletesSomething(a[i]) => DeletesSomething(s[1]))
      BY <3>1 DEF Part
    <3>4. Reach(s[1]) \subseteq R /\ (DeletesSomething(s[1]) => d)
      BY <1>0, <1>3
    <3> QED BY <3>1, <3>2, <3>3, <3>4
  <2>2. CASE ~(i <= Len(a))
    <3>1. PICK j \in 1..Len(s) : j = i - Len(a) + 1 /\ r[i] = s[j] /\ (i = Len(r) <=> j = Len(s))
      <4>1. i - Len(a) + 1 \in 1..Len(s) /\ (i = Len(r) <=> i - Len(a) + 1 = Len(s))
        BY <1>2, <1>4, <2>2
      <4> QED BY <1>4, <2>2, <4>1
    <3> QED BY <1>0, <3>1
  <2> QED BY <2>1, <2>2
<1>7. ASSUME ~d, NEW i \in 1..Len(r), NEW j \in 1..Len(r), i < j
      PROVE  Highest(r[i]) <= Lowest(r[j])
  <2>0. 1 \in 1..Len(s) /\ ~DeletesSomething(s[1])
    <3>1. DeletesSomething(s[1]) => d
      BY <1>0, <1>3
    <3> QED BY <1>3, <1>7, <3>1
  <2>1. CASE j <= Len(a)
    <3>1. /\ i \in 1..Len(a) /\ r[i] = a[i]
          /\ j \in 1..Len(a) /\ r[j] = a[j]
      BY <1>4, <1>7, <2>1
    <3> QED BY <1>7, <2>0, <3>1 DEF Part
  <2>2. CASE ~(i <= Len(a))
    <3>1. /\ i - Len(a) + 1 \in 1..Len(s) /\ r[i] = s[i - Len(a) + 1]
          /\ j - Len(a) + 1 \in 1..Len(s) /\ r[j] = s[j - Len(a) + 1] /\ i - Len(a) + 1 < j - Len(a) + 1
      BY <1>2, <1>4, <1>7, <2>2
    <3> QED BY <1>7, <3>1 DEF Rest
  <2>3. CASE i <= Len(a) /\ ~(j <= Len(a))
    <3>1. /\ i \in 1..Len(a) /\ r[i] = a[i]
          /\ j - Len(a) + 1 \in 1..Len(s) /\ r[j] = s[j - Len(a) + 1] /\ 1 < j - Len(a) + 1
      BY <1>2, <1>4, <2>3
    <3>2. Highest(a[i]) <= Highest(s[1]) /\ Highest(s[1]) <= Lowest(s[j - Len(a) + 1])
      BY <1>7, <2>0, <3>1 DEF Part, Rest
    <3>3. \A x : Lowest(x) \in Nat /\ Highest(x) \in Nat
      BY DEF Lowest, Highest, Stage, Rank
    <3> QED BY <3>1, <3>2, <3>3
  <2> QED BY <2>1, <2>2, <2>3
<1>8. Rest(r, R, d)
  BY <1>4, <1>6, <1>7 DEF Rest, All
<1> QED BY <1>3, <1>4, <1>5, <1>8, <1>2 DEF r
-----------------------------------------------------------------------------
(* Programs.                                                                  *)

LEMMA AnnouncementsPart ==
    ASSUME NEW S \in SUBSET (NodeIds \cup {NoNode}), NEW d
    PROVE  Part(Announcements(S), 4, 4, {}, d)
<1> DEFINE ids == Ascending(S \ {NoNode})
           a == [i \in DOMAIN ids |-> <<"announce", ids[i]>>]
<1>1. S \ {NoNode} \in SUBSET Nat /\ IsFiniteSet(S \ {NoNode}) /\ S \ {NoNode} \subseteq NodeIds
  BY TransactionsAssumption, FS_Subset
<1>2. ids \in Seq(NodeIds)
  <2>1. ids \in Seq(S \ {NoNode})
    BY <1>1, AscendingFacts
  <2> HIDE DEF ids
  <2> QED BY <1>1, <2>1
<1> HIDE DEF ids
<1>3. PICK k \in Nat : DOMAIN ids = 1..k /\ \A i \in 1..k : ids[i] \in NodeIds
  BY <1>2
<1>4. ASSUME NEW n \in NodeIds
      PROVE  /\ <<"announce", n>> \in Statements
             /\ Lowest(<<"announce", n>>) = 4 /\ Highest(<<"announce", n>>) = 4
             /\ Reach(<<"announce", n>>) = {} /\ ~DeletesSomething(<<"announce", n>>)
  BY DEF Statements, Lowest, Highest, Stage, Wide, Reach, DeletesSomething
<1>5. a \in [1..k -> Statements]
  BY <1>3, <1>4
<1>6. \A i \in 1..k : /\ 4 = Lowest(a[i]) /\ 4 = Highest(a[i])
                      /\ Reach(a[i]) \subseteq {} /\ (DeletesSomething(a[i]) => d)
  BY <1>3, <1>4
<1>7. Part(a, 4, 4, {}, d)
  <2> HIDE DEF a
  <2> QED BY <1>5, <1>6, EachPart
<1> QED BY <1>7 DEF Announcements, ids

LEMMA SetParentPart ==
    ASSUME NEW n \in NodeIds, NEW p \in NodeIds \cup {NoNode}, NEW R, Edge(n) \in R, NEW d
    PROVE  Part(SetParent(n, p), 2, 2, R, d)
<1>1. Part(<< <<"delete_edge", n>> >>, 2, 2, R, d)
  <2>1. <<"delete_edge", n>> \in Statements
    BY DEF Statements
  <2>2. /\ Lowest(<<"delete_edge", n>>) = 2 /\ Highest(<<"delete_edge", n>>) = 2
         /\ Reach(<<"delete_edge", n>>) \subseteq R /\ ~DeletesSomething(<<"delete_edge", n>>)
    BY DEF Lowest, Highest, Stage, Wide, Reach, DeletesSomething
  <2> QED BY <2>1, <2>2, SinglePart
<1>2. Part(When(p # NoNode, << <<"insert_edge", n, p>> >>), 2, 2, R, d)
  <2>1. CASE p \in NodeIds
    <3>1. <<"insert_edge", n, p>> \in Statements
      BY <2>1 DEF Statements
    <3>2. /\ Lowest(<<"insert_edge", n, p>>) = 2 /\ Highest(<<"insert_edge", n, p>>) = 2
           /\ Reach(<<"insert_edge", n, p>>) \subseteq R /\ ~DeletesSomething(<<"insert_edge", n, p>>)
      BY DEF Lowest, Highest, Stage, Wide, Reach, DeletesSomething
    <3>3. Part(<< <<"insert_edge", n, p>> >>, 2, 2, R, d)
      BY <3>1, <3>2, SinglePart
    <3> QED BY <3>3, NoPart DEF When
  <2>2. CASE p = NoNode
    BY <2>2, NoPart DEF When
  <2> QED BY <2>1, <2>2
<1> HIDE DEF When
<1> QED BY <1>1, <1>2, JoinParts DEF SetParent

LEMMA ReplaceNodeTagsPart ==
    ASSUME NEW n \in NodeIds, NEW names \in Seq(Tags), NEW R, MarksOf(n) \subseteq R, NEW d
    PROVE  Part(ReplaceNodeTags(n, names), 3, 3, R, d)
<1> DEFINE ensure == [i \in DOMAIN names |-> <<"ensure_tag", names[i]>>]
           insert == When(names # <<>>, << <<"insert_marks", n, ToSet(names)>> >>)
<1>1. Part(<< <<"delete_marks", n>> >>, 3, 3, R, d)
  <2>1. <<"delete_marks", n>> \in Statements
    BY DEF Statements
  <2>2. /\ Lowest(<<"delete_marks", n>>) = 3 /\ Highest(<<"delete_marks", n>>) = 3
         /\ Reach(<<"delete_marks", n>>) \subseteq R /\ ~DeletesSomething(<<"delete_marks", n>>)
    BY DEF Lowest, Highest, Stage, Wide, Reach, DeletesSomething
  <2> QED BY <2>1, <2>2, SinglePart
<1>2. Part(ensure, 3, 3, R, d)
  <2>1. PICK k \in Nat : DOMAIN names = 1..k /\ \A i \in 1..k : names[i] \in Tags
    OBVIOUS
  <2>2. ASSUME NEW u \in Tags
        PROVE  /\ <<"ensure_tag", u>> \in Statements
               /\ Lowest(<<"ensure_tag", u>>) = 3 /\ Highest(<<"ensure_tag", u>>) = 3
               /\ Reach(<<"ensure_tag", u>>) = {} /\ ~DeletesSomething(<<"ensure_tag", u>>)
    BY DEF Statements, Lowest, Highest, Stage, Wide, Reach, DeletesSomething
  <2>3. ensure \in [1..k -> Statements]
    BY <2>1, <2>2
  <2>4. \A i \in 1..k : /\ 3 = Lowest(ensure[i]) /\ 3 = Highest(ensure[i])
                        /\ Reach(ensure[i]) \subseteq R /\ (DeletesSomething(ensure[i]) => d)
    BY <2>1, <2>2
  <2> HIDE DEF ensure
  <2> QED BY <2>3, <2>4, EachPart
<1>3. Part(insert, 3, 3, R, d)
  <2>1. ToSet(names) \in SUBSET Tags
    BY DEF ToSet
  <2>2. <<"insert_marks", n, ToSet(names)>> \in Statements
    BY <2>1 DEF Statements
  <2>3. /\ Lowest(<<"insert_marks", n, ToSet(names)>>) = 3 /\ Highest(<<"insert_marks", n, ToSet(names)>>) = 3
         /\ Reach(<<"insert_marks", n, ToSet(names)>>) \subseteq R /\ ~DeletesSomething(<<"insert_marks", n, ToSet(names)>>)
    BY DEF Lowest, Highest, Stage, Wide, Reach, DeletesSomething
  <2>4. Part(<< <<"insert_marks", n, ToSet(names)>> >>, 3, 3, R, d)
    BY <2>2, <2>3, SinglePart
  <2> QED BY <2>4, NoPart DEF When
<1> HIDE DEF ensure, insert
<1>4. Part(<< <<"delete_marks", n>> >> \o ensure, 3, 3, R, d)
  BY <1>1, <1>2, JoinParts
<1>5. Part(<< <<"delete_marks", n>> >> \o ensure \o insert, 3, 3, R, d)
  BY <1>3, <1>4, JoinParts
<1> QED BY <1>5 DEF ReplaceNodeTags, ensure, insert

LEMMA EnsureParentPart ==
    ASSUME NEW n \in NodeIds, NEW p \in NodeIds, NEW R, NEW d
    PROVE  /\ Part(<< <<"ensure_container", p>> >>, 2, 2, R, d)
           /\ Part(EnsureParentIsValid(n, p), 1, 1, R, d)
<1>1. <<"ensure_container", p>> \in Statements /\ <<"ensure_acyclic", n, p>> \in Statements
  BY DEF Statements
<1>2. \A s \in {<<"ensure_container", p>>, <<"ensure_acyclic", n, p>>} :
         Lowest(s) = 9 /\ Highest(s) = 0 /\ Reach(s) = {} /\ ~DeletesSomething(s)
  BY DEF Lowest, Highest, Stage, Wide, Reach, DeletesSomething
<1>3. Part(<< <<"ensure_container", p>> >>, 2, 2, R, d)
  BY <1>1, <1>2, SinglePart
<1>4. Part(<< <<"ensure_container", p>>, <<"ensure_acyclic", n, p>> >>, 1, 1, R, d)
  BY <1>1, <1>2 DEF Part
<1> QED BY <1>3, <1>4 DEF EnsureParentIsValid

LEMMA ReadPart ==
    ASSUME NEW n \in NodeIds, NEW R, NEW d
    PROVE  /\ Part(<< <<"fetch_node", n>> >>, 1, 1, R, d)
           /\ Part(<< <<"fetch_parent", n>> >>, 1, 1, R, d)
           /\ Part(<< <<"ensure_childless", n>> >>, 1, 1, R, d)
<1> DEFINE E == {<<"fetch_node", n>>, <<"fetch_parent", n>>, <<"ensure_childless", n>>}
<1>1. \A s \in E : s \in Statements
  BY DEF Statements
<1>2. \A s \in E : Lowest(s) = 9 /\ Highest(s) = 0 /\ Reach(s) = {} /\ ~DeletesSomething(s)
  BY DEF Lowest, Highest, Stage, Wide, Reach, DeletesSomething
<1>3. \A s \in E : Part(<<s>>, 1, 1, R, d)
  BY <1>1, <1>2, SinglePart
<1> QED BY <1>3

LEMMA NodePart ==
    ASSUME NEW n \in NodeIds, NEW kind \in Kinds \cup {Relabel}, NEW R, Node(n) \in R, NEW d,
           NEW x \in {"insert_node", "update_node"}, x = "insert_node" => kind \in Kinds
    PROVE  Part(<< <<x, n, kind>> >>, 1, IF x = "insert_node" THEN 2 ELSE 1, R, d)
<1> DEFINE hi == IF x = "insert_node" THEN 2 ELSE 1
<1>1. <<x, n, kind>> \in Statements
  BY DEF Statements
<1>2. /\ Lowest(<<x, n, kind>>) = 1 /\ Highest(<<x, n, kind>>) = hi /\ hi \in Nat
      /\ Reach(<<x, n, kind>>) \subseteq R /\ ~DeletesSomething(<<x, n, kind>>)
  BY DEF Lowest, Highest, Stage, Wide, Reach, DeletesSomething
<1> HIDE DEF hi
<1>3. Part(<< <<x, n, kind>> >>, 1, hi, R, d)
  BY <1>1, <1>2, SinglePart
<1> QED BY <1>3 DEF hi

LEMMA EventPart ==
    ASSUME NEW n \in NodeIds, NEW p \in NodeIds \cup {NoNode}, NEW R, NEW d
    PROVE  /\ Part(<< <<"announce", n>> >>, 4, 4, R, d)
           /\ Part(<< <<"announce_update", n>> >>, 4, 4, R, d)
           /\ Part(<< <<"announce_replacement", n, p>> >>, 4, 4, R, d)
<1> DEFINE E == {<<"announce", n>>, <<"announce_update", n>>, <<"announce_replacement", n, p>>}
<1>1. \A s \in E : s \in Statements
  BY DEF Statements
<1>2. \A s \in E : Lowest(s) = 4 /\ Highest(s) = 4 /\ Reach(s) = {} /\ ~DeletesSomething(s)
  BY DEF Lowest, Highest, Stage, Wide, Reach, DeletesSomething
<1>3. \A s \in E : Part(<<s>>, 4, 4, R, d)
  BY <1>1, <1>2, SinglePart
<1> QED BY <1>3

LEMMA CreateNodePart ==
    ASSUME NEW n \in NodeIds, NEW kind \in Kinds, NEW p \in NodeIds \cup {NoNode}, NEW names \in Seq(Tags),
           NEW R, {Node(n), Edge(n)} \cup MarksOf(n) \subseteq R, NEW d
    PROVE  Part(CreateNode(n, kind, p, names), 1, 4, R, d)
<1> DEFINE a == << <<"insert_node", n, kind>> >>
           b == When(p # NoNode, << <<"ensure_container", p>> >> \o SetParent(n, p))
           c == When(names # <<>>, ReplaceNodeTags(n, names))
           e == << <<"announce", n>> >>
           f == Announcements({p})
<1>1. Part(a, 1, 2, R, d)
  BY NodePart
<1>2. Part(b, 2, 2, R, d)
  <2>1. CASE p \in NodeIds
    <3>1. Part(<< <<"ensure_container", p>> >>, 2, 2, R, d)
      BY <2>1, EnsureParentPart
    <3>2. Part(SetParent(n, p), 2, 2, R, d)
      BY SetParentPart
    <3>3. Part(<< <<"ensure_container", p>> >> \o SetParent(n, p), 2, 2, R, d)
      BY <3>1, <3>2, JoinParts
    <3> QED BY <3>3, NoPart DEF When
  <2>2. CASE p = NoNode
    BY <2>2, NoPart DEF When
  <2> QED BY <2>1, <2>2
<1>3. Part(c, 3, 3, R, d)
  BY ReplaceNodeTagsPart, NoPart DEF When
<1>4. Part(e, 4, 4, R, d)
  BY EventPart
<1>5. Part(f, 4, 4, R, d)
  <2>1. Part(f, 4, 4, {}, d)
    BY AnnouncementsPart
  <2> QED BY <2>1, WiderPart
<1> HIDE DEF a, b, c, e, f
<1>6. Part(a \o b, 1, 2, R, d)
  BY <1>1, <1>2, JoinParts
<1>7. Part(a \o b \o c, 1, 3, R, d)
  <2>1. Part(c, 2, 3, R, d)
    BY <1>3, WiderPart
  <2> QED BY <1>6, <2>1, JoinParts
<1>8. Part(a \o b \o c \o e, 1, 4, R, d)
  <2>1. Part(e, 3, 4, R, d)
    BY <1>4, WiderPart
  <2> QED BY <1>7, <2>1, JoinParts
<1>9. Part(a \o b \o c \o e \o f, 1, 4, R, d)
  BY <1>5, <1>8, JoinParts
<1> QED BY <1>9 DEF CreateNode, a, b, c, e, f

LEMMA UpdateNodePart ==
    ASSUME NEW n \in NodeIds, NEW kind \in Kinds \cup {Keep, Relabel}, NEW p \in NodeIds \cup {NoNode, Keep},
           NEW names \in Seq(Tags) \cup {Keep}, NEW R, {Node(n), Edge(n)} \subseteq R,
           names # Keep => MarksOf(n) \subseteq R, NEW d
    PROVE  Part(UpdateNode(n, kind, p, names), 1, 4, R, d)
<1> DEFINE a == << <<"fetch_node", n>>, <<"fetch_parent", n>> >>
           b == When(kind = "item", << <<"ensure_childless", n>> >>)
           c == When(p \notin {Keep, NoNode}, EnsureParentIsValid(n, p))
           e == When(kind # Keep, << <<"update_node", n, kind>> >>)
           f == When(p # Keep, SetParent(n, p))
           g == When(names # Keep, ReplaceNodeTags(n, names))
           h == << <<"announce_update", n>> >>
<1>1. Part(a, 1, 1, R, d)
  <2>1. a = << <<"fetch_node", n>> >> \o << <<"fetch_parent", n>> >>
    OBVIOUS
  <2>2. Part(<< <<"fetch_node", n>> >>, 1, 1, R, d) /\ Part(<< <<"fetch_parent", n>> >>, 1, 1, R, d)
    BY ReadPart
  <2>3. Part(<< <<"fetch_node", n>> >> \o << <<"fetch_parent", n>> >>, 1, 1, R, d)
    BY <2>2, JoinParts
  <2> HIDE DEF a
  <2> QED BY <2>1, <2>3
<1>2. Part(b, 1, 1, R, d)
  BY ReadPart, NoPart DEF When
<1>3. Part(c, 1, 1, R, d)
  <2>1. p \in NodeIds => Part(EnsureParentIsValid(n, p), 1, 1, R, d)
    BY EnsureParentPart
  <2> QED BY <2>1, NoPart DEF When
<1>4. Part(e, 1, 1, R, d)
  BY NodePart, NoPart DEF When
<1>5. Part(f, 1, 2, R, d)
  <2>1. p # Keep => Part(SetParent(n, p), 2, 2, R, d)
    BY SetParentPart
  <2>2. p # Keep => Part(SetParent(n, p), 1, 2, R, d)
    BY <2>1, WiderPart
  <2> QED BY <2>2, NoPart DEF When
<1>6. Part(g, 2, 3, R, d)
  <2>1. names # Keep => Part(ReplaceNodeTags(n, names), 3, 3, R, d)
    BY ReplaceNodeTagsPart
  <2>2. names # Keep => Part(ReplaceNodeTags(n, names), 2, 3, R, d)
    BY <2>1, WiderPart
  <2> QED BY <2>2, NoPart DEF When
<1>7. Part(h, 3, 4, R, d)
  <2>1. Part(h, 4, 4, R, d)
    BY EventPart
  <2> QED BY <2>1, WiderPart
<1> HIDE DEF a, b, c, e, f, g, h
<1>8. Part(a \o b, 1, 1, R, d)
  BY <1>1, <1>2, JoinParts
<1>9. Part(a \o b \o c, 1, 1, R, d)
  BY <1>8, <1>3, JoinParts
<1>10. Part(a \o b \o c \o e, 1, 1, R, d)
  BY <1>9, <1>4, JoinParts
<1>11. Part(a \o b \o c \o e \o f, 1, 2, R, d)
  BY <1>10, <1>5, JoinParts
<1>12. Part(a \o b \o c \o e \o f \o g, 1, 3, R, d)
  BY <1>11, <1>6, JoinParts
<1>13. Part(a \o b \o c \o e \o f \o g \o h, 1, 4, R, d)
  BY <1>12, <1>7, JoinParts
<1> QED BY <1>13 DEF UpdateNode, a, b, c, e, f, g, h

LEMMA ReplaceNodePart ==
    ASSUME NEW n \in NodeIds, NEW kind \in Kinds, NEW p \in NodeIds \cup {NoNode}, NEW names \in Seq(Tags),
           NEW R, {Node(n), Edge(n)} \cup MarksOf(n) \subseteq R, NEW d
    PROVE  Part(ReplaceNode(n, kind, p, names), 1, 4, R, d)
<1> DEFINE a == When(kind = "item", << <<"ensure_childless", n>> >>)
           b == << <<"fetch_parent", n>> >>
           c == When(p # NoNode, EnsureParentIsValid(n, p))
           e == << <<"update_node", n, kind>> >>
           f == SetParent(n, p)
           g == ReplaceNodeTags(n, names)
           h == << <<"announce_replacement", n, p>> >>
<1>1. Part(a, 1, 1, R, d)
  BY ReadPart, NoPart DEF When
<1>2. Part(b, 1, 1, R, d)
  BY ReadPart
<1>3. Part(c, 1, 1, R, d)
  <2>1. p \in NodeIds => Part(EnsureParentIsValid(n, p), 1, 1, R, d)
    BY EnsureParentPart
  <2> QED BY <2>1, NoPart DEF When
<1>4. Part(e, 1, 1, R, d)
  BY NodePart
<1>5. Part(f, 1, 2, R, d)
  <2>1. Part(f, 2, 2, R, d)
    BY SetParentPart
  <2> QED BY <2>1, WiderPart
<1>6. Part(g, 2, 3, R, d)
  <2>1. Part(g, 3, 3, R, d)
    BY ReplaceNodeTagsPart
  <2> QED BY <2>1, WiderPart
<1>7. Part(h, 3, 4, R, d)
  <2>1. Part(h, 4, 4, R, d)
    BY EventPart
  <2> QED BY <2>1, WiderPart
<1> HIDE DEF a, b, c, e, f, g, h
<1>8. Part(a \o b, 1, 1, R, d)
  BY <1>1, <1>2, JoinParts
<1>9. Part(a \o b \o c, 1, 1, R, d)
  BY <1>8, <1>3, JoinParts
<1>10. Part(a \o b \o c \o e, 1, 1, R, d)
  BY <1>9, <1>4, JoinParts
<1>11. Part(a \o b \o c \o e \o f, 1, 2, R, d)
  BY <1>10, <1>5, JoinParts
<1>12. Part(a \o b \o c \o e \o f \o g, 1, 3, R, d)
  BY <1>11, <1>6, JoinParts
<1>13. Part(a \o b \o c \o e \o f \o g \o h, 1, 4, R, d)
  BY <1>12, <1>7, JoinParts
<1> QED BY <1>13 DEF ReplaceNode, a, b, c, e, f, g, h

(* Anything goes in a deletion.                                                 *)
LEMMA DeletionPart ==
    ASSUME NEW a \in Seq(Statements), \A i \in 1..Len(a) : Reach(a[i]) \subseteq Rows
    PROVE  Part(a, 0, 9, Rows, TRUE)
<1>1. \A s : Lowest(s) \in 0..9 /\ Highest(s) \in 0..9
  BY DEF Lowest, Highest, Stage, Rank
<1> QED BY <1>1 DEF Part

LEMMA DeleteNodePart ==
    ASSUME NEW n \in NodeIds
    PROVE  Part(DeleteNode(n), 0, 9, Rows, TRUE)
<1> DEFINE s == DeleteNode(n)
           E == {<<"fetch_node", n>>, <<"fetch_parent", n>>, <<"find_home", n>>, <<"fetch_children", n>>,
                 <<"reassign_children", n>>, <<"delete_child_edges", n>>, <<"delete_edge", n>>,
                 <<"delete_marks", n>>, <<"delete_node", n>>, <<"announce_deletion", n>>}
<1>1. \A x \in E : x \in Statements
  BY DEF Statements
<1>2. Edge(n) \in Rows /\ MarksOf(n) \subseteq Rows
  BY DEF Rows, MarksOf
<1>3. \A x \in E : Reach(x) \subseteq Rows
  BY <1>2 DEF Reach
<1>4. s \in Seq(E)
  BY DEF DeleteNode
<1> HIDE DEF s, E
<1>5. s \in Seq(Statements) /\ \A i \in 1..Len(s) : Reach(s[i]) \subseteq Rows
  BY <1>1, <1>3, <1>4
<1> QED BY <1>5, DeletionPart DEF s

LEMMA CreateTagPart ==
    ASSUME NEW u \in Tags, NEW R, NEW d
    PROVE  Part(CreateTag(u), 0, 9, R, d)
<1>1. <<"ensure_new_tag", u>> \in Statements /\ <<"ensure_tag", u>> \in Statements
  BY DEF Statements
<1>2. /\ Lowest(<<"ensure_new_tag", u>>) = 9 /\ Highest(<<"ensure_new_tag", u>>) = 0
      /\ Lowest(<<"ensure_tag", u>>) = 3 /\ Highest(<<"ensure_tag", u>>) = 3
  BY DEF Lowest, Highest, Stage, Wide
<1>3. /\ Reach(<<"ensure_new_tag", u>>) = {} /\ Reach(<<"ensure_tag", u>>) = {}
      /\ ~DeletesSomething(<<"ensure_new_tag", u>>) /\ ~DeletesSomething(<<"ensure_tag", u>>)
  BY DEF Reach, DeletesSomething
<1> QED BY <1>1, <1>2, <1>3 DEF Part, CreateTag

LEMMA DeleteTagPart ==
    ASSUME NEW u \in Tags
    PROVE  Part(DeleteTag(u), 0, 9, Rows, TRUE)
<1> DEFINE s == DeleteTag(u)
           E == {<<"fetch_tag", u>>, <<"fetch_bearers", u>>, <<"delete_tag_marks", u>>, <<"delete_tag", u>>,
                 <<"announce_bearers", u>>}
<1>1. \A x \in E : x \in Statements
  BY DEF Statements
<1>2. \A x \in E : Reach(x) \subseteq Rows
  BY DEF Reach
<1>3. s \in Seq(E)
  BY DEF DeleteTag
<1> HIDE DEF s, E
<1>4. s \in Seq(Statements) /\ \A i \in 1..Len(s) : Reach(s[i]) \subseteq Rows
  BY <1>1, <1>2, <1>3
<1> QED BY <1>4, DeletionPart DEF s

LEMMA ReplacePart ==
    ASSUME NEW n \in NodeIds, NEW R, {Whole(n), Node(n), Edge(n)} \cup MarksOf(n) \subseteq R, NEW d
    PROVE  Part(<< <<"create_or_replace", n>> >>, 0, 9, R, d)
<1>1. <<"create_or_replace", n>> \in Statements
  BY DEF Statements
<1>2. /\ Lowest(<<"create_or_replace", n>>) = 1 /\ Highest(<<"create_or_replace", n>>) = 4
      /\ Reach(<<"create_or_replace", n>>) \subseteq R /\ ~DeletesSomething(<<"create_or_replace", n>>)
  BY DEF Lowest, Highest, Stage, Wide, Reach, DeletesSomething
<1> QED BY <1>1, <1>2, SinglePart

LEMMA ProgramPart ==
    ASSUME NEW r \in Requests
    PROVE  Part(Program(r), 0, 9, Scope(r), Deleting(r))
<1>1. CASE r.op = "POST"
  <2>1. /\ r.node \in NodeIds /\ r.kind \in Kinds /\ r.parent \in NodeIds \cup {NoNode}
        /\ r.tags \in Seq(Tags)
    BY <1>1 DEF Requests, Creations, Changes, Deletions, TagRequests
  <2>2. Part(CreateNode(r.node, r.kind, r.parent, r.tags), 1, 4, Scope(r), Deleting(r))
    BY <1>1, <2>1, CreateNodePart DEF Scope, Deleting, Bodies, Lists
  <2>3. Part(CreateNode(r.node, r.kind, r.parent, r.tags), 0, 9, Scope(r), Deleting(r))
    BY <2>2, WiderPart
  <2> QED BY <1>1, <2>3 DEF Program
<1>2. CASE r.op = "PUT"
  <2>1. r.node \in NodeIds
    BY <1>2 DEF Requests, Creations, Changes, Deletions, TagRequests
  <2>2. Part(<< <<"create_or_replace", r.node>> >>, 0, 9, Scope(r), Deleting(r))
    BY <1>2, <2>1, ReplacePart DEF Scope, Deleting, Bodies, Lists
  <2> QED BY <1>2, <2>2 DEF Program
<1>3. CASE r.op = "PATCH"
  <2>1. /\ r.node \in NodeIds /\ r.kind \in Kinds \cup {Keep, Relabel}
        /\ r.parent \in NodeIds \cup {NoNode, Keep}
        /\ r.tags \in Seq(Tags) \cup {Keep}
    BY <1>3 DEF Requests, Creations, Changes, Deletions, TagRequests
  <2>2. Part(UpdateNode(r.node, r.kind, r.parent, r.tags), 1, 4, Scope(r), Deleting(r))
    BY <1>3, <2>1, UpdateNodePart DEF Scope, Deleting, Bodies, Lists
  <2>3. Part(UpdateNode(r.node, r.kind, r.parent, r.tags), 0, 9, Scope(r), Deleting(r))
    BY <2>2, WiderPart
  <2> QED BY <1>3, <2>3 DEF Program
<1>4. CASE r.op = "DELETE"
  <2>1. r.node \in NodeIds
    BY <1>4 DEF Requests, Creations, Changes, Deletions, TagRequests
  <2> QED BY <1>4, <2>1, DeleteNodePart DEF Program, Scope, Deleting
<1>5. CASE r.op = "POST tag"
  <2>1. r.tag \in Tags
    BY <1>5 DEF Requests, Creations, Changes, Deletions, TagRequests
  <2> QED BY <1>5, <2>1, CreateTagPart DEF Program, Scope, Deleting
<1>6. CASE r.op = "DELETE tag"
  <2>1. r.tag \in Tags
    BY <1>6 DEF Requests, Creations, Changes, Deletions, TagRequests
  <2> QED BY <1>6, <2>1, DeleteTagPart DEF Program, Scope, Deleting
<1> QED BY <1>1, <1>2, <1>3, <1>4, <1>5, <1>6 DEF Requests, Creations, Changes, Deletions, TagRequests

LEMMA RestStarts ==
    ASSUME NEW R, NEW d, NEW a, Part(a, 0, 9, R, d)
    PROVE  Rest(a \o <<Finish>>, R, d) /\ a \o <<Finish>> # <<>>
<1> DEFINE All == Statements \cup {Finish}
           r == a \o <<Finish>>
<1>1. /\ r \in Seq(All) /\ Len(a) \in Nat /\ Len(r) = Len(a) + 1
      /\ \A i \in 1..Len(r) : r[i] = IF i <= Len(a) THEN a[i] ELSE Finish
  <2>1. a \in Seq(All) /\ <<Finish>> \in Seq(All)
    BY DEF Part
  <2> HIDE DEF All
  <2> QED BY <2>1
<1>2. /\ Lowest(Finish) = 9 /\ Highest(Finish) = 0 /\ Reach(Finish) = {} /\ ~DeletesSomething(Finish)
  BY DEF Finish, Lowest, Highest, Stage, Wide, Reach, DeletesSomething
<1>3. \A i \in 1..Len(a) : /\ a[i] # Finish /\ Highest(a[i]) <= 9 /\ 0 <= Lowest(a[i])
                           /\ Reach(a[i]) \subseteq R /\ (DeletesSomething(a[i]) => d)
  BY Contents DEF Part
<1> HIDE DEF r, All
<1>4. ASSUME NEW i \in 1..Len(r)
      PROVE  /\ r[i] = Finish <=> i = Len(r)
             /\ Reach(r[i]) \subseteq R /\ (DeletesSomething(r[i]) => d)
  <2>1. CASE i <= Len(a)
    <3>1. i \in 1..Len(a) /\ r[i] = a[i] /\ i # Len(r)
      BY <1>1, <2>1
    <3> QED BY <1>3, <3>1
  <2>2. CASE ~(i <= Len(a))
    <3>1. r[i] = Finish /\ i = Len(r)
      BY <1>1, <2>2
    <3> QED BY <1>2, <3>1
  <2> QED BY <2>1, <2>2
<1>5. ASSUME ~d, NEW i \in 1..Len(r), NEW j \in 1..Len(r), i < j
      PROVE  Highest(r[i]) <= Lowest(r[j])
  <2>1. i \in 1..Len(a) /\ r[i] = a[i]
    BY <1>1, <1>5
  <2>2. CASE j <= Len(a)
    <3>1. j \in 1..Len(a) /\ r[j] = a[j]
      BY <1>1, <2>2
    <3> QED BY <1>5, <2>1, <3>1 DEF Part
  <2>3. CASE ~(j <= Len(a))
    <3>1. r[j] = Finish
      BY <1>1, <2>3
    <3> QED BY <1>2, <1>3, <2>1, <3>1
  <2> QED BY <2>2, <2>3
<1>6. r # <<>>
  BY <1>1
<1> QED BY <1>1, <1>4, <1>5, <1>6 DEF Rest, r, All
-----------------------------------------------------------------------------
(* Rows and what a thread sees.                                                *)

LEMMA RowFacts ==
    ASSUME NEW n \in NodeIds
    PROVE  /\ {Node(n), Edge(n), Sequence, Database} \subseteq Rows
           /\ \A u \in Tags : Tag(u) \in Rows /\ Mark(n, u) \in Rows
           /\ MarksOf(n) \subseteq Rows
BY DEF Rows, MarksOf

LEMMA ViewFits ==
    ASSUME Typed, NEW t \in Threads
    PROVE  /\ Table(View(t)) /\ Table(db)
           /\ \A row \in Rows : View(t)[row] = IF row \in DOMAIN writes[t] THEN writes[t][row] ELSE db[row]
           /\ View(t) = [row \in Rows |-> View(t)[row]]
<1>1. DOMAIN db = Rows /\ \A row \in Rows : Fits(row, db[row])
  BY DEF Typed, Table
<1>2. DOMAIN writes[t] \subseteq Rows /\ \A row \in DOMAIN writes[t] : Fits(row, writes[t][row])
  BY DEF Typed, ThreadOK, WritesFit
<1>3. View(t) = [row \in Rows |-> IF row \in DOMAIN writes[t] THEN writes[t][row] ELSE db[row]]
  <2>1. DOMAIN writes[t] \cup DOMAIN db = Rows
    BY <1>1, <1>2
  <2>2. View(t) = [row \in (DOMAIN writes[t]) \cup (DOMAIN db) |->
                      IF row \in DOMAIN writes[t] THEN writes[t][row] ELSE db[row]]
    BY DEF View, Over
  <2> QED BY <2>1, <2>2
<1> QED BY <1>1, <1>2, <1>3 DEF Table
-----------------------------------------------------------------------------
(* Steps of one thread.                                                       *)

(* Rows that somebody else has removed are passed by.                            *)
Passes(s, r) ==
    /\ r \in Seq(Statements \cup {Finish}) /\ Len(r) = Len(s)
    /\ \A i \in 1..Len(s) : r[i] = s[i] \/ (s[i][1] = "remove_row" /\ r[i] = <<"pass_by">>)

(* Nothing changes for o but what it can pass by and who has overtaken it.          *)
Stays(o) ==
    /\ Passes(todo[o], todo'[o]) /\ request'[o] = request[o]
    /\ seen'[o] = seen[o] /\ writes'[o] = writes[o] /\ shares'[o] = shares[o]
    /\ news'[o] = news[o] /\ answer'[o] = answer[o] /\ overtook'[o] \subseteq Threads \ {o}

LEMMA NodeOfRequest ==
    ASSUME NEW r \in Requests, Bodies(r)
    PROVE  r.node \in NodeIds
BY DEF Requests, Creations, Changes, Deletions, TagRequests, Bodies

LEMMA RestPasses ==
    ASSUME NEW R, NEW d, NEW s, Rest(s, R, d), NEW r, Passes(s, r)
    PROVE  /\ Rest(r, R, d) /\ Len(r) = Len(s) /\ Len(s) \in Nat /\ (r = <<>> <=> s = <<>>)
           /\ \A i \in 1..Len(s) : /\ Lowest(r[i]) = 9 \/ r[i] = s[i]
                                   /\ Lowest(s[i]) = 1 => r[i] = s[i]
<1> DEFINE All == Statements \cup {Finish}
<1>1. /\ r \in Seq(All) /\ s \in Seq(All) /\ Len(r) = Len(s) /\ Len(s) \in Nat
      /\ r = <<>> <=> s = <<>>
  BY DEF Passes, Rest
<1>2. /\ Lowest(<<"pass_by">>) = 9 /\ Highest(<<"pass_by">>) = 0 /\ Reach(<<"pass_by">>) = {}
      /\ ~DeletesSomething(<<"pass_by">>) /\ <<"pass_by">> # Finish
  BY DEF Lowest, Highest, Stage, Wide, Reach, DeletesSomething, Finish
<1>3. \A x : Lowest(x) \in 0..9 /\ Highest(x) \in 0..9
  BY DEF Lowest, Highest, Stage, Rank
<1>4. \A i \in 1..Len(s) : r[i] = s[i] \/ (s[i][1] = "remove_row" /\ r[i] = <<"pass_by">>)
  BY DEF Passes
<1>5. ASSUME NEW i \in 1..Len(s), s[i][1] = "remove_row"
      PROVE  s[i] # Finish /\ Lowest(s[i]) # 1 /\ i # Len(s)
  <2>1. s[i] # Finish
    BY <1>5 DEF Finish
  <2>2. s[i] \in Statements
    BY <1>1, <2>1
  <2>3. s[i][2][1] \in {"edge", "mark"}
    BY <1>5, <2>2, Contents
  <2>4. Lowest(s[i]) # 1
    BY <1>5, <2>3 DEF Lowest, Stage, Wide, Rank
  <2> QED BY <2>1, <2>4 DEF Rest
<1>6. \A i \in 1..Len(s) : /\ r[i] = Finish <=> i = Len(r)
                           /\ Reach(r[i]) \subseteq R /\ (DeletesSomething(r[i]) => d)
  BY <1>1, <1>2, <1>4, <1>5 DEF Rest
<1>7. ASSUME ~d, NEW i \in 1..Len(s), NEW j \in 1..Len(s), i < j
      PROVE  Highest(r[i]) <= Lowest(r[j])
  <2>1. Highest(s[i]) <= Lowest(s[j])
    BY <1>7 DEF Rest
  <2>2. Highest(r[i]) <= Highest(s[i]) /\ Lowest(s[j]) <= Lowest(r[j])
    BY <1>2, <1>3, <1>4
  <2> QED BY <1>3, <2>1, <2>2
<1>8. Rest(r, R, d)
  BY <1>1, <1>6, <1>7 DEF Rest
<1>9. \A i \in 1..Len(s) : /\ Lowest(r[i]) = 9 \/ r[i] = s[i]
                           /\ Lowest(s[i]) = 1 => r[i] = s[i]
  BY <1>2, <1>4, <1>5
<1> QED BY <1>1, <1>8, <1>9

LEMMA OthersStay ==
    ASSUME Typed, NEW o \in Threads, ThreadInv(o), Stays(o), UNCHANGED engine
    PROVE  ThreadInv(o)' /\ (Running(o)' <=> Running(o))
<1> DEFINE s == todo[o]
           r == todo'[o]
<1>1. /\ Rest(s, Scope(request[o]), Deleting(request[o]))
      /\ Passes(s, r)
  BY DEF ThreadInv, ThreadOK, Stays
<1> HIDE DEF s, r
<1>2. /\ Rest(r, Scope(request[o]), Deleting(request[o])) /\ Len(r) = Len(s) /\ Len(s) \in Nat
      /\ r = <<>> <=> s = <<>>
      /\ \A i \in 1..Len(s) : /\ Lowest(r[i]) = 9 \/ r[i] = s[i]
                              /\ Lowest(s[i]) = 1 => r[i] = s[i]
  BY <1>1, RestPasses
<1>3. Running(o)' <=> Running(o)
  BY <1>2 DEF Running, r, s
<1>4. ThreadOK(o)'
  BY <1>2, <1>3 DEF ThreadInv, ThreadOK, Stays, WritesFit, r
<1>5. HoldsInOrder(o)'
  <2> SUFFICES ASSUME ~Deleting(request[o]), NEW row \in DOMAIN writes[o]
               PROVE  /\ row # Sequence \/ ~NewTag(o) => \A i \in 1..Len(r) : Rank(row) <= Lowest(r[i])
                      /\ row[1] = "tag" /\ ~NewTag(o) =>
                            \/ AnnouncesTag(r[1])
                            \/ Len(r) >= 2 /\ r[1][1] = "assert_tag" /\ AnnouncesTag(r[2])
    BY DEF HoldsInOrder, Stays, NewTag, ThreadInv, r
  <2>1. Rank(row) \in 0..4
    BY DEF Rank
  <2>2. row # Sequence \/ ~NewTag(o) => \A i \in 1..Len(r) : Rank(row) <= Lowest(r[i])
    BY <1>2, <2>1 DEF ThreadInv, HoldsInOrder, s
  <2>3. ASSUME row[1] = "tag", ~NewTag(o)
        PROVE  \/ AnnouncesTag(r[1])
               \/ Len(r) >= 2 /\ r[1][1] = "assert_tag" /\ AnnouncesTag(r[2])
    <3>1. CASE AnnouncesTag(s[1])
      <4>1. s # <<>>
        BY <2>3 DEF ThreadInv, ThreadOK, Running, s
      <4>2. 1 \in 1..Len(s)
        BY <1>2, <4>1 DEF Passes, Rest
      <4>3. s[1][1] # "remove_row"
        BY <3>1 DEF AnnouncesTag
      <4>4. r[1] = s[1]
        BY <1>1, <4>2, <4>3 DEF Passes
      <4> QED BY <3>1, <4>4
    <3>2. CASE Len(s) >= 2 /\ s[1][1] = "assert_tag" /\ AnnouncesTag(s[2])
      <4>1. 1 \in 1..Len(s) /\ 2 \in 1..Len(s)
        BY <1>2, <3>2
      <4>2. s[1][1] # "remove_row" /\ s[2][1] # "remove_row"
        BY <3>2 DEF AnnouncesTag
      <4>3. r[1] = s[1] /\ r[2] = s[2]
        BY <1>1, <4>1, <4>2 DEF Passes
      <4> QED BY <1>2, <3>2, <4>3
    <3> QED BY <2>3, <3>1, <3>2 DEF ThreadInv, HoldsInOrder, s
  <2> QED BY <2>2, <2>3
<1>6. CreatesFirst(o)'
  <2> SUFFICES ASSUME Bodies(request[o]), NEW i \in 1..Len(r), r[i][1] \in Creating
               PROVE  i = 1 /\ writes[o] = <<>>
    BY DEF CreatesFirst, Stays, r
  <2>1. i \in 1..Len(s) /\ r[i] = s[i]
    BY <1>1, <1>2 DEF Passes, Creating
  <2> QED BY <2>1 DEF ThreadInv, CreatesFirst, s
<1> QED BY <1>3, <1>4, <1>5, <1>6 DEF ThreadInv

(* What the statement s, with a put in front of the rest, may do to the rows t     *)
(* holds and to its news.                                                       *)
First(t) == todo[t][1]
HoldsMore(t, a) ==
    /\ DOMAIN writes[t] \subseteq DOMAIN writes'[t]
    /\ ~DeletesSomething(First(t)) => \A row \in DOMAIN writes'[t] \ DOMAIN writes[t] :
          /\ row[1] \in {"node", "edge", "mark"} => row \in Reach(First(t))
          /\ \/ row = Sequence /\ NewTag(t)'
             \/ Rank(row) <= Highest(First(t)) /\ \A i \in 1..Len(a) : Rank(row) <= Lowest(a[i])
          /\ row[1] = "tag" => Len(a) = 2 /\ a[1][1] = "assert_tag" /\ AnnouncesTag(a[2])
RemovesNothing(t) == ~DeletesSomething(First(t)) =>
    /\ \A row \in DOMAIN writes'[t] : row[1] \in {"node", "tag"} =>
          \/ writes'[t][row] # Gone(row)
          \/ row \in DOMAIN writes[t] /\ writes'[t][row] = writes[t][row]
    /\ NewTag(t) => NewTag(t)'
AnnouncesInTime(t, a) ==
    /\ First(t)[1] = "assert_tag" => a = <<>>
    /\ AnnouncesTag(First(t)) => NewTag(t)'
CreatesInTime(t, a) == Bodies(request[t]) =>
    \A i \in 1..Len(a) : a[i][1] \in Creating => i = 1 /\ writes'[t] = <<>>
ValuesFit(t) ==
    /\ seen'[t] \in Memory /\ WritesFit(t)' /\ shares'[t] \subseteq Rows
    /\ DOMAIN news'[t] \subseteq NodeIds \cup Tags
    /\ \A u \in Tags \cap DOMAIN news'[t] : news'[t][u] \in BOOLEAN
    /\ overtook'[t] \subseteq Threads \ {t} /\ answer'[t] = answer[t]

LEMMA GoesOn ==
    ASSUME Typed, NEW t \in Threads, ThreadInv(t), Running(t), First(t) # Finish,
           UNCHANGED <<engine, request>>,
           NEW a, Part(a, Lowest(First(t)), Highest(First(t)), Reach(First(t)), DeletesSomething(First(t))),
           todo'[t] = a \o Tail(todo[t]), ValuesFit(t), HoldsMore(t, a), RemovesNothing(t),
           AnnouncesInTime(t, a), CreatesInTime(t, a)
    PROVE  ThreadInv(t)' /\ Running(t)'
<1> DEFINE s == todo[t]
           r == todo'[t]
<1>1. Rest(s, Scope(request[t]), Deleting(request[t])) /\ s # <<>>
  BY DEF ThreadInv, ThreadOK, Running
<1>2. /\ Rest(r, Scope(request[t]), Deleting(request[t])) /\ r # <<>>
      /\ Len(a) \in Nat /\ Len(s) \in Nat /\ Len(s) >= 2 /\ Len(r) = Len(a) + Len(s) - 1
      /\ \A i \in 1..Len(r) : r[i] = IF i <= Len(a) THEN a[i] ELSE s[i - Len(a) + 1]
  <2> HIDE DEF s
  <2>1. s[1] # Finish /\ Part(a, Lowest(s[1]), Highest(s[1]), Reach(s[1]), DeletesSomething(s[1]))
    BY DEF First, s
  <2> QED BY <1>1, <2>1, RestContinues DEF s
<1>3. Running(t)'
  BY <1>2 DEF Running
<1>4. ThreadOK(t)'
  BY <1>2, <1>3 DEF ThreadInv, ThreadOK, ValuesFit, Running
<1>6. \A x : Lowest(x) \in Nat /\ Highest(x) \in Nat /\ Rank(x) \in Nat
  BY DEF Lowest, Highest, Stage, Rank
<1>7. \A i \in 1..Len(a) : Lowest(s[1]) <= Lowest(a[i])
  BY DEF Part, First
<1> HIDE DEF s, r
<1>8. HoldsInOrder(t)'
  <2> SUFFICES ASSUME ~Deleting(request[t]), NEW row \in DOMAIN writes'[t]
               PROVE  /\ row[1] \in {"node", "edge", "mark"} => row \in Scope(request[t])
                      /\ row[1] \in {"node", "tag"} => writes'[t][row] # Gone(row)
                      /\ row # Sequence \/ ~NewTag(t)' => \A i \in 1..Len(r) : Rank(row) <= Lowest(r[i])
                      /\ row[1] = "tag" /\ ~NewTag(t)' =>
                            \/ AnnouncesTag(r[1])
                            \/ Len(r) >= 2 /\ r[1][1] = "assert_tag" /\ AnnouncesTag(r[2])
    BY DEF HoldsInOrder, r
  <2>1. 1 \in 1..Len(s) /\ 2 \in 1..Len(s)
    BY <1>2
  <2>2. ~DeletesSomething(s[1]) /\ Reach(s[1]) \subseteq Scope(request[t])
    BY <1>1, <2>1 DEF Rest
  <2>3. \A j \in 1..Len(s) : j > 1 => Highest(s[1]) <= Lowest(s[j])
    BY <1>1, <2>1 DEF Rest
  <2>4. NewTag(t) => NewTag(t)'
    BY <2>2 DEF RemovesNothing, First, s
  <2>5. row[1] \in {"node", "edge", "mark"} => row \in Scope(request[t])
    BY <2>2 DEF HoldsMore, First, s, ThreadInv, HoldsInOrder
  <2>6. row[1] \in {"node", "tag"} => writes'[t][row] # Gone(row)
    BY <2>2 DEF RemovesNothing, First, s, ThreadInv, HoldsInOrder
  <2>7. ASSUME row # Sequence \/ ~NewTag(t)', NEW i \in 1..Len(r)
        PROVE  Rank(row) <= Lowest(r[i])
    <3>1. CASE row \in DOMAIN writes[t]
      <4>1. \A j \in 1..Len(s) : Rank(row) <= Lowest(s[j])
        BY <2>4, <2>7, <3>1 DEF ThreadInv, HoldsInOrder, s
      <4>2. CASE i <= Len(a)
        <5>1. i \in 1..Len(a) /\ r[i] = a[i]
          BY <1>2, <4>2
        <5>2. Rank(row) <= Lowest(s[1]) /\ Lowest(s[1]) <= Lowest(a[i])
          BY <1>7, <2>1, <4>1, <5>1
        <5> QED BY <1>6, <5>1, <5>2
      <4>3. CASE ~(i <= Len(a))
        <5>1. i - Len(a) + 1 \in 1..Len(s) /\ r[i] = s[i - Len(a) + 1]
          BY <1>2, <4>3
        <5> QED BY <4>1, <5>1
      <4> QED BY <4>2, <4>3
    <3>2. CASE row \notin DOMAIN writes[t]
      <4>1. Rank(row) <= Highest(s[1]) /\ \A j \in 1..Len(a) : Rank(row) <= Lowest(a[j])
        BY <2>2, <2>7, <3>2 DEF HoldsMore, First, s
      <4>2. CASE i <= Len(a)
        <5>1. i \in 1..Len(a) /\ r[i] = a[i]
          BY <1>2, <4>2
        <5> QED BY <4>1, <5>1
      <4>3. CASE ~(i <= Len(a))
        <5>1. i - Len(a) + 1 \in 1..Len(s) /\ r[i] = s[i - Len(a) + 1]
          BY <1>2, <4>3
        <5>3. i - Len(a) + 1 > 1
          BY <1>2, <4>3
        <5>2. Highest(s[1]) <= Lowest(s[i - Len(a) + 1])
          BY <2>3, <5>1, <5>3
        <5> QED BY <1>6, <4>1, <5>1, <5>2
      <4> QED BY <4>2, <4>3
    <3> QED BY <3>1, <3>2
  <2>8. ASSUME row[1] = "tag", ~NewTag(t)'
        PROVE  \/ AnnouncesTag(r[1])
               \/ Len(r) >= 2 /\ r[1][1] = "assert_tag" /\ AnnouncesTag(r[2])
    <3>1. CASE row \in DOMAIN writes[t]
      <4>1. \/ AnnouncesTag(s[1])
            \/ s[1][1] = "assert_tag" /\ AnnouncesTag(s[2])
        BY <2>4, <2>8, <3>1 DEF ThreadInv, HoldsInOrder, s
      <4>2. a = <<>> /\ AnnouncesTag(s[2])
        BY <2>8, <4>1 DEF AnnouncesInTime, First, s
      <4>3. 1 \in 1..Len(r) /\ Len(a) = 0
        BY <1>2, <4>2
      <4>4. r[1] = s[2]
        BY <1>2, <4>3
      <4> QED BY <4>2, <4>4
    <3>2. CASE row \notin DOMAIN writes[t]
      <4>1. Len(a) = 2 /\ a[1][1] = "assert_tag" /\ AnnouncesTag(a[2])
        BY <2>2, <2>8, <3>2 DEF HoldsMore, First, s
      <4>2. 1 \in 1..Len(r) /\ 2 \in 1..Len(r) /\ Len(r) >= 2
        BY <1>2, <4>1
      <4>3. r[1] = a[1] /\ r[2] = a[2]
        BY <1>2, <4>1, <4>2
      <4> QED BY <4>1, <4>2, <4>3
    <3> QED BY <3>1, <3>2
  <2> QED BY <2>5, <2>6, <2>7, <2>8
<1>9. CreatesFirst(t)'
  <2> SUFFICES ASSUME Bodies(request[t]), NEW i \in 1..Len(r), r[i][1] \in Creating
               PROVE  i = 1 /\ writes'[t] = <<>>
    BY DEF CreatesFirst, r
  <2>1. CASE i <= Len(a)
    <3>1. i \in 1..Len(a) /\ r[i] = a[i]
      BY <1>2, <2>1
    <3> QED BY <3>1 DEF CreatesInTime
  <2>2. CASE ~(i <= Len(a))
    <3>1. i - Len(a) + 1 \in 1..Len(s) /\ i - Len(a) + 1 # 1
      BY <1>2, <2>2
    <3>2. r[i] = s[i - Len(a) + 1]
      BY <1>2, <2>2
    <3> QED BY <3>1, <3>2 DEF ThreadInv, CreatesFirst, s
  <2> QED BY <2>1, <2>2
<1> QED BY <1>3, <1>4, <1>8, <1>9 DEF ThreadInv
-----------------------------------------------------------------------------
(* The kinds of steps.                                                        *)

LEMMA StepKeeps ==
    ASSUME IInv, NEW t \in Threads, ThreadInv(t)', UNCHANGED <<engine, setting>>,
           request' \in [Threads -> Requests \cup {NoRequest}],
           \A o \in Threads \ {t} : Stays(o),
           Table(db'), Domains',
           engine = "postgres" => \A o \in Threads \ {t} : DOMAIN writes'[t] \cap DOMAIN writes[o] = {}
    PROVE  IInv'
<1>1. \A o \in Threads : ThreadInv(o) /\ Typed /\ Table(db)
  BY DEF IInv, Typed, ThreadInv
<1>2. ASSUME NEW o \in Threads PROVE ThreadInv(o)'
  <2>1. CASE o = t
    BY <2>1
  <2>2. CASE o # t
    <3>1. Stays(o) /\ ThreadInv(o) /\ Typed
      BY <1>1, <2>2
    <3> QED BY <3>1, OthersStay
  <2> QED BY <2>1, <2>2
<1>3. Typed'
  BY <1>1, <1>2 DEF Typed, ThreadInv
<1>4. LocksAreExclusive'
  <2>1. \A o \in Threads \ {t} : writes'[o] = writes[o]
    BY DEF Stays
  <2>2. SUFFICES ASSUME engine = "postgres", NEW p \in Threads, NEW o \in Threads, p # o
                 PROVE  DOMAIN writes'[p] \cap DOMAIN writes'[o] = {}
    BY DEF LocksAreExclusive
  <2>3. CASE p = t
    BY <2>1, <2>2, <2>3
  <2>4. CASE o = t
    BY <2>1, <2>2, <2>4
  <2>5. CASE p # t /\ o # t
    <3>1. DOMAIN writes[p] \cap DOMAIN writes[o] = {}
      BY <2>2 DEF IInv, LocksAreExclusive
    <3> QED BY <2>1, <2>5, <3>1
  <2> QED BY <2>3, <2>4, <2>5
<1> QED BY <1>2, <1>3, <1>4 DEF IInv, ThreadInv

LEMMA SelfPasses ==
    ASSUME IInv, NEW o \in Threads
    PROVE  Passes(todo[o], todo[o]) /\ ThreadInv(o)
<1>1. ThreadInv(o) /\ todo[o] \in Seq(Statements \cup {Finish})
  BY DEF IInv, Typed, ThreadInv, ThreadOK, Rest
<1> QED BY <1>1 DEF Passes

LEMMA LearnKeeps ==
    ASSUME IInv, NEW t \in Threads, Running(t), First(t) # Finish, NEW values \in Memory, NEW a,
           Part(a, Lowest(First(t)), Highest(First(t)), Reach(First(t)), DeletesSomething(First(t))),
           Learn(t, values, a), First(t)[1] = "assert_tag" => a = <<>>, ~AnnouncesTag(First(t)),
           Bodies(request[t]) => \A i \in 1..Len(a) : a[i][1] \in Creating => i = 1 /\ writes[t] = <<>>
    PROVE  IInv'
<1>1. /\ UNCHANGED <<engine, setting, db, copy, request, writes, shares, news, overtook, answer>>
      /\ Typed /\ Domains /\ Table(db) /\ request \in [Threads -> Requests \cup {NoRequest}] /\ ThreadInv(t)
  BY DEF Learn, IInv, Typed, ThreadInv
<1>2. /\ todo' = [todo EXCEPT ![t] = a \o Tail(@)] /\ seen' = [seen EXCEPT ![t] = values]
      /\ DOMAIN todo = Threads /\ DOMAIN seen = Threads
  BY <1>1 DEF Learn, Continue, Domains
<1>3. todo'[t] = a \o Tail(todo[t]) /\ seen'[t] = values
  BY <1>2
<1>4. NewTag(t)' = NewTag(t)
  BY <1>1 DEF NewTag
<1>5. HoldsMore(t, a) /\ RemovesNothing(t) /\ AnnouncesInTime(t, a)
  BY <1>1, <1>4 DEF HoldsMore, RemovesNothing, AnnouncesInTime
<1>6. CreatesInTime(t, a)
  BY <1>1 DEF CreatesInTime
<1>7. ValuesFit(t)
  BY <1>1, <1>3 DEF ValuesFit, ThreadInv, ThreadOK, WritesFit
<1>8. ThreadInv(t)'
  BY <1>1, <1>3, <1>5, <1>6, <1>7, GoesOn
<1>9. ASSUME NEW o \in Threads \ {t} PROVE Stays(o)
  BY <1>1, <1>2, SelfPasses DEF Stays, ThreadInv, ThreadOK
<1>10. Domains' /\ Table(db')
  BY <1>1, <1>2 DEF Domains
<1>11. engine = "postgres" => \A o \in Threads \ {t} : DOMAIN writes'[t] \cap DOMAIN writes[o] = {}
  BY <1>1 DEF IInv, LocksAreExclusive
<1> QED BY <1>1, <1>8, <1>9, <1>10, <1>11, StepKeeps

LEMMA EndKeeps ==
    ASSUME IInv, NEW t \in Threads, NEW status \in {400, 404, 409, 500}, End(t, status)
    PROVE  IInv'
<1>1. /\ UNCHANGED <<engine, setting, db, copy, request, seen, overtook>>
      /\ Typed /\ Domains /\ Table(db) /\ request \in [Threads -> Requests \cup {NoRequest}] /\ ThreadInv(t)
  BY DEF End, IInv, Typed, ThreadInv
<1>2. /\ todo' = [todo EXCEPT ![t] = <<>>] /\ writes' = [writes EXCEPT ![t] = <<>>]
      /\ shares' = [shares EXCEPT ![t] = {}] /\ news' = [news EXCEPT ![t] = <<>>]
      /\ answer' = [answer EXCEPT ![t] = status]
      /\ DOMAIN todo = Threads /\ DOMAIN writes = Threads /\ DOMAIN shares = Threads
      /\ DOMAIN news = Threads /\ DOMAIN answer = Threads
  BY <1>1 DEF End, Domains
<1>3. /\ todo'[t] = <<>> /\ writes'[t] = <<>> /\ shares'[t] = {} /\ news'[t] = <<>>
      /\ answer'[t] = status /\ ~Running(t)' /\ DOMAIN writes'[t] = {} /\ DOMAIN news'[t] = {}
  BY <1>2 DEF Running
<1>4. ThreadOK(t)'
  <2>1. Rest(<<>>, Scope(request[t]), Deleting(request[t]))
    BY DEF Rest
  <2> QED BY <1>1, <1>3, <2>1 DEF ThreadOK, ThreadInv, WritesFit
<1>5. ThreadInv(t)'
  BY <1>1, <1>3, <1>4 DEF ThreadInv, HoldsInOrder, CreatesFirst
<1>6. ASSUME NEW o \in Threads \ {t} PROVE Stays(o)
  BY <1>1, <1>2, SelfPasses DEF Stays, ThreadInv, ThreadOK
<1>7. Domains' /\ Table(db')
  BY <1>1, <1>2 DEF Domains
<1> QED BY <1>1, <1>3, <1>5, <1>6, <1>7, StepKeeps

LEMMA FirstFacts ==
    ASSUME IInv, NEW t \in Threads, NEW s, Doing(t, s), s # Finish
    PROVE  /\ Running(t) /\ First(t) = s /\ First(t) # Finish /\ s \in Statements
           /\ Reach(s) \subseteq Scope(request[t]) /\ (DeletesSomething(s) => Deleting(request[t]))
           /\ request[t] \in Requests
<1>1. ThreadInv(t) /\ todo[t] # <<>> /\ todo[t][1] = s
  BY DEF IInv, Typed, ThreadInv, Doing, Running
<1>2. /\ todo[t] \in Seq(Statements \cup {Finish})
      /\ \A i \in 1..Len(todo[t]) : /\ Reach(todo[t][i]) \subseteq Scope(request[t])
                                    /\ DeletesSomething(todo[t][i]) => Deleting(request[t])
  BY <1>1 DEF ThreadInv, ThreadOK, Rest
<1>3. 1 \in 1..Len(todo[t])
  BY <1>1, <1>2
<1> QED BY <1>1, <1>2, <1>3 DEF First, Running, ThreadInv, ThreadOK

LEMMA ReadOnKeeps ==
    ASSUME IInv, NEW t \in Threads, NEW s, Doing(t, s), s # Finish, ~AnnouncesTag(s), Lowest(s) # 1,
           Read(t, <<>>)
    PROVE  IInv'
<1>1. seen[t] \in Memory /\ Learn(t, seen[t], <<>>)
  BY DEF Read, IInv, Typed, ThreadOK
<1>2. Running(t) /\ First(t) = s /\ First(t) # Finish
  BY FirstFacts
<1>3. Part(<<>>, Lowest(First(t)), Highest(First(t)), Reach(First(t)), DeletesSomething(First(t)))
  BY NoPart
<1>4. \A i \in 1..Len(<<>>) : FALSE
  OBVIOUS
<1> QED BY <1>1, <1>2, <1>3, <1>4, LearnKeeps

LEMMA ChecksKeep ==
    ASSUME IInv, NEW t \in Threads,
           \/ FetchNode(t) \/ EnsureChildless(t) \/ EnsureContainer(t) \/ EnsureAcyclic(t)
           \/ EnsureNewTag(t) \/ FetchTag(t) \/ PassBy(t)
    PROVE  IInv'
<1> DEFINE Plain == {"fetch_node", "ensure_childless", "ensure_container", "ensure_new_tag", "fetch_tag",
                     "assert_tag"}
<1>1. /\ \A n : \A x \in Plain : <<x, n>> # Finish /\ ~AnnouncesTag(<<x, n>>) /\ Lowest(<<x, n>>) # 1
      /\ \A n, p : /\ <<"ensure_acyclic", n, p>> # Finish /\ ~AnnouncesTag(<<"ensure_acyclic", n, p>>)
                   /\ Lowest(<<"ensure_acyclic", n, p>>) # 1
      /\ <<"pass_by">> # Finish /\ ~AnnouncesTag(<<"pass_by">>) /\ Lowest(<<"pass_by">>) # 1
  BY DEF Finish, AnnouncesTag, Lowest, Stage, Wide
<1>2. \A status \in {400, 404, 409, 500} : End(t, status) => IInv'
  BY EndKeeps
<1>3. ASSUME NEW n, NEW x \in Plain, Doing(t, <<x, n>>), Read(t, <<>>)
      PROVE  IInv'
  BY <1>1, <1>3, ReadOnKeeps
<1>4. ASSUME NEW n, NEW p, Doing(t, <<"ensure_acyclic", n, p>>), Read(t, <<>>)
      PROVE  IInv'
  BY <1>1, <1>4, ReadOnKeeps
<1>5. CASE PassBy(t)
  BY <1>1, <1>5, ReadOnKeeps DEF PassBy
<1>6. CASE FetchNode(t)
  BY <1>2, <1>3, <1>6 DEF FetchNode, Check
<1>7. CASE EnsureChildless(t)
  BY <1>2, <1>3, <1>7 DEF EnsureChildless, Check
<1>8. CASE EnsureContainer(t)
  BY <1>2, <1>3, <1>8 DEF EnsureContainer, Check
<1>9. CASE EnsureAcyclic(t)
  BY <1>2, <1>4, <1>9 DEF EnsureAcyclic, Check
<1>10. CASE EnsureNewTag(t)
  BY <1>2, <1>3, <1>10 DEF EnsureNewTag, Check
<1>11. CASE FetchTag(t)
  <2>1. PICK u \in Tags, x \in Plain, status \in {404, 500} :
           Doing(t, <<x, u>>) /\ (Read(t, <<>>) \/ End(t, status))
    BY <1>11 DEF FetchTag, Check
  <2> HIDE DEF Plain
  <2>2. CASE Read(t, <<>>)
    BY <1>3, <2>1, <2>2
  <2>3. CASE End(t, status)
    BY <1>2, <2>3
  <2> QED BY <2>1, <2>2, <2>3
<1> QED BY <1>5, <1>6, <1>7, <1>8, <1>9, <1>10, <1>11

(* What a thread sees and remembers.                                            *)
LEMMA Sights ==
    ASSUME IInv, NEW t \in Threads
    PROVE  /\ \A n \in NodeIds : /\ View(t)[Edge(n)] \in NodeIds \cup {NoNode}
                                 /\ View(t)[Node(n)] \in Kinds \cup {"absent"}
                                 /\ ChildrenIn(View(t), n) \subseteq NodeIds
           /\ \A u \in Tags : View(t)[Tag(u)] \in BOOLEAN /\ BearersIn(View(t), u) \subseteq NodeIds
           /\ \A n \in NodeIds, u \in Tags : View(t)[Mark(n, u)] \in BOOLEAN
           /\ seen[t] \in Memory
           /\ \A x \in NodeIds \cup {NoNode} : /\ [seen[t] EXCEPT !.parent = x] \in Memory
                                               /\ [seen[t] EXCEPT !.home = x] \in Memory
           /\ \A S \in SUBSET NodeIds : [seen[t] EXCEPT !.nodes = S] \in Memory
           /\ \A value \in Representations : [seen[t] EXCEPT !.resource = value] \in Memory
<1>1. Typed /\ seen[t] \in Memory
  BY DEF IInv, Typed, ThreadOK
<1>2. \A row \in Rows : Fits(row, View(t)[row])
  BY <1>1, ViewFits DEF Table
<1>3. \A n \in NodeIds : /\ View(t)[Edge(n)] \in NodeIds \cup {NoNode}
                         /\ View(t)[Node(n)] \in Kinds \cup {"absent"}
  BY <1>2 DEF Rows, Fits, Edge, Node
<1>4. \A u \in Tags : View(t)[Tag(u)] \in BOOLEAN
  BY <1>2 DEF Rows, Fits, Tag
<1>5. \A n \in NodeIds, u \in Tags : View(t)[Mark(n, u)] \in BOOLEAN
  BY <1>2 DEF Rows, Fits, Mark
<1>6. /\ \A x \in NodeIds \cup {NoNode} : /\ [seen[t] EXCEPT !.parent = x] \in Memory
                                          /\ [seen[t] EXCEPT !.home = x] \in Memory
      /\ \A S \in SUBSET NodeIds : [seen[t] EXCEPT !.nodes = S] \in Memory
      /\ \A value \in Representations : [seen[t] EXCEPT !.resource = value] \in Memory
  BY <1>1 DEF Memory
<1> QED BY <1>1, <1>3, <1>4, <1>5, <1>6 DEF ChildrenIn, BearersIn

LEMMA LooksKeep ==
    ASSUME IInv, NEW t \in Threads, FetchParent(t) \/ FetchChildren(t) \/ FetchBearers(t)
    PROVE  IInv'
<1>1. \A n : \A x \in {"fetch_parent", "fetch_children", "fetch_bearers"} :
         <<x, n>> # Finish /\ ~AnnouncesTag(<<x, n>>) /\ Lowest(<<x, n>>) # 1 /\ <<x, n>>[1] # "assert_tag"
  BY DEF Finish, AnnouncesTag, Lowest, Stage, Wide
<1>2. ASSUME NEW n, NEW x \in {"fetch_parent", "fetch_children", "fetch_bearers"}, Doing(t, <<x, n>>),
             NEW values \in Memory, Learn(t, values, <<>>)
      PROVE  IInv'
  <2>1. Running(t) /\ First(t) = <<x, n>> /\ First(t) # Finish
    BY <1>1, <1>2, FirstFacts
  <2>2. Part(<<>>, Lowest(First(t)), Highest(First(t)), Reach(First(t)), DeletesSomething(First(t)))
    BY NoPart
  <2>3. \A i \in 1..Len(<<>>) : FALSE
    OBVIOUS
  <2>4. ~AnnouncesTag(First(t)) /\ Lowest(First(t)) # 1 /\ First(t)[1] # "assert_tag"
    BY <1>1, <2>1
  <2> QED BY <1>2, <2>1, <2>2, <2>3, <2>4, LearnKeeps
<1>3. CASE FetchParent(t)
  BY <1>2, <1>3, Sights DEF FetchParent
<1>4. CASE FetchChildren(t)
  BY <1>2, <1>4, Sights DEF FetchChildren
<1>5. CASE FetchBearers(t)
  BY <1>2, <1>5, Sights DEF FetchBearers
<1> QED BY <1>3, <1>4, <1>5

LEMMA ReadMoreKeeps ==
    ASSUME IInv, NEW t \in Threads, NEW s, Doing(t, s), s # Finish, s[1] # "assert_tag", ~AnnouncesTag(s),
           Lowest(s) > 1 \/ DeletesSomething(s), NEW values \in Memory,
           NEW a, Part(a, Lowest(s), Highest(s), Reach(s), DeletesSomething(s)), Learn(t, values, a)
    PROVE  IInv'
<1>1. /\ Running(t) /\ First(t) = s /\ First(t) # Finish
      /\ DeletesSomething(s) => Deleting(request[t])
  BY FirstFacts
<1>2. Bodies(request[t]) => Lowest(s) > 1
  BY <1>1 DEF Bodies, Deleting
<1>3. ASSUME Bodies(request[t]), NEW i \in 1..Len(a) PROVE a[i][1] \notin Creating
  <2>1. Lowest(s) <= Lowest(a[i])
    BY DEF Part
  <2>2. a[i][1] \in Creating => Lowest(a[i]) = 1
    BY DEF Creating, Lowest, Stage, Wide
  <2>3. Lowest(s) \in Nat
    BY DEF Lowest, Stage, Rank
  <2> QED BY <1>2, <1>3, <2>1, <2>2, <2>3
<1> QED BY <1>1, <1>3, LearnKeeps

LEMMA Least ==
    ASSUME NEW S \in SUBSET NodeIds, S # {}
    PROVE  Min(S) \in S
<1>1. S \in SUBSET Nat /\ IsFiniteSet(S)
  BY TransactionsAssumption, FS_Subset
<1>2. Cardinality(S) \in Nat /\ Cardinality(S) # 0
  BY <1>1, FS_CardinalityType, FS_EmptySet
<1>3. PICK n \in S : Place(S, n) = 0
  BY <1>1, <1>2, EachPlaceIsTaken
<1>4. ASSUME NEW m \in S PROVE n <= m
  <2>1. Place(S, m) \in Nat /\ (m < n => Place(S, m) < Place(S, n))
    BY <1>1, PlaceIsNat, PlaceGrows
  <2> QED BY <1>1, <1>3, <2>1
<1> QED BY <1>4 DEF Min

LEMMA WiderSeq ==
    ASSUME NEW S, NEW T, S \subseteq T, NEW s \in Seq(S)
    PROVE  s \in Seq(T)
OBVIOUS

LEMMA DeletionReadsKeep ==
    ASSUME IInv, NEW t \in Threads,
           FindHome(t) \/ FindOrphanContainer(t) \/ ReassignChildren(t) \/ Reassign(t)
    PROVE  IInv'
<1>1. setting.homes \subseteq NodeIds /\ seen[t] \in Memory
  BY TransactionsAssumption DEF IInv, Typed, ThreadOK
<1>2. \A n : \A x \in {"find_home", "find_orphan_container"} :
         /\ <<x, n>> # Finish /\ ~AnnouncesTag(<<x, n>>) /\ <<x, n>>[1] # "assert_tag"
         /\ Lowest(<<x, n>>) = 1 /\ Highest(<<x, n>>) = 4 /\ DeletesSomething(<<x, n>>)
  BY DEF Finish, AnnouncesTag, Lowest, Highest, Wide, DeletesSomething
<1>3. \A n, p : \A x \in {<<"reassign_children", n>>, <<"reassign", n, p>>} :
         /\ x # Finish /\ ~AnnouncesTag(x) /\ x[1] # "assert_tag"
         /\ Lowest(x) = 2 /\ Highest(x) = 2 /\ DeletesSomething(x) /\ Reach(x) = Rows
  BY DEF Finish, AnnouncesTag, Lowest, Highest, Stage, Wide, DeletesSomething, Reach
<1>4. CASE FindHome(t)
  <2>1. PICK n \in NodeIds :
           /\ Doing(t, <<"find_home", n>>)
           /\ \/ Learn(t, seen[t], <<>>)
              \/ Learn(t, seen[t], << <<"find_orphan_container", n>> >>)
    BY <1>4 DEF FindHome, Read, When
  <2>2. /\ <<"find_orphan_container", n>> \in Statements
        /\ Reach(<<"find_orphan_container", n>>) = Rows /\ Reach(<<"find_home", n>>) = Rows
    BY DEF Statements, Reach
  <2>3. Part(<< <<"find_orphan_container", n>> >>, 1, 4, Rows, TRUE)
    BY <1>2, <2>2 DEF Part
  <2>4. Part(<<>>, 1, 4, Rows, TRUE)
    BY NoPart
  <2>5. DeletesSomething(<<"find_home", n>>) = TRUE
    BY DEF DeletesSomething
  <2> QED BY <1>1, <1>2, <2>1, <2>2, <2>3, <2>4, <2>5, ReadMoreKeeps
<1>5. CASE FindOrphanContainer(t)
  <2>1. PICK n \in NodeIds :
           /\ Doing(t, <<"find_orphan_container", n>>)
           /\ \/ \E h \in NodeIds \cup {NoNode} : Learn(t, [seen[t] EXCEPT !.home = h], <<>>)
              \/ \E h \in NodeIds :
                    Learn(t, [seen[t] EXCEPT !.home = h], CreateNode(h, "container", NoNode, <<>>))
    <3> DEFINE found == {h \in setting.homes : View(t)[Node(h)] = "container"}
    <3>1. found # {} => Min(found) \in NodeIds
      <4>1. found \in SUBSET NodeIds
        BY <1>1
      <4> HIDE DEF found
      <4> QED BY <4>1, Least
    <3> QED BY <1>1, <1>5, <3>1 DEF FindOrphanContainer
  <2>2. Reach(<<"find_orphan_container", n>>) = Rows
    BY DEF Reach
  <2>3. ASSUME NEW h \in NodeIds PROVE Part(CreateNode(h, "container", NoNode, <<>>), 1, 4, Rows, TRUE)
    <3>1. <<>> \in Seq(Tags) /\ "container" \in Kinds
      BY DEF Kinds
    <3>2. {Node(h), Edge(h)} \cup MarksOf(h) \subseteq Rows
      BY RowFacts
    <3> QED BY <3>1, <3>2, CreateNodePart
  <2>4. Part(<<>>, 1, 4, Rows, TRUE)
    BY NoPart
  <2>5. DeletesSomething(<<"find_orphan_container", n>>) = TRUE
    BY DEF DeletesSomething
  <2>6. \A h \in NodeIds \cup {NoNode} : [seen[t] EXCEPT !.home = h] \in Memory
    BY Sights
  <2>7. CASE \E h \in NodeIds \cup {NoNode} : Learn(t, [seen[t] EXCEPT !.home = h], <<>>)
    BY <1>2, <2>1, <2>2, <2>4, <2>5, <2>6, <2>7, ReadMoreKeeps
  <2>8. CASE \E h \in NodeIds :
                Learn(t, [seen[t] EXCEPT !.home = h], CreateNode(h, "container", NoNode, <<>>))
    <3>1. PICK h \in NodeIds :
             Learn(t, [seen[t] EXCEPT !.home = h], CreateNode(h, "container", NoNode, <<>>))
      BY <2>8
    <3>2. [seen[t] EXCEPT !.home = h] \in Memory
      BY <2>6
    <3> HIDE DEF CreateNode
    <3> QED BY <1>2, <2>1, <2>2, <2>3, <2>5, <3>1, <3>2, ReadMoreKeeps
  <2> QED BY <2>1, <2>7, <2>8
<1>6. CASE ReassignChildren(t)
  <2> DEFINE home == seen[t].home
  <2>1. PICK n \in NodeIds :
           LET children == Ascending(ChildrenIn(View(t), n))
           IN  /\ Doing(t, <<"reassign_children", n>>)
               /\ Learn(t, seen[t], When(home # NoNode,
                                         [i \in DOMAIN children |-> <<"reassign", children[i], home>>]))
    BY <1>6 DEF ReassignChildren, Read
  <2> DEFINE children == Ascending(ChildrenIn(View(t), n))
             a == [i \in DOMAIN children |-> <<"reassign", children[i], home>>]
  <2>2. children \in Seq(NodeIds)
    <3> DEFINE S == ChildrenIn(View(t), n)
    <3>1. S \in SUBSET Nat /\ IsFiniteSet(S) /\ S \subseteq NodeIds
      BY Sights, TransactionsAssumption, FS_Subset
    <3> HIDE DEF S
    <3>2. Ascending(S) \in Seq(S)
      BY <3>1, AscendingFacts
    <3> HIDE DEF children
    <3>3. children = Ascending(S)
      BY DEF children, S
    <3>4. Ascending(S) \in Seq(NodeIds)
      BY <3>1, <3>2, WiderSeq
    <3> QED BY <3>3, <3>4
  <2>3. Doing(t, <<"reassign_children", n>>) /\ Learn(t, seen[t], When(home # NoNode, a))
    BY <2>1
  <2> HIDE DEF children
  <2>4. CASE home # NoNode
    <3>1. home \in NodeIds
      BY <1>1, <2>4 DEF Memory
    <3>2. PICK k \in Nat : DOMAIN children = 1..k /\ \A i \in 1..k : children[i] \in NodeIds
      BY <2>2
    <3>3. \A c \in NodeIds : <<"reassign", c, home>> \in Statements
      BY <3>1 DEF Statements
    <3>4. a \in [1..k -> Statements]
      BY <3>2, <3>3
    <3>5. \A i \in 1..k : /\ 2 = Lowest(a[i]) /\ 2 = Highest(a[i])
                          /\ Reach(a[i]) \subseteq Rows /\ (DeletesSomething(a[i]) => TRUE)
      BY <1>3, <3>2
    <3>6. Learn(t, seen[t], a)
      BY <2>3, <2>4 DEF When
    <3> HIDE DEF a
    <3>7. Part(a, 2, 2, Rows, TRUE)
      <4>1. a \in Seq(Statements) /\ Len(a) = k
        BY <3>4
      <4> QED BY <3>5, <4>1 DEF Part
    <3>8. DeletesSomething(<<"reassign_children", n>>) = TRUE
      BY DEF DeletesSomething
    <3> QED BY <1>1, <1>3, <2>3, <3>6, <3>7, <3>8, ReadMoreKeeps
  <2>5. CASE home = NoNode
    <3>1. Learn(t, seen[t], <<>>)
      BY <2>3, <2>5 DEF When
    <3> QED BY <1>1, <1>3, <2>3, <3>1, NoPart, ReadMoreKeeps
  <2> QED BY <2>4, <2>5
<1>7. CASE Reassign(t)
  <2>1. PICK c \in NodeIds, p \in NodeIds :
           Doing(t, <<"reassign", c, p>>) /\ Learn(t, seen[t], SetParent(c, p))
    BY <1>7 DEF Reassign, Read
  <2>2. Part(SetParent(c, p), 2, 2, Rows, TRUE)
    BY RowFacts, SetParentPart
  <2>3. DeletesSomething(<<"reassign", c, p>>) = TRUE
    BY DEF DeletesSomething
  <2> HIDE DEF SetParent
  <2> QED BY <1>1, <1>3, <2>1, <2>2, <2>3, ReadMoreKeeps
<1> QED BY <1>4, <1>5, <1>6, <1>7

(* CreateOrReplace: the two programs of a PUT both begin with the node.            *)
Later == {s \in Statements : s[1] \notin Creating}
CreatesAtMostFirst(a) == a \in Seq(Statements) /\ \A i \in 1..Len(a) : a[i][1] \in Creating => i = 1

LEMMA LaterSeq ==
    ASSUME NEW a \in Seq(Statements), \A i \in 1..Len(a) : Lowest(a[i]) > 1
    PROVE  a \in Seq(Later)
<1>1. \A s \in Statements : Lowest(s) > 1 => s \in Later
  BY DEF Later, Creating, Lowest, Stage, Wide
<1>2. \A i \in 1..Len(a) : a[i] \in Later
  BY <1>1
<1> QED BY <1>2

LEMMA LaterPart ==
    ASSUME NEW a, NEW lo \in {2, 3, 4}, NEW hi, NEW R, NEW d, Part(a, lo, hi, R, d)
    PROVE  a \in Seq(Later)
<1>1. a \in Seq(Statements) /\ \A i \in 1..Len(a) : lo <= Lowest(a[i])
  BY DEF Part
<1>2. \A s : Lowest(s) \in Nat
  BY DEF Lowest, Stage, Rank
<1> QED BY <1>1, <1>2, LaterSeq

LEMMA LaterFollows ==
    /\ \A a, b : CreatesAtMostFirst(a) /\ b \in Seq(Later) => CreatesAtMostFirst(a \o b)
    /\ \A a : a \in Seq(Later) => CreatesAtMostFirst(a)
<1>1. \A a : a \in Seq(Later) => CreatesAtMostFirst(a)
  <2> SUFFICES ASSUME NEW a \in Seq(Later) PROVE CreatesAtMostFirst(a)
    OBVIOUS
  <2>1. Later \subseteq Statements
    BY DEF Later
  <2>2. a \in Seq(Statements)
    BY <2>1
  <2>3. \A i \in 1..Len(a) : a[i][1] \notin Creating
    BY DEF Later
  <2> QED BY <2>2, <2>3 DEF CreatesAtMostFirst
<1>2. ASSUME NEW a, NEW b, CreatesAtMostFirst(a), b \in Seq(Later)
      PROVE  CreatesAtMostFirst(a \o b)
  <2>1. a \in Seq(Statements) /\ b \in Seq(Statements) /\ \A i \in 1..Len(b) : b[i][1] \notin Creating
    <3>1. b \in Seq(Statements)
      BY <1>1, <1>2 DEF CreatesAtMostFirst
    <3> QED BY <1>2, <3>1 DEF CreatesAtMostFirst, Later
  <2>2. /\ a \o b \in Seq(Statements) /\ Len(a \o b) = Len(a) + Len(b) /\ Len(a) \in Nat /\ Len(b) \in Nat
        /\ \A i \in 1..Len(a \o b) : (a \o b)[i] = IF i <= Len(a) THEN a[i] ELSE b[i - Len(a)]
    BY <2>1, JoinedSeqs
  <2>3. ASSUME NEW i \in 1..Len(a \o b), (a \o b)[i][1] \in Creating PROVE i = 1
    <3>1. CASE i <= Len(a)
      BY <1>2, <2>2, <2>3, <3>1 DEF CreatesAtMostFirst
    <3>2. CASE ~(i <= Len(a))
      <4>1. i - Len(a) \in 1..Len(b) /\ (a \o b)[i] = b[i - Len(a)]
        BY <2>2, <3>2
      <4> QED BY <2>1, <2>3, <4>1
    <3> QED BY <3>1, <3>2
  <2> QED BY <2>2, <2>3 DEF CreatesAtMostFirst
<1> QED BY <1>1, <1>2

LEMMA WhenSeq ==
    ASSUME NEW S, NEW condition, NEW a, condition => a \in Seq(S)
    PROVE  When(condition, a) \in Seq(S)
BY DEF When

LEMMA Pieces ==
    ASSUME NEW n \in NodeIds, NEW p \in NodeIds \cup {NoNode}
    PROVE  /\ SetParent(n, p) \in Seq(Later)
           /\ p # NoNode => EnsureParentIsValid(n, p) \in Seq(Later)
           /\ p # NoNode => << <<"ensure_container", p>> >> \in Seq(Later)
           /\ \A names \in Seq(Tags) : ReplaceNodeTags(n, names) \in Seq(Later)
           /\ Announcements({p}) \in Seq(Later)
           /\ \A x \in {"fetch_parent", "ensure_childless", "announce", "announce_update"} :
                 << <<x, n>> >> \in Seq(Later)
           /\ << <<"fetch_node", n>>, <<"fetch_parent", n>> >> \in Seq(Later)
           /\ \A kind \in Kinds \cup {Relabel} : << <<"update_node", n, kind>> >> \in Seq(Later)
           /\ << <<"announce_replacement", n, p>> >> \in Seq(Later)
<1>1. {Node(n), Edge(n)} \cup MarksOf(n) \subseteq Rows
  BY RowFacts
<1>2. Part(SetParent(n, p), 2, 2, Rows, TRUE)
  BY <1>1, SetParentPart
<1>3. \A names \in Seq(Tags) : Part(ReplaceNodeTags(n, names), 3, 3, Rows, TRUE)
  BY <1>1, ReplaceNodeTagsPart
<1>4. Part(Announcements({p}), 4, 4, {}, TRUE)
  BY AnnouncementsPart
<1>5. /\ p # NoNode => <<"ensure_container", p>> \in Later /\ <<"ensure_acyclic", n, p>> \in Later
      /\ \A x \in {"fetch_node", "fetch_parent", "ensure_childless", "announce", "announce_update"} :
            <<x, n>> \in Later
      /\ \A kind \in Kinds \cup {Relabel} : <<"update_node", n, kind>> \in Later
      /\ <<"announce_replacement", n, p>> \in Later
  BY DEF Later, Statements, Creating
<1>6. p # NoNode => EnsureParentIsValid(n, p) \in Seq(Later)
  BY <1>5 DEF EnsureParentIsValid
<1> HIDE DEF SetParent, EnsureParentIsValid, ReplaceNodeTags, Announcements
<1>7. /\ SetParent(n, p) \in Seq(Later) /\ Announcements({p}) \in Seq(Later)
      /\ \A names \in Seq(Tags) : ReplaceNodeTags(n, names) \in Seq(Later)
  BY <1>2, <1>3, <1>4, LaterPart
<1> QED BY <1>5, <1>6, <1>7

LEMMA CreateNodeCreates ==
    ASSUME NEW n \in NodeIds, NEW kind \in Kinds, NEW p \in NodeIds \cup {NoNode}, NEW names \in Seq(Tags)
    PROVE  CreatesAtMostFirst(CreateNode(n, kind, p, names))
<1> DEFINE a == << <<"insert_node", n, kind>> >>
           b == When(p # NoNode, << <<"ensure_container", p>> >> \o SetParent(n, p))
           c == When(names # <<>>, ReplaceNodeTags(n, names))
           e == << <<"announce", n>> >>
           f == Announcements({p})
<1>1. CreatesAtMostFirst(a)
  <2>1. <<"insert_node", n, kind>> \in Statements
    BY DEF Statements
  <2> QED BY <2>1 DEF CreatesAtMostFirst
<1>2. b \in Seq(Later)
  <2> HIDE DEF SetParent
  <2>1. p # NoNode => << <<"ensure_container", p>> >> \o SetParent(n, p) \in Seq(Later)
    BY Pieces, JoinedSeqs
  <2> QED BY <2>1, WhenSeq
<1>3. c \in Seq(Later) /\ e \in Seq(Later) /\ f \in Seq(Later)
  <2> HIDE DEF ReplaceNodeTags, Announcements
  <2> QED BY Pieces, WhenSeq
<1> HIDE DEF a, b, c, e, f
<1>4. CreatesAtMostFirst(a \o b \o c \o e \o f)
  <2>1. CreatesAtMostFirst(a \o b)
    BY <1>1, <1>2, LaterFollows
  <2>2. CreatesAtMostFirst(a \o b \o c)
    BY <2>1, <1>3, LaterFollows
  <2>3. CreatesAtMostFirst(a \o b \o c \o e)
    BY <2>2, <1>3, LaterFollows
  <2> QED BY <2>3, <1>3, LaterFollows
<1> QED BY <1>4 DEF CreateNode, a, b, c, e, f

LEMMA ReplaceNodeCreates ==
    ASSUME NEW n \in NodeIds, NEW kind \in Kinds, NEW p \in NodeIds \cup {NoNode}, NEW names \in Seq(Tags)
    PROVE  CreatesAtMostFirst(ReplaceNode(n, kind, p, names))
<1> DEFINE a == When(kind = "item", << <<"ensure_childless", n>> >>)
           b == << <<"fetch_parent", n>> >>
           c == When(p # NoNode, EnsureParentIsValid(n, p))
           e == << <<"update_node", n, kind>> >>
           f == SetParent(n, p)
           g == ReplaceNodeTags(n, names)
           h == << <<"announce_replacement", n, p>> >>
<1>1. /\ a \in Seq(Later) /\ b \in Seq(Later) /\ c \in Seq(Later) /\ e \in Seq(Later)
      /\ f \in Seq(Later) /\ g \in Seq(Later) /\ h \in Seq(Later)
  <2> HIDE DEF EnsureParentIsValid, SetParent, ReplaceNodeTags
  <2> QED BY Pieces, WhenSeq
<1> HIDE DEF a, b, c, e, f, g, h
<1>2. a \o b \o c \o e \in Seq(Later)
  BY <1>1, JoinedSeqs
<1>3. a \o b \o c \o e \o f \o g \o h \in Seq(Later)
  BY <1>1, <1>2, JoinedSeqs
<1> QED BY <1>3, LaterFollows DEF ReplaceNode, a, b, c, e, f, g, h

LEMMA UpdateNodeCreates ==
    ASSUME NEW n \in NodeIds, NEW kind \in Kinds \cup {Keep, Relabel}, NEW p \in NodeIds \cup {NoNode, Keep},
           NEW names \in Seq(Tags) \cup {Keep}
    PROVE  CreatesAtMostFirst(UpdateNode(n, kind, p, names))
<1> DEFINE a == << <<"fetch_node", n>>, <<"fetch_parent", n>> >>
           b == When(kind = "item", << <<"ensure_childless", n>> >>)
           c == When(p \notin {Keep, NoNode}, EnsureParentIsValid(n, p))
           e == When(kind # Keep, << <<"update_node", n, kind>> >>)
           f == When(p # Keep, SetParent(n, p))
           g == When(names # Keep, ReplaceNodeTags(n, names))
           h == << <<"announce_update", n>> >>
<1>1. /\ a \in Seq(Later) /\ b \in Seq(Later) /\ c \in Seq(Later) /\ e \in Seq(Later)
      /\ f \in Seq(Later) /\ g \in Seq(Later) /\ h \in Seq(Later)
  <2>1. NoNode \in NodeIds \cup {NoNode}
    OBVIOUS
  <2>2. /\ \A q \in NodeIds \cup {NoNode} : /\ SetParent(n, q) \in Seq(Later)
                                            /\ q # NoNode => EnsureParentIsValid(n, q) \in Seq(Later)
        /\ \A l \in Seq(Tags) : ReplaceNodeTags(n, l) \in Seq(Later)
        /\ << <<"ensure_childless", n>> >> \in Seq(Later)
        /\ \A k \in Kinds \cup {Relabel} : << <<"update_node", n, k>> >> \in Seq(Later)
        /\ a \in Seq(Later) /\ h \in Seq(Later)
    BY <2>1, Pieces
  <2> HIDE DEF EnsureParentIsValid, SetParent, ReplaceNodeTags, a, h
  <2> QED BY <2>2, WhenSeq
<1> HIDE DEF a, b, c, e, f, g, h
<1>2. a \o b \o c \o e \in Seq(Later)
  BY <1>1, JoinedSeqs
<1>3. a \o b \o c \o e \o f \o g \o h \in Seq(Later)
  BY <1>1, <1>2, JoinedSeqs
<1> QED BY <1>3, LaterFollows DEF UpdateNode, a, b, c, e, f, g, h

LEMMA CreateOrReplaceKeeps ==
    ASSUME IInv, NEW t \in Threads, CreateOrReplace(t)
    PROVE  IInv'
<1> DEFINE r == request[t]
<1>1. PICK n \in NodeIds :
         /\ Doing(t, <<"create_or_replace", n>>)
         /\ \/ Learn(t, seen[t], CreateNode(n, r.kind, r.parent, r.tags))
            \/ Learn(t, seen[t], ReplaceNode(n, r.kind, r.parent, r.tags))
  BY DEF CreateOrReplace, Read
<1> DEFINE s == <<"create_or_replace", n>>
<1>2. /\ s # Finish /\ ~AnnouncesTag(s) /\ s[1] # "assert_tag"
      /\ Lowest(s) = 1 /\ Highest(s) = 4 /\ DeletesSomething(s) = FALSE
      /\ Reach(s) = {Whole(n), Node(n), Edge(n)} \cup MarksOf(n)
  BY DEF Finish, AnnouncesTag, Lowest, Highest, Wide, DeletesSomething, Reach
<1>3. Running(t) /\ First(t) = s /\ First(t) # Finish /\ Whole(n) \in Scope(r) /\ r \in Requests
  BY <1>1, <1>2, FirstFacts
<1>4. r.op = "PUT" /\ n = r.node
  BY <1>3 DEF Scope, Rows, MarksOf, Whole, Node, Edge, Mark, Tag, Sequence, Database
<1>5. r.kind \in Kinds /\ r.parent \in NodeIds \cup {NoNode} /\ r.tags \in Seq(Tags)
  BY <1>3, <1>4 DEF Requests, Creations, Changes, Deletions, TagRequests
<1>6. seen[t] \in Memory
  BY Sights
<1>7. /\ {Node(n), Edge(n)} \cup MarksOf(n) \subseteq Reach(s)
      /\ writes[t] = <<>>
  <2>1. Bodies(r) /\ ThreadInv(t) /\ todo[t][1][1] \in Creating
    BY <1>1, <1>4 DEF IInv, Typed, ThreadInv, Bodies, Creating, Doing
  <2>2. 1 \in 1..Len(todo[t])
    BY <1>3, <2>1 DEF ThreadInv, ThreadOK, Rest, Running
  <2> QED BY <1>2, <2>1, <2>2 DEF ThreadInv, CreatesFirst
<1> HIDE DEF r, s
<1>8. CASE Learn(t, seen[t], CreateNode(n, r.kind, r.parent, r.tags))
  <2> DEFINE a == CreateNode(n, r.kind, r.parent, r.tags)
  <2>1. Part(a, 1, 4, Reach(s), FALSE)
    BY <1>5, <1>7, CreateNodePart
  <2>2. CreatesAtMostFirst(a)
    BY <1>5, CreateNodeCreates
  <2>3. Learn(t, seen[t], a)
    BY <1>8
  <2> HIDE DEF a
  <2> QED BY <1>2, <1>3, <1>6, <1>7, <2>1, <2>2, <2>3, LearnKeeps DEF CreatesAtMostFirst
<1>9. CASE Learn(t, seen[t], ReplaceNode(n, r.kind, r.parent, r.tags))
  <2> DEFINE a == ReplaceNode(n, r.kind, r.parent, r.tags)
  <2>1. Part(a, 1, 4, Reach(s), FALSE)
    BY <1>5, <1>7, ReplaceNodePart
  <2>2. CreatesAtMostFirst(a)
    BY <1>5, ReplaceNodeCreates
  <2>3. Learn(t, seen[t], a)
    BY <1>9
  <2> HIDE DEF a
  <2> QED BY <1>2, <1>3, <1>6, <1>7, <2>1, <2>2, <2>3, LearnKeeps DEF CreatesAtMostFirst
<1> QED BY <1>1, <1>8, <1>9

LEMMA ListOfSet ==
    ASSUME NEW S, IsFiniteSet(S), NEW list \in SetToSeqs(S)
    PROVE  \E k \in Nat : DOMAIN list = 1..k /\ \A i \in 1..k : list[i] \in S
<1>1. Cardinality(S) \in Nat
  BY FS_CardinalityType
<1>2. list \in [1..Cardinality(S) -> S]
  BY DEF SetToSeqs
<1> QED BY <1>1, <1>2

LEMMA TagReadsKeep ==
    ASSUME IInv, NEW t \in Threads, EnsureTag(t) \/ InsertMarks(t)
    PROVE  IInv'
<1>1. seen[t] \in Memory
  BY Sights
<1>2. CASE EnsureTag(t)
  <2>1. PICK u \in Tags : /\ Doing(t, <<"ensure_tag", u>>)
                          /\ \/ Learn(t, seen[t], <<>>)
                             \/ Learn(t, seen[t], << <<"insert_tag", u>> >>)
    BY <1>2 DEF EnsureTag, Read, When
  <2> DEFINE s == <<"ensure_tag", u>>
             a == << <<"insert_tag", u>> >>
  <2>2. /\ s # Finish /\ ~AnnouncesTag(s) /\ s[1] # "assert_tag"
        /\ Lowest(s) = 3 /\ Highest(s) = 3 /\ DeletesSomething(s) = FALSE /\ Reach(s) = {}
    BY DEF Finish, AnnouncesTag, Lowest, Highest, Stage, Wide, DeletesSomething, Reach
  <2>3. /\ <<"insert_tag", u>> \in Statements /\ ~DeletesSomething(<<"insert_tag", u>>)
        /\ Lowest(<<"insert_tag", u>>) = 3 /\ Highest(<<"insert_tag", u>>) = 3
        /\ Reach(<<"insert_tag", u>>) = {}
    BY DEF Statements, Lowest, Highest, Stage, Wide, DeletesSomething, Reach
  <2>4. Part(a, 3, 3, {}, DeletesSomething(s)) /\ Part(<<>>, 3, 3, {}, DeletesSomething(s))
    BY <2>3, NoPart DEF Part
  <2>0. Doing(t, s)
    BY <2>1
  <2> HIDE DEF s, a
  <2>7. /\ Part(a, Lowest(s), Highest(s), Reach(s), DeletesSomething(s))
        /\ Part(<<>>, Lowest(s), Highest(s), Reach(s), DeletesSomething(s))
        /\ Lowest(s) > 1
    BY <2>2, <2>4
  <2>5. CASE Learn(t, seen[t], <<>>)
    BY <1>1, <2>0, <2>2, <2>7, <2>5, ReadMoreKeeps
  <2>6. CASE Learn(t, seen[t], a)
    BY <1>1, <2>0, <2>2, <2>7, <2>6, ReadMoreKeeps
  <2> QED BY <2>1, <2>5, <2>6 DEF a
<1>3. CASE InsertMarks(t)
  <2>1. PICK n \in NodeIds, S \in SUBSET Tags :
           /\ Doing(t, <<"insert_marks", n, S>>)
           /\ \E list \in SetToSeqs(S) :
                 Learn(t, seen[t], [i \in DOMAIN list |-> <<"insert_mark", n, list[i]>>])
    BY <1>3 DEF InsertMarks, Read
  <2>2. PICK list \in SetToSeqs(S) :
           Learn(t, seen[t], [i \in DOMAIN list |-> <<"insert_mark", n, list[i]>>])
    BY <2>1
  <2> DEFINE s == <<"insert_marks", n, S>>
             a == [i \in DOMAIN list |-> <<"insert_mark", n, list[i]>>]
  <2>3. /\ s # Finish /\ ~AnnouncesTag(s) /\ s[1] # "assert_tag"
        /\ Lowest(s) = 3 /\ Highest(s) = 3 /\ DeletesSomething(s) = FALSE /\ Reach(s) = MarksOf(n)
    BY DEF Finish, AnnouncesTag, Lowest, Highest, Stage, Wide, DeletesSomething, Reach
  <2>4. ASSUME NEW u \in Tags
        PROVE  /\ <<"insert_mark", n, u>> \in Statements /\ ~DeletesSomething(<<"insert_mark", n, u>>)
               /\ Lowest(<<"insert_mark", n, u>>) = 3 /\ Highest(<<"insert_mark", n, u>>) = 3
               /\ Reach(<<"insert_mark", n, u>>) = MarksOf(n)
    BY DEF Statements, Lowest, Highest, Stage, Wide, DeletesSomething, Reach
  <2>5. PICK k \in Nat : DOMAIN list = 1..k /\ \A i \in 1..k : list[i] \in Tags
    <3>1. IsFiniteSet(S)
      BY TransactionsAssumption, FS_Subset
    <3>2. PICK k \in Nat : DOMAIN list = 1..k /\ \A i \in 1..k : list[i] \in S
      BY <2>2, <3>1, ListOfSet
    <3> QED BY <3>2
  <2>6. a \in [1..k -> Statements]
    BY <2>4, <2>5
  <2>7. \A i \in 1..k : /\ 3 = Lowest(a[i]) /\ 3 = Highest(a[i])
                        /\ Reach(a[i]) \subseteq MarksOf(n) /\ ~DeletesSomething(a[i])
    BY <2>4, <2>5
  <2>8. Doing(t, s) /\ Learn(t, seen[t], a)
    BY <2>1, <2>2
  <2> HIDE DEF s, a
  <2>9. Part(a, 3, 3, MarksOf(n), DeletesSomething(s))
    <3>1. a \in Seq(Statements) /\ Len(a) = k
      BY <2>6
    <3> QED BY <2>7, <3>1 DEF Part
  <2>10. Part(a, Lowest(s), Highest(s), Reach(s), DeletesSomething(s)) /\ Lowest(s) > 1
    BY <2>3, <2>9
  <2> QED BY <1>1, <2>3, <2>8, <2>10, ReadMoreKeeps
<1> QED BY <1>2, <1>3

LEMMA RepresentationFits ==
    ASSUME IInv, NEW t \in Threads, NEW n \in NodeIds
    PROVE  Representation(View(t), n) \in Representations
<1> DEFINE v == View(t)
           there == {c \in ChildrenIn(v, n) : v[Node(c)] # "absent"}
           children == [m \in there |-> [kind |-> v[Node(m)], tags |-> TagsIn(v, m)]]
<1>1. /\ \A m \in NodeIds : v[Node(m)] \in Kinds \cup {"absent"} /\ v[Edge(m)] \in NodeIds \cup {NoNode}
      /\ ChildrenIn(v, n) \subseteq NodeIds
  BY Sights
<1>2. \A m : TagsIn(v, m) \in SUBSET Tags
  BY DEF TagsIn, MarksIn
<1> HIDE DEF v
<1>3. CASE v[Node(n)] = "absent"
  BY <1>3 DEF Representation, Representations, v
<1>4. CASE v[Node(n)] # "absent"
  <2>1. \A m \in there : m \in NodeIds /\ v[Node(m)] \in Kinds
    BY <1>1
  <2>2. \A m \in there : [kind |-> v[Node(m)], tags |-> TagsIn(v, m)] \in [kind : Kinds, tags : SUBSET Tags]
    BY <1>2, <2>1
  <2>3. there \in SUBSET NodeIds /\ children \in [there -> [kind : Kinds, tags : SUBSET Tags]]
    BY <2>1, <2>2
  <2>4. v[Node(n)] \in Kinds /\ v[Edge(n)] \in NodeIds \cup {NoNode} /\ TagsIn(v, n) \in SUBSET Tags
    BY <1>1, <1>2, <1>4
  <2>5. Representation(v, n) = [kind |-> v[Node(n)], parent |-> v[Edge(n)], tags |-> TagsIn(v, n),
                                children |-> children]
    BY <1>4 DEF Representation
  <2> HIDE DEF there, children
  <2> QED BY <2>3, <2>4, <2>5 DEF Representations, v
<1> QED BY <1>3, <1>4

(* Statements that make the last ones.                                          *)
LEMMA AnnouncingPart ==
    ASSUME NEW n \in NodeIds, NEW d
    PROVE  /\ Part(<< <<"announce", n>> >>, 4, 4, {}, d)
           /\ \A x \in Representations : Part(<< <<"append", n, x>> >>, 4, 4, {}, d)
<1>1. Part(<< <<"announce", n>> >>, 4, 4, {}, d)
  BY EventPart
<1>2. \A x \in Representations :
         /\ <<"append", n, x>> \in Statements
         /\ Lowest(<<"append", n, x>>) = 4 /\ Highest(<<"append", n, x>>) = 4
         /\ Reach(<<"append", n, x>>) = {} /\ ~DeletesSomething(<<"append", n, x>>)
  BY TransactionsAssumption DEF Statements, Lowest, Highest, Stage, Wide, AnnouncesTag, Reach, DeletesSomething
<1>3. \A x \in Representations : Part(<< <<"append", n, x>> >>, 4, 4, {}, d)
  BY <1>2, SinglePart
<1> QED BY <1>1, <1>3

LEMMA AnnouncingBearersPart ==
    ASSUME NEW u \in Tags, NEW d, d
    PROVE  Part(<< <<"announce_parents">>, <<"append", u, FALSE>> >>, 4, 4, {}, d)
<1>1. <<"announce_parents">> \in Statements /\ <<"append", u, FALSE>> \in Statements
  BY DEF Statements
<1>2. ~AnnouncesTag(<<"append", u, FALSE>>)
  <2>1. <<"append", u, FALSE>>[3] = FALSE
    OBVIOUS
  <2>2. FALSE # TRUE
    OBVIOUS
  <2> QED BY <2>1, <2>2, Zenon DEF AnnouncesTag
<1>3. /\ Lowest(<<"append", u, FALSE>>) = 4 /\ Highest(<<"append", u, FALSE>>) = 4
      /\ Reach(<<"append", u, FALSE>>) = {}
  BY <1>2 DEF Lowest, Highest, Stage, Wide, Reach
<1>4. /\ Lowest(<<"announce_parents">>) = 4 /\ Highest(<<"announce_parents">>) = 4
      /\ Reach(<<"announce_parents">>) = {}
  BY DEF Lowest, Highest, Stage, Wide, Reach
<1> DEFINE x == <<"announce_parents">>
           y == <<"append", u, FALSE>>
<1>5. /\ x \in Statements /\ Lowest(x) = 4 /\ Highest(x) = 4 /\ Reach(x) = {}
      /\ y \in Statements /\ Lowest(y) = 4 /\ Highest(y) = 4 /\ Reach(y) = {}
  BY <1>1, <1>3, <1>4
<1> HIDE DEF x, y
<1>6. Part(<<x, y>>, 4, 4, {}, d)
  BY <1>5 DEF Part
<1> QED BY <1>6 DEF x, y

(* A statement that announces puts other events, made here, in front of the rest.    *)
LEMMA EventReads ==
    ASSUME IInv, NEW t \in Threads,
           \/ AnnounceUpdate(t) \/ AnnounceReplacement(t) \/ AnnounceDeletion(t)
           \/ AnnounceBearers(t) \/ AnnounceParents(t)
    PROVE  \E s, a : /\ Doing(t, s) /\ s # Finish /\ ~AnnouncesTag(s) /\ s[1] # "assert_tag"
                     /\ Lowest(s) = 4 /\ Highest(s) = 4 /\ Reach(s) = {}
                     /\ Part(a, 4, 4, {}, DeletesSomething(s)) /\ Learn(t, seen[t], a)
<1>1. /\ seen[t] \in Memory
      /\ seen[t].parent \in NodeIds \cup {NoNode} /\ seen[t].home \in NodeIds \cup {NoNode}
      /\ seen[t].nodes \in SUBSET NodeIds
      /\ \A n \in NodeIds : View(t)[Edge(n)] \in NodeIds \cup {NoNode}
  BY Sights DEF Memory
<1>2. \A n, p : \A s \in {<<"announce_update", n>>, <<"announce_replacement", n, p>>, <<"announce_deletion", n>>,
                          <<"announce_bearers", n>>, <<"announce_parents">>} :
         /\ s # Finish /\ ~AnnouncesTag(s) /\ s[1] # "assert_tag"
         /\ Lowest(s) = 4 /\ Highest(s) = 4 /\ Reach(s) = {}
  BY DEF Finish, AnnouncesTag, Lowest, Highest, Stage, Wide, Reach
<1>3. ASSUME NEW s, Doing(t, s), s # Finish /\ ~AnnouncesTag(s) /\ s[1] # "assert_tag",
             Lowest(s) = 4 /\ Highest(s) = 4 /\ Reach(s) = {},
             NEW a, Part(a, 4, 4, {}, DeletesSomething(s)), Learn(t, seen[t], a)
      PROVE  \E x, b : /\ Doing(t, x) /\ x # Finish /\ ~AnnouncesTag(x) /\ x[1] # "assert_tag"
                       /\ Lowest(x) = 4 /\ Highest(x) = 4 /\ Reach(x) = {}
                       /\ Part(b, 4, 4, {}, DeletesSomething(x)) /\ Learn(t, seen[t], b)
  BY <1>3
<1>4. CASE AnnounceUpdate(t)
  <2>1. PICK n \in NodeIds :
           /\ Doing(t, <<"announce_update", n>>)
           /\ Learn(t, seen[t], << <<"announce", n>> >> \o Announcements({seen[t].parent, View(t)[Edge(n)]}))
    BY <1>4 DEF AnnounceUpdate, Read
  <2> DEFINE d == DeletesSomething(<<"announce_update", n>>)
             a == << <<"announce", n>> >>
             b == Announcements({seen[t].parent, View(t)[Edge(n)]})
  <2>2. {seen[t].parent, View(t)[Edge(n)]} \in SUBSET (NodeIds \cup {NoNode})
    BY <1>1
  <2>3. Part(a, 4, 4, {}, d) /\ Part(b, 4, 4, {}, d)
    BY <2>2, AnnouncingPart, AnnouncementsPart
  <2> HIDE DEF a, b, d
  <2>4. Part(a \o b, 4, 4, {}, d)
    BY <2>3, JoinParts
  <2> QED BY <1>2, <1>3, <2>1, <2>4 DEF a, b, d
<1>5. CASE AnnounceReplacement(t)
  <2>1. PICK n \in NodeIds, p \in NodeIds \cup {NoNode} :
           /\ Doing(t, <<"announce_replacement", n, p>>)
           /\ Learn(t, seen[t], << <<"announce", n>> >> \o Announcements({seen[t].parent, p}))
    BY <1>5 DEF AnnounceReplacement, Read
  <2> DEFINE d == DeletesSomething(<<"announce_replacement", n, p>>)
             a == << <<"announce", n>> >>
             b == Announcements({seen[t].parent, p})
  <2>2. {seen[t].parent, p} \in SUBSET (NodeIds \cup {NoNode})
    BY <1>1
  <2>3. Part(a, 4, 4, {}, d) /\ Part(b, 4, 4, {}, d)
    BY <2>2, AnnouncingPart, AnnouncementsPart
  <2> HIDE DEF a, b, d
  <2>4. Part(a \o b, 4, 4, {}, d)
    BY <2>3, JoinParts
  <2> QED BY <1>2, <1>3, <2>1, <2>4 DEF a, b, d
<1>6. CASE AnnounceDeletion(t)
  <2>1. PICK n \in NodeIds :
           /\ Doing(t, <<"announce_deletion", n>>)
           /\ Learn(t, seen[t], Announcements(seen[t].nodes)
                                    \o Announcements({seen[t].parent, seen[t].home} \ {n})
                                    \o << <<"append", n, Absent>> >>)
    BY <1>6 DEF AnnounceDeletion, Read
  <2> DEFINE d == DeletesSomething(<<"announce_deletion", n>>)
             a == Announcements(seen[t].nodes)
             b == Announcements({seen[t].parent, seen[t].home} \ {n})
             c == << <<"append", n, Absent>> >>
  <2>2. /\ {seen[t].parent, seen[t].home} \ {n} \in SUBSET (NodeIds \cup {NoNode})
        /\ seen[t].nodes \in SUBSET (NodeIds \cup {NoNode})
    BY <1>1
  <2>3. d
    BY DEF DeletesSomething
  <2>4. Part(a, 4, 4, {}, d) /\ Part(b, 4, 4, {}, d) /\ Part(c, 4, 4, {}, d)
    <3>1. Absent \in Representations
      BY DEF Representations
    <3> HIDE DEF Absent
    <3> QED BY <2>2, <3>1, AnnouncingPart, AnnouncementsPart
  <2> HIDE DEF a, b, c, d
  <2>5. Part(a \o b, 4, 4, {}, d)
    BY <2>4, JoinParts
  <2>6. Part(a \o b \o c, 4, 4, {}, d)
    BY <2>4, <2>5, JoinParts
  <2> QED BY <1>2, <1>3, <2>1, <2>6 DEF a, b, c, d
<1>7. CASE AnnounceBearers(t)
  <2>1. PICK u \in Tags :
           /\ Doing(t, <<"announce_bearers", u>>)
           /\ Learn(t, seen[t], Announcements(seen[t].nodes)
                                    \o << <<"announce_parents">>, <<"append", u, FALSE>> >>)
    BY <1>7 DEF AnnounceBearers, Read
  <2> DEFINE d == DeletesSomething(<<"announce_bearers", u>>)
             a == Announcements(seen[t].nodes)
             b == << <<"announce_parents">>, <<"append", u, FALSE>> >>
  <2>2. seen[t].nodes \in SUBSET (NodeIds \cup {NoNode})
    BY <1>1
  <2>3. d
    BY DEF DeletesSomething
  <2>4. Part(a, 4, 4, {}, d) /\ Part(b, 4, 4, {}, d)
    BY <2>2, <2>3, AnnouncingBearersPart, AnnouncementsPart
  <2> HIDE DEF a, b, d
  <2>5. Part(a \o b, 4, 4, {}, d)
    BY <2>4, JoinParts
  <2> QED BY <1>2, <1>3, <2>1, <2>5 DEF a, b, d
<1>8. CASE AnnounceParents(t)
  <2> DEFINE S == {View(t)[Edge(n)] : n \in seen[t].nodes}
  <2>1. Doing(t, <<"announce_parents">>) /\ Learn(t, seen[t], Announcements(S))
    BY <1>8 DEF AnnounceParents, Read
  <2>2. S \in SUBSET (NodeIds \cup {NoNode})
    BY <1>1
  <2> HIDE DEF S
  <2>3. Part(Announcements(S), 4, 4, {}, DeletesSomething(<<"announce_parents">>))
    BY <2>2, AnnouncementsPart
  <2> QED BY <1>2, <1>3, <2>1, <2>3
<1> QED BY <1>4, <1>5, <1>6, <1>7, <1>8

(* The representation of a node that is read piece by piece.                      *)
Pieced == {"read_parent", "read_children", "read_child_tags", "read_tags"}
Reading(a, n) ==
    /\ a \in Seq(Statements)
    /\ \A i \in 1..Len(a) : a[i][1] \in Pieced \/ (a[i][1] = "append" /\ a[i][2] = n)

LEMMA PiecePart ==
    ASSUME NEW n \in NodeIds, NEW a, Reading(a, n)
    PROVE  Part(a, 4, 4, {}, FALSE)
<1>1. n \notin Tags
  BY TransactionsAssumption
<1>2. \A s \in Statements : s[1] \in Pieced \/ (s[1] = "append" /\ s[2] = n) =>
         Lowest(s) = 4 /\ Highest(s) = 4 /\ Reach(s) = {} /\ ~DeletesSomething(s)
  BY <1>1 DEF Pieced, Lowest, Highest, Stage, Wide, AnnouncesTag, Reach, DeletesSomething
<1>3. \A i \in 1..Len(a) : Lowest(a[i]) = 4 /\ Highest(a[i]) = 4 /\ Reach(a[i]) = {} /\ ~DeletesSomething(a[i])
  BY <1>2 DEF Reading
<1> QED BY <1>3 DEF Part, Reading

LEMMA PieceFits ==
    ASSUME NEW x \in Representations
    PROVE  /\ \A p \in NodeIds \cup {NoNode} : [x EXCEPT !.parent = p] \in Representations
           /\ \A S \in SUBSET Tags : [x EXCEPT !.tags = S] \in Representations
           /\ \A D \in SUBSET NodeIds : \A c \in [D -> [kind : Kinds, tags : SUBSET Tags]] :
                 [x EXCEPT !.children = c] \in Representations
           /\ \A m \in NodeIds, S \in SUBSET Tags : [x EXCEPT !.children[m].tags = S] \in Representations
<1> DEFINE C == UNION {[D -> [kind : Kinds, tags : SUBSET Tags]] : D \in SUBSET NodeIds}
<1>1. CASE x = Absent
  <2>1. DOMAIN x = {"gone"}
    BY <1>1 DEF Absent
  <2>2. \A value : /\ [x EXCEPT !.parent = value] = x
                   /\ [x EXCEPT !.tags = value] = x
                   /\ [x EXCEPT !.children = value] = x
    BY <1>1, <2>1 DEF Absent
  <2>3. \A m \in NodeIds, S \in SUBSET Tags : [x EXCEPT !.children[m].tags = S] = x
    BY <1>1, <2>1 DEF Absent
  <2> QED BY <2>2, <2>3
<1>2. CASE x \in [kind : Kinds, parent : NodeIds \cup {NoNode}, tags : SUBSET Tags, children : C]
  <2>1. \A p \in NodeIds \cup {NoNode} : [x EXCEPT !.parent = p] \in Representations
    BY <1>2 DEF Representations
  <2>2. \A S \in SUBSET Tags : [x EXCEPT !.tags = S] \in Representations
    BY <1>2 DEF Representations
  <2>3. \A c \in C : [x EXCEPT !.children = c] \in Representations
    BY <1>2 DEF Representations
  <2>4. \A m \in NodeIds, S \in SUBSET Tags : [x.children EXCEPT ![m].tags = S] \in C
    <3> SUFFICES ASSUME NEW m \in NodeIds, NEW S \in SUBSET Tags
                 PROVE  [x.children EXCEPT ![m].tags = S] \in C
      OBVIOUS
    <3>1. PICK D \in SUBSET NodeIds : x.children \in [D -> [kind : Kinds, tags : SUBSET Tags]]
      BY <1>2
    <3>2. [x.children EXCEPT ![m].tags = S] \in [D -> [kind : Kinds, tags : SUBSET Tags]]
      BY <3>1
    <3> QED BY <3>2
  <2>5. \A m \in NodeIds, S \in SUBSET Tags :
           [x EXCEPT !.children[m].tags = S] = [x EXCEPT !.children = [x.children EXCEPT ![m].tags = S]]
    BY <1>2
  <2>6. \A D \in SUBSET NodeIds : \A c \in [D -> [kind : Kinds, tags : SUBSET Tags]] : c \in C
    OBVIOUS
  <2> HIDE DEF C
  <2>7. \A m \in NodeIds, S \in SUBSET Tags : [x EXCEPT !.children[m].tags = S] \in Representations
    BY <2>3, <2>4, <2>5
  <2>8. \A D \in SUBSET NodeIds : \A c \in [D -> [kind : Kinds, tags : SUBSET Tags]] :
           [x EXCEPT !.children = c] \in Representations
    BY <2>3, <2>6
  <2> QED BY <2>1, <2>2, <2>7, <2>8
<1> QED BY <1>1, <1>2 DEF Representations

(* An announcement finds nothing, or publishes, or begins to read.                 *)
Begins(t) == \E n \in NodeIds :
    /\ Doing(t, <<"announce", n>>) /\ View(t)[Node(n)] # "absent"
    /\ Learn(t, [seen[t] EXCEPT !.resource = [kind |-> View(t)[Node(n)], parent |-> NoNode, tags |-> {},
                                              children |-> <<>>]],
             << <<"read_parent", n>>, <<"read_children", n>>, <<"read_tags", n>> >>)

LEMMA AnnounceCases ==
    ASSUME NEW t \in Threads, Announce(t)
    PROVE  \/ Begins(t)
           \/ \E n \in NodeIds : Doing(t, <<"announce", n>>) /\ View(t)[Node(n)] = "absent" /\ Read(t, <<>>)
           \/ \E n \in NodeIds : /\ Doing(t, <<"announce", n>>) /\ View(t)[Node(n)] # "absent"
                                  /\ Sequence \in DOMAIN writes[t]
                                  /\ PublishEvent(t, n, Representation(View(t), n))
BY DEF Announce, Begins

(* Every step of it remembers more, and says what is still to read.               *)
LEMMA PieceReads ==
    ASSUME IInv, NEW t \in Threads,
           Begins(t) \/ ReadParent(t) \/ ReadChildren(t) \/ ReadChildTags(t) \/ ReadTags(t)
    PROVE  \E s, a : \E n \in NodeIds, value \in Representations :
              /\ Doing(t, s) /\ s \in (Pieced \cup {"announce"}) \X NodeIds /\ Reading(a, n)
              /\ Learn(t, [seen[t] EXCEPT !.resource = value], a)
<1> DEFINE Found(s, n, a, value) ==
              /\ Doing(t, s) /\ s \in (Pieced \cup {"announce"}) \X NodeIds /\ Reading(a, n)
              /\ Learn(t, [seen[t] EXCEPT !.resource = value], a)
           Goal == \E s, a : \E n \in NodeIds, value \in Representations : Found(s, n, a, value)
<1>1. /\ seen[t] \in Memory /\ seen[t].resource \in Representations
      /\ [seen[t] EXCEPT !.resource = seen[t].resource] = seen[t]
  BY Sights DEF Memory
<1>2. /\ \A n \in NodeIds : /\ View(t)[Edge(n)] \in NodeIds \cup {NoNode}
                            /\ View(t)[Node(n)] \in Kinds \cup {"absent"}
                            /\ ChildrenIn(View(t), n) \subseteq NodeIds
      /\ \A n : TagsIn(View(t), n) \in SUBSET Tags
  BY Sights DEF TagsIn, MarksIn
<1>3. \A n \in NodeIds, x \in Pieced \cup {"announce"} : <<x, n>> \in (Pieced \cup {"announce"}) \X NodeIds
  OBVIOUS
<1>4. \A n \in NodeIds : Reading(<<>>, n)
  BY DEF Reading
<1> HIDE DEF Found
<1>5. ASSUME Begins(t) PROVE Goal
  <2>1. PICK n \in NodeIds :
           /\ Doing(t, <<"announce", n>>) /\ View(t)[Node(n)] # "absent"
           /\ Learn(t, [seen[t] EXCEPT !.resource = [kind |-> View(t)[Node(n)], parent |-> NoNode, tags |-> {},
                                                     children |-> <<>>]],
                    << <<"read_parent", n>>, <<"read_children", n>>, <<"read_tags", n>> >>)
    BY <1>5 DEF Begins
  <2> DEFINE value == [kind |-> View(t)[Node(n)], parent |-> NoNode, tags |-> {}, children |-> <<>>]
             a == << <<"read_parent", n>>, <<"read_children", n>>, <<"read_tags", n>> >>
  <2>2. <<>> \in [{} -> [kind : Kinds, tags : SUBSET Tags]]
    OBVIOUS
  <2>3. value \in Representations
    BY <1>2, <2>1, <2>2 DEF Representations
  <2>4. \A x \in {"read_parent", "read_children", "read_tags"} : <<x, n>> \in Statements /\ <<x, n>>[1] \in Pieced
    BY DEF Statements, Pieced
  <2>5. Reading(a, n)
    <3> DEFINE x == <<"read_parent", n>>
               y == <<"read_children", n>>
               z == <<"read_tags", n>>
    <3>1. \A w \in {x, y, z} : w \in Statements /\ w[1] \in Pieced
      BY <2>4
    <3> HIDE DEF x, y, z
    <3>2. Reading(<<x, y, z>>, n)
      BY <3>1 DEF Reading
    <3> QED BY <3>2 DEF x, y, z
  <2> HIDE DEF value, a
  <2>6. Found(<<"announce", n>>, n, a, value)
    BY <1>3, <2>1, <2>5 DEF value, a, Found
  <2> QED BY <2>3, <2>6
<1>6. ASSUME ReadParent(t) PROVE Goal
  <2>1. PICK n \in NodeIds :
           /\ Doing(t, <<"read_parent", n>>)
           /\ Learn(t, [seen[t] EXCEPT !.resource.parent = View(t)[Edge(n)]], <<>>)
    BY <1>6 DEF ReadParent
  <2> DEFINE value == [seen[t].resource EXCEPT !.parent = View(t)[Edge(n)]]
  <2>2. value \in Representations
    BY <1>1, <1>2, PieceFits
  <2>3. [seen[t] EXCEPT !.resource.parent = View(t)[Edge(n)]] = [seen[t] EXCEPT !.resource = value]
    BY <1>1 DEF Memory
  <2> HIDE DEF value
  <2>4. Found(<<"read_parent", n>>, n, <<>>, value)
    BY <1>3, <1>4, <2>1, <2>3 DEF Pieced, Found
  <2> QED BY <2>2, <2>4
<1>7. ASSUME ReadChildren(t) PROVE Goal
  <2>1. PICK n \in NodeIds :
           LET v == View(t)
               found == {m \in ChildrenIn(v, n) : v[Node(m)] # "absent"}
               ids == Ascending(found)
           IN  /\ Doing(t, <<"read_children", n>>)
               /\ Learn(t, [seen[t] EXCEPT !.resource.children =
                                [m \in found |-> [kind |-> v[Node(m)], tags |-> {}]]],
                        [i \in DOMAIN ids |-> <<"read_child_tags", ids[i]>>])
    BY <1>7 DEF ReadChildren
  <2> DEFINE found == {m \in ChildrenIn(View(t), n) : View(t)[Node(m)] # "absent"}
             ids == Ascending(found)
             a == [i \in DOMAIN ids |-> <<"read_child_tags", ids[i]>>]
             children == [m \in found |-> [kind |-> View(t)[Node(m)], tags |-> {}]]
             value == [seen[t].resource EXCEPT !.children = children]
  <2>2. found \in SUBSET NodeIds /\ \A m \in found : View(t)[Node(m)] \in Kinds
    BY <1>2
  <2>3. children \in [found -> [kind : Kinds, tags : SUBSET Tags]]
    BY <2>2
  <2>4. [seen[t] EXCEPT !.resource.children = children] = [seen[t] EXCEPT !.resource = value]
    BY <1>1 DEF Memory
  <2>5. Doing(t, <<"read_children", n>>) /\ Learn(t, [seen[t] EXCEPT !.resource = value], a)
    BY <2>1, <2>4
  <2> HIDE DEF found
  <2>6. ids \in Seq(found) /\ ids \in Seq(NodeIds)
    <3>1. found \subseteq Nat /\ IsFiniteSet(found)
      BY <2>2, TransactionsAssumption, FS_Subset
    <3>2. found \in SUBSET Nat
      BY <3>1
    <3> HIDE DEF ids
    <3>3. ids \in Seq(found)
      BY <3>1, <3>2, AscendingFacts DEF ids
    <3> QED BY <2>2, <3>3, WiderSeq
  <2> HIDE DEF ids
  <2>7. Reading(a, n)
    <3>1. \A m \in NodeIds : <<"read_child_tags", m>> \in Statements /\ <<"read_child_tags", m>>[1] \in Pieced
      BY DEF Statements, Pieced
    <3>2. a \in Seq(Statements) /\ Len(a) = Len(ids) /\ \A i \in 1..Len(a) : a[i] = <<"read_child_tags", ids[i]>>
      BY <2>6, <3>1
    <3> QED BY <2>6, <3>1, <3>2 DEF Reading
  <2> HIDE DEF a, children
  <2>8. value \in Representations
    BY <1>1, <2>2, <2>3, PieceFits
  <2> HIDE DEF value
  <2>9. Found(<<"read_children", n>>, n, a, value)
    BY <1>3, <2>5, <2>7 DEF Pieced, Found
  <2> QED BY <2>8, <2>9
<1>8. ASSUME ReadChildTags(t) PROVE Goal
  <2>1. PICK m \in NodeIds :
           /\ Doing(t, <<"read_child_tags", m>>)
           /\ Learn(t, [seen[t] EXCEPT !.resource.children[m].tags = TagsIn(View(t), m)], <<>>)
    BY <1>8 DEF ReadChildTags
  <2> DEFINE value == [seen[t].resource EXCEPT !.children[m].tags = TagsIn(View(t), m)]
  <2>2. value \in Representations
    BY <1>1, <1>2, PieceFits
  <2>3. [seen[t] EXCEPT !.resource.children[m].tags = TagsIn(View(t), m)] = [seen[t] EXCEPT !.resource = value]
    BY <1>1 DEF Memory
  <2> HIDE DEF value
  <2>4. Found(<<"read_child_tags", m>>, m, <<>>, value)
    BY <1>3, <1>4, <2>1, <2>3 DEF Pieced, Found
  <2> QED BY <2>2, <2>4
<1>9. ASSUME ReadTags(t) PROVE Goal
  <2>1. PICK n \in NodeIds :
           /\ Doing(t, <<"read_tags", n>>)
           /\ Learn(t, seen[t], << <<"append", n, [seen[t].resource EXCEPT !.tags = TagsIn(View(t), n)]>> >>)
    BY <1>9 DEF ReadTags, Read
  <2> DEFINE value == [seen[t].resource EXCEPT !.tags = TagsIn(View(t), n)]
  <2>2. value \in Representations
    BY <1>1, <1>2, PieceFits
  <2> HIDE DEF value
  <2>3. <<"append", n, value>> \in Statements
    BY <2>2 DEF Statements
  <2>4. Reading(<< <<"append", n, value>> >>, n)
    <3> DEFINE x == <<"append", n, value>>
    <3>1. x \in Statements /\ x[1] = "append" /\ x[2] = n
      BY <2>3
    <3> HIDE DEF x
    <3>2. Reading(<<x>>, n)
      BY <3>1 DEF Reading
    <3> QED BY <3>2 DEF x
  <2>5. Learn(t, [seen[t] EXCEPT !.resource = seen[t].resource], << <<"append", n, value>> >>)
    BY <1>1, <2>1 DEF value
  <2>6. Found(<<"read_tags", n>>, n, << <<"append", n, value>> >>, seen[t].resource)
    BY <1>3, <2>1, <2>4, <2>5 DEF Pieced, Found
  <2> QED BY <1>1, <2>6
<1> QED BY <1>5, <1>6, <1>7, <1>8, <1>9 DEF Found

LEMMA PieceStatements ==
    ASSUME NEW s \in (Pieced \cup {"announce"}) \X NodeIds
    PROVE  /\ s # Finish /\ s[1] # "assert_tag" /\ ~AnnouncesTag(s)
           /\ Lowest(s) = 4 /\ Highest(s) = 4 /\ Reach(s) = {} /\ ~DeletesSomething(s)
           /\ s[1] \notin Creating \cup {"assert_tag", "append"}
<1>1. PICK x \in Pieced \cup {"announce"}, n \in NodeIds : s = <<x, n>>
  OBVIOUS
<1>2. s # Finish
  BY <1>1 DEF Finish
<1> QED BY <1>1, <1>2 DEF Pieced, AnnouncesTag, Lowest, Highest, Stage, Wide, Reach, DeletesSomething, Creating

LEMMA PieceReadsKeep ==
    ASSUME IInv, NEW t \in Threads,
           Begins(t) \/ ReadParent(t) \/ ReadChildren(t) \/ ReadChildTags(t) \/ ReadTags(t)
    PROVE  IInv'
<1>1. PICK s, a : \E n \in NodeIds, value \in Representations :
         /\ Doing(t, s) /\ s \in (Pieced \cup {"announce"}) \X NodeIds /\ Reading(a, n)
         /\ Learn(t, [seen[t] EXCEPT !.resource = value], a)
  BY PieceReads
<1>0. PICK n \in NodeIds, value \in Representations :
         /\ Doing(t, s) /\ s \in (Pieced \cup {"announce"}) \X NodeIds /\ Reading(a, n)
         /\ Learn(t, [seen[t] EXCEPT !.resource = value], a)
  BY <1>1
<1>2. /\ s # Finish /\ s[1] # "assert_tag" /\ ~AnnouncesTag(s) /\ Lowest(s) > 1
      /\ Lowest(s) = 4 /\ Highest(s) = 4 /\ Reach(s) = {} /\ ~DeletesSomething(s)
  BY <1>0, PieceStatements
<1>3. Part(a, 4, 4, {}, FALSE)
  BY <1>0, PiecePart
<1>4. DeletesSomething(s) = FALSE
  BY <1>2 DEF DeletesSomething
<1>5. Part(a, Lowest(s), Highest(s), Reach(s), DeletesSomething(s))
  BY <1>2, <1>3, <1>4
<1>6. [seen[t] EXCEPT !.resource = value] \in Memory
  BY Sights
<1> QED BY <1>0, <1>2, <1>5, <1>6, ReadMoreKeeps

-----------------------------------------------------------------------------
(* Statements that write.                                                     *)

LEMMA EventReadsKeep ==
    ASSUME IInv, NEW t \in Threads,
           \/ AnnounceUpdate(t) \/ AnnounceReplacement(t) \/ AnnounceDeletion(t)
           \/ AnnounceBearers(t) \/ AnnounceParents(t)
    PROVE  IInv'
<1>1. seen[t] \in Memory
  BY Sights
<1>2. PICK s, a : /\ Doing(t, s) /\ s # Finish /\ ~AnnouncesTag(s) /\ s[1] # "assert_tag"
                  /\ Lowest(s) = 4 /\ Highest(s) = 4 /\ Reach(s) = {}
                  /\ Part(a, 4, 4, {}, DeletesSomething(s)) /\ Learn(t, seen[t], a)
  BY EventReads
<1>3. Part(a, Lowest(s), Highest(s), Reach(s), DeletesSomething(s)) /\ Lowest(s) > 1
  BY <1>2
<1> QED BY <1>1, <1>2, <1>3, ReadMoreKeeps

(* What a statement s that writes these rows and makes these events known has to    *)
(* respect.                                                                     *)
Respects(t, s, rows, references, events, a) ==
    /\ Part(a, Lowest(s), Highest(s), Reach(s), DeletesSomething(s))
    /\ DOMAIN rows \subseteq Rows /\ \A row \in DOMAIN rows : Fits(row, rows[row])
    /\ references \subseteq Rows
    /\ DOMAIN events \subseteq NodeIds \cup Tags
    /\ \A u \in Tags \cap DOMAIN events : events[u] \in BOOLEAN
    /\ ~DeletesSomething(s) => \A row \in DOMAIN rows \ DOMAIN writes[t] :
          /\ row[1] \in {"node", "edge", "mark"} => row \in Reach(s)
          /\ \/ row = Sequence /\ \E u \in Tags \cap DOMAIN events : events[u]
             \/ Rank(row) <= Highest(s) /\ \A i \in 1..Len(a) : Rank(row) <= Lowest(a[i])
          /\ row[1] = "tag" => Len(a) = 2 /\ a[1][1] = "assert_tag" /\ AnnouncesTag(a[2])
    /\ ~DeletesSomething(s) =>
          /\ \A row \in DOMAIN rows : row[1] \in {"node", "tag"} => rows[row] # Gone(row)
          /\ \A u \in Tags \cap DOMAIN events : events[u]
    /\ s[1] # "assert_tag"
    /\ AnnouncesTag(s) => \E u \in Tags \cap DOMAIN events : events[u]
    /\ \A i \in 1..Len(a) : a[i][1] \notin Creating
KeepsOff(t, rows) ==
    engine = "postgres" => \A o \in Threads \ {t} : DOMAIN rows \cap DOMAIN writes[o] \subseteq DOMAIN writes[t]

LEMMA PublishKeeps ==
    ASSUME IInv, NEW t \in Threads, NEW s, Doing(t, s), s # Finish,
           NEW rows, NEW references, NEW events, NEW a, Publish(t, rows, references, events, a),
           Respects(t, s, rows, references, events, a), KeepsOff(t, rows)
    PROVE  IInv'
<1> DEFINE opened == IF engine = "sqlite" THEN Only(Database, TRUE) ELSE <<>>
           w == writes'[t]
<1>1. /\ UNCHANGED <<engine, setting, db, copy, request, seen, overtook, answer>>
      /\ Typed /\ Domains /\ Table(db) /\ request \in [Threads -> Requests \cup {NoRequest}] /\ ThreadInv(t)
  BY DEF Publish, IInv, Typed, ThreadInv
<1>2. /\ writes' = [writes EXCEPT ![t] = Over(rows, Over(opened, @))]
      /\ shares' = [shares EXCEPT ![t] = @ \cup (IF engine = "postgres" THEN references ELSE {})]
      /\ news' = [news EXCEPT ![t] = Over(events, @)]
      /\ todo' = [todo EXCEPT ![t] = a \o Tail(@)]
      /\ DOMAIN todo = Threads /\ DOMAIN writes = Threads /\ DOMAIN shares = Threads /\ DOMAIN news = Threads
  BY <1>1 DEF Publish, Continue, Domains
<1>3. /\ w = Over(rows, Over(opened, writes[t])) /\ shares'[t] \subseteq shares[t] \cup references
      /\ news'[t] = Over(events, news[t]) /\ todo'[t] = a \o Tail(todo[t])
  BY <1>2
<1>4. DOMAIN opened \subseteq {Database} /\ \A row \in DOMAIN opened : opened[row] = TRUE
  BY DEF Only
<1>5. /\ Running(t) /\ First(t) = s /\ First(t) # Finish
      /\ DeletesSomething(s) => Deleting(request[t])
  BY FirstFacts
<1> HIDE DEF w, opened
<1>6. /\ DOMAIN w = DOMAIN rows \cup DOMAIN opened \cup DOMAIN writes[t]
      /\ \A row \in DOMAIN rows : w[row] = rows[row]
      /\ \A row \in DOMAIN opened \ DOMAIN rows : w[row] = TRUE
      /\ \A row \in DOMAIN writes[t] \ (DOMAIN rows \cup DOMAIN opened) : w[row] = writes[t][row]
  <2>1. w = Over(rows, Over(opened, writes[t]))
    BY <1>3
  <2> QED BY <1>4, <2>1 DEF Over
<1>7. /\ DOMAIN news'[t] = DOMAIN events \cup DOMAIN news[t]
      /\ \A x \in DOMAIN events : news'[t][x] = events[x]
      /\ \A x \in DOMAIN news[t] \ DOMAIN events : news'[t][x] = news[t][x]
  <2>1. news'[t] = Over(events, news[t])
    BY <1>3
  <2> QED BY <2>1 DEF Over
<1>8. Database \in Rows /\ Rank(Database) = 0 /\ Database[1] = "database" /\ Fits(Database, TRUE)
  BY DEF Rows, Rank, Database, Fits
<1>9. \A x : Lowest(x) \in Nat /\ Highest(x) \in Nat
  BY DEF Lowest, Highest, Stage, Rank
<1>10. NewTag(t)' <=> \E u \in Tags \cap DOMAIN news'[t] : news'[t][u]
  BY DEF NewTag
<1>11. (\E u \in Tags \cap DOMAIN events : events[u]) => NewTag(t)'
  BY <1>7, <1>10
<1>12. HoldsMore(t, a)
  <2>1. ASSUME ~DeletesSomething(s), NEW row \in DOMAIN w \ DOMAIN writes[t]
        PROVE  /\ row[1] \in {"node", "edge", "mark"} => row \in Reach(s)
               /\ \/ row = Sequence /\ NewTag(t)'
                  \/ Rank(row) <= Highest(s) /\ \A i \in 1..Len(a) : Rank(row) <= Lowest(a[i])
               /\ row[1] = "tag" => Len(a) = 2 /\ a[1][1] = "assert_tag" /\ AnnouncesTag(a[2])
    <3>1. CASE row \in DOMAIN rows
      BY <1>11, <2>1, <3>1 DEF Respects
    <3>2. CASE row = Database
      BY <1>8, <1>9, <3>2
    <3> QED BY <1>4, <1>6, <2>1, <3>1, <3>2
  <2> QED BY <1>5, <1>6, <2>1 DEF HoldsMore, w
<1>13. RemovesNothing(t)
  <2> SUFFICES ASSUME ~DeletesSomething(s)
               PROVE  /\ \A row \in DOMAIN w : row[1] \in {"node", "tag"} =>
                            \/ w[row] # Gone(row)
                            \/ row \in DOMAIN writes[t] /\ w[row] = writes[t][row]
                      /\ NewTag(t) => NewTag(t)'
    BY <1>5 DEF RemovesNothing, w
  <2>1. \A row \in DOMAIN w : row[1] \in {"node", "tag"} =>
                            \/ w[row] # Gone(row)
                            \/ row \in DOMAIN writes[t] /\ w[row] = writes[t][row]
    BY <1>4, <1>6, <1>8 DEF Respects
  <2>2. ASSUME NewTag(t) PROVE NewTag(t)'
    <3>1. PICK u \in Tags \cap DOMAIN news[t] : news[t][u]
      BY <2>2 DEF NewTag
    <3>2. CASE u \in DOMAIN events
      BY <1>11, <3>2 DEF Respects
    <3>3. CASE u \notin DOMAIN events
      BY <1>7, <1>10, <3>1, <3>3
    <3> QED BY <3>2, <3>3
  <2> QED BY <2>1, <2>2
<1>14. AnnouncesInTime(t, a)
  BY <1>5, <1>11 DEF AnnouncesInTime, Respects
<1>15. CreatesInTime(t, a)
  BY DEF CreatesInTime, Respects
<1>16. ValuesFit(t)
  <2>1. WritesFit(t)'
    <3>1. ASSUME NEW row \in DOMAIN w PROVE row \in Rows /\ Fits(row, w[row])
      <4>1. CASE row \in DOMAIN rows
        BY <1>6, <4>1 DEF Respects
      <4>2. CASE row \in DOMAIN opened \ DOMAIN rows
        BY <1>4, <1>6, <1>8, <4>2
      <4>3. CASE row \in DOMAIN writes[t] \ (DOMAIN rows \cup DOMAIN opened)
        BY <1>1, <1>6, <4>3 DEF ThreadInv, ThreadOK, WritesFit
      <4> QED BY <1>6, <4>1, <4>2, <4>3
    <3> QED BY <3>1 DEF WritesFit, w
  <2>2. /\ DOMAIN news'[t] \subseteq NodeIds \cup Tags
        /\ \A u \in Tags \cap DOMAIN news'[t] : news'[t][u] \in BOOLEAN
    BY <1>1, <1>7 DEF Respects, ThreadInv, ThreadOK
  <2>3. /\ shares'[t] \subseteq Rows /\ seen'[t] \in Memory /\ overtook'[t] \subseteq Threads \ {t}
        /\ answer'[t] = answer[t]
    BY <1>1, <1>3 DEF Respects, ThreadInv, ThreadOK
  <2> QED BY <2>1, <2>2, <2>3 DEF ValuesFit
<1>17. ThreadInv(t)'
  <2>1. Part(a, Lowest(First(t)), Highest(First(t)), Reach(First(t)), DeletesSomething(First(t)))
    BY <1>5 DEF Respects
  <2> QED BY <1>1, <1>3, <1>5, <1>12, <1>13, <1>14, <1>15, <1>16, <2>1, GoesOn
<1>18. ASSUME NEW o \in Threads \ {t} PROVE Stays(o)
  BY <1>1, <1>2, SelfPasses DEF Stays, ThreadInv, ThreadOK
<1>19. Domains' /\ Table(db')
  BY <1>1, <1>2 DEF Domains
<1>20. engine = "postgres" => \A o \in Threads \ {t} : DOMAIN writes'[t] \cap DOMAIN writes[o] = {}
  <2>1. engine = "postgres" => opened = <<>>
    BY DEF opened
  <2>2. engine = "postgres" => DOMAIN w = DOMAIN rows \cup DOMAIN writes[t]
    BY <1>6, <2>1
  <2>3. engine = "postgres" => \A o \in Threads \ {t} : DOMAIN writes[t] \cap DOMAIN writes[o] = {}
    BY DEF IInv, LocksAreExclusive
  <2> QED BY <2>2, <2>3 DEF KeepsOff, w
<1> QED BY <1>1, <1>17, <1>18, <1>19, <1>20, StepKeeps

LEMMA GrantedKeepsOff ==
    ASSUME NEW t \in Threads, NEW s, Doing(t, s), Granted(t), NEW rows, DOMAIN rows \subseteq Written(t, s)
    PROVE  KeepsOff(t, rows)
<1> SUFFICES ASSUME engine = "postgres", NEW o \in Threads \ {t}
             PROVE  Written(t, s) \cap DOMAIN writes[o] = {}
  BY DEF KeepsOff
<1>1. todo[t][1] = s /\ engine # "sqlite"
  BY DEF Doing
<1>2. o \notin Blockers(t)
  BY DEF Granted
<1> QED BY <1>1, <1>2 DEF Blockers

LEMMA OvertakeFacts ==
    ASSUME IInv, NEW t \in Threads, Overtake(t)
    PROVE  /\ DOMAIN overtook' = Threads
           /\ \A o \in Threads : overtook'[o] \subseteq Threads \ {o}
<1>1. \A o \in Threads : overtook[o] \subseteq Threads \ {o}
  BY DEF IInv, Typed, ThreadOK
<1> QED BY <1>1 DEF Overtake

(* The first write of a transaction on SQLite, when it is an insert in a SAVEPOINT. *)
LEMMA ReleaseKeeps ==
    ASSUME IInv, NEW t \in Threads, NEW s, Doing(t, s), s # Finish, engine = "sqlite",
           NEW row \in Rows, NEW value, Fits(row, value),
           NEW a, Part(a, Lowest(s), Highest(s), Reach(s), DeletesSomething(s)),
           s[1] # "assert_tag", ~AnnouncesTag(s), \A i \in 1..Len(a) : a[i][1] \notin Creating,
           db' = [db EXCEPT ![row] = value], Overtake(t), Continue(t, a),
           UNCHANGED <<engine, setting, copy, request, seen, writes, shares, news, answer>>
    PROVE  IInv'
<1>1. Typed /\ Domains /\ Table(db) /\ request \in [Threads -> Requests \cup {NoRequest}] /\ ThreadInv(t)
  BY DEF IInv, Typed, ThreadInv
<1>2. todo' = [todo EXCEPT ![t] = a \o Tail(@)] /\ DOMAIN todo = Threads
  BY <1>1 DEF Continue, Domains
<1>3. todo'[t] = a \o Tail(todo[t])
  BY <1>2
<1>4. Running(t) /\ First(t) = s /\ First(t) # Finish
  BY FirstFacts
<1>5. /\ DOMAIN db = Rows /\ DOMAIN db' = Rows /\ Table(db')
      /\ \A x \in Rows : db'[x] = IF x = row THEN value ELSE db[x]
  BY <1>1 DEF Table
<1>6. NewTag(t)' = NewTag(t)
  BY DEF NewTag
<1>7. HoldsMore(t, a) /\ RemovesNothing(t) /\ AnnouncesInTime(t, a) /\ CreatesInTime(t, a)
  BY <1>4, <1>6 DEF HoldsMore, RemovesNothing, AnnouncesInTime, CreatesInTime
<1>8. ValuesFit(t)
  BY <1>1, OvertakeFacts DEF ValuesFit, ThreadInv, ThreadOK, WritesFit
<1>9. ThreadInv(t)'
  <2>1. Part(a, Lowest(First(t)), Highest(First(t)), Reach(First(t)), DeletesSomething(First(t)))
    BY <1>4
  <2> QED BY <1>1, <1>3, <1>4, <1>7, <1>8, <2>1, GoesOn
<1>10. ASSUME NEW o \in Threads \ {t} PROVE Stays(o)
  BY <1>2, SelfPasses, OvertakeFacts DEF Stays
<1>11. Domains'
  BY <1>1, <1>2, OvertakeFacts DEF Domains
<1>12. engine = "postgres" => \A o \in Threads \ {t} : DOMAIN writes'[t] \cap DOMAIN writes[o] = {}
  OBVIOUS
<1> QED BY <1>1, <1>5, <1>9, <1>10, <1>11, <1>12, StepKeeps

LEMMA OnlyFacts ==
    ASSUME NEW x, NEW value
    PROVE  DOMAIN Only(x, value) = {x} /\ Only(x, value)[x] = value
BY DEF Only

LEMMA PlainRespects ==
    ASSUME NEW t \in Threads, NEW s, NEW rows, NEW references,
           DOMAIN rows \subseteq Rows, \A row \in DOMAIN rows : Fits(row, rows[row]), references \subseteq Rows,
           s[1] # "assert_tag", ~AnnouncesTag(s),
           ~DeletesSomething(s) => \A row \in DOMAIN rows :
              /\ row[1] \in {"node", "edge", "mark"} /\ row \in Reach(s) /\ Rank(row) <= Highest(s)
              /\ row[1] = "node" => rows[row] # "absent"
    PROVE  Respects(t, s, rows, references, <<>>, <<>>)
<1>1. Part(<<>>, Lowest(s), Highest(s), Reach(s), DeletesSomething(s))
  BY NoPart
<1>2. 1..Len(<<>>) = {} /\ DOMAIN <<>> = {}
  OBVIOUS
<1>3. \A row : row[1] = "node" => Gone(row) = "absent"
  BY DEF Gone
<1> QED BY <1>1, <1>2, <1>3 DEF Respects

LEMMA InsertNodeKeeps ==
    ASSUME IInv, NEW t \in Threads, InsertNode(t)
    PROVE  IInv'
<1>1. PICK n \in NodeIds, kind \in Kinds :
         /\ Doing(t, <<"insert_node", n, kind>>) /\ Granted(t)
         /\ \/ \E status \in {400, 500} : End(t, status)
            \/ InsertUnderSavepoint(t, Node(n), kind, <<>>)
  BY DEF InsertNode
<1> DEFINE s == <<"insert_node", n, kind>>
<1>2. /\ s # Finish /\ ~AnnouncesTag(s) /\ s[1] # "assert_tag"
      /\ Lowest(s) = 1 /\ Highest(s) = 2 /\ Reach(s) = {Node(n)}
  BY DEF Finish, AnnouncesTag, Lowest, Highest, Stage, Wide, Reach
<1>3. /\ Node(n) \in Rows /\ Fits(Node(n), kind) /\ Node(n)[1] = "node" /\ Rank(Node(n)) = 1
      /\ kind # "absent"
  BY DEF Rows, Fits, Node, Rank, Kinds
<1>4. Written(t, s) = {Node(n)}
  BY DEF Written
<1>5. CASE \E status \in {400, 500} : End(t, status)
  BY <1>5, EndKeeps
<1>6. Doing(t, s)
  BY <1>1
<1> HIDE DEF s
<1>7. CASE InsertUnderSavepoint(t, Node(n), kind, <<>>) /\ ReleaseCommits(t)
  <2>1. /\ db' = [db EXCEPT ![Node(n)] = kind] /\ Overtake(t) /\ Continue(t, <<>>)
        /\ UNCHANGED <<engine, setting, copy, request, seen, writes, shares, news, answer>>
        /\ engine = "sqlite"
    BY <1>7 DEF InsertUnderSavepoint, ReleaseCommits
  <2>2. Part(<<>>, Lowest(s), Highest(s), Reach(s), DeletesSomething(s)) /\ 1..Len(<<>>) = {}
    BY NoPart
  <2> QED BY <1>2, <1>3, <1>6, <2>1, <2>2, ReleaseKeeps
<1>8. CASE InsertUnderSavepoint(t, Node(n), kind, <<>>) /\ ~ReleaseCommits(t)
  <2> DEFINE rows == Only(Node(n), kind)
  <2>1. Publish(t, rows, {}, <<>>, <<>>)
    BY <1>8 DEF InsertUnderSavepoint, Write
  <2>2. DOMAIN rows = {Node(n)} /\ rows[Node(n)] = kind
    BY OnlyFacts
  <2> HIDE DEF rows
  <2>3. Respects(t, s, rows, {}, <<>>, <<>>)
    BY <1>2, <1>3, <2>2, PlainRespects
  <2>4. KeepsOff(t, rows)
    BY <1>1, <1>4, <1>6, <2>2, GrantedKeepsOff
  <2> QED BY <1>2, <1>6, <2>1, <2>3, <2>4, PublishKeeps
<1> QED BY <1>1, <1>5, <1>7, <1>8

LEMMA UpdateFieldsKeeps ==
    ASSUME IInv, NEW t \in Threads, UpdateFields(t)
    PROVE  IInv'
<1>1. PICK n \in NodeIds, kind \in Kinds \cup {Relabel} :
         LET old == View(t)[Node(n)]
             new == IF kind = Relabel THEN old ELSE kind
         IN  /\ Doing(t, <<"update_node", n, kind>>) /\ Granted(t)
             /\ IF old = "absent" /\ request[t].op = "PATCH" THEN End(t, 404)
                ELSE Write(t, IF old = "absent" THEN <<>> ELSE Only(Node(n), new), <<>>)
  BY DEF UpdateFields
<1> DEFINE s == <<"update_node", n, kind>>
           old == View(t)[Node(n)]
           new == IF kind = Relabel THEN old ELSE kind
<1>2. /\ s # Finish /\ ~AnnouncesTag(s) /\ s[1] # "assert_tag"
      /\ Lowest(s) = 1 /\ Highest(s) = 1 /\ Reach(s) = {Node(n)}
  BY DEF Finish, AnnouncesTag, Lowest, Highest, Stage, Wide, Reach
<1>3. /\ Node(n) \in Rows /\ Node(n)[1] = "node" /\ Rank(Node(n)) = 1
      /\ old # "absent" => Fits(Node(n), new) /\ new # "absent"
  <2>1. old \in Kinds \cup {"absent"}
    BY Sights
  <2> HIDE DEF old
  <2> QED BY <2>1 DEF Rows, Fits, Node, Rank, Kinds
<1>4. Written(t, s) = {Node(n)}
  BY DEF Written
<1>5. Doing(t, s) /\ s[1] = "update_node"
  BY <1>1
<1>6. CASE old = "absent" /\ request[t].op = "PATCH"
  <2>1. End(t, 404)
    BY <1>1, <1>6
  <2> QED BY <2>1, EndKeeps
<1>7. CASE old # "absent"
  <2> DEFINE rows == Only(Node(n), new)
  <2>1. Publish(t, rows, {}, <<>>, <<>>)
    BY <1>1, <1>7 DEF Write
  <2>2. DOMAIN rows = {Node(n)} /\ rows[Node(n)] = new
    BY OnlyFacts
  <2> HIDE DEF rows, s, new, old
  <2>3. Respects(t, s, rows, {}, <<>>, <<>>)
    BY <1>2, <1>3, <1>7, <2>2, PlainRespects
  <2>4. KeepsOff(t, rows)
    BY <1>1, <1>4, <1>5, <2>2, GrantedKeepsOff
  <2> QED BY <1>2, <1>5, <2>1, <2>3, <2>4, PublishKeeps
<1>8. CASE old = "absent" /\ request[t].op # "PATCH"
  <2>1. Publish(t, <<>>, {}, <<>>, <<>>)
    BY <1>1, <1>8 DEF Write
  <2>2. DOMAIN <<>> = {}
    OBVIOUS
  <2> HIDE DEF s, old, new
  <2>3. Respects(t, s, <<>>, {}, <<>>, <<>>)
    BY <1>2, <2>2, PlainRespects
  <2>4. KeepsOff(t, <<>>)
    BY <2>2 DEF KeepsOff
  <2> QED BY <1>2, <1>5, <2>1, <2>3, <2>4, PublishKeeps
<1> QED BY <1>6, <1>7, <1>8

LEMMA ImageIsFinite ==
    ASSUME NEW S, IsFiniteSet(S), NEW f, DOMAIN f = S
    PROVE  IsFiniteSet({f[x] : x \in S})
<1> DEFINE T == {f[x] : x \in S}
           g == [x \in S |-> f[x]]
<1>1. g \in Surjection(S, T)
  BY DEF Surjection
<1> HIDE DEF g, T
<1>2. IsFiniteSet(T)
  BY <1>1, FS_Surjection
<1> QED BY <1>2 DEF T

LEMMA FiniteRows ==
    ASSUME NEW C \in SUBSET NodeIds, NEW S \in SUBSET Tags
    PROVE  /\ IsFiniteSet({Edge(c) : c \in C})
           /\ \A n : IsFiniteSet({Mark(n, u) : u \in S})
           /\ \A u : IsFiniteSet({Mark(c, u) : c \in C})
<1>1. IsFiniteSet(C) /\ IsFiniteSet(S)
  BY TransactionsAssumption, FS_Subset
<1>2. IsFiniteSet({Edge(c) : c \in C})
  <2> DEFINE f == [c \in C |-> Edge(c)]
  <2>1. IsFiniteSet({f[c] : c \in C})
    BY <1>1, ImageIsFinite
  <2>2. {f[c] : c \in C} = {Edge(c) : c \in C}
    OBVIOUS
  <2> QED BY <2>1, <2>2
<1>3. ASSUME NEW n PROVE IsFiniteSet({Mark(n, u) : u \in S})
  <2> DEFINE f == [u \in S |-> Mark(n, u)]
  <2>1. IsFiniteSet({f[u] : u \in S})
    BY <1>1, ImageIsFinite
  <2>2. {f[u] : u \in S} = {Mark(n, u) : u \in S}
    OBVIOUS
  <2> QED BY <2>1, <2>2
<1>4. ASSUME NEW u PROVE IsFiniteSet({Mark(c, u) : c \in C})
  <2> DEFINE f == [c \in C |-> Mark(c, u)]
  <2>1. IsFiniteSet({f[c] : c \in C})
    BY <1>1, ImageIsFinite
  <2>2. {f[c] : c \in C} = {Mark(c, u) : c \in C}
    OBVIOUS
  <2> QED BY <2>1, <2>2
<1> QED BY <1>2, <1>3, <1>4

LEMMA DeleteRowsKeeps ==
    ASSUME IInv, NEW t \in Threads, NEW s, s # Finish, s[1] # "assert_tag", ~AnnouncesTag(s),
           NEW x \in {2, 3}, Lowest(s) = x, Highest(s) = x, NEW R, IsFiniteSet(R),
           \A row \in R : /\ row \in Rows /\ row \in Reach(s) /\ row[1] \in {"edge", "mark"}
                          /\ Rank(row) = x,
           DeleteRows(t, s, R)
    PROVE  IInv'
<1>1. PICK found \in SetToSeqs(R) :
         /\ Doing(t, s) /\ Publish(t, <<>>, {}, <<>>, [i \in DOMAIN found |-> <<"remove_row", found[i]>>])
  BY DEF DeleteRows, Write
<1> DEFINE a == [i \in DOMAIN found |-> <<"remove_row", found[i]>>]
<1>2. PICK k \in Nat : DOMAIN found = 1..k /\ \A i \in 1..k : found[i] \in R
  BY ListOfSet
<1>3. ASSUME NEW row \in R
      PROVE  LET r == <<"remove_row", row>>
             IN  /\ r \in Statements /\ Lowest(r) = x /\ Highest(r) = x /\ Reach(r) = {row}
                 /\ ~DeletesSomething(r) /\ r[1] \notin Creating
  BY <1>3 DEF Statements, Lowest, Highest, Stage, Wide, Reach, DeletesSomething, Creating
<1>4. a \in [1..k -> Statements]
  BY <1>2, <1>3
<1>5. \A i \in 1..k : /\ x = Lowest(a[i]) /\ x = Highest(a[i]) /\ a[i][1] \notin Creating
                      /\ Reach(a[i]) \subseteq Reach(s) /\ ~DeletesSomething(a[i])
  BY <1>2, <1>3
<1>6. Publish(t, <<>>, {}, <<>>, a)
  BY <1>1
<1> HIDE DEF a
<1>7. a \in Seq(Statements) /\ Len(a) = k
  BY <1>4
<1>8. Part(a, x, x, Reach(s), DeletesSomething(s))
  BY <1>5, <1>7 DEF Part
<1>9. DOMAIN <<>> = {}
  OBVIOUS
<1>10. Respects(t, s, <<>>, {}, <<>>, a)
  BY <1>5, <1>7, <1>8, <1>9 DEF Respects
<1>11. KeepsOff(t, <<>>)
  BY <1>9 DEF KeepsOff
<1> QED BY <1>1, <1>6, <1>10, <1>11, PublishKeeps

LEMMA DeletionsKeep ==
    ASSUME IInv, NEW t \in Threads,
           DeleteEdge(t) \/ DeleteChildEdges(t) \/ DeleteMarks(t) \/ DeleteTagMarks(t)
    PROVE  IInv'
<1>1. \A n : \A s \in {<<"delete_edge", n>>, <<"delete_child_edges", n>>} :
         /\ s # Finish /\ ~AnnouncesTag(s) /\ s[1] # "assert_tag" /\ Lowest(s) = 2 /\ Highest(s) = 2
         /\ Reach(<<"delete_edge", n>>) = {Edge(n)} /\ Reach(<<"delete_child_edges", n>>) = Rows
  BY DEF Finish, AnnouncesTag, Lowest, Highest, Stage, Wide, Reach
<1>2. \A n : \A s \in {<<"delete_marks", n>>, <<"delete_tag_marks", n>>} :
         /\ s # Finish /\ ~AnnouncesTag(s) /\ s[1] # "assert_tag" /\ Lowest(s) = 3 /\ Highest(s) = 3
         /\ Reach(<<"delete_marks", n>>) = MarksOf(n) /\ Reach(<<"delete_tag_marks", n>>) = Rows
  BY DEF Finish, AnnouncesTag, Lowest, Highest, Stage, Wide, Reach
<1>3. \A c : Edge(c)[1] = "edge" /\ Rank(Edge(c)) = 2
  BY DEF Edge, Rank
<1>4. \A c, u : Mark(c, u)[1] = "mark" /\ Rank(Mark(c, u)) = 3
  BY DEF Mark, Rank
<1>5. /\ \A n \in NodeIds : ChildrenIn(View(t), n) \in SUBSET NodeIds /\ MarksIn(View(t), n) \in SUBSET Tags
      /\ \A u \in Tags : BearersIn(View(t), u) \in SUBSET NodeIds
      /\ \A n \in NodeIds : Edge(n) \in Rows /\ \A u \in Tags : Mark(n, u) \in Rows /\ Mark(n, u) \in MarksOf(n)
  BY DEF ChildrenIn, MarksIn, BearersIn, Rows, MarksOf
<1>6. CASE DeleteEdge(t)
  <2>1. PICK n \in NodeIds : DeleteRows(t, <<"delete_edge", n>>, {e \in {Edge(n)} : View(t)[e] # NoNode})
    BY <1>6 DEF DeleteEdge
  <2> DEFINE s == <<"delete_edge", n>>
             R == {e \in {Edge(n)} : View(t)[e] # NoNode}
  <2>2. IsFiniteSet(R)
    BY FS_Singleton, FS_Subset
  <2>3. \A row \in R : /\ row \in Rows /\ row \in Reach(s) /\ row[1] \in {"edge", "mark"}
                      /\ Rank(row) = 2
    BY <1>1, <1>3, <1>5
  <2>4. /\ s # Finish /\ ~AnnouncesTag(s) /\ s[1] # "assert_tag" /\ Lowest(s) = 2 /\ Highest(s) = 2
        /\ DeleteRows(t, s, R)
    BY <1>1, <2>1
  <2> HIDE DEF s, R
  <2> QED BY <2>2, <2>3, <2>4, DeleteRowsKeeps
<1>7. CASE DeleteChildEdges(t)
  <2>1. PICK n \in NodeIds : DeleteRows(t, <<"delete_child_edges", n>>, {Edge(c) : c \in ChildrenIn(View(t), n)})
    BY <1>7 DEF DeleteChildEdges
  <2> DEFINE s == <<"delete_child_edges", n>>
             R == {Edge(c) : c \in ChildrenIn(View(t), n)}
  <2>2. IsFiniteSet(R)
    BY <1>5, FiniteRows
  <2>3. \A row \in R : /\ row \in Rows /\ row \in Reach(s) /\ row[1] \in {"edge", "mark"}
                      /\ Rank(row) = 2
    BY <1>1, <1>3, <1>5
  <2>4. /\ s # Finish /\ ~AnnouncesTag(s) /\ s[1] # "assert_tag" /\ Lowest(s) = 2 /\ Highest(s) = 2
        /\ DeleteRows(t, s, R)
    BY <1>1, <2>1
  <2> HIDE DEF s, R
  <2> QED BY <2>2, <2>3, <2>4, DeleteRowsKeeps
<1>8. CASE DeleteMarks(t)
  <2>1. PICK n \in NodeIds : DeleteRows(t, <<"delete_marks", n>>, {Mark(n, u) : u \in MarksIn(View(t), n)})
    BY <1>8 DEF DeleteMarks
  <2> DEFINE s == <<"delete_marks", n>>
             R == {Mark(n, u) : u \in MarksIn(View(t), n)}
  <2>2. IsFiniteSet(R)
    BY <1>5, FiniteRows
  <2>3. \A row \in R : /\ row \in Rows /\ row \in Reach(s) /\ row[1] \in {"edge", "mark"}
                      /\ Rank(row) = 3
    BY <1>2, <1>4, <1>5
  <2>4. /\ s # Finish /\ ~AnnouncesTag(s) /\ s[1] # "assert_tag" /\ Lowest(s) = 3 /\ Highest(s) = 3
        /\ DeleteRows(t, s, R)
    BY <1>2, <2>1
  <2> HIDE DEF s, R
  <2> QED BY <2>2, <2>3, <2>4, DeleteRowsKeeps
<1>9. CASE DeleteTagMarks(t)
  <2>1. PICK u \in Tags : DeleteRows(t, <<"delete_tag_marks", u>>, {Mark(n, u) : n \in BearersIn(View(t), u)})
    BY <1>9 DEF DeleteTagMarks
  <2> DEFINE s == <<"delete_tag_marks", u>>
             R == {Mark(n, u) : n \in BearersIn(View(t), u)}
  <2>2. IsFiniteSet(R)
    BY <1>5, FiniteRows
  <2>3. \A row \in R : /\ row \in Rows /\ row \in Reach(s) /\ row[1] \in {"edge", "mark"}
                      /\ Rank(row) = 3
    BY <1>2, <1>4, <1>5
  <2>4. /\ s # Finish /\ ~AnnouncesTag(s) /\ s[1] # "assert_tag" /\ Lowest(s) = 3 /\ Highest(s) = 3
        /\ DeleteRows(t, s, R)
    BY <1>2, <2>1
  <2> HIDE DEF s, R
  <2> QED BY <2>2, <2>3, <2>4, DeleteRowsKeeps
<1> QED BY <1>6, <1>7, <1>8, <1>9

LEMMA RemoveRowKeeps ==
    ASSUME IInv, NEW t \in Threads, RemoveRow(t)
    PROVE  IInv'
<1>1. PICK row \in Rows :
         /\ Doing(t, <<"remove_row", row>>) /\ Granted(t)
         /\ Publish(t, Only(row, Gone(row)), {}, <<>>, <<>>)
  BY DEF RemoveRow, Write
<1> DEFINE s == <<"remove_row", row>>
           rows == Only(row, Gone(row))
<1>2. s # Finish /\ s[1] = "remove_row" /\ s[2] = row
  BY DEF Finish
<1>3. s \in Statements
  <2> HIDE DEF s
  <2> QED BY <1>1, <1>2, FirstFacts DEF s
<1>4. row[1] \in {"edge", "mark"}
  <2> HIDE DEF s
  <2> QED BY <1>2, <1>3, Contents
<1>5. /\ ~AnnouncesTag(s) /\ Lowest(s) # 1 /\ Highest(s) = Rank(row) /\ Rank(row) \in Nat /\ Reach(s) = {row}
      /\ Written(t, s) = {row}
  BY <1>4 DEF AnnouncesTag, Lowest, Highest, Stage, Wide, Rank, Reach, Written
<1>6. Fits(row, Gone(row))
  BY <1>4 DEF Fits, Gone
<1>7. DOMAIN rows = {row} /\ rows[row] = Gone(row)
  BY OnlyFacts
<1>8. Doing(t, s) /\ Publish(t, rows, {}, <<>>, <<>>)
  BY <1>1
<1> HIDE DEF s, rows
<1>9. Respects(t, s, rows, {}, <<>>, <<>>)
  BY <1>2, <1>4, <1>5, <1>6, <1>7, PlainRespects
<1>10. KeepsOff(t, rows)
  BY <1>1, <1>5, <1>7, <1>8, GrantedKeepsOff
<1> QED BY <1>2, <1>5, <1>8, <1>9, <1>10, PublishKeeps

LEMMA InsertsKeep ==
    ASSUME IInv, NEW t \in Threads, InsertEdge(t) \/ InsertMark(t)
    PROVE  IInv'
<1>1. CASE InsertEdge(t)
  <2>1. PICK n \in NodeIds, p \in NodeIds :
           /\ Doing(t, <<"insert_edge", n, p>>) /\ Granted(t)
           /\ End(t, 500) \/ Publish(t, Only(Edge(n), p), References(todo[t][1]), <<>>, <<>>)
    BY <1>1 DEF InsertEdge, Insert
  <2> DEFINE s == <<"insert_edge", n, p>>
             rows == Only(Edge(n), p)
  <2>2. /\ s # Finish /\ s[1] # "assert_tag" /\ ~AnnouncesTag(s) /\ Lowest(s) # 1 /\ Highest(s) = 2
        /\ Reach(s) = {Edge(n)} /\ Written(t, s) = {Edge(n)} /\ References(s) = {Node(n), Node(p)}
    BY DEF Finish, AnnouncesTag, Lowest, Highest, Stage, Wide, Reach, Written, References
  <2>3. /\ Edge(n) \in Rows /\ References(s) \subseteq Rows
        /\ Edge(n)[1] = "edge" /\ Rank(Edge(n)) = 2 /\ Fits(Edge(n), p)
    BY <2>2 DEF Rows, Edge, Rank, Fits
  <2>4. DOMAIN rows = {Edge(n)} /\ rows[Edge(n)] = p
    BY OnlyFacts
  <2>5. /\ Doing(t, s) /\ Granted(t)
        /\ End(t, 500) \/ Publish(t, rows, References(s), <<>>, <<>>)
    BY <2>1 DEF Doing
  <2> HIDE DEF s, rows
  <2>6. Respects(t, s, rows, References(s), <<>>, <<>>)
    BY <2>2, <2>3, <2>4, PlainRespects
  <2>7. KeepsOff(t, rows)
    BY <2>2, <2>4, <2>5, GrantedKeepsOff
  <2> QED BY <2>2, <2>5, <2>6, <2>7, PublishKeeps, EndKeeps
<1>2. CASE InsertMark(t)
  <2>1. PICK n \in NodeIds, u \in Tags :
           /\ Doing(t, <<"insert_mark", n, u>>) /\ Granted(t)
           /\ End(t, 500) \/ Publish(t, Only(Mark(n, u), TRUE), References(todo[t][1]), <<>>, <<>>)
    BY <1>2 DEF InsertMark, Insert
  <2> DEFINE s == <<"insert_mark", n, u>>
             rows == Only(Mark(n, u), TRUE)
  <2>2. /\ s # Finish /\ s[1] # "assert_tag" /\ ~AnnouncesTag(s) /\ Lowest(s) # 1 /\ Highest(s) = 3
        /\ Reach(s) = MarksOf(n) /\ Written(t, s) = {Mark(n, u)} /\ References(s) = {Node(n), Tag(u)}
    BY DEF Finish, AnnouncesTag, Lowest, Highest, Stage, Wide, Reach, Written, References
  <2>3. /\ Mark(n, u) \in Rows /\ References(s) \subseteq Rows /\ Mark(n, u) \in MarksOf(n)
        /\ Mark(n, u)[1] = "mark" /\ Rank(Mark(n, u)) = 3
    BY <2>2 DEF Rows, Mark, Rank, MarksOf
  <2>4. DOMAIN rows = {Mark(n, u)} /\ Fits(Mark(n, u), rows[Mark(n, u)])
    <3>1. DOMAIN rows = {Mark(n, u)} /\ rows[Mark(n, u)] = TRUE
      BY OnlyFacts
    <3> HIDE DEF rows
    <3>2. rows[Mark(n, u)] \in BOOLEAN
      BY <3>1
    <3> QED BY <2>3, <3>1, <3>2 DEF Fits
  <2>5. /\ Doing(t, s) /\ Granted(t)
        /\ End(t, 500) \/ Publish(t, rows, References(s), <<>>, <<>>)
    BY <2>1 DEF Doing
  <2> HIDE DEF s, rows
  <2>6. Respects(t, s, rows, References(s), <<>>, <<>>)
    BY <2>2, <2>3, <2>4, PlainRespects
  <2>7. KeepsOff(t, rows)
    BY <2>2, <2>4, <2>5, GrantedKeepsOff
  <2> QED BY <2>2, <2>5, <2>6, <2>7, PublishKeeps, EndKeeps
<1> QED BY <1>1, <1>2

LEMMA InsertTagKeeps ==
    ASSUME IInv, NEW t \in Threads, InsertTag(t)
    PROVE  IInv'
<1>1. PICK u \in Tags :
         /\ Doing(t, <<"insert_tag", u>>) /\ Granted(t)
         /\ \/ Read(t, << <<"ensure_tag", u>> >>)
            \/ InsertUnderSavepoint(t, Tag(u), TRUE, << <<"assert_tag", u>>, <<"append", u, TRUE>> >>)
  BY DEF InsertTag
<1> DEFINE s == <<"insert_tag", u>>
           x == <<"assert_tag", u>>
           y == <<"append", u, TRUE>>
           a == <<x, y>>
<1>2. /\ s # Finish /\ ~AnnouncesTag(s) /\ s[1] # "assert_tag" /\ Lowest(s) = 3 /\ Highest(s) = 3
      /\ Reach(s) = {} /\ Written(t, s) = {Tag(u)} /\ DeletesSomething(s) = FALSE
  BY DEF Finish, AnnouncesTag, Lowest, Highest, Stage, Wide, Reach, Written, DeletesSomething
<1>3. Tag(u) \in Rows /\ Tag(u)[1] = "tag" /\ Rank(Tag(u)) = 3
  BY DEF Rows, Tag, Rank
<1>11. Gone(Tag(u)) = FALSE
  BY <1>3, Zenon DEF Gone
<1>0. Fits(Tag(u), TRUE)
  <2>1. TRUE \in BOOLEAN
    OBVIOUS
  <2> QED BY <1>3, <2>1 DEF Fits
<1>4. AnnouncesTag(y) /\ y[1] \notin Creating
  BY DEF AnnouncesTag, Creating
<1>5. /\ x \in Statements /\ Lowest(x) = 9 /\ Highest(x) = 0 /\ Reach(x) = {} /\ ~DeletesSomething(x)
      /\ x[1] = "assert_tag" /\ x[1] \notin Creating
  BY DEF Statements, Lowest, Highest, Stage, Wide, Reach, DeletesSomething, Creating
<1>6. y \in Statements
  BY DEF Statements
<1>7. Lowest(y) = 9 /\ Highest(y) = 0 /\ Reach(y) = {}
  BY <1>4 DEF Lowest, Highest, Stage, Wide, Reach
<1>8. ~DeletesSomething(y)
  <2>1. y[1] = "append" /\ y[2] = u /\ y[3] = TRUE
    OBVIOUS
  <2>2. TRUE # FALSE
    OBVIOUS
  <2>3. ~(y[3] = FALSE)
    BY <2>1, <2>2, Zenon
  <2> HIDE DEF y
  <2> QED BY <2>1, <2>3 DEF DeletesSomething
<1>9. CASE Read(t, << <<"ensure_tag", u>> >>)
  <2> DEFINE again == <<"ensure_tag", u>>
  <2>1. /\ again \in Statements /\ Lowest(again) = 3 /\ Highest(again) = 3 /\ Reach(again) = {}
        /\ ~DeletesSomething(again)
    BY DEF Statements, Lowest, Highest, Stage, Wide, Reach, DeletesSomething
  <2>2. Doing(t, s) /\ seen[t] \in Memory /\ Learn(t, seen[t], <<again>>)
    BY <1>1, <1>9, Sights DEF Read
  <2> HIDE DEF s, again
  <2>3. Part(<<again>>, Lowest(s), Highest(s), Reach(s), DeletesSomething(s)) /\ Lowest(s) > 1
    BY <1>2, <2>1, SinglePart
  <2> QED BY <1>2, <2>2, <2>3, ReadMoreKeeps
<1>10. CASE InsertUnderSavepoint(t, Tag(u), TRUE, a)
  <2>0. Doing(t, s)
    BY <1>1
  <2> HIDE DEF s, x, y
  <2>1. a \in Seq(Statements) /\ Len(a) = 2 /\ a[1] = x /\ a[2] = y
    BY <1>5, <1>6
  <2> HIDE DEF a
  <2>2. \A i \in 1..Len(a) : /\ Lowest(a[i]) = 9 /\ Highest(a[i]) = 0 /\ Reach(a[i]) = {}
                             /\ ~DeletesSomething(a[i]) /\ a[i][1] \notin Creating
    BY <1>4, <1>5, <1>7, <1>8, <2>1
  <2>3. Part(a, 3, 3, {}, DeletesSomething(s))
    BY <2>1, <2>2 DEF Part
  <2>4. Part(a, Lowest(s), Highest(s), Reach(s), DeletesSomething(s))
    BY <1>2, <2>3
  <2>5. CASE ReleaseCommits(t)
    <3>1. /\ db' = [db EXCEPT ![Tag(u)] = TRUE] /\ Overtake(t) /\ Continue(t, a)
          /\ UNCHANGED <<engine, setting, copy, request, seen, writes, shares, news, answer>>
          /\ engine = "sqlite"
      BY <1>10, <2>5 DEF InsertUnderSavepoint, ReleaseCommits
    <3> QED BY <1>0, <1>2, <1>3, <2>0, <2>2, <2>4, <3>1, ReleaseKeeps
  <2>6. CASE ~ReleaseCommits(t)
    <3> DEFINE rows == Only(Tag(u), TRUE)
    <3>1. Publish(t, rows, {}, <<>>, a)
      BY <1>10, <2>6 DEF InsertUnderSavepoint, Write
    <3>2. DOMAIN rows = {Tag(u)} /\ rows[Tag(u)] = TRUE
      BY OnlyFacts
    <3> HIDE DEF rows
    <3>6. Fits(Tag(u), rows[Tag(u)]) /\ DOMAIN <<>> = {}
      <4>1. rows[Tag(u)] \in BOOLEAN
        BY <3>2
      <4> QED BY <1>3, <4>1 DEF Fits
    <3>3. Respects(t, s, rows, {}, <<>>, a)
      <4>1. a[1][1] = "assert_tag" /\ AnnouncesTag(a[2])
        BY <1>4, <1>5, <2>1
      <4>2. \A i \in 1..Len(a) : Rank(Tag(u)) <= Lowest(a[i])
        BY <1>3, <2>2
      <4>3. rows[Tag(u)] # Gone(Tag(u))
        BY <1>11, <3>2
      <4>4. DOMAIN rows \subseteq Rows /\ \A row \in DOMAIN rows : row = Tag(u)
        BY <1>3, <3>2
      <4>5. \A row \in DOMAIN rows : Fits(row, rows[row])
        BY <3>6, <4>4, Zenon
      <4>6. \A row \in DOMAIN rows : rows[row] # Gone(row)
        BY <4>3, <4>4, Zenon
      <4>7. \A row \in DOMAIN rows :
                  /\ row[1] \notin {"node", "edge", "mark"}
                  /\ Rank(row) <= Highest(s) /\ \A i \in 1..Len(a) : Rank(row) <= Lowest(a[i])
        <5>1. Tag(u)[1] \notin {"node", "edge", "mark"} /\ Rank(Tag(u)) <= Highest(s)
          BY <1>2, <1>3
        <5> QED BY <4>2, <4>4, <5>1, Zenon
      <4>8. s[1] # "assert_tag" /\ ~AnnouncesTag(s)
        BY <1>2
      <4> QED BY <2>1, <2>2, <2>4, <3>6, <4>1, <4>4, <4>5, <4>6, <4>7, <4>8 DEF Respects
    <3>4. KeepsOff(t, rows)
      BY <1>1, <1>2, <2>0, <3>2, GrantedKeepsOff
    <3>5. Lowest(s) # 1
      BY <1>2
    <3> QED BY <1>2, <2>0, <3>1, <3>3, <3>4, <3>5, PublishKeeps
  <2> QED BY <2>5, <2>6
<1> QED BY <1>1, <1>9, <1>10

LEMMA GoneFits ==
    ASSUME NEW row
    PROVE  Fits(row, Gone(row))
<1>1. row[1] = "node" => Gone(row) = "absent"
  BY DEF Gone
<1>2. row[1] = "edge" => Gone(row) = NoNode
  BY DEF Gone
<1>3. row[1] \in {"tag", "mark"} => Gone(row) \in BOOLEAN
  <2>1. row[1] \in {"tag", "mark"} => Gone(row) = FALSE
    BY DEF Gone
  <2>2. FALSE \in BOOLEAN
    OBVIOUS
  <2> QED BY <2>1, <2>2, Zenon
<1> QED BY <1>1, <1>2, <1>3 DEF Fits

LEMMA CascadeFacts ==
    ASSUME NEW v
    PROVE  /\ \A n \in NodeIds : Node(n) \in Rows /\ Cascade(v, Node(n)) \subseteq Rows
           /\ \A u \in Tags : Tag(u) \in Rows /\ Cascade(v, Tag(u)) \subseteq Rows
<1>1. /\ \A m \in NodeIds : Node(m) \in Rows /\ Edge(m) \in Rows
      /\ \A w \in Tags : Tag(w) \in Rows /\ \A m \in NodeIds : Mark(m, w) \in Rows
  BY DEF Rows
<1>2. ASSUME NEW n \in NodeIds
      PROVE  Cascade(v, Node(n)) \subseteq Rows
  <2>1. Node(n)[1] = "node" /\ Node(n)[2] = n
    BY DEF Node
  <2>2. Cascade(v, Node(n)) = {Edge(c) : c \in ChildrenIn(v, n)} \cup {Mark(n, w) : w \in MarksIn(v, n)}
                                \cup {e \in {Edge(n)} : v[e] # NoNode}
    BY <2>1 DEF Cascade
  <2>3. ChildrenIn(v, n) \subseteq NodeIds /\ MarksIn(v, n) \subseteq Tags
    BY DEF ChildrenIn, MarksIn
  <2> QED BY <1>1, <2>2, <2>3
<1>3. ASSUME NEW u \in Tags
      PROVE  Cascade(v, Tag(u)) \subseteq Rows
  <2>1. Tag(u)[1] = "tag" /\ Tag(u)[2] = u
    BY DEF Tag
  <2>2. Cascade(v, Tag(u)) = {Mark(m, u) : m \in BearersIn(v, u)}
    BY <2>1 DEF Cascade
  <2>3. BearersIn(v, u) \subseteq NodeIds
    BY DEF BearersIn
  <2> QED BY <1>1, <2>2, <2>3
<1> QED BY <1>1, <1>2, <1>3

LEMMA DeleteLastKeeps ==
    ASSUME IInv, NEW t \in Threads, NEW s, s # Finish, s[1] # "assert_tag", ~AnnouncesTag(s),
           DeletesSomething(s), NEW row \in Rows, Cascade(View(t), row) \subseteq Rows,
           Written(t, s) = {row} \cup Cascade(View(t), row), DeleteLast(t, s, row)
    PROVE  IInv'
<1>1. Doing(t, s) /\ Granted(t)
  BY DEF DeleteLast
<1> DEFINE cascade == IF engine = "postgres" THEN Cascade(View(t), row) ELSE {}
           rows == [r \in {row} \cup cascade |-> Gone(r)]
<1>2. CASE End(t, 404)
  BY <1>2, EndKeeps
<1>3. CASE Write(t, rows, <<>>)
  <2>1. Publish(t, rows, {}, <<>>, <<>>)
    BY <1>3 DEF Write
  <2>2. DOMAIN rows \subseteq Written(t, s) /\ DOMAIN rows \subseteq Rows
    OBVIOUS
  <2>3. \A r \in DOMAIN rows : Fits(r, rows[r])
    BY GoneFits
  <2> HIDE DEF rows
  <2>4. Respects(t, s, rows, {}, <<>>, <<>>)
    BY <2>2, <2>3, PlainRespects
  <2>5. KeepsOff(t, rows)
    BY <1>1, <2>2, GrantedKeepsOff
  <2> QED BY <1>1, <2>1, <2>4, <2>5, PublishKeeps
<1> QED BY <1>2, <1>3 DEF DeleteLast

LEMMA LastDeletionsKeep ==
    ASSUME IInv, NEW t \in Threads, DeleteNodeRow(t) \/ DeleteTagRow(t)
    PROVE  IInv'
<1>1. ASSUME NEW n \in NodeIds, DeleteLast(t, <<"delete_node", n>>, Node(n))
      PROVE  IInv'
  <2> DEFINE s == <<"delete_node", n>>
  <2>1. /\ s # Finish /\ s[1] # "assert_tag" /\ ~AnnouncesTag(s) /\ DeletesSomething(s)
        /\ Written(t, s) = {Node(n)} \cup Cascade(View(t), Node(n))
    BY DEF Finish, AnnouncesTag, DeletesSomething, Written
  <2>2. Node(n) \in Rows /\ Cascade(View(t), Node(n)) \subseteq Rows /\ DeleteLast(t, s, Node(n))
    BY <1>1, CascadeFacts
  <2> HIDE DEF s
  <2> QED BY <2>1, <2>2, DeleteLastKeeps
<1>2. ASSUME NEW u \in Tags, DeleteLast(t, <<"delete_tag", u>>, Tag(u))
      PROVE  IInv'
  <2> DEFINE s == <<"delete_tag", u>>
  <2>1. /\ s # Finish /\ s[1] # "assert_tag" /\ ~AnnouncesTag(s) /\ DeletesSomething(s)
        /\ Written(t, s) = {Tag(u)} \cup Cascade(View(t), Tag(u))
    BY DEF Finish, AnnouncesTag, DeletesSomething, Written
  <2>2. Tag(u) \in Rows /\ Cascade(View(t), Tag(u)) \subseteq Rows /\ DeleteLast(t, s, Tag(u))
    BY <1>2, CascadeFacts
  <2> HIDE DEF s
  <2> QED BY <2>1, <2>2, DeleteLastKeeps
<1> QED BY <1>1, <1>2 DEF DeleteNodeRow, DeleteTagRow

LEMMA PublishEventKeeps ==
    ASSUME IInv, NEW t \in Threads, NEW s, Doing(t, s), s # Finish, s[1] # "assert_tag", Lowest(s) # 1,
           NEW about \in NodeIds \cup Tags, NEW resource, about \in Tags => resource \in BOOLEAN,
           about \in Tags /\ ~DeletesSomething(s) => resource = TRUE,
           IF AnnouncesTag(s) THEN about \in Tags /\ resource = TRUE ELSE Highest(s) = 4,
           KeepsOff(t, Only(Sequence, TRUE)), PublishEvent(t, about, resource)
    PROVE  IInv'
<1> DEFINE rows == Only(Sequence, TRUE)
           events == Only(about, resource)
<1>1. DOMAIN rows = {Sequence} /\ DOMAIN events = {about} /\ events[about] = resource
  BY OnlyFacts
<1>2. Publish(t, rows, {}, events, <<>>) /\ KeepsOff(t, rows)
  BY DEF PublishEvent
<1>3. Sequence \in Rows /\ Sequence[1] = "event_sequence" /\ Rank(Sequence) = 4
  BY DEF Rows, Sequence, Rank
<1> HIDE DEF rows, events
<1>4. \A u \in Tags \cap DOMAIN events : u = about
  BY <1>1
<1>5. \A u \in Tags \cap DOMAIN events : events[u] \in BOOLEAN
  BY <1>1, <1>4
<1>6. ~DeletesSomething(s) => \A u \in Tags \cap DOMAIN events : events[u]
  <2> SUFFICES ASSUME ~DeletesSomething(s), NEW u \in Tags \cap DOMAIN events
               PROVE  events[u]
    OBVIOUS
  <2>1. events[u] = TRUE
    BY <1>1, <1>4
  <2> QED BY <2>1, Zenon
<1>7. AnnouncesTag(s) => \E u \in Tags \cap DOMAIN events : events[u]
  <2> SUFFICES ASSUME AnnouncesTag(s)
               PROVE  \E u \in Tags \cap DOMAIN events : events[u]
    OBVIOUS
  <2>1. about \in Tags \cap DOMAIN events /\ events[about] = TRUE
    BY <1>1
  <2>2. events[about]
    BY <2>1, Zenon
  <2> QED BY <2>1, <2>2, Zenon
<1>8. Part(<<>>, Lowest(s), Highest(s), Reach(s), DeletesSomething(s))
  BY NoPart
<1>9. \A row \in DOMAIN rows : Fits(row, rows[row])
  BY <1>1, <1>3 DEF Fits
<1>10. \A row \in DOMAIN rows :
          /\ row[1] \notin {"node", "edge", "mark", "tag"}
          /\ \/ row = Sequence /\ \E u \in Tags \cap DOMAIN events : events[u]
             \/ Rank(row) <= Highest(s)
  <2>1. Sequence[1] \notin {"node", "edge", "mark", "tag"}
    BY <1>3
  <2>2. \A row \in DOMAIN rows : row = Sequence
    BY <1>1
  <2>3. CASE AnnouncesTag(s)
    BY <1>7, <2>1, <2>2, <2>3, Zenon
  <2>4. CASE ~AnnouncesTag(s)
    <3>1. Rank(Sequence) <= Highest(s)
      BY <1>3, <2>4
    <3> QED BY <2>1, <2>2, <3>1, Zenon
  <2> QED BY <2>3, <2>4
<1>11. Respects(t, s, rows, {}, events, <<>>)
  <2>1. DOMAIN rows \subseteq Rows /\ {} \subseteq Rows /\ DOMAIN events \subseteq NodeIds \cup Tags
    BY <1>1, <1>3
  <2>2. Len(<<>>) = 0 /\ 1..Len(<<>>) = {}
    OBVIOUS
  <2> DEFINE a == <<>>
  <2>3. \A i \in 1..Len(a) : FALSE
    BY <2>2
  <2> HIDE DEF a
  <2>4. \A row \in DOMAIN rows \ DOMAIN writes[t] :
          /\ row[1] \in {"node", "edge", "mark"} => row \in Reach(s)
          /\ \/ row = Sequence /\ \E u \in Tags \cap DOMAIN events : events[u]
             \/ Rank(row) <= Highest(s) /\ \A i \in 1..Len(a) : Rank(row) <= Lowest(a[i])
          /\ row[1] = "tag" => Len(a) = 2 /\ a[1][1] = "assert_tag" /\ AnnouncesTag(a[2])
    <3> SUFFICES ASSUME NEW row \in DOMAIN rows
                 PROVE  /\ row[1] \in {"node", "edge", "mark"} => row \in Reach(s)
                        /\ \/ row = Sequence /\ \E u \in Tags \cap DOMAIN events : events[u]
                           \/ Rank(row) <= Highest(s) /\ \A i \in 1..Len(a) : Rank(row) <= Lowest(a[i])
                        /\ row[1] = "tag" => Len(a) = 2 /\ a[1][1] = "assert_tag" /\ AnnouncesTag(a[2])
      OBVIOUS
    <3>1. row[1] \notin {"node", "edge", "mark"} /\ row[1] # "tag"
      BY <1>10
    <3> QED BY <1>10, <2>3, <3>1, Zenon
  <2>5. \A row \in DOMAIN rows : row[1] \in {"node", "tag"} => rows[row] # Gone(row)
    BY <1>10
  <2>6. Respects(t, s, rows, {}, events, a)
    <3>1. Part(a, Lowest(s), Highest(s), Reach(s), DeletesSomething(s))
      BY <1>8 DEF a
    <3> QED BY <1>5, <1>6, <1>7, <1>9, <2>1, <2>3, <2>4, <2>5, <3>1, Zenon DEF Respects
  <2> QED BY <2>6 DEF a
<1> QED BY <1>2, <1>11, PublishKeeps

LEMMA AnnounceKeeps ==
    ASSUME IInv, NEW t \in Threads, Announce(t)
    PROVE  IInv'
<1>1. \A n \in NodeIds :
         /\ <<"announce", n>> \in (Pieced \cup {"announce"}) \X NodeIds
         /\ Lowest(<<"announce", n>>) > 1 /\ Lowest(<<"announce", n>>) # 1
  BY PieceStatements
<1>2. CASE Begins(t)
  BY <1>2, PieceReadsKeep
<1>3. ASSUME NEW n \in NodeIds, Doing(t, <<"announce", n>>), Read(t, <<>>)
      PROVE  IInv'
  <2> DEFINE s == <<"announce", n>>
  <2>1. Doing(t, s) /\ s # Finish /\ s[1] # "assert_tag" /\ ~AnnouncesTag(s) /\ Lowest(s) > 1
    BY <1>1, <1>3, PieceStatements
  <2> HIDE DEF s
  <2>2. Part(<<>>, Lowest(s), Highest(s), Reach(s), DeletesSomething(s))
    BY NoPart
  <2>3. seen[t] \in Memory /\ Learn(t, seen[t], <<>>)
    BY <1>3, Sights DEF Read
  <2> QED BY <2>1, <2>2, <2>3, ReadMoreKeeps
<1>4. ASSUME NEW n \in NodeIds, Doing(t, <<"announce", n>>), Sequence \in DOMAIN writes[t],
             PublishEvent(t, n, Representation(View(t), n))
      PROVE  IInv'
  <2> DEFINE s == <<"announce", n>>
             resource == Representation(View(t), n)
  <2>1. /\ Doing(t, s) /\ s # Finish /\ s[1] # "assert_tag" /\ ~AnnouncesTag(s) /\ Lowest(s) # 1
        /\ Highest(s) = 4
    BY <1>1, <1>4, PieceStatements
  <2>2. KeepsOff(t, Only(Sequence, TRUE))
    <3>1. DOMAIN Only(Sequence, TRUE) = {Sequence}
      BY OnlyFacts
    <3> QED BY <1>4, <3>1 DEF KeepsOff
  <2>3. n \notin Tags /\ n \in NodeIds \cup Tags
    BY TransactionsAssumption
  <2>4. IF AnnouncesTag(s) THEN n \in Tags /\ resource = TRUE ELSE Highest(s) = 4
    BY <2>1
  <2>5. PublishEvent(t, n, resource)
    BY <1>4
  <2> HIDE DEF s, resource
  <2> QED BY <2>1, <2>2, <2>3, <2>4, <2>5, PublishEventKeeps
<1> QED BY <1>2, <1>3, <1>4, AnnounceCases

LEMMA AppendEventKeeps ==
    ASSUME IInv, NEW t \in Threads, AppendEvent(t)
    PROVE  IInv'
<1> DEFINE s == todo[t][1]
<1>1. /\ Doing(t, s) /\ s[1] = "append" /\ Granted(t) /\ PublishEvent(t, s[2], s[3])
  BY DEF AppendEvent, Doing
<1> HIDE DEF s
<1>2. s # Finish
  BY <1>1 DEF Finish
<1>3. s \in Statements
  BY <1>1, <1>2, FirstFacts
<1>4. \/ s[2] \in NodeIds /\ s[3] \in Representations
      \/ s[2] \in Tags /\ s[3] \in BOOLEAN
  BY <1>1, <1>3, Contents
<1>5. s[2] \in Tags => s[3] \in BOOLEAN
  BY <1>4, TransactionsAssumption
<1>6. s[2] \in Tags /\ ~DeletesSomething(s) => s[3] = TRUE
  <2>1. s[2] \in Tags /\ s[3] = FALSE => DeletesSomething(s)
    <3>1. s[2] \in Tags => s[2] \notin NodeIds
      BY TransactionsAssumption
    <3> QED BY <1>1, <3>1, Zenon DEF DeletesSomething
  <2> QED BY <1>5, <2>1
<1>7. IF AnnouncesTag(s) THEN s[2] \in Tags /\ s[3] = TRUE ELSE Highest(s) = 4
  BY <1>1 DEF AnnouncesTag, Highest, Stage, Wide
<1>8. Lowest(s) # 1 /\ Written(t, s) = {Sequence}
  BY <1>1 DEF Lowest, Stage, Wide, Written
<1>9. KeepsOff(t, Only(Sequence, TRUE))
  <2>1. DOMAIN Only(Sequence, TRUE) \subseteq Written(t, s)
    BY <1>8, OnlyFacts
  <2> QED BY <1>1, <2>1, GrantedKeepsOff
<1> QED BY <1>1, <1>2, <1>4, <1>5, <1>6, <1>7, <1>8, <1>9, PublishEventKeeps
-----------------------------------------------------------------------------
(* A request begins, and ends.                                                 *)

LEMMA ProgramCreates ==
    ASSUME NEW r \in Requests, Bodies(r)
    PROVE  CreatesAtMostFirst(Program(r))
<1>1. CASE r.op = "POST"
  <2>1. /\ r.node \in NodeIds /\ r.kind \in Kinds /\ r.parent \in NodeIds \cup {NoNode}
        /\ r.tags \in Seq(Tags)
    BY <1>1 DEF Requests, Creations, Changes, Deletions, TagRequests
  <2>2. Program(r) = CreateNode(r.node, r.kind, r.parent, r.tags)
    BY <1>1 DEF Program
  <2> QED BY <2>1, <2>2, CreateNodeCreates
<1>2. CASE r.op = "PUT"
  <2> DEFINE s == <<"create_or_replace", r.node>>
  <2>1. Program(r) = <<s>>
    BY <1>2 DEF Program
  <2>2. s \in Statements
    BY NodeOfRequest DEF Statements
  <2> HIDE DEF s
  <2> QED BY <2>1, <2>2 DEF CreatesAtMostFirst
<1>3. CASE r.op = "PATCH"
  <2>1. /\ r.node \in NodeIds /\ r.kind \in Kinds \cup {Keep, Relabel}
        /\ r.parent \in NodeIds \cup {NoNode, Keep}
        /\ r.tags \in Seq(Tags) \cup {Keep}
    BY <1>3 DEF Requests, Creations, Changes, Deletions, TagRequests
  <2>2. Program(r) = UpdateNode(r.node, r.kind, r.parent, r.tags)
    BY <1>3 DEF Program
  <2> QED BY <2>1, <2>2, UpdateNodeCreates
<1> QED BY <1>1, <1>2, <1>3 DEF Bodies

LEMMA Appended ==
    ASSUME NEW S, NEW a \in Seq(S), NEW x
    PROVE  /\ \A i \in 1..Len(a) : i \in 1..Len(a \o <<x>>) /\ (a \o <<x>>)[i] = a[i]
           /\ \A i \in 1..Len(a \o <<x>>) : (i \in 1..Len(a) /\ (a \o <<x>>)[i] = a[i]) \/ (a \o <<x>>)[i] = x
<1> DEFINE T == S \cup {x}
           b == <<x>>
<1>1. a \in Seq(T) /\ b \in Seq(T) /\ Len(b) = 1 /\ b[1] = x
  OBVIOUS
<1> HIDE DEF T, b
<1>2. /\ Len(a \o b) = Len(a) + 1 /\ Len(a) \in Nat
      /\ \A i \in 1..Len(a \o b) : (a \o b)[i] = IF i <= Len(a) THEN a[i] ELSE b[i - Len(a)]
  BY <1>1, JoinedSeqs
<1>3. ASSUME NEW i \in 1..Len(a)
      PROVE  i \in 1..Len(a \o b) /\ (a \o b)[i] = a[i]
  BY <1>2
<1>4. ASSUME NEW i \in 1..Len(a \o b)
      PROVE  (i \in 1..Len(a) /\ (a \o b)[i] = a[i]) \/ (a \o b)[i] = x
  <2>1. CASE i <= Len(a)
    BY <1>2, <2>1
  <2>2. CASE ~(i <= Len(a))
    <3>1. i - Len(a) = 1
      BY <1>2, <2>2
    <3> QED BY <1>1, <1>2, <2>2, <3>1
  <2> QED BY <2>1, <2>2
<1>5. /\ \A i \in 1..Len(a) : i \in 1..Len(a \o b) /\ (a \o b)[i] = a[i]
      /\ \A i \in 1..Len(a \o b) : (i \in 1..Len(a) /\ (a \o b)[i] = a[i]) \/ (a \o b)[i] = x
  BY <1>3, <1>4
<1> QED BY <1>5 DEF b

LEMMA StartKeeps ==
    ASSUME IInv, NEW t \in Threads, Start(t)
    PROVE  IInv'
<1>1. /\ UNCHANGED <<engine, setting, db, copy, seen, writes, shares, news, overtook, answer>>
      /\ Typed /\ Domains /\ Table(db) /\ request \in [Threads -> Requests \cup {NoRequest}] /\ ThreadInv(t)
      /\ request[t] = NoRequest /\ setting \in Settings
  BY DEF Start, IInv, Typed, ThreadInv
<1>2. PICK r \in setting.requests :
         /\ request' = [request EXCEPT ![t] = r]
         /\ todo' = [todo EXCEPT ![t] = Program(r) \o <<Finish>>]
  BY DEF Start, Finish
<1>3. r \in Requests
  BY <1>1, TransactionsAssumption
<1>4. DOMAIN todo = Threads /\ todo'[t] = Program(r) \o <<Finish>> /\ request'[t] = r
  BY <1>1, <1>2 DEF Domains
<1>5. ~Running(t) /\ ~Deleting(NoRequest)
  <2>1. NoRequest.op = "none" /\ \A q \in Requests : q.op # "none"
    BY DEF NoRequest, Requests, Creations, Changes, Deletions, TagRequests
  <2> QED BY <1>1, <2>1 DEF ThreadInv, ThreadOK, Deleting
<1>6. writes'[t] = <<>> /\ DOMAIN writes'[t] = {}
  BY <1>1, <1>5 DEF ThreadInv, ThreadOK
<1>7. Rest(todo'[t], Scope(r), Deleting(r)) /\ todo'[t] # <<>>
  <2>1. Part(Program(r), 0, 9, Scope(r), Deleting(r))
    BY <1>3, ProgramPart
  <2> QED BY <1>4, <2>1, RestStarts
<1>8. ThreadOK(t)'
  BY <1>1, <1>3, <1>4, <1>6, <1>7 DEF ThreadInv, ThreadOK, Running, WritesFit
<1>9. HoldsInOrder(t)'
  BY <1>6 DEF HoldsInOrder
<1>10. Program(r) \in Seq(Statements)
  BY <1>3, ProgramPart DEF Part
<1>11. CreatesFirst(t)'
  <2> SUFFICES ASSUME Bodies(r), NEW i \in 1..Len(todo'[t]), todo'[t][i][1] \in Creating
               PROVE  i = 1
    BY <1>4, <1>6 DEF CreatesFirst
  <2>1. (i \in 1..Len(Program(r)) /\ todo'[t][i] = Program(r)[i]) \/ todo'[t][i] = Finish
    BY <1>4, <1>10, Appended
  <2>2. Finish[1] \notin Creating
    BY DEF Finish, Creating
  <2> QED BY <1>3, <2>1, <2>2, ProgramCreates DEF CreatesAtMostFirst
<1>12. ThreadInv(t)'
  BY <1>8, <1>9, <1>11 DEF ThreadInv
<1>13. ASSUME NEW o \in Threads \ {t} PROVE Stays(o)
  BY <1>1, <1>2, SelfPasses DEF Stays, ThreadInv, ThreadOK
<1>14. Domains' /\ Table(db') /\ request' \in [Threads -> Requests \cup {NoRequest}]
  BY <1>1, <1>2, <1>3 DEF Domains
<1> QED BY <1>1, <1>6, <1>12, <1>13, <1>14, StepKeeps

LEMMA CommitKeeps ==
    ASSUME IInv, NEW t \in Threads, Commit(t)
    PROVE  IInv'
<1> DEFINE passedBy(s) == s[1] = "remove_row" /\ s[2] \in DOMAIN writes[t]
<1>1. /\ UNCHANGED <<engine, setting, request, seen, answer>> /\ Overtake(t)
      /\ Typed /\ Domains /\ request \in [Threads -> Requests \cup {NoRequest}] /\ ThreadInv(t)
  BY DEF Commit, IInv, Typed, ThreadInv
<1>2. /\ db' = View(t)
      /\ todo' = [o \in Threads |->
                     IF o = t THEN <<>>
                     ELSE [i \in DOMAIN todo[o] |-> IF passedBy(todo[o][i]) THEN <<"pass_by">> ELSE todo[o][i]]]
      /\ writes' = [writes EXCEPT ![t] = <<>>]
      /\ shares' = [shares EXCEPT ![t] = {}] /\ news' = [news EXCEPT ![t] = <<>>]
      /\ DOMAIN writes = Threads /\ DOMAIN shares = Threads
      /\ DOMAIN news = Threads /\ DOMAIN answer = Threads
  BY <1>1 DEF Commit, Domains
<1>3. /\ todo'[t] = <<>> /\ writes'[t] = <<>> /\ shares'[t] = {} /\ news'[t] = <<>>
      /\ ~Running(t)' /\ DOMAIN writes'[t] = {} /\ DOMAIN news'[t] = {}
  <2>1. todo'[t] = <<>>
    BY <1>2
  <2>2. writes'[t] = <<>> /\ shares'[t] = {} /\ news'[t] = <<>>
    BY <1>2
  <2> QED BY <2>1, <2>2 DEF Running
<1>4. Table(db) /\ Table(db')
  BY <1>1, <1>2, ViewFits
<1>5. ThreadOK(t)'
  <2>1. Rest(<<>>, Scope(request[t]), Deleting(request[t]))
    BY DEF Rest
  <2> QED BY <1>1, <1>3, <2>1, OvertakeFacts DEF ThreadOK, ThreadInv, WritesFit
<1>6. ThreadInv(t)'
  BY <1>1, <1>3, <1>5 DEF ThreadInv, HoldsInOrder, CreatesFirst
<1>7. ASSUME NEW o \in Threads \ {t} PROVE Stays(o)
  <2>1. todo[o] \in Seq(Statements \cup {Finish})
    BY <1>7 DEF IInv, Typed, ThreadOK, Rest
  <2>2. <<"pass_by">> \in Statements \cup {Finish}
    BY DEF Statements
  <2>3. todo'[o] = [i \in DOMAIN todo[o] |-> IF passedBy(todo[o][i]) THEN <<"pass_by">> ELSE todo[o][i]]
    BY <1>2, <1>7
  <2>4. /\ todo'[o] \in Seq(Statements \cup {Finish}) /\ Len(todo'[o]) = Len(todo[o])
        /\ \A i \in 1..Len(todo[o]) : todo'[o][i] = todo[o][i]
                                      \/ (todo[o][i][1] = "remove_row" /\ todo'[o][i] = <<"pass_by">>)
    <3> DEFINE k == Len(todo[o])
               S == Statements \cup {Finish}
    <3> HIDE DEF passedBy, S
    <3>1. k \in Nat /\ DOMAIN todo[o] = 1..k /\ \A i \in 1..k : todo[o][i] \in S
      BY <2>1 DEF S
    <3> HIDE DEF k
    <3>2. todo'[o] = [i \in 1..k |-> IF passedBy(todo[o][i]) THEN <<"pass_by">> ELSE todo[o][i]]
      BY <2>3, <3>1
    <3>3. todo'[o] \in Seq(S) /\ Len(todo'[o]) = k
      BY <2>2, <3>1, <3>2 DEF S
    <3>4. \A i \in 1..k : todo'[o][i] = IF passedBy(todo[o][i]) THEN <<"pass_by">> ELSE todo[o][i]
      BY <3>2
    <3>5. \A i \in 1..k : todo'[o][i] = todo[o][i]
                         \/ (todo[o][i][1] = "remove_row" /\ todo'[o][i] = <<"pass_by">>)
      BY <3>4, Zenon DEF passedBy
    <3> QED BY <3>3, <3>5 DEF k, S
  <2>5. Passes(todo[o], todo'[o])
    BY <2>4 DEF Passes
  <2>6. /\ request'[o] = request[o] /\ seen'[o] = seen[o] /\ writes'[o] = writes[o]
        /\ shares'[o] = shares[o] /\ news'[o] = news[o] /\ answer'[o] = answer[o]
    BY <1>1, <1>2, <1>7
  <2>7. overtook'[o] \subseteq Threads \ {o}
    BY <1>1, <1>7, OvertakeFacts
  <2> QED BY <2>5, <2>6, <2>7 DEF Stays
<1>8. Domains'
  BY <1>1, <1>2, OvertakeFacts DEF Domains
<1>9. engine = "postgres" => \A o \in Threads \ {t} : DOMAIN writes'[t] \cap DOMAIN writes[o] = {}
  BY <1>3
<1> QED BY <1>1, <1>4, <1>6, <1>7, <1>8, <1>9, StepKeeps

LEMMA RespondKeeps ==
    ASSUME IInv, NEW t \in Threads, Respond(t)
    PROVE  IInv'
<1>1. /\ UNCHANGED <<engine, setting, db, copy, request, todo, seen, writes, shares, news, overtook>>
      /\ Typed /\ Domains /\ Table(db) /\ request \in [Threads -> Requests \cup {NoRequest}] /\ ThreadInv(t)
      /\ answer' = [answer EXCEPT ![t] = Status(request[t], db)]
  <2>1. Typed /\ ThreadInv(t)
    BY DEF IInv, Typed, ThreadInv
  <2> QED BY <2>1 DEF Respond, Typed
<1>2. DOMAIN answer = Threads /\ Status(request[t], db) \in {200, 500}
  <2> DEFINE lost == \/ request[t].op \in {"POST", "PUT", "PATCH"} /\ db[Node(request[t].node)] = "absent"
                     \/ request[t].op = "POST tag" /\ ~db[Tag(request[t].tag)]
  <2>0. Status(request[t], db) = IF lost THEN 500 ELSE 200
    BY DEF Status
  <2> HIDE DEF lost
  <2>1. Status(request[t], db) = 500 \/ Status(request[t], db) = 200
    BY <2>0
  <2> QED BY <1>1, <2>1 DEF Domains
<1>3. answer'[t] \in {200, 500} /\ \A o \in Threads \ {t} : answer'[o] = answer[o]
  BY <1>1, <1>2
<1>4. ThreadOK(t)' /\ HoldsInOrder(t)' /\ CreatesFirst(t)'
  <2> USE DEF ThreadInv
  <2>1. ThreadOK(t)'
    BY <1>1, <1>3 DEF ThreadOK, WritesFit, Running
  <2>2. HoldsInOrder(t)'
    BY <1>1 DEF HoldsInOrder, NewTag
  <2>3. CreatesFirst(t)'
    BY <1>1 DEF CreatesFirst
  <2> QED BY <2>1, <2>2, <2>3
<1>5. ASSUME NEW o \in Threads \ {t} PROVE Stays(o)
  BY <1>1, <1>3, SelfPasses DEF Stays, ThreadInv, ThreadOK
<1>6. Domains' /\ Table(db')
  BY <1>1, <1>2 DEF Domains
<1>7. engine = "postgres" => \A o \in Threads \ {t} : DOMAIN writes'[t] \cap DOMAIN writes[o] = {}
  BY <1>1 DEF IInv, LocksAreExclusive
<1> QED BY <1>1, <1>4, <1>5, <1>6, <1>7, StepKeeps DEF ThreadInv

LEMMA InitHasIInv ==
    ASSUME Init
    PROVE  IInv
<1>1. /\ engine \in Engines /\ setting \in Settings
      /\ request = [t \in Threads |-> NoRequest] /\ todo = [t \in Threads |-> <<>>]
      /\ seen = [t \in Threads |-> [parent |-> NoNode, nodes |-> {}, home |-> NoNode,
                                      resource |-> Absent]]
      /\ writes = [t \in Threads |-> <<>>] /\ shares = [t \in Threads |-> {}]
      /\ news = [t \in Threads |-> <<>>] /\ overtook = [t \in Threads |-> {}]
      /\ answer = [t \in Threads |-> 0]
  BY DEF Init
<1>2. Table(db)
  <2>1. db = RowsOf(setting) /\ DOMAIN db = Rows
    BY DEF Init, RowsOf
  <2>2. ASSUME NEW row \in Rows PROVE Fits(row, db[row])
    <3>1. CASE row[1] = "node"
      <4>1. db[row] = IF row[2] \in DOMAIN setting.kind THEN setting.kind[row[2]] ELSE "absent"
        BY <2>1, <3>1 DEF RowsOf
      <4>2. \A n \in DOMAIN setting.kind : setting.kind[n] \in Kinds
        BY <1>1, TransactionsAssumption
      <4> QED BY <3>1, <4>1, <4>2 DEF Fits
    <3>2. CASE row[1] = "edge"
      <4>1. db[row] = IF row[2] \in DOMAIN setting.parent THEN setting.parent[row[2]] ELSE NoNode
        BY <2>1, <3>2 DEF RowsOf
      <4>2. \A n \in DOMAIN setting.parent : setting.parent[n] \in NodeIds
        BY <1>1, TransactionsAssumption
      <4> QED BY <3>2, <4>1, <4>2 DEF Fits
    <3>3. CASE row[1] = "tag"
      <4>1. db[row] = (row[2] \in setting.tags)
        BY <2>1, <3>3 DEF RowsOf
      <4>2. db[row] \in BOOLEAN
        <5>1. (row[2] \in setting.tags) \in BOOLEAN
          OBVIOUS
        <5> QED BY <4>1, <5>1
      <4> QED BY <3>3, <4>2 DEF Fits
    <3>4. CASE row[1] = "mark"
      <4>1. db[row] = (row[2] \in DOMAIN setting.tagged /\ row[3] \in setting.tagged[row[2]])
        BY <2>1, <3>4 DEF RowsOf
      <4>2. db[row] \in BOOLEAN
        BY <4>1, Zenon
      <4> QED BY <3>4, <4>2 DEF Fits
    <3> QED BY <3>1, <3>2, <3>3, <3>4 DEF Fits
  <2> QED BY <2>1, <2>2 DEF Table
<1>3. ASSUME NEW t \in Threads
      PROVE  ThreadOK(t) /\ HoldsInOrder(t) /\ CreatesFirst(t)
  <2>1. /\ request[t] = NoRequest /\ todo[t] = <<>> /\ ~Running(t)
        /\ seen[t] = [parent |-> NoNode, nodes |-> {}, home |-> NoNode, resource |-> Absent]
        /\ writes[t] = <<>> /\ shares[t] = {} /\ news[t] = <<>> /\ overtook[t] = {} /\ answer[t] = 0
        /\ DOMAIN writes[t] = {} /\ DOMAIN news[t] = {}
    BY <1>1 DEF Running
  <2>2. seen[t] \in Memory
    BY <2>1 DEF Memory, Representations
  <2>3. Rest(<<>>, Scope(request[t]), Deleting(request[t]))
    BY DEF Rest
  <2> QED BY <2>1, <2>2, <2>3 DEF ThreadOK, WritesFit, HoldsInOrder, CreatesFirst
<1>4. Domains /\ request \in [Threads -> Requests \cup {NoRequest}]
  BY <1>1 DEF Domains
<1>5. LocksAreExclusive
  BY <1>1 DEF LocksAreExclusive
<1> QED BY <1>1, <1>2, <1>3, <1>4, <1>5 DEF IInv, Typed

LEMMA StepKeepsIInv ==
    ASSUME IInv, NEW t \in Threads, Step(t)
    PROVE  IInv'
<1>1. CASE \/ FetchNode(t) \/ EnsureChildless(t) \/ EnsureContainer(t) \/ EnsureAcyclic(t)
           \/ EnsureNewTag(t) \/ FetchTag(t) \/ PassBy(t)
  BY <1>1, ChecksKeep
<1>2. CASE FetchParent(t) \/ FetchChildren(t) \/ FetchBearers(t)
  BY <1>2, LooksKeep
<1>3. CASE FindHome(t) \/ FindOrphanContainer(t) \/ ReassignChildren(t) \/ Reassign(t)
  BY <1>3, DeletionReadsKeep
<1>4. CASE EnsureTag(t) \/ InsertMarks(t)
  BY <1>4, TagReadsKeep
<1>5. CASE \/ AnnounceUpdate(t) \/ AnnounceReplacement(t) \/ AnnounceDeletion(t)
           \/ AnnounceBearers(t) \/ AnnounceParents(t)
  BY <1>5, EventReadsKeep
<1>6. CASE DeleteEdge(t) \/ DeleteChildEdges(t) \/ DeleteMarks(t) \/ DeleteTagMarks(t)
  BY <1>6, DeletionsKeep
<1>7. CASE \/ CreateOrReplace(t) \/ InsertNode(t) \/ UpdateFields(t) \/ RemoveRow(t)
           \/ InsertEdge(t) \/ InsertMark(t) \/ InsertTag(t)
  BY <1>7, CreateOrReplaceKeeps, InsertNodeKeeps, UpdateFieldsKeeps, RemoveRowKeeps, InsertsKeep,
     InsertTagKeeps
<1>8. CASE DeleteNodeRow(t) \/ DeleteTagRow(t)
  BY <1>8, LastDeletionsKeep
<1>9. CASE Announce(t) \/ AppendEvent(t) \/ Commit(t)
  BY <1>9, AnnounceKeeps, AppendEventKeeps, CommitKeeps
<1>10. CASE ReadParent(t) \/ ReadChildren(t) \/ ReadChildTags(t) \/ ReadTags(t)
  BY <1>10, PieceReadsKeep
<1> QED BY <1>1, <1>2, <1>3, <1>4, <1>5, <1>6, <1>7, <1>8, <1>9, <1>10 DEF Step

LEMMA NextKeepsIInv ==
    ASSUME IInv, [Next]_vars
    PROVE  IInv'
<1>1. ASSUME NEW t \in Threads, Start(t) \/ Step(t) \/ Victim(t) \/ Timeout(t) \/ Respond(t)
      PROVE  IInv'
  <2>1. CASE Start(t)
    BY <2>1, StartKeeps
  <2>2. CASE Step(t)
    BY <2>2, StepKeepsIInv
  <2>3. CASE Victim(t) \/ Timeout(t)
    BY <2>3, EndKeeps DEF Victim, Timeout
  <2>4. CASE Respond(t)
    BY <2>4, RespondKeeps
  <2> QED BY <1>1, <2>1, <2>2, <2>3, <2>4
<1>2. CASE UNCHANGED vars
  <2>1. /\ UNCHANGED <<engine, setting, db, request, todo, seen, writes, shares, news, overtook, answer>>
    BY <1>2 DEF vars
  <2>2. Typed'
    BY <2>1 DEF IInv, Typed, Domains, ThreadOK, WritesFit, Running
  <2>3. ASSUME NEW t \in Threads
        PROVE  (HoldsInOrder(t) /\ CreatesFirst(t))'
    BY <2>1 DEF IInv, HoldsInOrder, NewTag, CreatesFirst
  <2>4. LocksAreExclusive'
    BY <2>1 DEF IInv, LocksAreExclusive
  <2> QED BY <2>2, <2>3, <2>4 DEF IInv
<1> QED BY <1>1, <1>2 DEF Next, Proceed

LEMMA Invariant == Spec => []IInv
BY InitHasIInv, NextKeepsIInv, PTL DEF Spec
-----------------------------------------------------------------------------
(* What a thread waits for.                                                    *)

LEMMA ScopeFacts ==
    ASSUME NEW r, ~Deleting(r), NEW row \in Scope(r)
    PROVE  /\ Bodies(r)
           /\ row[1] = "node" => row = Node(r.node)
           /\ row[1] = "edge" => row = Edge(r.node)
           /\ row[1] = "mark" => Lists(r) /\ \E u \in Tags : row = Mark(r.node, u)
<1>1. /\ Bodies(r)
      /\ \/ row \in {Node(r.node), Edge(r.node), Whole(r.node)}
         \/ Lists(r) /\ row \in MarksOf(r.node)
  BY DEF Scope
<1>2. /\ Node(r.node)[1] = "node" /\ Edge(r.node)[1] = "edge" /\ Whole(r.node)[1] = "whole"
      /\ \A u \in Tags : Mark(r.node, u)[1] = "mark"
  BY DEF Node, Edge, Whole, Mark
<1>3. CASE row \in {Node(r.node), Edge(r.node), Whole(r.node)}
  BY <1>1, <1>2, <1>3
<1>4. CASE Lists(r) /\ row \in MarksOf(r.node)
  BY <1>1, <1>2, <1>4 DEF MarksOf
<1> QED BY <1>1, <1>3, <1>4

LEMMA WrittenFacts ==
    ASSUME IInv, NEW o \in Threads, Running(o), ~Deleting(request[o]), NEW row \in Written(o, First(o))
    PROVE  /\ row[1] \in {"node", "edge", "mark"} => row \in Scope(request[o])
           /\ \/ row = Sequence /\ Rank(row) = 4 /\ (AnnouncesTag(First(o)) \/ Lowest(First(o)) = 4)
              \/ row[1] \in {"node", "edge", "mark", "tag"} /\ Lowest(First(o)) = Rank(row)
<1> DEFINE s == First(o)
<1>1. Doing(o, s)
  BY DEF Doing, First
<1> HIDE DEF s
<1>2. row \in Written(o, s)
  BY DEF s
<1>3. s # Finish
  BY <1>2 DEF Finish, Written
<1>4. s \in Statements /\ Reach(s) \subseteq Scope(request[o]) /\ ~DeletesSomething(s)
  BY <1>1, <1>3, FirstFacts
<1>5. \/ s[1] \in {"insert_node", "update_node"} /\ row = Node(s[2])
      \/ s[1] = "insert_edge" /\ row = Edge(s[2])
      \/ s[1] = "insert_mark" /\ row = Mark(s[2], s[3])
      \/ s[1] = "insert_tag" /\ row = Tag(s[2])
      \/ s[1] = "remove_row" /\ row = s[2]
      \/ s[1] = "append" /\ row = Sequence
  BY <1>2, <1>4 DEF Written, DeletesSomething
<1>6. CASE s[1] \in {"insert_node", "update_node"} /\ row = Node(s[2])
  <2>1. row[1] = "node" /\ Rank(row) = 1
    BY <1>6 DEF Node, Rank
  <2>2. row \in Reach(s) /\ Lowest(s) = 1
    BY <1>6 DEF Reach, Lowest, Stage, Wide
  <2> QED BY <1>4, <2>1, <2>2 DEF s
<1>7. CASE s[1] = "insert_edge" /\ row = Edge(s[2])
  <2>1. row[1] = "edge" /\ Rank(row) = 2
    BY <1>7 DEF Edge, Rank
  <2>2. row \in Reach(s) /\ Lowest(s) = 2
    BY <1>7 DEF Reach, Lowest, Stage, Wide
  <2> QED BY <1>4, <2>1, <2>2 DEF s
<1>8. CASE s[1] = "insert_mark" /\ row = Mark(s[2], s[3])
  <2>1. row[1] = "mark" /\ Rank(row) = 3
    BY <1>8 DEF Mark, Rank
  <2>2. Lowest(s) = 3
    BY <1>8 DEF Lowest, Stage, Wide
  <2>3. row \in Reach(s)
    <3>1. s[3] \in Tags
      BY <1>4, <1>8 DEF Statements
    <3> QED BY <1>8, <3>1 DEF Reach, MarksOf
  <2> QED BY <1>4, <2>1, <2>2, <2>3 DEF s
<1>9. CASE s[1] = "insert_tag" /\ row = Tag(s[2])
  <2>1. row[1] = "tag" /\ Rank(row) = 3
    BY <1>9 DEF Tag, Rank
  <2>2. Lowest(s) = 3
    BY <1>9 DEF Lowest, Stage, Wide
  <2> QED BY <2>1, <2>2 DEF s
<1>10. CASE s[1] = "remove_row" /\ row = s[2]
  <2>1. row[1] \in {"edge", "mark"} /\ Rank(row) \in {2, 3}
    BY <1>4, <1>10, Contents DEF Rank
  <2>2. row \in Reach(s) /\ Lowest(s) = Rank(row)
    BY <1>10, <2>1 DEF Reach, Lowest, Stage, Wide
  <2> QED BY <1>4, <2>1, <2>2 DEF s
<1>11. CASE s[1] = "append" /\ row = Sequence
  <2>1. row[1] = "event_sequence" /\ Rank(row) = 4
    BY <1>11 DEF Sequence, Rank
  <2>2. AnnouncesTag(s) \/ Lowest(s) = 4
    BY <1>11 DEF Lowest, Stage, Wide
  <2> QED BY <1>11, <2>1, <2>2 DEF s
<1> QED BY <1>5, <1>6, <1>7, <1>8, <1>9, <1>10, <1>11

(* SQLite: who has the database open waits for nobody but a reader, and a reader   *)
(* for nobody.                                                                     *)
LEMMA NoCircleOnSQLite ==
    ASSUME engine = "sqlite", NEW S \in SUBSET Threads
    PROVE  ~Circle(S)
<1> SUFFICES ASSUME Circle(S) PROVE FALSE
  OBVIOUS
<1>1. ASSUME NEW o \in S
      PROVE  \E b \in S : \/ todo[o][1][1] \in FirstWrites /\ ~Open(o) /\ Open(b)
                          \/ CommitsNow(o, todo[o][1]) /\ Walking(b)
  BY DEF Circle, Blockers
<1>2. ASSUME NEW o \in S PROVE ~Walking(o)
  <2> SUFFICES ASSUME Walking(o) PROVE FALSE
    OBVIOUS
  <2>1. todo[o][1][1] = "ensure_acyclic"
    BY DEF Walking, Doing
  <2> QED BY <1>1, <2>1 DEF FirstWrites, CommitsNow
<1>3. ASSUME NEW o \in S PROVE ~Open(o)
  BY <1>1, <1>2
<1>4. \E o \in S : TRUE
  BY DEF Circle
<1> QED BY <1>1, <1>2, <1>3, <1>4
-----------------------------------------------------------------------------
(* Foreign keys, on PostgreSQL: what a row refers to, and who keeps it there.        *)

Refs(row, value) ==
    IF row[1] = "edge" /\ value # NoNode THEN {Node(row[2]), Node(value)}
    ELSE IF row[1] = "mark" /\ value = TRUE THEN {Node(row[2]), Tag(row[3])}
    ELSE {}
Sound(v) == \A row \in Rows : \A ref \in Refs(row, v[row]) : v[ref] # Gone(ref)

(* On PostgreSQL: what a transaction sees is sound, it holds what its new rows      *)
(* refer to, and nobody else deletes that.                                         *)
KeepsReferences(t) ==
    /\ Sound(View(t))
    /\ \A row \in DOMAIN writes[t] : Refs(row, writes[t][row]) \subseteq shares[t]
    /\ \A row \in shares[t] : row[1] \in {"node", "tag"} /\ \A o \in Threads \ {t} : ~Deletes(o, row)
ReferencesAreKept == engine = "postgres" => Sound(db) /\ \A t \in Threads : KeepsReferences(t)

LEMMA OverAt ==
    ASSUME NEW f, NEW g, NEW x \in DOMAIN f \cup DOMAIN g
    PROVE  Over(f, g)[x] = IF x \in DOMAIN f THEN f[x] ELSE g[x]
BY DEF Over

LEMMA RefsAreRows ==
    ASSUME NEW row \in Rows, NEW value, Fits(row, value)
    PROVE  Refs(row, value) \subseteq Rows
<1>1. CASE row[1] = "edge" /\ value # NoNode
  <2>1. row[2] \in NodeIds /\ value \in NodeIds
    BY <1>1 DEF Rows, Fits, Node, Edge, Tag, Mark, Sequence, Database
  <2> QED BY <1>1, <2>1 DEF Refs, Rows
<1>2. CASE row[1] = "mark" /\ value = TRUE
  <2>1. row[2] \in NodeIds /\ row[3] \in Tags
    BY <1>2 DEF Rows, Node, Edge, Tag, Mark, Sequence, Database
  <2> QED BY <1>2, <2>1 DEF Refs, Rows
<1> QED BY <1>1, <1>2 DEF Refs

LEMMA UntouchedKeeps ==
    ASSUME ReferencesAreKept, UNCHANGED <<engine, db, writes, shares>>
    PROVE  ReferencesAreKept'
<1>1. \A t \in Threads : View(t)' = View(t)
  BY DEF View
<1> QED BY <1>1 DEF ReferencesAreKept, KeepsReferences, Deletes

LEMMA EndKeepsReferences ==
    ASSUME IInv, ReferencesAreKept, NEW t \in Threads, NEW status, End(t, status)
    PROVE  ReferencesAreKept'
<1>1. /\ UNCHANGED <<engine, db>> /\ DOMAIN db = Rows /\ writes' = [writes EXCEPT ![t] = <<>>]
      /\ shares' = [shares EXCEPT ![t] = {}] /\ DOMAIN writes = Threads /\ DOMAIN shares = Threads
  BY DEF End, IInv, Typed, Domains, Table
<1>2. writes'[t] = <<>> /\ DOMAIN writes'[t] = {} /\ shares'[t] = {}
  BY <1>1
<1>3. \A o \in Threads \ {t} : writes'[o] = writes[o] /\ shares'[o] = shares[o] /\ View(o)' = View(o)
  BY <1>1 DEF View
<1> SUFFICES ASSUME engine = "postgres" PROVE Sound(db) /\ \A o \in Threads : KeepsReferences(o)'
  BY <1>1 DEF ReferencesAreKept
<1>4. Sound(db)
  BY DEF ReferencesAreKept
<1>5. KeepsReferences(t)'
  <2>1. \A row \in Rows : View(t)'[row] = db[row]
    BY <1>1, <1>2 DEF View, Over
  <2>2. Sound(View(t)')
    <3>1. ASSUME NEW row \in Rows, NEW ref \in Refs(row, View(t)'[row])
          PROVE  View(t)'[ref] # Gone(ref)
      <4>1. ref \in Refs(row, db[row]) /\ Fits(row, db[row])
        BY <2>1, <3>1 DEF IInv, Typed, Table
      <4>2. ref \in Rows
        BY <4>1, RefsAreRows
      <4> QED BY <1>4, <2>1, <4>1, <4>2 DEF Sound
    <3> QED BY <3>1 DEF Sound
  <2> QED BY <1>2, <2>2 DEF KeepsReferences
<1>6. ASSUME NEW o \in Threads \ {t} PROVE KeepsReferences(o)'
  <2>1. KeepsReferences(o)
    BY DEF ReferencesAreKept
  <2>2. \A row : \A p \in Threads \ {o} : Deletes(p, row)' => Deletes(p, row)
    BY <1>2, <1>3 DEF Deletes
  <2> QED BY <1>3, <2>1, <2>2 DEF KeepsReferences, Sound
<1> QED BY <1>4, <1>5, <1>6

(* A commit shows the rows of t to o.                                            *)
LEMMA CommitKeepsReferences ==
    ASSUME IInv, ReferencesAreKept, NEW t \in Threads, Commit(t)
    PROVE  ReferencesAreKept'
<1>1. /\ engine' = engine /\ db' = View(t) /\ writes' = [writes EXCEPT ![t] = <<>>]
      /\ shares' = [shares EXCEPT ![t] = {}] /\ DOMAIN writes = Threads /\ DOMAIN shares = Threads
      /\ Typed
  BY DEF Commit, IInv, Typed, Domains
<1>2. writes'[t] = <<>> /\ DOMAIN writes'[t] = {} /\ shares'[t] = {}
  BY <1>1
<1>3. \A o \in Threads \ {t} : writes'[o] = writes[o] /\ shares'[o] = shares[o]
  BY <1>1
<1> SUFFICES ASSUME engine = "postgres" PROVE Sound(db') /\ \A o \in Threads : KeepsReferences(o)'
  BY <1>1 DEF ReferencesAreKept
<1>4. \A o \in Threads : KeepsReferences(o)
  BY DEF ReferencesAreKept
<1>5. DOMAIN db' = Rows /\ \A row \in Rows : Fits(row, db'[row])
  BY <1>1, ViewFits DEF Table
<1>6. Sound(db')
  BY <1>1, <1>4 DEF KeepsReferences
<1>7. \A o \in Threads : /\ DOMAIN writes[o] \subseteq Rows /\ DOMAIN writes'[o] \subseteq Rows
                         /\ \A row \in DOMAIN writes[o] : Fits(row, writes[o][row])
  BY <1>1, <1>2, <1>3 DEF Typed, ThreadOK, WritesFit
<1>8. \A o \in Threads : \A row \in Rows :
         View(o)'[row] = IF row \in DOMAIN writes'[o] THEN writes'[o][row] ELSE db'[row]
  BY <1>5, <1>7, OverAt DEF View
<1>9. KeepsReferences(t)'
  <2>1. ASSUME NEW row \in Rows, NEW ref \in Refs(row, View(t)'[row])
        PROVE  View(t)'[ref] # Gone(ref)
    <3>1. View(t)'[row] = db'[row]
      BY <1>2, <1>8
    <3>2. ref \in Rows
      BY <1>5, <2>1, <3>1, RefsAreRows
    <3> QED BY <1>2, <1>6, <1>8, <2>1, <3>1, <3>2 DEF Sound
  <2>2. Sound(View(t)')
    BY <2>1 DEF Sound
  <2> QED BY <1>2, <2>2 DEF KeepsReferences
<1>10. ASSUME NEW o \in Threads \ {t} PROVE KeepsReferences(o)'
  <2> DEFINE w == writes[o]
             x == writes[t]
  <2>1. /\ \A row \in Rows : View(o)[row] = IF row \in DOMAIN w THEN w[row] ELSE db[row]
        /\ \A row \in Rows : db'[row] = IF row \in DOMAIN x THEN x[row] ELSE db[row]
        /\ \A row \in Rows : View(o)'[row] = IF row \in DOMAIN w THEN w[row] ELSE db'[row]
    BY <1>1, <1>3, <1>8, ViewFits
  <2>2. /\ Sound(View(o)) /\ \A row \in DOMAIN w : Refs(row, w[row]) \subseteq shares[o]
        /\ \A row \in shares[o] : row[1] \in {"node", "tag"} /\ \A p \in Threads \ {o} : ~Deletes(p, row)
        /\ \A row \in DOMAIN x : Refs(row, x[row]) \subseteq shares[t]
        /\ \A row \in shares[t] : ~Deletes(o, row)
    BY <1>4 DEF KeepsReferences
  <2>3. /\ \A row \in shares[o] \cap DOMAIN x : x[row] # Gone(row)
        /\ \A row \in shares[t] \cap DOMAIN w : w[row] # Gone(row)
    BY <2>2 DEF Deletes
  <2>4. ASSUME NEW row \in Rows, NEW ref \in Refs(row, View(o)'[row])
        PROVE  View(o)'[ref] # Gone(ref)
    <3>1. CASE row \in DOMAIN w
      <4>1. ref \in Refs(row, w[row]) /\ ref \in Refs(row, View(o)[row])
        BY <2>1, <2>4, <3>1
      <4>2. ref \in Rows
        BY <1>7, <3>1, <4>1, RefsAreRows
      <4>3. View(o)[ref] # Gone(ref) /\ ref \in shares[o]
        BY <2>2, <3>1, <4>1 DEF Sound
      <4> HIDE DEF w, x
      <4> QED BY <2>1, <2>3, <4>2, <4>3
    <3>2. CASE row \notin DOMAIN w
      <4>1. ref \in Refs(row, db'[row])
        BY <2>1, <2>4, <3>2
      <4>2. ref \in Rows /\ db'[ref] # Gone(ref)
        BY <1>5, <1>6, <4>1, RefsAreRows DEF Sound
      <4>3. CASE row \in DOMAIN x
        <5>1. ref \in shares[t]
          BY <2>1, <2>2, <3>2, <4>1, <4>3
        <5> HIDE DEF w, x
        <5> QED BY <2>1, <2>3, <4>2, <5>1
      <4>4. CASE row \notin DOMAIN x
        <5>1. View(o)[row] = db'[row]
          BY <2>1, <3>2, <4>4
        <5>2. View(o)[ref] # Gone(ref)
          BY <2>2, <4>1, <5>1 DEF Sound
        <5> HIDE DEF w, x
        <5> QED BY <2>1, <4>2, <5>2
      <4> QED BY <4>3, <4>4
    <3> QED BY <3>1, <3>2
  <2>5. Sound(View(o)')
    BY <2>4 DEF Sound
  <2>6. \A row : \A p \in Threads \ {o} : Deletes(p, row)' => Deletes(p, row)
    BY <1>2, <1>3 DEF Deletes
  <2> QED BY <1>3, <2>2, <2>5, <2>6 DEF KeepsReferences
<1> QED BY <1>6, <1>9, <1>10

(* A statement that writes rows: what they refer to is there and is held, and      *)
(* nothing that remains refers to what is gone.                                    *)
LEMMA PublishKeepsReferences ==
    ASSUME IInv, ReferencesAreKept, NEW t \in Threads, NEW rows, NEW references, NEW events, NEW a,
           Publish(t, rows, references, events, a), DOMAIN rows \subseteq Rows,
           engine = "postgres" =>
              /\ \A row \in DOMAIN rows : /\ Refs(row, rows[row]) \subseteq references
                                          /\ Fits(row, rows[row])
              /\ \A ref \in references :
                    /\ ref \in Rows \ DOMAIN rows /\ ref[1] \in {"node", "tag"}
                    /\ View(t)[ref] # Gone(ref) /\ \A o \in Threads \ {t} : ~Deletes(o, ref)
              /\ \A row \in DOMAIN rows : rows[row] = Gone(row) /\ row[1] \in {"node", "tag"} =>
                    /\ \A other \in Rows \ DOMAIN rows : row \notin Refs(other, View(t)[other])
                    /\ \A o \in Threads \ {t} : row \notin shares[o]
    PROVE  ReferencesAreKept'
<1> SUFFICES ASSUME engine = "postgres" PROVE ReferencesAreKept'
  BY DEF ReferencesAreKept, Publish
<1>1. /\ engine' = engine /\ db' = db /\ Typed /\ DOMAIN writes = Threads /\ DOMAIN shares = Threads
      /\ DOMAIN db = Rows
      /\ writes' = [writes EXCEPT ![t] = Over(rows, Over(<<>>, @))]
      /\ shares' = [shares EXCEPT ![t] = @ \cup references]
  BY DEF Publish, IInv, Typed, Domains, Table
<1>2. writes'[t] = Over(rows, Over(<<>>, writes[t])) /\ shares'[t] = shares[t] \cup references
  BY <1>1
<1>3. \A o \in Threads \ {t} : writes'[o] = writes[o] /\ shares'[o] = shares[o] /\ View(o)' = View(o)
  BY <1>1 DEF View
<1> DEFINE w == writes'[t]
<1>4. /\ DOMAIN w = DOMAIN rows \cup DOMAIN writes[t]
      /\ \A row \in DOMAIN w : w[row] = IF row \in DOMAIN rows THEN rows[row] ELSE writes[t][row]
  <2>1. DOMAIN <<>> = {}
    OBVIOUS
  <2>2. Over(<<>>, writes[t]) = [x \in DOMAIN writes[t] |-> writes[t][x]]
    BY <2>1 DEF Over
  <2> HIDE DEF w
  <2>3. w = Over(rows, [x \in DOMAIN writes[t] |-> writes[t][x]])
    BY <1>2, <2>2 DEF w
  <2> QED BY <2>3 DEF Over
<1>5. DOMAIN writes[t] \subseteq Rows /\ \A row \in Rows : Fits(row, db[row])
  BY <1>1 DEF Typed, ThreadOK, WritesFit, Table
<1>6. \A row \in Rows : View(t)[row] = IF row \in DOMAIN writes[t] THEN writes[t][row] ELSE db[row]
  BY <1>1, ViewFits
<1>7. \A row \in Rows : View(t)'[row] = IF row \in DOMAIN w THEN w[row] ELSE db[row]
  BY <1>1, <1>4, <1>5, OverAt DEF View
<1> HIDE DEF w
<1>8. \A row \in Rows : View(t)'[row] = IF row \in DOMAIN rows THEN rows[row] ELSE View(t)[row]
  BY <1>4, <1>6, <1>7
<1>9. \A o \in Threads : KeepsReferences(o)
  BY DEF ReferencesAreKept
<1>10. Sound(View(t)')
  <2> SUFFICES ASSUME NEW row \in Rows, NEW ref \in Refs(row, View(t)'[row])
               PROVE  View(t)'[ref] # Gone(ref)
    BY DEF Sound
  <2>1. CASE row \in DOMAIN rows
    BY <1>8, <2>1
  <2>2. CASE row \notin DOMAIN rows
    <3>1. ref \in Refs(row, View(t)[row]) /\ Fits(row, View(t)[row])
      BY <1>1, <1>8, <2>2, ViewFits DEF Table
    <3>2. ref \in Rows /\ View(t)[ref] # Gone(ref)
      BY <1>9, <3>1, RefsAreRows DEF KeepsReferences, Sound
    <3>3. ref[1] \in {"node", "tag"}
      BY <3>1 DEF Refs, Node, Tag
    <3>4. ref \in DOMAIN rows => rows[ref] # Gone(ref)
      BY <2>2, <3>1, <3>3
    <3> QED BY <1>8, <3>2, <3>4
  <2> QED BY <2>1, <2>2
<1>11. KeepsReferences(t)'
  <2>1. \A row \in DOMAIN w : Refs(row, w[row]) \subseteq shares'[t]
    BY <1>2, <1>4, <1>9 DEF KeepsReferences
  <2>2. \A row \in shares'[t] : row[1] \in {"node", "tag"} /\ \A o \in Threads \ {t} : ~Deletes(o, row)
    BY <1>2, <1>9 DEF KeepsReferences
  <2>3. \A row : \A o \in Threads \ {t} : Deletes(o, row)' <=> Deletes(o, row)
    BY <1>3 DEF Deletes
  <2> QED BY <1>10, <2>1, <2>2, <2>3 DEF KeepsReferences, w
<1>12. ASSUME NEW o \in Threads \ {t} PROVE KeepsReferences(o)'
  <2>1. ASSUME NEW row \in shares[o], NEW p \in Threads \ {o}
        PROVE  row[1] \in {"node", "tag"} /\ ~Deletes(p, row)'
    <3>1. row[1] \in {"node", "tag"} /\ ~Deletes(p, row)
      BY <1>9 DEF KeepsReferences
    <3>2. CASE p = t
      <4>1. row \in DOMAIN rows => rows[row] # Gone(row)
        BY <1>12, <3>1
      <4> QED BY <1>4, <3>1, <3>2, <4>1 DEF Deletes, w
    <3>3. CASE p # t
      BY <1>3, <3>1, <3>3 DEF Deletes
    <3> QED BY <3>1, <3>2, <3>3
  <2> QED BY <1>3, <1>9, <2>1 DEF KeepsReferences
<1> QED BY <1>1, <1>9, <1>11, <1>12 DEF ReferencesAreKept

(* A statement that writes nothing that refers to anything, and deletes nothing      *)
(* that is referred to.                                                            *)
LEMMA PlainWritesKeepReferences ==
    ASSUME IInv, ReferencesAreKept, NEW t \in Threads, NEW rows, NEW events, NEW a,
           Publish(t, rows, {}, events, a), DOMAIN rows \subseteq Rows,
           \A row \in DOMAIN rows : /\ Refs(row, rows[row]) = {} /\ Fits(row, rows[row])
                                    /\ row[1] \in {"node", "tag"} => rows[row] # Gone(row)
    PROVE  ReferencesAreKept'
BY PublishKeepsReferences

LEMMA ReadKeepsReferences ==
    ASSUME IInv, ReferencesAreKept, NEW t \in Threads, NEW values, NEW a, Learn(t, values, a)
    PROVE  ReferencesAreKept'
BY UntouchedKeeps DEF Learn

LEMMA LooksKeepReferences ==
    ASSUME IInv, ReferencesAreKept, NEW t \in Threads,
           \/ FetchNode(t) \/ CreateOrReplace(t) \/ FetchParent(t) \/ EnsureChildless(t)
           \/ EnsureContainer(t) \/ EnsureAcyclic(t) \/ FindHome(t) \/ FindOrphanContainer(t)
           \/ FetchChildren(t) \/ ReassignChildren(t) \/ Reassign(t) \/ EnsureNewTag(t) \/ EnsureTag(t)
           \/ FetchTag(t) \/ FetchBearers(t) \/ PassBy(t) \/ InsertMarks(t) \/ AnnounceUpdate(t)
           \/ AnnounceReplacement(t) \/ AnnounceDeletion(t) \/ AnnounceBearers(t) \/ AnnounceParents(t)
           \/ ReadParent(t) \/ ReadChildren(t) \/ ReadChildTags(t) \/ ReadTags(t)
    PROVE  ReferencesAreKept'
<1>1. ASSUME \E status : End(t, status) PROVE ReferencesAreKept'
  BY <1>1, EndKeepsReferences
<1>2. ASSUME \E values, a : Learn(t, values, a) PROVE ReferencesAreKept'
  BY <1>2, ReadKeepsReferences
<1>3. ASSUME \E a : Read(t, a) PROVE ReferencesAreKept'
  BY <1>2, <1>3 DEF Read
<1>4. CASE \/ FetchNode(t) \/ EnsureChildless(t) \/ EnsureContainer(t) \/ EnsureAcyclic(t)
           \/ EnsureNewTag(t) \/ FetchTag(t)
  <2>1. (\E a : Read(t, a)) \/ \E status : End(t, status)
    BY <1>4, Zenon DEF Check, FetchNode, EnsureChildless, EnsureContainer, EnsureAcyclic, EnsureNewTag,
       FetchTag
  <2> QED BY <1>1, <1>3, <2>1
<1>5. CASE FetchParent(t) \/ FetchChildren(t) \/ FetchBearers(t)
  BY <1>2, <1>5, Zenon DEF FetchParent, FetchChildren, FetchBearers
<1>6. CASE CreateOrReplace(t) \/ FindHome(t) \/ ReassignChildren(t) \/ Reassign(t)
  BY <1>3, <1>6, Zenon DEF CreateOrReplace, FindHome, ReassignChildren, Reassign
<1>7. CASE FindOrphanContainer(t)
  BY <1>2, <1>7, Zenon DEF FindOrphanContainer
<1>8. CASE EnsureTag(t) \/ PassBy(t) \/ InsertMarks(t)
  BY <1>3, <1>8, Zenon DEF EnsureTag, PassBy, InsertMarks
<1>9. CASE AnnounceUpdate(t) \/ AnnounceReplacement(t) \/ AnnounceDeletion(t)
  BY <1>3, <1>9, Zenon DEF AnnounceUpdate, AnnounceReplacement, AnnounceDeletion
<1>10. CASE AnnounceBearers(t) \/ AnnounceParents(t)
  BY <1>3, <1>10, Zenon DEF AnnounceBearers, AnnounceParents
<1>11. CASE ReadParent(t) \/ ReadChildren(t) \/ ReadChildTags(t)
  BY <1>2, <1>11, Zenon DEF ReadParent, ReadChildren, ReadChildTags
<1>12. CASE ReadTags(t)
  BY <1>3, <1>12, Zenon DEF ReadTags
<1> QED BY <1>4, <1>5, <1>6, <1>7, <1>8, <1>9, <1>10, <1>11, <1>12

(* An insert under a SAVEPOINT that is a write of the transaction, on PostgreSQL.     *)
LEMMA SavepointKeepsReferences ==
    ASSUME IInv, ReferencesAreKept, NEW t \in Threads, NEW row \in Rows, NEW value, NEW a,
           row[1] \in {"node", "tag"}, value # Gone(row), Fits(row, value),
           InsertUnderSavepoint(t, row, value, a)
    PROVE  ReferencesAreKept'
<1>1. CASE ReleaseCommits(t)
  <2>1. engine = "sqlite" /\ engine' = engine
    BY <1>1 DEF InsertUnderSavepoint, ReleaseCommits
  <2> QED BY <2>1 DEF ReferencesAreKept
<1>2. CASE ~ReleaseCommits(t)
  <2> DEFINE rows == Only(row, value)
  <2>1. Publish(t, rows, {}, <<>>, a)
    BY <1>2 DEF InsertUnderSavepoint, Write
  <2>2. DOMAIN rows = {row} /\ rows[row] = value
    BY OnlyFacts
  <2>3. Refs(row, value) = {}
    BY DEF Refs
  <2> HIDE DEF rows
  <2> QED BY <2>1, <2>2, <2>3, PlainWritesKeepReferences
<1> QED BY <1>1, <1>2

LEMMA InsertNodeKeepsReferences ==
    ASSUME IInv, ReferencesAreKept, NEW t \in Threads, InsertNode(t)
    PROVE  ReferencesAreKept'
<1>1. PICK n \in NodeIds, kind \in Kinds :
         (\E status : End(t, status)) \/ InsertUnderSavepoint(t, Node(n), kind, <<>>)
  BY Zenon DEF InsertNode
<1>2. /\ Node(n) \in Rows /\ Node(n)[1] \in {"node", "tag"} /\ Fits(Node(n), kind)
      /\ kind # Gone(Node(n))
  BY DEF Rows, Node, Fits, Kinds, Gone
<1> QED BY <1>1, <1>2, EndKeepsReferences, SavepointKeepsReferences

LEMMA InsertTagKeepsReferences ==
    ASSUME IInv, ReferencesAreKept, NEW t \in Threads, InsertTag(t)
    PROVE  ReferencesAreKept'
<1>1. PICK u \in Tags :
         (\E a : Read(t, a)) \/ \E a : InsertUnderSavepoint(t, Tag(u), TRUE, a)
  BY Zenon DEF InsertTag
<1>2. Tag(u) \in Rows /\ Tag(u)[1] = "tag"
  BY DEF Rows, Tag
<1>3. Gone(Tag(u)) = FALSE
  BY <1>2, Zenon DEF Gone
<1>4. PICK yes \in BOOLEAN : yes = TRUE
  OBVIOUS
<1>5. Fits(Tag(u), yes)
  BY <1>2 DEF Fits
<1>6. yes # Gone(Tag(u))
  BY <1>3, <1>4
<1>7. CASE \E a : Read(t, a)
  BY <1>7, ReadKeepsReferences DEF Read
<1>8. CASE \E a : InsertUnderSavepoint(t, Tag(u), TRUE, a)
  <2>1. PICK a : InsertUnderSavepoint(t, Tag(u), yes, a)
    BY <1>4, <1>8, Zenon
  <2> QED BY <1>2, <1>5, <1>6, <2>1, SavepointKeepsReferences
<1> QED BY <1>1, <1>7, <1>8

LEMMA UpdateFieldsKeepsReferences ==
    ASSUME IInv, ReferencesAreKept, NEW t \in Threads, UpdateFields(t)
    PROVE  ReferencesAreKept'
<1>1. \/ \E status : End(t, status)
      \/ \E n \in NodeIds, kind \in Kinds : Publish(t, Only(Node(n), kind), {}, <<>>, <<>>)
      \/ Publish(t, <<>>, {}, <<>>, <<>>)
  <2>1. PICK n \in NodeIds, given \in Kinds \cup {Relabel} :
           LET old == View(t)[Node(n)]
               new == IF given = Relabel THEN old ELSE given
           IN  IF old = "absent" /\ request[t].op = "PATCH" THEN End(t, 404)
               ELSE Write(t, IF old = "absent" THEN <<>> ELSE Only(Node(n), new), <<>>)
    BY Zenon DEF UpdateFields
  <2> DEFINE old == View(t)[Node(n)]
             new == IF given = Relabel THEN old ELSE given
  <2>2. old # "absent" => new \in Kinds
    BY Sights
  <2> HIDE DEF new
  <2>3. \/ End(t, 404)
        \/ old = "absent" /\ Publish(t, <<>>, {}, <<>>, <<>>)
        \/ old # "absent" /\ Publish(t, Only(Node(n), new), {}, <<>>, <<>>)
    BY <2>1, Zenon DEF Write, new
  <2> QED BY <2>2, <2>3
<1>2. CASE Publish(t, <<>>, {}, <<>>, <<>>)
  <2>1. DOMAIN <<>> = {}
    OBVIOUS
  <2> QED BY <1>2, <2>1, PlainWritesKeepReferences
<1>3. ASSUME NEW n \in NodeIds, NEW kind \in Kinds, Publish(t, Only(Node(n), kind), {}, <<>>, <<>>)
      PROVE  ReferencesAreKept'
  <2> DEFINE rows == Only(Node(n), kind)
  <2>1. DOMAIN rows = {Node(n)} /\ rows[Node(n)] = kind
    BY OnlyFacts
  <2>2. /\ Node(n) \in Rows /\ Fits(Node(n), kind) /\ Refs(Node(n), kind) = {} /\ kind # Gone(Node(n))
    BY <1>3 DEF Rows, Node, Fits, Kinds, Gone, Refs
  <2>3. Publish(t, rows, {}, <<>>, <<>>)
    BY <1>3
  <2> HIDE DEF rows
  <2> QED BY <2>1, <2>2, <2>3, PlainWritesKeepReferences
<1> QED BY <1>1, <1>2, <1>3, EndKeepsReferences

LEMMA DeleteRowsKeepsReferences ==
    ASSUME IInv, ReferencesAreKept, NEW t \in Threads,
           DeleteEdge(t) \/ DeleteChildEdges(t) \/ DeleteMarks(t) \/ DeleteTagMarks(t)
    PROVE  ReferencesAreKept'
<1>1. \E a : Publish(t, <<>>, {}, <<>>, a)
  BY Zenon DEF DeleteEdge, DeleteChildEdges, DeleteMarks, DeleteTagMarks, DeleteRows, Write
<1>2. DOMAIN <<>> = {}
  OBVIOUS
<1> QED BY <1>1, <1>2, PlainWritesKeepReferences

LEMMA RemoveRowKeepsReferences ==
    ASSUME IInv, ReferencesAreKept, NEW t \in Threads, RemoveRow(t)
    PROVE  ReferencesAreKept'
<1>1. PICK row \in Rows :
         /\ Doing(t, <<"remove_row", row>>)
         /\ Publish(t, Only(row, Gone(row)), {}, <<>>, <<>>)
  BY DEF RemoveRow, Write
<1>2. <<"remove_row", row>> \in Statements
  BY <1>1, FirstFacts DEF Finish
<1>3. row[1] \in {"edge", "mark"}
  BY <1>2, Contents
<1>4. Refs(row, Gone(row)) = {}
  BY <1>3 DEF Refs, Gone
<1>5. Fits(row, Gone(row))
  BY GoneFits
<1> DEFINE rows == Only(row, Gone(row))
<1>6. DOMAIN rows = {row} /\ rows[row] = Gone(row)
  BY OnlyFacts
<1>7. Publish(t, rows, {}, <<>>, <<>>)
  BY <1>1
<1> HIDE DEF rows
<1> QED BY <1>3, <1>4, <1>5, <1>6, <1>7, PlainWritesKeepReferences

LEMMA EventsKeepReferences ==
    ASSUME IInv, ReferencesAreKept, NEW t \in Threads, Announce(t) \/ AppendEvent(t)
    PROVE  ReferencesAreKept'
<1>1. (\E values, a : Learn(t, values, a)) \/ \E events : Publish(t, Only(Sequence, TRUE), {}, events, <<>>)
  BY AnnounceCases, Zenon DEF Begins, Read, AppendEvent, PublishEvent
<1> DEFINE rows == Only(Sequence, TRUE)
<1>2. DOMAIN rows = {Sequence} /\ Sequence \in Rows /\ Sequence[1] = "event_sequence"
  <2>1. DOMAIN rows = {Sequence}
    BY OnlyFacts
  <2> HIDE DEF rows
  <2> QED BY <2>1 DEF Rows, Sequence
<1>3. Refs(Sequence, rows[Sequence]) = {} /\ Fits(Sequence, rows[Sequence])
  BY <1>2 DEF Refs, Fits
<1>4. CASE \E values, a : Learn(t, values, a)
  BY <1>4, ReadKeepsReferences
<1>5. CASE \E events : Publish(t, rows, {}, events, <<>>)
  <2> HIDE DEF rows
  <2> QED BY <1>2, <1>3, <1>5, PlainWritesKeepReferences
<1> QED BY <1>1, <1>4, <1>5

(* An insert whose foreign keys have been looked up, on PostgreSQL, once whoever     *)
(* deletes what they refer to is through.                                           *)
LEMMA InsertKeepsReferences ==
    ASSUME IInv, ReferencesAreKept, NEW t \in Threads, NEW s, Doing(t, s), Granted(t),
           NEW row \in Rows, NEW value, Fits(row, value), row[1] \in {"edge", "mark"},
           Refs(row, value) \subseteq References(s), References(s) \subseteq Rows,
           Insert(t, Only(row, value), References(s))
    PROVE  ReferencesAreKept'
<1> SUFFICES ASSUME engine = "postgres" PROVE ReferencesAreKept'
  BY DEF ReferencesAreKept, Insert, End, Publish
<1> DEFINE rows == Only(row, value)
<1>1. DOMAIN rows = {row} /\ rows[row] = value
  BY OnlyFacts
<1>2. CASE End(t, 500)
  BY <1>2, EndKeepsReferences
<1>3. CASE /\ \A ref \in References(s) : View(t)[ref] # Gone(ref)
           /\ Publish(t, rows, References(s), <<>>, <<>>)
  <2>1. \A ref \in References(s) : ref[1] \in {"node", "tag"}
    BY DEF References, Node, Tag
  <2>2. \A ref \in References(s) : \A o \in Threads \ {t} : ~Deletes(o, ref)
    BY DEF Granted, Blockers, Doing
  <2> HIDE DEF rows
  <2>3. \A ref \in References(s) : ref \in Rows \ DOMAIN rows
    BY <1>1, <2>1
  <2> QED BY <1>1, <1>3, <2>1, <2>2, <2>3, PublishKeepsReferences
<1> QED BY <1>2, <1>3 DEF Insert

LEMMA InsertsKeepReferences ==
    ASSUME IInv, ReferencesAreKept, NEW t \in Threads, InsertEdge(t) \/ InsertMark(t)
    PROVE  ReferencesAreKept'
<1>1. CASE InsertEdge(t)
  <2>1. PICK n \in NodeIds, p \in NodeIds :
           /\ Doing(t, <<"insert_edge", n, p>>) /\ Granted(t)
           /\ End(t, 500) \/ Insert(t, Only(Edge(n), p), References(todo[t][1]))
    BY <1>1 DEF InsertEdge
  <2> DEFINE s == <<"insert_edge", n, p>>
  <2>2. /\ References(s) = {Node(n), Node(p)} /\ References(s) \subseteq Rows
        /\ Edge(n) \in Rows /\ Edge(n)[1] \in {"edge", "mark"} /\ Fits(Edge(n), p)
        /\ Refs(Edge(n), p) \subseteq {Node(n), Node(p)}
    BY DEF References, Rows, Edge, Fits, Refs
  <2>3. todo[t][1] = s
    BY <2>1 DEF Doing
  <2>4. Doing(t, s) /\ (End(t, 500) \/ Insert(t, Only(Edge(n), p), References(s)))
    BY <2>1, <2>3
  <2> HIDE DEF s
  <2> QED BY <2>1, <2>2, <2>4, InsertKeepsReferences, EndKeepsReferences
<1>2. CASE InsertMark(t)
  <2>1. PICK n \in NodeIds, u \in Tags :
           /\ Doing(t, <<"insert_mark", n, u>>) /\ Granted(t)
           /\ Insert(t, Only(Mark(n, u), TRUE), References(todo[t][1]))
    BY <1>2 DEF InsertMark
  <2>2. PICK yes \in BOOLEAN : yes = TRUE
    OBVIOUS
  <2> DEFINE s == <<"insert_mark", n, u>>
  <2>3. /\ References(s) = {Node(n), Tag(u)} /\ References(s) \subseteq Rows
        /\ Mark(n, u) \in Rows /\ Mark(n, u)[1] \in {"edge", "mark"} /\ Fits(Mark(n, u), yes)
        /\ Refs(Mark(n, u), yes) \subseteq {Node(n), Tag(u)}
    BY DEF References, Rows, Mark, Fits, Refs
  <2>4. todo[t][1] = s
    BY <2>1 DEF Doing
  <2>5. Doing(t, s)
    BY <2>1
  <2> HIDE DEF s
  <2>6. Insert(t, Only(Mark(n, u), yes), References(s))
    BY <2>1, <2>2, <2>4, Zenon
  <2> QED BY <2>1, <2>3, <2>5, <2>6, InsertKeepsReferences
<1> QED BY <1>1, <1>2

(* The last DELETE takes along whatever refers to its row, and waits for those who   *)
(* have inserted a foreign key on it.                                               *)
LEMMA DeleteLastKeepsReferences ==
    ASSUME IInv, ReferencesAreKept, NEW t \in Threads, NEW s, NEW row \in Rows,
           Cascade(View(t), row) \subseteq Rows, DeleteLast(t, s, row), Deleted(s) = {row},
           \A other \in Cascade(View(t), row) : other[1] \in {"edge", "mark"},
           \A other \in Rows : row \in Refs(other, View(t)[other]) => other \in Cascade(View(t), row)
    PROVE  ReferencesAreKept'
<1> SUFFICES ASSUME engine = "postgres" PROVE ReferencesAreKept'
  BY DEF ReferencesAreKept, DeleteLast, End, Write, Publish
<1> DEFINE rows == [r \in {row} \cup Cascade(View(t), row) |-> Gone(r)]
<1>1. CASE End(t, 404)
  BY <1>1, EndKeepsReferences
<1>2. CASE Publish(t, rows, {}, <<>>, <<>>)
  <2>1. DOMAIN rows = {row} \cup Cascade(View(t), row) /\ \A r \in DOMAIN rows : rows[r] = Gone(r)
    OBVIOUS
  <2>2. \A r : Refs(r, Gone(r)) = {}
    BY DEF Refs, Gone
  <2>3. \A r : Fits(r, Gone(r))
    BY GoneFits
  <2>4. \A o \in Threads \ {t} : row \notin shares[o]
    BY DEF DeleteLast, Granted, Blockers, Doing
  <2> HIDE DEF rows
  <2> QED BY <1>2, <2>1, <2>2, <2>3, <2>4, PublishKeepsReferences
<1> QED BY <1>1, <1>2 DEF DeleteLast, Write

LEMMA LastDeletionsKeepReferences ==
    ASSUME IInv, ReferencesAreKept, NEW t \in Threads, DeleteNodeRow(t) \/ DeleteTagRow(t)
    PROVE  ReferencesAreKept'
<1> DEFINE v == View(t)
<1>0. \A row \in Rows : Fits(row, v[row])
  BY ViewFits DEF IInv, Table
<1> HIDE DEF v
<1>1. ASSUME NEW n \in NodeIds, DeleteLast(t, <<"delete_node", n>>, Node(n))
      PROVE  ReferencesAreKept'
  <2> DEFINE row == Node(n)
             R == {Edge(c) : c \in ChildrenIn(v, n)} \cup {Mark(n, u) : u \in MarksIn(v, n)}
                     \cup {e \in {Edge(n)} : v[e] # NoNode}
  <2>1. Cascade(v, row) = R
    BY DEF Cascade, Node
  <2>2. \A other \in R : other[1] \in {"edge", "mark"}
    BY DEF Edge, Mark
  <2>3. ASSUME NEW other \in Rows, row \in Refs(other, v[other])
        PROVE  other \in R
    <3>1. CASE other[1] = "edge" /\ v[other] # NoNode
      <4>1. PICK c \in NodeIds : other = Edge(c)
        BY <3>1 DEF Rows, Node, Edge, Tag, Mark, Sequence, Database
      <4>2. row \in {Node(c), Node(v[other])}
        BY <2>3, <3>1, <4>1 DEF Refs, Edge
      <4>3. c = n \/ v[Edge(c)] = n
        BY <4>1, <4>2 DEF Node
      <4> QED BY <3>1, <4>1, <4>3 DEF ChildrenIn
    <3>2. CASE other[1] = "mark" /\ v[other] = TRUE
      <4>1. PICK m \in NodeIds, u \in Tags : other = Mark(m, u)
        BY <3>2 DEF Rows, Node, Edge, Tag, Mark, Sequence, Database
      <4>2. row \in {Node(m), Tag(u)}
        BY <2>3, <3>2, <4>1 DEF Refs, Mark
      <4>3. m = n
        BY <4>2 DEF Node, Tag
      <4>4. u \in MarksIn(v, n)
        BY <3>2, <4>1, <4>3 DEF MarksIn
      <4> QED BY <4>1, <4>3, <4>4
    <3> QED BY <2>3, <3>1, <3>2 DEF Refs
  <2>4. row \in Rows /\ Cascade(v, row) \subseteq Rows
    BY CascadeFacts
  <2>5. Deleted(<<"delete_node", n>>) = {row}
    BY DEF Deleted
  <2> HIDE DEF row, R
  <2> QED BY <1>1, <2>1, <2>2, <2>3, <2>4, <2>5, DeleteLastKeepsReferences DEF v, row
<1>2. ASSUME NEW u \in Tags, DeleteLast(t, <<"delete_tag", u>>, Tag(u))
      PROVE  ReferencesAreKept'
  <2> DEFINE row == Tag(u)
             R == {Mark(m, u) : m \in BearersIn(v, u)}
  <2>1. Cascade(v, row) = R
    BY DEF Cascade, Tag
  <2>2. \A other \in R : other[1] \in {"edge", "mark"}
    BY DEF Mark
  <2>3. ASSUME NEW other \in Rows, row \in Refs(other, v[other])
        PROVE  other \in R
    <3>1. other[1] = "mark" /\ v[other] = TRUE
      BY <2>3 DEF Refs, Node, Tag
    <3>2. PICK m \in NodeIds, w \in Tags : other = Mark(m, w)
      BY <3>1 DEF Rows, Node, Edge, Tag, Mark, Sequence, Database
    <3>3. row \in {Node(m), Tag(w)}
      BY <2>3, <3>1, <3>2 DEF Refs, Mark
    <3>4. w = u
      BY <3>3 DEF Node, Tag
    <3>5. m \in BearersIn(v, u)
      BY <3>1, <3>2, <3>4 DEF BearersIn
    <3> QED BY <3>2, <3>4, <3>5
  <2>4. row \in Rows /\ Cascade(v, row) \subseteq Rows
    BY CascadeFacts
  <2>5. Deleted(<<"delete_tag", u>>) = {row}
    BY DEF Deleted
  <2> HIDE DEF row, R
  <2> QED BY <1>2, <2>1, <2>2, <2>3, <2>4, <2>5, DeleteLastKeepsReferences DEF v, row
<1> QED BY <1>1, <1>2 DEF DeleteNodeRow, DeleteTagRow

LEMMA StepKeepsReferences ==
    ASSUME IInv, ReferencesAreKept, NEW t \in Threads, Step(t)
    PROVE  ReferencesAreKept'
<1>1. CASE \/ FetchNode(t) \/ CreateOrReplace(t) \/ FetchParent(t) \/ EnsureChildless(t)
           \/ EnsureContainer(t) \/ EnsureAcyclic(t) \/ FindHome(t) \/ FindOrphanContainer(t)
           \/ FetchChildren(t) \/ ReassignChildren(t) \/ Reassign(t) \/ EnsureNewTag(t) \/ EnsureTag(t)
           \/ FetchTag(t) \/ FetchBearers(t) \/ PassBy(t) \/ InsertMarks(t) \/ AnnounceUpdate(t)
           \/ AnnounceReplacement(t) \/ AnnounceDeletion(t) \/ AnnounceBearers(t) \/ AnnounceParents(t)
           \/ ReadParent(t) \/ ReadChildren(t) \/ ReadChildTags(t) \/ ReadTags(t)
  BY <1>1, LooksKeepReferences
<1>2. CASE InsertNode(t) \/ InsertTag(t) \/ UpdateFields(t)
  BY <1>2, InsertNodeKeepsReferences, InsertTagKeepsReferences, UpdateFieldsKeepsReferences
<1>3. CASE DeleteEdge(t) \/ DeleteChildEdges(t) \/ DeleteMarks(t) \/ DeleteTagMarks(t)
  BY <1>3, DeleteRowsKeepsReferences
<1>4. CASE RemoveRow(t) \/ Announce(t) \/ AppendEvent(t)
  BY <1>4, RemoveRowKeepsReferences, EventsKeepReferences
<1>5. CASE InsertEdge(t) \/ InsertMark(t)
  BY <1>5, InsertsKeepReferences
<1>6. CASE DeleteNodeRow(t) \/ DeleteTagRow(t)
  BY <1>6, LastDeletionsKeepReferences
<1>7. CASE Commit(t)
  BY <1>7, CommitKeepsReferences
<1> QED BY <1>1, <1>2, <1>3, <1>4, <1>5, <1>6, <1>7 DEF Step

LEMMA NextKeepsReferences ==
    ASSUME IInv, ReferencesAreKept, [Next]_vars
    PROVE  ReferencesAreKept'
<1>1. ASSUME NEW t \in Threads, Start(t) \/ Step(t) \/ Victim(t) \/ Timeout(t) \/ Respond(t)
      PROVE  ReferencesAreKept'
  <2>1. CASE Start(t) \/ Respond(t)
    BY <2>1, UntouchedKeeps DEF Start, Respond
  <2>2. CASE Victim(t) \/ Timeout(t)
    BY <2>2, EndKeepsReferences DEF Victim, Timeout
  <2> QED BY <1>1, <2>1, <2>2, StepKeepsReferences
<1>2. CASE UNCHANGED vars
  BY <1>2, UntouchedKeeps DEF vars
<1> QED BY <1>1, <1>2 DEF Next, Proceed

LEMMA InitIsSound ==
    ASSUME Init
    PROVE  ReferencesAreKept
<1> DEFINE g == setting
<1>1. /\ \A n \in DOMAIN g.parent : {n, g.parent[n]} \subseteq DOMAIN g.kind
      /\ \A n \in DOMAIN g.tagged : n \in DOMAIN g.kind /\ g.tagged[n] \subseteq g.tags
      /\ \A n \in DOMAIN g.kind : g.kind[n] \in Kinds
      /\ DOMAIN g.kind \subseteq NodeIds /\ g.tags \subseteq Tags
  BY TransactionsAssumption DEF Init
<1>2. /\ \A n \in NodeIds : n \in DOMAIN g.kind => db[Node(n)] # Gone(Node(n))
      /\ \A u \in Tags : u \in g.tags => db[Tag(u)] # Gone(Tag(u))
  <2>1. ASSUME NEW n \in NodeIds, n \in DOMAIN g.kind PROVE db[Node(n)] # Gone(Node(n))
    <3>1. Node(n) \in Rows /\ Node(n)[1] = "node" /\ Node(n)[2] = n
      BY DEF Node, Rows
    <3>2. db[Node(n)] = g.kind[n]
      BY <2>1, <3>1 DEF Init, RowsOf
    <3> QED BY <1>1, <2>1, <3>1, <3>2 DEF Kinds, Gone
  <2>2. ASSUME NEW u \in Tags, u \in g.tags PROVE db[Tag(u)] # Gone(Tag(u))
    <3>1. Tag(u) \in Rows /\ Tag(u)[1] = "tag" /\ Tag(u)[2] = u
      BY DEF Tag, Rows
    <3>2. db[Tag(u)] = (u \in g.tags)
      BY <3>1 DEF Init, RowsOf
    <3>3. Gone(Tag(u)) = FALSE
      BY <3>1, Zenon DEF Gone
    <3> QED BY <2>2, <3>2, <3>3
  <2> QED BY <2>1, <2>2
<1>3. ASSUME NEW row \in Rows, NEW ref \in Refs(row, db[row]) PROVE db[ref] # Gone(ref)
  <2>1. CASE row[1] = "edge" /\ db[row] # NoNode
    <3>1. PICK n \in NodeIds : row = Edge(n)
      BY <2>1 DEF Rows, Node, Edge, Tag, Mark, Sequence, Database
    <3>2. db[row] = IF n \in DOMAIN g.parent THEN g.parent[n] ELSE NoNode
      BY <3>1 DEF Init, RowsOf, Edge
    <3>3. n \in DOMAIN g.kind /\ db[row] \in DOMAIN g.kind
      BY <1>1, <2>1, <3>2
    <3>4. ref \in {Node(n), Node(db[row])}
      BY <1>3, <2>1, <3>1 DEF Refs, Edge
    <3> QED BY <1>1, <1>2, <3>3, <3>4
  <2>2. CASE row[1] = "mark" /\ db[row] = TRUE
    <3>1. PICK n \in NodeIds, u \in Tags : row = Mark(n, u)
      BY <2>2 DEF Rows, Node, Edge, Tag, Mark, Sequence, Database
    <3>2. db[row] = (n \in DOMAIN g.tagged /\ u \in g.tagged[n])
      BY <3>1 DEF Init, RowsOf, Mark
    <3>3. n \in DOMAIN g.tagged /\ u \in g.tagged[n]
      BY <2>2, <3>2
    <3>4. ref \in {Node(n), Tag(u)}
      BY <1>3, <2>2, <3>1 DEF Refs, Mark
    <3> QED BY <1>1, <1>2, <3>3, <3>4
  <2> QED BY <1>3, <2>1, <2>2 DEF Refs
<1>4. Sound(db)
  BY <1>3 DEF Sound
<1>5. ASSUME NEW t \in Threads PROVE KeepsReferences(t)
  <2>1. writes[t] = <<>> /\ DOMAIN writes[t] = {} /\ shares[t] = {}
    BY DEF Init
  <2>2. \A row \in Rows : View(t)[row] = db[row]
    BY <2>1, InitHasIInv, ViewFits DEF IInv
  <2>3. ASSUME NEW row \in Rows, NEW ref \in Refs(row, View(t)[row])
        PROVE  View(t)[ref] # Gone(ref)
    <3>1. ref \in Refs(row, db[row]) /\ Fits(row, db[row])
      BY <2>2, <2>3, InitHasIInv DEF IInv, Typed, Table
    <3>2. ref \in Rows
      BY <3>1, RefsAreRows
    <3> QED BY <1>3, <2>2, <3>1, <3>2
  <2>4. Sound(View(t))
    BY <2>3 DEF Sound
  <2> QED BY <2>1, <2>4 DEF KeepsReferences
<1> QED BY <1>4, <1>5 DEF ReferencesAreKept

LEMMA SoundRefersToSomething ==
    ASSUME NEW v, Table(v), Sound(v), NEW n \in NodeIds
    PROVE  ~RefersToNothing(v, n)
<1>1. \A m \in NodeIds : Node(m) \in Rows /\ Edge(m) \in Rows /\ Gone(Node(m)) = "absent"
  BY DEF Rows, Node, Edge, Gone
<1>2. ASSUME v[Edge(n)] # NoNode
      PROVE  v[Node(n)] # "absent" /\ v[Node(v[Edge(n)])] # "absent"
  <2>1. v[Edge(n)] \in NodeIds
    BY <1>1, <1>2 DEF Table, Fits, Edge
  <2>2. Refs(Edge(n), v[Edge(n)]) = {Node(n), Node(v[Edge(n)])}
    BY <1>2 DEF Refs, Edge
  <2> QED BY <1>1, <2>1, <2>2 DEF Sound
<1>3. ASSUME NEW u \in MarksIn(v, n) PROVE v[Tag(u)] /\ v[Node(n)] # "absent"
  <2>1. u \in Tags /\ v[Mark(n, u)]
    BY DEF MarksIn
  <2>2. Mark(n, u) \in Rows /\ Tag(u) \in Rows /\ Mark(n, u)[1] = "mark" /\ Tag(u)[1] = "tag"
    BY <2>1 DEF Rows, Mark, Tag
  <2>3. v[Mark(n, u)] \in BOOLEAN /\ v[Tag(u)] \in BOOLEAN
    BY <2>2 DEF Table, Fits
  <2>4. v[Mark(n, u)] = TRUE
    BY <2>1, <2>3
  <2>5. Refs(Mark(n, u), v[Mark(n, u)]) = {Node(n), Tag(u)}
    BY <2>4 DEF Refs, Mark
  <2>6. v[Node(n)] # Gone(Node(n)) /\ v[Tag(u)] # Gone(Tag(u))
    BY <2>2, <2>5 DEF Sound
  <2>7. Gone(Tag(u)) = FALSE
    BY <2>2, Zenon DEF Gone
  <2> QED BY <1>1, <2>3, <2>6, <2>7
<1>4. MarksIn(v, n) = TagsIn(v, n)
  BY <1>3 DEF TagsIn
<1> QED BY <1>2, <1>3, <1>4 DEF RefersToNothing
-----------------------------------------------------------------------------
(* The theorems about locks, about circles, and about references on PostgreSQL.      *)

(* The rows hold what their columns allow, a request writes only rows, and holds    *)
(* neither rows nor locks nor events once it is answered.                            *)
THEOREM TypeCorrect == Spec => []TypeOK
<1>1. IInv => TypeOK
  BY DEF IInv, Typed, TypeOK, Table, Fits, ThreadOK, WritesFit
<1> QED BY <1>1, Invariant, PTL

(* On PostgreSQL no two open transactions have written the same row, whatever the   *)
(* handlers do: a statement that writes waits for those that hold its rows.          *)
LEMMA RowsAreLocked == Spec => []LocksAreExclusive
<1>1. IInv => LocksAreExclusive
  BY DEF IInv
<1> QED BY <1>1, Invariant, PTL

(* On PostgreSQL edges and marks always refer to rows that are there: in the          *)
(* committed rows and in what any open transaction sees, whatever overlaps (a          *)
(* foreign key holds the row it refers to, and a DELETE cascades).                     *)
NothingDangles == engine = "postgres" =>
    \A n \in NodeIds : ~RefersToNothing(db, n) /\ \A t \in Threads : ~RefersToNothing(View(t), n)
THEOREM NothingDanglesOnPostgres == Spec => []NothingDangles
<1>1. Init => ReferencesAreKept
  BY InitIsSound
<1>2. IInv /\ ReferencesAreKept /\ [Next]_vars => ReferencesAreKept'
  BY NextKeepsReferences
<1>3. IInv /\ ReferencesAreKept => NothingDangles
  <2> SUFFICES ASSUME IInv, ReferencesAreKept, engine = "postgres", NEW n \in NodeIds
               PROVE  ~RefersToNothing(db, n) /\ \A t \in Threads : ~RefersToNothing(View(t), n)
    BY DEF NothingDangles
  <2>1. Table(db) /\ Sound(db)
    BY DEF IInv, Typed, ReferencesAreKept
  <2>2. \A t \in Threads : Table(View(t)) /\ Sound(View(t))
    BY ViewFits DEF IInv, ReferencesAreKept, KeepsReferences
  <2> QED BY <2>1, <2>2, SoundRefersToSomething
<1> QED BY <1>1, <1>2, <1>3, Invariant, PTL DEF Spec
-----------------------------------------------------------------------------
(* SQLite: what a handler has looked up is still there when it writes.              *)
(*                                                                             *)
(* A statement needs rows, and others before it in the program give them: those       *)
(* that look a row up or insert it, and the first write gives the database.           *)

Sweeping == {"delete_edge", "delete_child_edges", "delete_marks", "delete_tag_marks", "remove_row"}
LastDeletes == {"delete_node", "delete_tag"}

Needs(s, d, home) ==
    CASE s[1] = "insert_edge" -> {Database, Node(s[3])} \cup (IF d THEN {} ELSE {Node(s[2])})
      [] s[1] = "reassign" -> {Node(s[3])}
      [] s[1] = "reassign_children" -> IF home = NoNode THEN {} ELSE {Node(home)}
      [] s[1] \in {"delete_edge", "delete_marks"} -> IF d THEN {} ELSE {Node(s[2])}
      [] s[1] = "remove_row" -> {Database} \cup (IF d THEN {} ELSE {Node(s[2][2])})
      [] s[1] = "insert_marks" -> {Database, Node(s[2])} \cup {Tag(u) : u \in s[3]}
      [] s[1] = "insert_mark" -> {Database, Node(s[2]), Tag(s[3])}
      [] s[1] \in LastDeletes -> {Database}
      [] OTHER -> {}

Gives(s) ==
    CASE s[1] \in {"fetch_node", "insert_node", "ensure_container"} -> {Node(s[2])}
      [] s[1] \in {"ensure_tag", "insert_tag"} -> {Tag(s[2])}
      [] s[1] \in Sweeping \ {"remove_row"} -> {Database}
      [] OTHER -> {}
GivenBy(a) == UNION {Gives(a[i]) : i \in 1..Len(a)}

Grounded(a, d, home, H) ==
    \A i \in 1..Len(a) : \A row \in Needs(a[i], d, home) :
        row \in H \/ \E j \in 1..Len(a) : j < i /\ row \in Gives(a[j])

Has(t) ==
    {row \in Rows : \/ row = Database /\ Open(t)
                    \/ row[1] \in {"node", "tag"} /\ (Belated(t) \/ View(t)[row] # Gone(row))}

(* A child without a node is given a home only if it has been one all the time.      *)
Excused(t) == Belated(t) \/ (Deleting(request[t]) /\ \E o \in overtook[t] : Belated(o))
Founded(t, c) == Excused(t) \/ View(t)[Node(c)] # "absent" \/ RefersToNothing(db, c)
KnowsChildren(t) == Deleting(request[t]) =>
    \A i \in 1..Len(todo[t]) :
        todo[t][i][1] \in {"reassign", "insert_edge"} => Founded(t, todo[t][i][2])

WritesUnderItsNode(t) == ~Deleting(request[t]) /\ ~Belated(t) =>
    \A row \in DOMAIN writes[t] : row[1] \in {"edge", "mark"} => View(t)[Node(row[2])] # "absent"

(* Before it deletes a node or tag, a request has removed what refers to it.          *)
Sweeps(s, row, v) ==
    \/ s = <<"remove_row", row>>
    \/ row[1] = "edge" /\ s \in {<<"delete_edge", row[2]>>, <<"delete_child_edges", v[row]>>}
    \/ row[1] = "mark" /\ s \in {<<"delete_marks", row[2]>>, <<"delete_tag_marks", row[3]>>}
Target(s) == IF s[1] = "delete_node" THEN Node(s[2]) ELSE Tag(s[2])
ToSweep(a, i) ==
    IF a[i][1] = "delete_node"
    THEN /\ i >= 4 /\ a[i - 3] = <<"delete_child_edges", a[i][2]>>
         /\ a[i - 2] = <<"delete_edge", a[i][2]>> /\ a[i - 1] = <<"delete_marks", a[i][2]>>
    ELSE i >= 2 /\ a[i - 1] = <<"delete_tag_marks", a[i][2]>>
SweepsAll(a, i, v) ==
    /\ \A j \in 1..Len(a) : j < i => a[j][1] \in Sweeping
    /\ \A row \in Rows : Target(a[i]) \in Refs(row, v[row]) =>
          \E j \in 1..Len(a) : j < i /\ Sweeps(a[j], row, v)
Swept(a, open, v) ==
    \A i \in 1..Len(a) : a[i][1] \in LastDeletes =>
        /\ \A k \in 1..Len(a) : i < k => Lowest(a[k]) >= 4
        /\ ToSweep(a, i) \/ (open /\ SweepsAll(a, i, v))

BringsNothing(t) == ~Excused(t) =>
    \A n \in NodeIds : RefersToNothing(View(t), n) => RefersToNothing(db, n)

OneWriter ==
    /\ db = [row \in Rows |-> db[row]]
    /\ \A t, o \in Threads : t # o => ~(Open(t) /\ Open(o))
    /\ \A t \in Threads : DOMAIN writes[t] # {} => Open(t)
LooksFirst(t) ==
    /\ Grounded(todo[t], Deleting(request[t]), seen[t].home, Has(t))
    /\ KnowsChildren(t)
    /\ WritesUnderItsNode(t)
    /\ Deleting(request[t]) => Swept(todo[t], Open(t), View(t))
    /\ BringsNothing(t)
    /\ request[t] = NoRequest => seen[t].home = NoNode
FilesAreKept == engine = "sqlite" => OneWriter /\ \A t \in Threads : LooksFirst(t)
-----------------------------------------------------------------------------
(* Statements put together.                                                   *)

LEMMA NothingGrounded == \A d, home, H : Grounded(<<>>, d, home, H) /\ GivenBy(<<>>) = {}
<1>1. Len(<<>>) = 0 /\ 1..0 = {}
  OBVIOUS
<1> QED BY <1>1 DEF Grounded, GivenBy

LEMMA SingleGrounded ==
    ASSUME NEW s, NEW d, NEW home, NEW H, Needs(s, d, home) \subseteq H
    PROVE  Grounded(<<s>>, d, home, H) /\ GivenBy(<<s>>) = Gives(s)
<1>1. Len(<<s>>) = 1 /\ 1..1 = {1} /\ <<s>>[1] = s
  OBVIOUS
<1> QED BY <1>1 DEF Grounded, GivenBy

LEMMA JoinGrounded ==
    ASSUME NEW S, NEW a \in Seq(S), NEW b \in Seq(S), NEW d, NEW home, NEW H,
           Grounded(a, d, home, H), Grounded(b, d, home, H \cup GivenBy(a))
    PROVE  /\ a \o b \in Seq(S) /\ Grounded(a \o b, d, home, H)
           /\ GivenBy(a \o b) = GivenBy(a) \cup GivenBy(b)
<1> DEFINE c == a \o b
<1>1. /\ c \in Seq(S) /\ Len(a) \in Nat /\ Len(b) \in Nat /\ Len(c) = Len(a) + Len(b)
      /\ \A i \in 1..Len(c) : c[i] = IF i <= Len(a) THEN a[i] ELSE b[i - Len(a)]
  BY JoinedSeqs
<1> HIDE DEF c
<1>2. \A i \in 1..Len(a) : i \in 1..Len(c) /\ c[i] = a[i]
  BY <1>1
<1>3. ASSUME NEW i \in 1..Len(b) PROVE i + Len(a) \in 1..Len(c) /\ c[i + Len(a)] = b[i]
  <2>1. i + Len(a) \in 1..Len(c) /\ ~(i + Len(a) <= Len(a)) /\ (i + Len(a)) - Len(a) = i
    BY <1>1
  <2> QED BY <1>1, <2>1
<1>4. \A i \in 1..Len(c) : i \in 1..Len(a) \/ \E j \in 1..Len(b) : i = j + Len(a)
  <2> SUFFICES ASSUME NEW i \in 1..Len(c), ~(i \in 1..Len(a)) PROVE \E j \in 1..Len(b) : i = j + Len(a)
    OBVIOUS
  <2>1. i - Len(a) \in 1..Len(b) /\ i = (i - Len(a)) + Len(a)
    BY <1>1
  <2> QED BY <2>1
<1>5. GivenBy(c) = GivenBy(a) \cup GivenBy(b)
  <2>1. ASSUME NEW row \in GivenBy(c) PROVE row \in GivenBy(a) \cup GivenBy(b)
    <3>1. PICK i \in 1..Len(c) : row \in Gives(c[i])
      BY <2>1 DEF GivenBy
    <3>2. CASE i \in 1..Len(a)
      BY <1>2, <3>1, <3>2 DEF GivenBy
    <3>3. ASSUME NEW j \in 1..Len(b), i = j + Len(a) PROVE row \in GivenBy(b)
      BY <1>3, <3>1, <3>3 DEF GivenBy
    <3> QED BY <1>4, <3>2, <3>3
  <2>2. GivenBy(a) \subseteq GivenBy(c) /\ GivenBy(b) \subseteq GivenBy(c)
    BY <1>2, <1>3 DEF GivenBy
  <2> QED BY <2>1, <2>2
<1>6. ASSUME NEW i \in 1..Len(c), NEW row \in Needs(c[i], d, home), row \notin H
      PROVE  \E j \in 1..Len(c) : j < i /\ row \in Gives(c[j])
  <2>1. CASE i \in 1..Len(a)
    <3>1. \E j \in 1..Len(a) : j < i /\ row \in Gives(a[j])
      BY <1>2, <1>6, <2>1 DEF Grounded
    <3> QED BY <1>2, <3>1
  <2>2. ASSUME NEW k \in 1..Len(b), i = k + Len(a)
        PROVE  \E j \in 1..Len(c) : j < i /\ row \in Gives(c[j])
    <3>1. row \in GivenBy(a) \/ \E j \in 1..Len(b) : j < k /\ row \in Gives(b[j])
      BY <1>3, <1>6, <2>2 DEF Grounded
    <3>2. CASE row \in GivenBy(a)
      <4>1. PICK j \in 1..Len(a) : row \in Gives(a[j])
        BY <3>2 DEF GivenBy
      <4>2. j < i
        BY <1>1, <2>2
      <4> QED BY <1>2, <4>1, <4>2
    <3>3. CASE \E j \in 1..Len(b) : j < k /\ row \in Gives(b[j])
      <4>1. PICK j \in 1..Len(b) : j < k /\ row \in Gives(b[j])
        BY <3>3
      <4>2. j + Len(a) < i
        BY <1>1, <2>2, <4>1
      <4> QED BY <1>3, <4>1, <4>2
    <3> QED BY <3>1, <3>2, <3>3
  <2> QED BY <1>4, <2>1, <2>2
<1> QED BY <1>1, <1>5, <1>6 DEF c, Grounded

LEMMA MoreGrounded ==
    ASSUME NEW a, NEW d, NEW home, NEW H, NEW J, H \subseteq J, Grounded(a, d, home, H)
    PROVE  Grounded(a, d, home, J)
BY DEF Grounded

(* What is left after a step.                                                 *)
LEMMA GroundedContinues ==
    ASSUME NEW S, NEW s \in Seq(S), NEW a \in Seq(S), s # <<>>,
           NEW d, NEW home, NEW next, NEW H, NEW J,
           Grounded(s, d, home, H), Grounded(a, d, next, J), H \subseteq J \cup GivenBy(a),
           Gives(s[1]) \subseteq J \cup GivenBy(a),
           next \in {home, NoNode} \/ Node(next) \in J \cup GivenBy(a)
    PROVE  Grounded(a \o Tail(s), d, next, J)
<1> DEFINE r == a \o Tail(s)
<1>1. /\ Len(s) \in Nat /\ Len(s) >= 1 /\ Len(a) \in Nat /\ Len(r) = Len(a) + Len(s) - 1
      /\ \A i \in 1..Len(r) : r[i] = IF i <= Len(a) THEN a[i] ELSE s[i - Len(a) + 1]
  OBVIOUS
<1> HIDE DEF r
<1>2. \A i \in 1..Len(a) : i \in 1..Len(r) /\ r[i] = a[i]
  BY <1>1
<1>3. \A i \in 2..Len(s) : i + Len(a) - 1 \in 1..Len(r) /\ r[i + Len(a) - 1] = s[i]
  BY <1>1, SMTT(20)
<1>4. \A i \in 1..Len(r) : i \in 1..Len(a) \/ \E j \in 2..Len(s) : i = j + Len(a) - 1
  <2> SUFFICES ASSUME NEW i \in 1..Len(r), ~(i \in 1..Len(a))
               PROVE  \E j \in 2..Len(s) : i = j + Len(a) - 1
    OBVIOUS
  <2>1. i - Len(a) + 1 \in 2..Len(s) /\ i = (i - Len(a) + 1) + Len(a) - 1
    BY <1>1
  <2> QED BY <2>1
<1>5. \A x : Needs(x, d, next) \subseteq Needs(x, d, home) \cup J \cup GivenBy(a)
  BY DEF Needs
<1>6. ASSUME NEW i \in 1..Len(r), NEW row \in Needs(r[i], d, next), row \notin J
      PROVE  \E j \in 1..Len(r) : j < i /\ row \in Gives(r[j])
  <2>1. CASE i \in 1..Len(a)
    <3>1. \E j \in 1..Len(a) : j < i /\ row \in Gives(a[j])
      BY <1>2, <1>6, <2>1 DEF Grounded
    <3> QED BY <1>2, <3>1
  <2>2. ASSUME NEW k \in 2..Len(s), i = k + Len(a) - 1
        PROVE  \E j \in 1..Len(r) : j < i /\ row \in Gives(r[j])
    <3>1. CASE row \in GivenBy(a)
      <4>1. PICK j \in 1..Len(a) : row \in Gives(a[j])
        BY <3>1 DEF GivenBy
      <4>2. j < i
        BY <1>1, <2>2
      <4> QED BY <1>2, <4>1, <4>2
    <3>2. CASE row \notin GivenBy(a)
      <4>1. row \in Needs(s[k], d, home) /\ k \in 1..Len(s) /\ row \notin H
        BY <1>3, <1>5, <1>6, <2>2, <3>2
      <4>2. PICK j \in 1..Len(s) : j < k /\ row \in Gives(s[j])
        BY <4>1 DEF Grounded
      <4>3. j # 1
        BY <1>6, <3>2, <4>2
      <4>4. j \in 2..Len(s) /\ j + Len(a) - 1 < i
        BY <1>1, <2>2, <4>2, <4>3
      <4> QED BY <1>3, <4>2, <4>4
    <3> QED BY <3>1, <3>2
  <2> QED BY <1>4, <2>1, <2>2
<1> QED BY <1>6 DEF r, Grounded
-----------------------------------------------------------------------------
(* Programs: what they need they look up first.  After a, started with H, there is G. *)

Ready(a, d, home, H, G) == a \in Seq(Statements) /\ Grounded(a, d, home, H) /\ G \subseteq H \cup GivenBy(a)

LEMMA ReadyNothing ==
    ASSUME NEW d, NEW home, NEW H, NEW G, G \subseteq H
    PROVE  Ready(<<>>, d, home, H, G)
<1>1. <<>> \in Seq(Statements)
  OBVIOUS
<1>2. Grounded(<<>>, d, home, H)
  BY NothingGrounded, Zenon
<1> QED BY <1>1, <1>2 DEF Ready

LEMMA ReadySingle ==
    ASSUME NEW s \in Statements, NEW d, NEW home, NEW H, Needs(s, d, home) \subseteq H,
           NEW G, G \subseteq H \cup Gives(s)
    PROVE  Ready(<<s>>, d, home, H, G)
<1>1. <<s>> \in Seq(Statements)
  OBVIOUS
<1>2. Grounded(<<s>>, d, home, H) /\ GivenBy(<<s>>) = Gives(s)
  BY SingleGrounded
<1> QED BY <1>1, <1>2, Zenon DEF Ready

LEMMA ReadyJoin ==
    ASSUME NEW a, NEW b, NEW d, NEW home, NEW H, NEW G, NEW K,
           Ready(a, d, home, H, G), Ready(b, d, home, G, K)
    PROVE  Ready(a \o b, d, home, H, K)
<1>1. /\ a \in Seq(Statements) /\ Grounded(a, d, home, H) /\ G \subseteq H \cup GivenBy(a)
      /\ b \in Seq(Statements) /\ Grounded(b, d, home, G) /\ K \subseteq G \cup GivenBy(b)
  BY DEF Ready
<1>2. Grounded(b, d, home, H \cup GivenBy(a))
  BY <1>1, MoreGrounded
<1>3. a \o b \in Seq(Statements) /\ Grounded(a \o b, d, home, H) /\ GivenBy(a \o b) = GivenBy(a) \cup GivenBy(b)
  BY <1>1, <1>2, JoinGrounded
<1> QED BY <1>1, <1>3 DEF Ready

LEMMA NeedsOf ==
    ASSUME NEW s, NEW d, NEW home
    PROVE  /\ s[1] = "insert_edge" =>
                 Needs(s, d, home) = {Database, Node(s[3])} \cup (IF d THEN {} ELSE {Node(s[2])})
           /\ s[1] = "reassign" => Needs(s, d, home) = {Node(s[3])}
           /\ s[1] = "reassign_children" => Needs(s, d, home) = IF home = NoNode THEN {} ELSE {Node(home)}
           /\ s[1] \in {"delete_edge", "delete_marks"} => Needs(s, d, home) = IF d THEN {} ELSE {Node(s[2])}
           /\ s[1] = "remove_row" => Needs(s, d, home) = {Database} \cup (IF d THEN {} ELSE {Node(s[2][2])})
           /\ s[1] = "insert_marks" => Needs(s, d, home) = {Database, Node(s[2])} \cup {Tag(u) : u \in s[3]}
           /\ s[1] = "insert_mark" => Needs(s, d, home) = {Database, Node(s[2]), Tag(s[3])}
           /\ s[1] \in {"delete_node", "delete_tag"} => Needs(s, d, home) = {Database}
           /\ s[1] \notin {"insert_edge", "reassign", "reassign_children", "delete_edge", "delete_marks",
                           "remove_row", "insert_marks", "insert_mark", "delete_node", "delete_tag"} =>
                 Needs(s, d, home) = {}
BY DEF Needs, LastDeletes

LEMMA GivesOf ==
    ASSUME NEW s
    PROVE  /\ s[1] \in {"fetch_node", "insert_node", "ensure_container"} => Gives(s) = {Node(s[2])}
           /\ s[1] \in {"ensure_tag", "insert_tag"} => Gives(s) = {Tag(s[2])}
           /\ s[1] \in {"delete_edge", "delete_child_edges", "delete_marks", "delete_tag_marks"} =>
                 Gives(s) = {Database}
           /\ s[1] \notin {"fetch_node", "insert_node", "ensure_container", "ensure_tag", "insert_tag",
                           "delete_edge", "delete_child_edges", "delete_marks", "delete_tag_marks"} =>
                 Gives(s) = {}
BY DEF Gives, Sweeping

LEMMA EventsNeedNothing ==
    ASSUME NEW s \in Statements \cup {Finish}, NEW d, NEW home, Lowest(s) >= 4
    PROVE  Needs(s, d, home) = {}
<1>1. CASE s[1] = "remove_row"
  <2>1. s[2][1] \in {"edge", "mark"}
    BY <1>1, Contents DEF Finish
  <2>2. Lowest(s) \in {2, 3}
    BY <1>1, <2>1 DEF Lowest, Stage, Wide, Rank
  <2> QED BY <2>2
<1>2. CASE s[1] # "remove_row"
  BY <1>2, NeedsOf DEF Lowest, Stage, Wide
<1> QED BY <1>1, <1>2

LEMMA EventsReady ==
    ASSUME NEW a, NEW R, NEW e, NEW hi, Part(a, 4, hi, R, e), NEW d, NEW home, NEW H, NEW G, G \subseteq H
    PROVE  Ready(a, d, home, H, G)
<1>1. a \in Seq(Statements) /\ \A i \in 1..Len(a) : a[i] \in Statements /\ 4 <= Lowest(a[i])
  BY DEF Part
<1>2. \A s : Lowest(s) \in Nat
  BY DEF Lowest, Stage, Rank
<1>3. \A i \in 1..Len(a) : Needs(a[i], d, home) = {}
  BY <1>1, <1>2, EventsNeedNothing
<1> QED BY <1>1, <1>3 DEF Ready, Grounded

LEMMA SetParentReady ==
    ASSUME NEW n \in NodeIds, NEW p \in NodeIds \cup {NoNode}, NEW d, NEW home, NEW H,
           d \/ Node(n) \in H, p = NoNode \/ Node(p) \in H
    PROVE  Ready(SetParent(n, p), d, home, H, H)
<1> DEFINE x == <<"delete_edge", n>>
           y == <<"insert_edge", n, p>>
<1>1. Needs(x, d, home) \subseteq H /\ Gives(x) = {Database}
  BY NeedsOf, GivesOf
<1>0. x \in Statements
  BY DEF Statements
<1>2. Needs(y, d, home) \subseteq {Database, Node(p)} \cup H
  BY NeedsOf
<1>3. p # NoNode => y \in Statements
  BY DEF Statements
<1> HIDE DEF x, y
<1>4. Ready(<<x>>, d, home, H, H \cup {Database})
  BY <1>0, <1>1, ReadySingle
<1>5. Ready(When(p # NoNode, <<y>>), d, home, H \cup {Database}, H)
  <2>1. CASE p # NoNode
    <3>1. Needs(y, d, home) \subseteq H \cup {Database}
      BY <1>2, <2>1
    <3>2. Ready(<<y>>, d, home, H \cup {Database}, H)
      BY <1>3, <2>1, <3>1, ReadySingle
    <3> QED BY <2>1, <3>2 DEF When
  <2>2. CASE p = NoNode
    <3>1. Ready(<<>>, d, home, H \cup {Database}, H)
      BY ReadyNothing
    <3> QED BY <2>2, <3>1 DEF When
  <2> QED BY <2>1, <2>2
<1>6. Ready(<<x>> \o When(p # NoNode, <<y>>), d, home, H, H)
  BY <1>4, <1>5, ReadyJoin
<1> QED BY <1>6 DEF SetParent, x, y

LEMMA ReplaceNodeTagsReady ==
    ASSUME NEW n \in NodeIds, NEW names \in Seq(Tags), NEW d, NEW home, NEW H, Node(n) \in H
    PROVE  Ready(ReplaceNodeTags(n, names), d, home, H, H)
<1> DEFINE x == <<"delete_marks", n>>
           ensure == [i \in DOMAIN names |-> <<"ensure_tag", names[i]>>]
           y == <<"insert_marks", n, ToSet(names)>>
           T == {Tag(u) : u \in ToSet(names)}
<1>1. Needs(x, d, home) \subseteq H /\ Gives(x) = {Database}
  BY NeedsOf, GivesOf
<1>0. x \in Statements
  BY DEF Statements
<1>2. Needs(y, d, home) = {Database, Node(n)} \cup T
  BY NeedsOf
<1>3. y \in Statements
  BY DEF Statements, ToSet
<1>4. /\ ensure \in Seq(Statements) /\ DOMAIN names = 1..Len(names) /\ Len(ensure) = Len(names)
      /\ \A i \in 1..Len(names) : ensure[i] = <<"ensure_tag", names[i]>> /\ names[i] \in Tags
  <2>1. PICK k \in Nat : DOMAIN names = 1..k /\ k = Len(names) /\ \A i \in 1..k : names[i] \in Tags
    OBVIOUS
  <2>2. \A u \in Tags : <<"ensure_tag", u>> \in Statements
    BY DEF Statements
  <2>3. ensure \in [1..k -> Statements]
    BY <2>1, <2>2
  <2>4. \A i \in 1..k : ensure[i] = <<"ensure_tag", names[i]>>
    BY <2>1
  <2> HIDE DEF ensure
  <2> QED BY <2>1, <2>3, <2>4
<1> HIDE DEF x, y, ensure
<1>5. Ready(<<x>>, d, home, H, H \cup {Database})
  BY <1>0, <1>1, ReadySingle
<1>6. Ready(ensure, d, home, H \cup {Database}, H \cup {Database} \cup T)
  <2>1. ASSUME NEW s, s[1] = "ensure_tag" PROVE Needs(s, d, home) = {} /\ Gives(s) = {Tag(s[2])}
    BY <2>1, NeedsOf, GivesOf
  <2>2. \A i \in 1..Len(ensure) : Needs(ensure[i], d, home) = {} /\ Gives(ensure[i]) = {Tag(names[i])}
    BY <1>4, <2>1
  <2>3. T \subseteq GivenBy(ensure)
    <3> SUFFICES ASSUME NEW u \in ToSet(names) PROVE Tag(u) \in GivenBy(ensure)
      BY DEF T
    <3>1. PICK i \in 1..Len(names) : u = names[i]
      BY <1>4 DEF ToSet
    <3> QED BY <1>4, <2>2, <3>1 DEF GivenBy
  <2>4. Grounded(ensure, d, home, H \cup {Database})
    BY <2>2 DEF Grounded
  <2> HIDE DEF T
  <2> QED BY <1>4, <2>3, <2>4 DEF Ready
<1> HIDE DEF T
<1>7. Ready(When(names # <<>>, <<y>>), d, home, H \cup {Database} \cup T, H)
  <2>1. CASE names # <<>>
    <3>1. Needs(y, d, home) \subseteq H \cup {Database} \cup T
      BY <1>2
    <3>2. Ready(<<y>>, d, home, H \cup {Database} \cup T, H)
      BY <1>3, <3>1, ReadySingle
    <3> QED BY <2>1, <3>2 DEF When
  <2>2. CASE names = <<>>
    <3>1. Ready(<<>>, d, home, H \cup {Database} \cup T, H)
      BY ReadyNothing
    <3> QED BY <2>2, <3>1 DEF When
  <2> QED BY <2>1, <2>2
<1>8. Ready(<<x>> \o ensure, d, home, H, H \cup {Database} \cup T)
  BY <1>5, <1>6, ReadyJoin
<1>9. Ready((<<x>> \o ensure) \o When(names # <<>>, <<y>>), d, home, H, H)
  BY <1>7, <1>8, ReadyJoin
<1> QED BY <1>9 DEF ReplaceNodeTags, x, ensure, y

LEMMA ReadyWhen ==
    ASSUME NEW c \in BOOLEAN, NEW a, NEW d, NEW home, NEW H, NEW G, G \subseteq H,
           c => Ready(a, d, home, H, G)
    PROVE  Ready(When(c, a), d, home, H, G)
<1>1. CASE c
  BY <1>1 DEF When
<1>2. CASE ~c
  BY <1>2, ReadyNothing DEF When
<1> QED BY <1>1, <1>2

LEMMA NarrowReady ==
    ASSUME NEW a, NEW d, NEW home, NEW H, NEW G, NEW J, NEW K,
           Ready(a, d, home, H, G), H \subseteq J, K \subseteq G \cup J
    PROVE  Ready(a, d, home, J, K)
BY MoreGrounded DEF Ready

LEMMA EnsureContainerReady ==
    ASSUME NEW p \in NodeIds, NEW d, NEW home, NEW H
    PROVE  Ready(<< <<"ensure_container", p>> >>, d, home, H, H \cup {Node(p)})
<1> DEFINE y == <<"ensure_container", p>>
<1>1. Needs(y, d, home) = {} /\ Gives(y) = {Node(p)}
  BY NeedsOf, GivesOf
<1>2. y \in Statements
  BY DEF Statements
<1> HIDE DEF y
<1>3. Ready(<<y>>, d, home, H, H \cup {Node(p)})
  BY <1>1, <1>2, ReadySingle
<1> QED BY <1>3 DEF y

LEMMA CreateNodeReady ==
    ASSUME NEW n \in NodeIds, NEW kind \in Kinds, NEW p \in NodeIds \cup {NoNode}, NEW names \in Seq(Tags),
           NEW d, NEW home, NEW H
    PROVE  Ready(CreateNode(n, kind, p, names), d, home, H, H \cup {Node(n)})
<1> DEFINE x == <<"insert_node", n, kind>>
           y == <<"ensure_container", p>>
           b == When(p # NoNode, <<y>> \o SetParent(n, p))
           c == When(names # <<>>, ReplaceNodeTags(n, names))
           e == << <<"announce", n>> >>
           f == Announcements({p})
           G == H \cup {Node(n)}
<1>1. Needs(x, d, home) = {} /\ Gives(x) = {Node(n)}
  BY NeedsOf, GivesOf
<1>0. x \in Statements
  BY DEF Statements
<1> HIDE DEF x
<1>2. Ready(<<x>>, d, home, H, G)
  BY <1>0, <1>1, ReadySingle
<1>3. Ready(b, d, home, G, G)
  <2>1. CASE p # NoNode
    <3>1. Ready(<<y>>, d, home, G, G \cup {Node(p)})
      BY <2>1, EnsureContainerReady
    <3>2. Ready(SetParent(n, p), d, home, G \cup {Node(p)}, G \cup {Node(p)})
      BY SetParentReady
    <3>3. Ready(SetParent(n, p), d, home, G \cup {Node(p)}, G)
      BY <3>2, NarrowReady
    <3> HIDE DEF y, G
    <3>4. Ready(<<y>> \o SetParent(n, p), d, home, G, G)
      BY <3>1, <3>3, ReadyJoin
    <3> QED BY <2>1, <3>4 DEF When
  <2>2. CASE p = NoNode
    <3>1. b = <<>>
      BY <2>2 DEF When
    <3> QED BY <3>1, ReadyNothing
  <2> QED BY <2>1, <2>2
<1>4. Ready(c, d, home, G, G)
  BY ReplaceNodeTagsReady, ReadyWhen
<1>5. Ready(e, d, home, G, G)
  BY EventPart, EventsReady
<1>6. Ready(f, d, home, G, G)
  BY AnnouncementsPart, EventsReady
<1> HIDE DEF b, c, e, f, G
<1>7. Ready(<<x>> \o b, d, home, H, G)
  BY <1>2, <1>3, ReadyJoin
<1>8. Ready((<<x>> \o b) \o c, d, home, H, G)
  BY <1>4, <1>7, ReadyJoin
<1>9. Ready(((<<x>> \o b) \o c) \o e, d, home, H, G)
  BY <1>5, <1>8, ReadyJoin
<1>10. Ready((((<<x>> \o b) \o c) \o e) \o f, d, home, H, G)
  BY <1>6, <1>9, ReadyJoin
<1> QED BY <1>10 DEF CreateNode, x, b, c, e, f, G

LEMMA EnsureParentReady ==
    ASSUME NEW n \in NodeIds, NEW p \in NodeIds, NEW d, NEW home, NEW H
    PROVE  Ready(EnsureParentIsValid(n, p), d, home, H, H \cup {Node(p)})
<1> DEFINE y == <<"ensure_container", p>>
           z == <<"ensure_acyclic", n, p>>
           G == H \cup {Node(p)}
<1>1. Ready(<<y>>, d, home, H, G)
  BY EnsureContainerReady
<1>2. Needs(z, d, home) = {}
  BY NeedsOf
<1>3. z \in Statements
  BY DEF Statements
<1>4. <<y, z>> = <<y>> \o <<z>>
  OBVIOUS
<1> HIDE DEF y, z, G
<1>5. Ready(<<z>>, d, home, G, G)
  BY <1>2, <1>3, ReadySingle
<1>6. Ready(<<y>> \o <<z>>, d, home, H, G)
  BY <1>1, <1>5, ReadyJoin
<1> QED BY <1>4, <1>6 DEF EnsureParentIsValid, y, z, G

LEMMA PlainReady ==
    ASSUME NEW s \in Statements, NEW d, NEW home, NEW H,
           s[1] \in {"fetch_node", "fetch_parent", "ensure_childless", "update_node", "announce_update",
                     "announce_replacement", "ensure_new_tag", "ensure_tag", "insert_tag", "assert_tag",
                     "append", "find_orphan_container", "create_or_replace"}
    PROVE  Ready(<<s>>, d, home, H, H)
<1>1. Needs(s, d, home) = {}
  BY NeedsOf
<1> QED BY <1>1, ReadySingle

LEMMA FetchesJoin ==
    ASSUME NEW n \in NodeIds
    PROVE  << <<"fetch_node", n>>, <<"fetch_parent", n>> >>
              = << <<"fetch_node", n>> >> \o << <<"fetch_parent", n>> >>
OBVIOUS

LEMMA UpdateNodeReady ==
    ASSUME NEW n \in NodeIds, NEW kind \in Kinds \cup {Keep, Relabel}, NEW p \in NodeIds \cup {NoNode, Keep},
           NEW names \in Seq(Tags) \cup {Keep}, NEW d, NEW home, NEW H
    PROVE  Ready(UpdateNode(n, kind, p, names), d, home, H, {})
<1> DEFINE x == <<"fetch_node", n>>
           y == <<"fetch_parent", n>>
           b == When(kind = "item", << <<"ensure_childless", n>> >>)
           c == When(p \notin {Keep, NoNode}, EnsureParentIsValid(n, p))
           e == When(kind # Keep, << <<"update_node", n, kind>> >>)
           f == When(p # Keep, SetParent(n, p))
           g == When(names # Keep, ReplaceNodeTags(n, names))
           h == << <<"announce_update", n>> >>
           G == H \cup {Node(n)}
           K == IF p \in NodeIds THEN G \cup {Node(p)} ELSE G
<1>1. /\ x \in Statements /\ y \in Statements /\ <<"ensure_childless", n>> \in Statements
      /\ <<"announce_update", n>> \in Statements
  BY DEF Statements
<1>2. kind # Keep => <<"update_node", n, kind>> \in Statements
  BY DEF Statements
<1>3. Gives(x) = {Node(n)} /\ Needs(x, d, home) = {} /\ G \subseteq H \cup {Node(n)}
  BY NeedsOf, GivesOf
<1>4. Ready(<<x, y>>, d, home, H, G)
  <2>1. <<x, y>> = <<x>> \o <<y>>
    BY FetchesJoin
  <2>2. Ready(<<y>>, d, home, G, G)
    BY <1>1, PlainReady
  <2> HIDE DEF x, y, G
  <2>3. Ready(<<x>>, d, home, H, G)
    BY <1>1, <1>3, ReadySingle
  <2> QED BY <2>1, <2>2, <2>3, ReadyJoin
<1>5. Ready(b, d, home, G, G)
  <2>1. Ready(<< <<"ensure_childless", n>> >>, d, home, G, G)
    BY <1>1, PlainReady
  <2> QED BY <2>1, ReadyWhen
<1>6. Ready(c, d, home, G, K)
  <2>1. CASE p \in NodeIds
    <3>1. p \notin {Keep, NoNode}
      BY <2>1, TransactionsAssumption
    <3>2. Ready(EnsureParentIsValid(n, p), d, home, G, G \cup {Node(p)})
      BY <2>1, EnsureParentReady
    <3> QED BY <2>1, <3>1, <3>2 DEF When
  <2>2. CASE p \notin NodeIds
    <3>1. c = <<>>
      BY <2>2 DEF When
    <3> QED BY <2>2, <3>1, ReadyNothing
  <2> QED BY <2>1, <2>2
<1>7. Ready(e, d, home, K, K)
  <2> HIDE DEF K
  <2>1. kind # Keep => Ready(<< <<"update_node", n, kind>> >>, d, home, K, K)
    BY <1>2, PlainReady
  <2> QED BY <2>1, ReadyWhen
<1>8. Ready(f, d, home, K, K)
  <2>1. p # Keep => Ready(SetParent(n, p), d, home, K, K)
    <3> SUFFICES ASSUME p # Keep PROVE Ready(SetParent(n, p), d, home, K, K)
      OBVIOUS
    <3>1. p \in NodeIds \cup {NoNode} /\ Node(n) \in K /\ (p = NoNode \/ Node(p) \in K)
      OBVIOUS
    <3> HIDE DEF K
    <3> QED BY <3>1, SetParentReady
  <2> HIDE DEF K
  <2> QED BY <2>1, ReadyWhen
<1>9. Ready(g, d, home, K, {})
  <2>1. Node(n) \in K
    OBVIOUS
  <2> HIDE DEF K
  <2>2. names # Keep => Ready(ReplaceNodeTags(n, names), d, home, K, {})
    BY <2>1, ReplaceNodeTagsReady, NarrowReady
  <2> QED BY <2>2, ReadyWhen
<1>10. Ready(h, d, home, {}, {})
  BY <1>1, PlainReady, SMTT(20)
<1> HIDE DEF x, y, b, c, e, f, g, h, G, K
<1>11. Ready(<<x, y>> \o b, d, home, H, G)
  BY <1>4, <1>5, ReadyJoin
<1>12. Ready((<<x, y>> \o b) \o c, d, home, H, K)
  BY <1>6, <1>11, ReadyJoin
<1>13. Ready(((<<x, y>> \o b) \o c) \o e, d, home, H, K)
  BY <1>7, <1>12, ReadyJoin
<1>14. Ready((((<<x, y>> \o b) \o c) \o e) \o f, d, home, H, K)
  BY <1>8, <1>13, ReadyJoin
<1>15. Ready(((((<<x, y>> \o b) \o c) \o e) \o f) \o g, d, home, H, {})
  BY <1>9, <1>14, ReadyJoin
<1>16. Ready((((((<<x, y>> \o b) \o c) \o e) \o f) \o g) \o h, d, home, H, {})
  BY <1>10, <1>15, ReadyJoin
<1> QED BY <1>16 DEF UpdateNode, x, y, b, c, e, f, g, h

LEMMA ReplaceNodeReady ==
    ASSUME NEW n \in NodeIds, NEW kind \in Kinds, NEW p \in NodeIds \cup {NoNode}, NEW names \in Seq(Tags),
           NEW d, NEW home, NEW H, Node(n) \in H
    PROVE  Ready(ReplaceNode(n, kind, p, names), d, home, H, {})
<1> DEFINE b == When(kind = "item", << <<"ensure_childless", n>> >>)
           y == << <<"fetch_parent", n>> >>
           c == When(p # NoNode, EnsureParentIsValid(n, p))
           e == << <<"update_node", n, kind>> >>
           f == SetParent(n, p)
           g == ReplaceNodeTags(n, names)
           h == << <<"announce_replacement", n, p>> >>
           K == IF p \in NodeIds THEN H \cup {Node(p)} ELSE H
<1>1. /\ <<"fetch_parent", n>> \in Statements /\ <<"ensure_childless", n>> \in Statements
      /\ <<"announce_replacement", n, p>> \in Statements /\ <<"update_node", n, kind>> \in Statements
  BY DEF Statements
<1>2. Ready(b, d, home, H, H)
  <2>1. Ready(<< <<"ensure_childless", n>> >>, d, home, H, H)
    BY <1>1, PlainReady, SMTT(20)
  <2> QED BY <2>1, ReadyWhen
<1>3. Ready(y, d, home, H, H)
  BY <1>1, PlainReady
<1>4. Ready(c, d, home, H, K)
  <2>1. CASE p \in NodeIds
    <3>1. p # NoNode
      BY <2>1, TransactionsAssumption
    <3>2. Ready(EnsureParentIsValid(n, p), d, home, H, H \cup {Node(p)})
      BY <2>1, EnsureParentReady
    <3> QED BY <2>1, <3>1, <3>2 DEF When
  <2>2. CASE p \notin NodeIds
    <3>1. c = <<>>
      BY <2>2 DEF When
    <3> QED BY <2>2, <3>1, ReadyNothing
  <2> QED BY <2>1, <2>2
<1>5. Ready(e, d, home, K, K)
  <2> HIDE DEF K
  <2> QED BY <1>1, PlainReady
<1>6. Ready(f, d, home, K, K)
  <2>1. Node(n) \in K /\ (p = NoNode \/ Node(p) \in K)
    OBVIOUS
  <2> HIDE DEF K
  <2> QED BY <2>1, SetParentReady
<1>7. Ready(g, d, home, K, {})
  <2>1. Node(n) \in K
    OBVIOUS
  <2> HIDE DEF K
  <2> QED BY <2>1, ReplaceNodeTagsReady, NarrowReady
<1>8. Ready(h, d, home, {}, {})
  BY <1>1, PlainReady
<1> HIDE DEF b, y, c, e, f, g, h, K
<1>9. Ready(b \o y, d, home, H, H)
  BY <1>2, <1>3, ReadyJoin
<1>10. Ready((b \o y) \o c, d, home, H, K)
  BY <1>4, <1>9, ReadyJoin
<1>11. Ready(((b \o y) \o c) \o e, d, home, H, K)
  BY <1>5, <1>10, ReadyJoin
<1>12. Ready((((b \o y) \o c) \o e) \o f, d, home, H, K)
  BY <1>6, <1>11, ReadyJoin
<1>13. Ready(((((b \o y) \o c) \o e) \o f) \o g, d, home, H, {})
  BY <1>7, <1>12, ReadyJoin
<1>14. Ready((((((b \o y) \o c) \o e) \o f) \o g) \o h, d, home, H, {})
  BY <1>8, <1>13, ReadyJoin
<1> QED BY <1>14 DEF ReplaceNode, b, y, c, e, f, g, h

(* A deletion says itself what it sweeps.                                        *)
LEMMA DeleteNodeReady ==
    ASSUME NEW n \in NodeIds, NEW H
    PROVE  /\ Ready(DeleteNode(n), TRUE, NoNode, H, {})
           /\ \A i \in 1..Len(DeleteNode(n)) :
                 /\ DeleteNode(n)[i][1] \notin {"reassign", "insert_edge"}
                 /\ DeleteNode(n)[i][1] \in LastDeletes => i = 9
           /\ Len(DeleteNode(n)) = 10 /\ ToSweep(DeleteNode(n), 9) /\ Lowest(DeleteNode(n)[10]) = 4
<1> DEFINE a == DeleteNode(n)
<1>1. a \in Seq(Statements)
  BY DeleteNodePart, Zenon DEF Part
<1>2. /\ Len(a) = 10 /\ a[1] = <<"fetch_node", n>> /\ a[2] = <<"fetch_parent", n>>
      /\ a[3] = <<"find_home", n>> /\ a[4] = <<"fetch_children", n>> /\ a[5] = <<"reassign_children", n>>
      /\ a[6] = <<"delete_child_edges", n>> /\ a[7] = <<"delete_edge", n>> /\ a[8] = <<"delete_marks", n>>
      /\ a[9] = <<"delete_node", n>> /\ a[10] = <<"announce_deletion", n>>
  BY DEF DeleteNode
<1> HIDE DEF a
<1>3. ASSUME NEW i \in 1..10, i # 9
      PROVE  a[i][1] \in {"fetch_node", "fetch_parent", "find_home", "fetch_children", "reassign_children",
                          "delete_child_edges", "delete_edge", "delete_marks", "announce_deletion"}
  <2>1. i \in {1, 2, 3, 4, 5, 6, 7, 8, 10}
    BY <1>3
  <2> QED BY <1>2, <2>1
<1>4. ASSUME NEW i \in 1..10, i # 9
      PROVE  Needs(a[i], TRUE, NoNode) = {} /\ a[i][1] \notin {"reassign", "insert_edge", "delete_node", "delete_tag"}
  <2>1. a[i][1] \notin {"reassign", "insert_edge", "delete_node", "delete_tag"}
    BY <1>3, <1>4
  <2>2. Needs(a[i], TRUE, NoNode) = {}
    BY <1>3, <1>4, NeedsOf
  <2> QED BY <2>1, <2>2
<1>5. Needs(a[9], TRUE, NoNode) = {Database} /\ a[9][1] = "delete_node"
  BY <1>2 DEF Needs, LastDeletes
<1>6. Gives(a[8]) = {Database}
  BY <1>2, GivesOf
<1>7. Grounded(a, TRUE, NoNode, H)
  <2> SUFFICES ASSUME NEW i \in 1..Len(a), NEW row \in Needs(a[i], TRUE, NoNode), row \notin H
               PROVE  \E j \in 1..Len(a) : j < i /\ row \in Gives(a[j])
    BY DEF Grounded
  <2>1. i = 9 /\ row = Database
    BY <1>2, <1>4, <1>5
  <2>2. 8 \in 1..Len(a) /\ 8 < 9
    BY <1>2
  <2> QED BY <1>6, <2>1, <2>2
<1>8. Lowest(a[10]) = 4
  BY <1>2 DEF Lowest, Stage, Wide
<1>9. ToSweep(a, 9)
  <2>1. 9 - 3 = 6 /\ 9 - 2 = 7 /\ 9 - 1 = 8
    OBVIOUS
  <2> QED BY <1>2, <2>1 DEF ToSweep
<1>10. ASSUME NEW i \in 1..Len(a)
       PROVE  a[i][1] \notin {"reassign", "insert_edge"} /\ (a[i][1] \in LastDeletes => i = 9)
  BY <1>2, <1>4, <1>5 DEF LastDeletes
<1>11. Ready(a, TRUE, NoNode, H, {})
  BY <1>1, <1>7 DEF Ready
<1> QED BY <1>2, <1>8, <1>9, <1>10, <1>11 DEF a

LEMMA DeleteTagReady ==
    ASSUME NEW u \in Tags, NEW H
    PROVE  /\ Ready(DeleteTag(u), TRUE, NoNode, H, {})
           /\ \A i \in 1..Len(DeleteTag(u)) :
                 /\ DeleteTag(u)[i][1] \notin {"reassign", "insert_edge"}
                 /\ DeleteTag(u)[i][1] \in LastDeletes => i = 4
           /\ Len(DeleteTag(u)) = 5 /\ ToSweep(DeleteTag(u), 4) /\ Lowest(DeleteTag(u)[5]) = 4
<1> DEFINE a == DeleteTag(u)
<1>1. a \in Seq(Statements)
  BY DeleteTagPart, Zenon DEF Part
<1>2. /\ Len(a) = 5 /\ a[1] = <<"fetch_tag", u>> /\ a[2] = <<"fetch_bearers", u>>
      /\ a[3] = <<"delete_tag_marks", u>> /\ a[4] = <<"delete_tag", u>> /\ a[5] = <<"announce_bearers", u>>
  BY DEF DeleteTag
<1> HIDE DEF a
<1>3. ASSUME NEW i \in 1..5, i # 4
      PROVE  a[i][1] \in {"fetch_tag", "fetch_bearers", "delete_tag_marks", "announce_bearers"}
  <2>1. i \in {1, 2, 3, 5}
    BY <1>3
  <2> QED BY <1>2, <2>1
<1>4. ASSUME NEW i \in 1..5, i # 4
      PROVE  Needs(a[i], TRUE, NoNode) = {} /\ a[i][1] \notin {"reassign", "insert_edge", "delete_node", "delete_tag"}
  <2>1. a[i][1] \notin {"reassign", "insert_edge", "delete_node", "delete_tag"}
    BY <1>3, <1>4
  <2>2. Needs(a[i], TRUE, NoNode) = {}
    BY <1>3, <1>4, NeedsOf
  <2> QED BY <2>1, <2>2
<1>5. Needs(a[4], TRUE, NoNode) = {Database} /\ a[4][1] = "delete_tag"
  BY <1>2 DEF Needs, LastDeletes
<1>6. Gives(a[3]) = {Database}
  BY <1>2, GivesOf
<1>7. Grounded(a, TRUE, NoNode, H)
  <2> SUFFICES ASSUME NEW i \in 1..Len(a), NEW row \in Needs(a[i], TRUE, NoNode), row \notin H
               PROVE  \E j \in 1..Len(a) : j < i /\ row \in Gives(a[j])
    BY DEF Grounded
  <2>1. i = 4 /\ row = Database
    BY <1>2, <1>4, <1>5
  <2>2. 3 \in 1..Len(a) /\ 3 < 4
    BY <1>2
  <2> QED BY <1>6, <2>1, <2>2
<1>8. Lowest(a[5]) = 4
  BY <1>2 DEF Lowest, Stage, Wide
<1>9. ToSweep(a, 4)
  BY <1>2 DEF ToSweep
<1>10. ASSUME NEW i \in 1..Len(a)
       PROVE  a[i][1] \notin {"reassign", "insert_edge"} /\ (a[i][1] \in LastDeletes => i = 4)
  BY <1>2, <1>4, <1>5 DEF LastDeletes
<1>11. Ready(a, TRUE, NoNode, H, {})
  BY <1>1, <1>7 DEF Ready
<1> QED BY <1>2, <1>8, <1>9, <1>10, <1>11 DEF a

LEMMA ProgramReady ==
    ASSUME NEW r \in Requests, NEW H
    PROVE  Ready(Program(r), Deleting(r), NoNode, H, {})
<1>1. CASE r.op = "POST"
  <2>1. /\ r.node \in NodeIds /\ r.kind \in Kinds /\ r.parent \in NodeIds \cup {NoNode}
        /\ r.tags \in Seq(Tags)
    BY <1>1 DEF Requests, Creations, Changes, Deletions, TagRequests
  <2>2. Ready(CreateNode(r.node, r.kind, r.parent, r.tags), Deleting(r), NoNode, H, {})
    <3> DEFINE a == CreateNode(r.node, r.kind, r.parent, r.tags)
               G == H \cup {Node(r.node)}
    <3>1. Ready(a, Deleting(r), NoNode, H, G)
      BY <2>1, CreateNodeReady
    <3> HIDE DEF a, G
    <3>2. Ready(a, Deleting(r), NoNode, H, {})
      BY <3>1, NarrowReady
    <3> QED BY <3>2 DEF a
  <2> QED BY <1>1, <2>2 DEF Program
<1>2. CASE r.op = "PUT"
  <2>1. r.node \in NodeIds
    BY <1>2 DEF Requests, Creations, Changes, Deletions, TagRequests
  <2>2. <<"create_or_replace", r.node>> \in Statements
    BY <2>1 DEF Statements
  <2>3. Ready(<< <<"create_or_replace", r.node>> >>, Deleting(r), NoNode, H, {})
    BY <2>2, PlainReady, NarrowReady
  <2> QED BY <1>2, <2>3 DEF Program
<1>3. CASE r.op = "PATCH"
  <2>1. /\ r.node \in NodeIds /\ r.kind \in Kinds \cup {Keep, Relabel}
        /\ r.parent \in NodeIds \cup {NoNode, Keep}
        /\ r.tags \in Seq(Tags) \cup {Keep}
    BY <1>3 DEF Requests, Creations, Changes, Deletions, TagRequests
  <2> QED BY <1>3, <2>1, UpdateNodeReady DEF Program
<1>4. CASE r.op = "DELETE"
  <2>1. r.node \in NodeIds /\ Deleting(r) = TRUE
    BY <1>4 DEF Requests, Creations, Changes, Deletions, TagRequests, Deleting
  <2>2. Ready(DeleteNode(r.node), TRUE, NoNode, H, {})
    BY <2>1, DeleteNodeReady
  <2> QED BY <1>4, <2>1, <2>2 DEF Program
<1>5. CASE r.op = "POST tag"
  <2> DEFINE u == r.tag
             x == <<"ensure_new_tag", u>>
             y == <<"ensure_tag", u>>
  <2>1. u \in Tags
    BY <1>5 DEF Requests, Creations, Changes, Deletions, TagRequests
  <2>2. CreateTag(u) \in Seq(Statements)
    BY <2>1, CreateTagPart, Zenon DEF Part
  <2>3. Len(CreateTag(u)) = 2 /\ CreateTag(u)[1] = x /\ CreateTag(u)[2] = y
    BY DEF CreateTag
  <2>4. Needs(x, Deleting(r), NoNode) = {} /\ Needs(y, Deleting(r), NoNode) = {}
    BY NeedsOf
  <2>5. \A i \in 1..Len(CreateTag(u)) : Needs(CreateTag(u)[i], Deleting(r), NoNode) = {}
    BY <2>3, <2>4
  <2>6. Ready(CreateTag(u), Deleting(r), NoNode, H, {})
    BY <2>2, <2>5 DEF Ready, Grounded
  <2> QED BY <1>5, <2>6 DEF Program
<1>6. CASE r.op = "DELETE tag"
  <2>1. r.tag \in Tags /\ Deleting(r) = TRUE
    BY <1>6 DEF Requests, Creations, Changes, Deletions, TagRequests, Deleting
  <2>2. Ready(DeleteTag(r.tag), TRUE, NoNode, H, {})
    BY <2>1, DeleteTagReady
  <2> QED BY <1>6, <2>1, <2>2 DEF Program
<1> QED BY <1>1, <1>2, <1>3, <1>4, <1>5, <1>6 DEF Requests, Creations, Changes, Deletions, TagRequests
-----------------------------------------------------------------------------
(* What refers to nothing, row by row.                                          *)

RowsUnder(n) == {Edge(n)} \cup MarksOf(n)

LEMMA DanglingRows ==
    ASSUME NEW v, Table(v), NEW n \in NodeIds
    PROVE  /\ RefersToNothing(v, n) => \E row \in RowsUnder(n) : \E ref \in Refs(row, v[row]) : v[ref] = Gone(ref)
           /\ \A row \in RowsUnder(n) : \A ref \in Refs(row, v[row]) : v[ref] = Gone(ref) => RefersToNothing(v, n)
<1>1. /\ Edge(n) \in Rows /\ Fits(Edge(n), v[Edge(n)]) /\ v[Edge(n)] \in NodeIds \cup {NoNode}
      /\ \A u \in Tags : Mark(n, u) \in Rows /\ v[Mark(n, u)] \in BOOLEAN /\ v[Tag(u)] \in BOOLEAN
  BY RowFacts DEF Table, Fits, Edge, Mark, Tag
<1>2. Refs(Edge(n), v[Edge(n)]) = IF v[Edge(n)] # NoNode THEN {Node(n), Node(v[Edge(n)])} ELSE {}
  BY DEF Refs, Edge
<1>3. \A u \in Tags : Refs(Mark(n, u), v[Mark(n, u)]) = IF v[Mark(n, u)] = TRUE THEN {Node(n), Tag(u)} ELSE {}
  BY DEF Refs, Mark
<1>4. \A m, u : Gone(Node(m)) = "absent" /\ Gone(Tag(u)) = FALSE
  BY DEF Gone, Node, Tag
<1>5. \A u : u \in TagsIn(v, n) <=> u \in Tags /\ v[Mark(n, u)] /\ v[Tag(u)]
  BY DEF TagsIn, MarksIn
<1>6. \A u : u \in MarksIn(v, n) <=> u \in Tags /\ v[Mark(n, u)]
  BY DEF MarksIn
<1>7. ASSUME RefersToNothing(v, n)
      PROVE  \E row \in RowsUnder(n) : \E ref \in Refs(row, v[row]) : v[ref] = Gone(ref)
  <2>1. CASE v[Edge(n)] # NoNode /\ "absent" \in {v[Node(n)], v[Node(v[Edge(n)])]}
    BY <1>2, <1>4, <2>1 DEF RowsUnder
  <2>2. CASE MarksIn(v, n) # TagsIn(v, n)
    <3>1. PICK u \in Tags : v[Mark(n, u)] /\ ~v[Tag(u)]
      BY <1>5, <1>6, <2>2
    <3>2. Mark(n, u) \in RowsUnder(n) /\ Tag(u) \in Refs(Mark(n, u), v[Mark(n, u)]) /\ v[Tag(u)] = FALSE
      BY <1>1, <1>3, <3>1 DEF RowsUnder, MarksOf
    <3> QED BY <1>4, <3>2
  <2>3. CASE v[Node(n)] = "absent" /\ MarksIn(v, n) # {}
    <3>1. PICK u \in Tags : v[Mark(n, u)]
      BY <1>6, <2>3
    <3>2. Mark(n, u) \in RowsUnder(n) /\ Node(n) \in Refs(Mark(n, u), v[Mark(n, u)])
      BY <1>1, <1>3, <3>1 DEF RowsUnder, MarksOf
    <3> QED BY <1>4, <2>3, <3>2
  <2> QED BY <1>7, <2>1, <2>2, <2>3 DEF RefersToNothing
<1>8. ASSUME NEW row \in RowsUnder(n), NEW ref \in Refs(row, v[row]), v[ref] = Gone(ref)
      PROVE  RefersToNothing(v, n)
  <2>1. CASE row = Edge(n)
    <3>1. v[Edge(n)] # NoNode /\ ref \in {Node(n), Node(v[Edge(n)])}
      BY <1>2, <1>8, <2>1
    <3>2. "absent" \in {v[Node(n)], v[Node(v[Edge(n)])]}
      BY <1>4, <1>8, <3>1
    <3> QED BY <3>1, <3>2 DEF RefersToNothing
  <2>2. ASSUME NEW u \in Tags, row = Mark(n, u) PROVE RefersToNothing(v, n)
    <3>1. v[Mark(n, u)] = TRUE /\ ref \in {Node(n), Tag(u)}
      BY <1>3, <1>8, <2>2
    <3>2. CASE ref = Node(n)
      <4>1. v[Node(n)] = "absent" /\ u \in MarksIn(v, n)
        BY <1>4, <1>6, <1>8, <3>1, <3>2
      <4> QED BY <4>1 DEF RefersToNothing
    <3>3. CASE ref = Tag(u)
      <4>1. u \in MarksIn(v, n) /\ u \notin TagsIn(v, n)
        BY <1>4, <1>5, <1>6, <1>8, <3>1, <3>3
      <4> QED BY <4>1 DEF RefersToNothing
    <3> QED BY <3>1, <3>2, <3>3
  <2> QED BY <1>8, <2>1, <2>2 DEF RowsUnder, MarksOf
<1> QED BY <1>7, <1>8

LEMMA BringsNoMore ==
    ASSUME NEW v, Table(v), NEW w, Table(w), NEW n \in NodeIds, RefersToNothing(w, n),
           \A row \in RowsUnder(n) : \A ref \in Refs(row, w[row]) :
               w[ref] = Gone(ref) => ref \in Refs(row, v[row]) /\ v[ref] = Gone(ref)
    PROVE  RefersToNothing(v, n)
<1>1. PICK row \in RowsUnder(n) : \E ref \in Refs(row, w[row]) : w[ref] = Gone(ref)
  BY DanglingRows
<1>2. PICK ref \in Refs(row, w[row]) : w[ref] = Gone(ref)
  BY <1>1
<1> QED BY <1>2, DanglingRows

(* Whatever a row of a node that is not there says, it refers to nothing.          *)
LEMMA RowsOfNoNode ==
    ASSUME NEW v, Table(v), NEW n \in NodeIds, v[Node(n)] = "absent",
           NEW w, Table(w), w[Node(n)] = "absent", \A row \in RowsUnder(n) : w[row] = v[row],
           RefersToNothing(v, n)
    PROVE  RefersToNothing(w, n)
<1>1. PICK row \in RowsUnder(n) : \E ref \in Refs(row, v[row]) : v[ref] = Gone(ref)
  BY DanglingRows
<1>2. Node(n) \in Refs(row, w[row]) /\ w[Node(n)] = Gone(Node(n))
  BY <1>1 DEF Refs, RowsUnder, MarksOf, Edge, Mark, Gone, Node
<1> QED BY <1>1, <1>2, DanglingRows
-----------------------------------------------------------------------------
(* Steps.                                                                     *)

LEMMA MoreBelated ==
    ASSUME Typed, \A x \in Threads : Deleting(request[x]) => Deleting(request'[x]),
           NEW t \in Threads, overtook[t] \subseteq overtook'[t],
           \A x \in Threads : overtook[x] \subseteq overtook'[x]
    PROVE  (Belated(t) => Belated(t)') /\ (Excused(t) => Excused(t)')
<1>1. \A x \in Threads : overtook[x] \subseteq Threads
  BY DEF Typed, ThreadOK
<1>2. ASSUME NEW x \in Threads, Belated(x) PROVE Belated(x)'
  <2>1. PICK o \in overtook[x] : Deleting(request[o])
    BY <1>2 DEF Belated
  <2>2. o \in Threads /\ o \in overtook'[x] /\ Deleting(request'[o])
    BY <1>1, <2>1
  <2> QED BY <2>2 DEF Belated, Deleting
<1>3. ASSUME Deleting(request[t]), NEW o \in overtook[t], Belated(o)
      PROVE  Excused(t)'
  <2>1. o \in Threads /\ o \in overtook'[t]
    BY <1>1
  <2>2. Belated(o)' /\ Deleting(request'[t])
    BY <1>2, <1>3, <2>1
  <2> QED BY <2>1, <2>2 DEF Excused, Deleting
<1>4. Belated(t) => Belated(t)'
  BY <1>2
<1>5. Belated(t)' => Excused(t)'
  BY DEF Excused
<1> QED BY <1>3, <1>4, <1>5 DEF Excused

(* What another thread does without changing the database.                         *)
LEMMA StaysLooking ==
    ASSUME NEW o \in Threads, LooksFirst(o), db' = db, todo'[o] = todo[o], seen'[o] = seen[o],
           writes'[o] = writes[o], request'[o] = request[o],
           Belated(o) => Belated(o)', Excused(o) => Excused(o)'
    PROVE  LooksFirst(o)'
<1>1. View(o)' = View(o) /\ Open(o)' = Open(o) /\ Deleting(request[o])' = Deleting(request[o])
  BY DEF View, Open, Over, Deleting
<1>2. Has(o) \subseteq Has(o)'
  BY <1>1 DEF Has, Rows, Node, Edge, Tag, Mark, Sequence, Database
<1>3. Grounded(todo[o], Deleting(request[o]), seen[o].home, Has(o))'
  <2>1. Grounded(todo[o], Deleting(request[o]), seen[o].home, Has(o)')
    BY <1>2, MoreGrounded DEF LooksFirst
  <2> QED BY <1>1, <2>1
<1>4. KnowsChildren(o)'
  <2>1. \A c : Founded(o, c) => Founded(o, c)'
    BY <1>1 DEF Founded, Node, RefersToNothing, Edge, MarksIn, TagsIn, Mark, Tag
  <2> QED BY <1>1, <2>1 DEF LooksFirst, KnowsChildren
<1>5. WritesUnderItsNode(o)'
  BY <1>1 DEF LooksFirst, WritesUnderItsNode, Node
<1>6. Deleting(request[o])' => Swept(todo[o], Open(o), View(o))'
  BY <1>1 DEF LooksFirst
<1>7. BringsNothing(o)'
  BY <1>1 DEF LooksFirst, BringsNothing
<1> QED BY <1>3, <1>4, <1>5, <1>6, <1>7 DEF LooksFirst

LEMMA SameNothing ==
    ASSUME NEW v, Table(v), NEW w, Table(w), \A row \in Rows : w[row] = v[row],
           NEW n \in NodeIds, RefersToNothing(w, n)
    PROVE  RefersToNothing(v, n)
<1>1. RowsUnder(n) \subseteq Rows
  BY RowFacts DEF RowsUnder
<1>2. \A row \in RowsUnder(n) : w[row] = v[row] /\ Refs(row, v[row]) \subseteq Rows
  BY <1>1, RefsAreRows DEF Table
<1> QED BY <1>2, BringsNoMore

(* A thread that has written nothing sees the database.                            *)
LEMMA SeesTheDatabase ==
    ASSUME Typed, NEW t \in Threads, DOMAIN writes[t] = {}
    PROVE  (\A row \in Rows : View(t)[row] = db[row]) /\ BringsNothing(t)
<1>1. Table(View(t)) /\ Table(db) /\ \A row \in Rows : View(t)[row] = db[row]
  BY ViewFits
<1>2. \A n \in NodeIds : RefersToNothing(View(t), n) => RefersToNothing(db, n)
  BY <1>1, SameNothing
<1> QED BY <1>1, <1>2 DEF BringsNothing

(* A request that has ended, or not begun.                                         *)
LEMMA RestsLooking ==
    ASSUME IInv, NEW t \in Threads, todo[t] = <<>>, writes[t] = <<>>,
           request[t] = NoRequest => seen[t].home = NoNode
    PROVE  LooksFirst(t)
<1>1. Len(todo[t]) = 0 /\ 1..0 = {} /\ DOMAIN writes[t] = {}
  OBVIOUS
<1>2. BringsNothing(t)
  BY <1>1, SeesTheDatabase DEF IInv
<1>3. Grounded(todo[t], Deleting(request[t]), seen[t].home, Has(t))
  BY <1>1 DEF Grounded
<1>4. KnowsChildren(t) /\ WritesUnderItsNode(t) /\ Swept(todo[t], Open(t), View(t))
  BY <1>1 DEF KnowsChildren, WritesUnderItsNode, Swept
<1> QED BY <1>2, <1>3, <1>4 DEF LooksFirst

(* What is swept before a row is deleted still is.                                 *)
LEMMA ToSweepLater ==
    ASSUME NEW S, NEW s \in Seq(S), NEW a \in Seq(S), NEW j \in 2..Len(s), ToSweep(s, j),
           s[j][1] = "delete_node" => j # 4, s[j][1] # "delete_node" => j # 2
    PROVE  ToSweep(a \o Tail(s), j + Len(a) - 1)
<1> DEFINE r == a \o Tail(s)
           i == j + Len(a) - 1
<1>1. /\ Len(s) \in Nat /\ Len(a) \in Nat /\ Len(r) = Len(a) + Len(s) - 1
      /\ \A k \in 1..Len(r) : r[k] = IF k <= Len(a) THEN a[k] ELSE s[k - Len(a) + 1]
  OBVIOUS
<1>2. i \in Int /\ i = j + Len(a) - 1
  BY <1>1
<1> HIDE DEF r, i
<1>3. ASSUME NEW k \in 0..3, j - k >= 2 PROVE r[i - k] = s[j - k]
  <2>1. i - k \in 1..Len(r) /\ ~(i - k <= Len(a)) /\ (i - k) - Len(a) + 1 = j - k
    BY <1>1, <1>2, <1>3
  <2> QED BY <1>1, <2>1
<1>4. r[i] = s[j]
  <2>1. i - 0 = i /\ j - 0 = j /\ j - 0 >= 2
    BY <1>2
  <2> QED BY <1>3, <2>1
<1>5. CASE s[j][1] = "delete_node"
  <2>1. j >= 4 /\ j - 3 >= 2 /\ i >= 4
    BY <1>1, <1>2, <1>5, SMTT(20) DEF ToSweep
  <2>2. r[i - 3] = s[j - 3] /\ r[i - 2] = s[j - 2] /\ r[i - 1] = s[j - 1]
    BY <1>3, <2>1
  <2> QED BY <1>4, <1>5, <2>1, <2>2 DEF ToSweep, r, i
<1>6. CASE s[j][1] # "delete_node"
  <2>1. j >= 2 /\ j - 1 >= 2 /\ i >= 2
    BY <1>1, <1>2, <1>6 DEF ToSweep
  <2>2. r[i - 1] = s[j - 1]
    BY <1>3, <2>1
  <2> QED BY <1>4, <1>6, <2>1, <2>2 DEF ToSweep, r, i
<1> QED BY <1>5, <1>6

LEMMA LaterStatements ==
    ASSUME NEW S, NEW s \in Seq(S), NEW a \in Seq(S), s # <<>>
    PROVE  /\ a \o Tail(s) \in Seq(S) /\ Len(s) \in Nat /\ Len(a) \in Nat /\ 1 \in 1..Len(s)
           /\ Len(a \o Tail(s)) = Len(a) + Len(s) - 1
           /\ \A i \in 1..Len(a) : i \in 1..Len(a \o Tail(s)) /\ (a \o Tail(s))[i] = a[i]
           /\ \A j \in 2..Len(s) : /\ j + Len(a) - 1 \in 1..Len(a \o Tail(s))
                                   /\ (a \o Tail(s))[j + Len(a) - 1] = s[j]
           /\ \A i \in 1..Len(a \o Tail(s)) : i \in 1..Len(a) \/ \E j \in 2..Len(s) : i = j + Len(a) - 1
<1> DEFINE r == a \o Tail(s)
<1>1. /\ r \in Seq(S) /\ Len(s) \in Nat /\ Len(s) >= 1 /\ Len(a) \in Nat /\ Len(r) = Len(a) + Len(s) - 1
      /\ \A i \in 1..Len(r) : r[i] = IF i <= Len(a) THEN a[i] ELSE s[i - Len(a) + 1]
  OBVIOUS
<1> HIDE DEF r
<1>2. \A i \in 1..Len(a) : i \in 1..Len(r) /\ r[i] = a[i]
  BY <1>1
<1>3. ASSUME NEW i \in 2..Len(s) PROVE i + Len(a) - 1 \in 1..Len(r) /\ r[i + Len(a) - 1] = s[i]
  <2>1. /\ i + Len(a) - 1 \in 1..Len(r) /\ ~(i + Len(a) - 1 <= Len(a))
        /\ (i + Len(a) - 1) - Len(a) + 1 = i
    BY <1>1
  <2> QED BY <1>1, <2>1
<1>4. \A i \in 1..Len(r) : i \in 1..Len(a) \/ \E j \in 2..Len(s) : i = j + Len(a) - 1
  <2> SUFFICES ASSUME NEW i \in 1..Len(r), ~(i \in 1..Len(a))
               PROVE  \E j \in 2..Len(s) : i = j + Len(a) - 1
    OBVIOUS
  <2>1. i - Len(a) + 1 \in 2..Len(s) /\ i = (i - Len(a) + 1) + Len(a) - 1
    BY <1>1
  <2> QED BY <2>1
<1> QED BY <1>1, <1>2, <1>3, <1>4 DEF r

(* The last DELETE after a step: nothing but events follows it.                      *)
LEMMA LastLater ==
    ASSUME NEW S, NEW s \in Seq(S), NEW a \in Seq(S), s # <<>>, NEW open, NEW v, Swept(s, open, v),
           NEW j \in 2..Len(s), s[j][1] \in LastDeletes,
           NEW k \in 1..Len(a \o Tail(s)), j + Len(a) - 1 < k
    PROVE  Lowest((a \o Tail(s))[k]) >= 4
<1> DEFINE r == a \o Tail(s)
<1>1. /\ Len(s) \in Nat /\ Len(a) \in Nat /\ Len(r) = Len(a) + Len(s) - 1
      /\ \A i \in 2..Len(s) : r[i + Len(a) - 1] = s[i]
      /\ \A i \in 1..Len(r) : i \in 1..Len(a) \/ \E x \in 2..Len(s) : i = x + Len(a) - 1
  BY LaterStatements, SMTT(20)
<1> HIDE DEF r
<1>2. k \in 1..Len(r) /\ ~(k \in 1..Len(a))
  BY <1>1 DEF r
<1>3. PICK x \in 2..Len(s) : k = x + Len(a) - 1
  BY <1>1, <1>2
<1>4. x \in 1..Len(s) /\ j \in 1..Len(s) /\ j < x /\ r[k] = s[x]
  BY <1>1, <1>3
<1>5. \A y \in 1..Len(s) : j < y => Lowest(s[y]) >= 4
  BY <1>4 DEF Swept
<1> QED BY <1>4, <1>5 DEF r

LEMMA SweptOn ==
    ASSUME NEW S, NEW s \in Seq(S), NEW a \in Seq(S), s # <<>>, NEW open, NEW more, NEW v, NEW w,
           Swept(s, open, v), s[1][1] \notin Sweeping, \A i \in 1..Len(a) : a[i][1] \notin LastDeletes
    PROVE  Swept(a \o Tail(s), more, w)
<1> DEFINE r == a \o Tail(s)
<1>1. /\ Len(s) \in Nat /\ Len(a) \in Nat /\ 1 \in 1..Len(s) /\ Len(r) = Len(a) + Len(s) - 1
      /\ \A i \in 1..Len(a) : r[i] = a[i]
      /\ \A i \in 2..Len(s) : r[i + Len(a) - 1] = s[i]
      /\ \A i \in 1..Len(r) : i \in 1..Len(a) \/ \E x \in 2..Len(s) : i = x + Len(a) - 1
  BY LaterStatements
<1> HIDE DEF r
<1> SUFFICES ASSUME NEW i \in 1..Len(r), r[i][1] \in LastDeletes
             PROVE  (\A k \in 1..Len(r) : i < k => Lowest(r[k]) >= 4) /\ ToSweep(r, i)
  BY DEF Swept, r
<1>2. PICK j \in 2..Len(s) : i = j + Len(a) - 1
  BY <1>1
<1>3. s[j][1] \in LastDeletes /\ j \in 1..Len(s) /\ 1 < j
  BY <1>1, <1>2
<1>4. \A k \in 1..Len(r) : i < k => Lowest(r[k]) >= 4
  BY <1>2, <1>3, LastLater DEF r
<1>5. ToSweep(s, j)
  <2>1. ~SweepsAll(s, j, v)
    BY <1>1, <1>3 DEF SweepsAll
  <2> QED BY <1>3, <2>1 DEF Swept
<1>6. ToSweep(r, i)
  <2>1. s[j][1] = "delete_node" => s[j - 3][1] \in Sweeping
    BY <1>5 DEF ToSweep, Sweeping
  <2>2. s[j][1] # "delete_node" => s[j - 1][1] \in Sweeping
    BY <1>5 DEF ToSweep, Sweeping
  <2>3. (s[j][1] = "delete_node" => j # 4) /\ (s[j][1] # "delete_node" => j # 2)
    BY <2>1, <2>2
  <2> QED BY <1>2, <1>5, <2>3, ToSweepLater DEF r
<1> QED BY <1>4, <1>6

LEMMA StatementsAreMore == Seq(Statements) \subseteq Seq(Statements \cup {Finish})
BY WiderSeq

(* A statement that only reads.                                                 *)
LEMMA LooksOn ==
    ASSUME IInv, NEW t \in Threads, Running(t), LooksFirst(t),
           NEW values, NEW a \in Seq(Statements), Learn(t, values, a),
           First(t)[1] \notin Sweeping,
           Grounded(a, Deleting(request[t]), values.home, Has(t)),
           Gives(First(t)) \subseteq Has(t) \cup GivenBy(a),
           values.home \in {seen[t].home, NoNode} \/ Node(values.home) \in Has(t) \cup GivenBy(a),
           Deleting(request[t]) =>
               \A i \in 1..Len(a) : /\ a[i][1] \notin LastDeletes
                                    /\ a[i][1] \in {"reassign", "insert_edge"} => Founded(t, a[i][2])
    PROVE  LooksFirst(t)'
<1> DEFINE s == todo[t]
           r == a \o Tail(s)
           d == Deleting(request[t])
           S == Statements \cup {Finish}
<1>1. s \in Seq(S) /\ a \in Seq(S) /\ s # <<>> /\ request[t] \in Requests /\ DOMAIN todo = Threads
      /\ DOMAIN seen = Threads
  BY StatementsAreMore DEF IInv, Typed, ThreadOK, Rest, Running, Domains
<1>2. /\ todo'[t] = r /\ seen'[t] = values /\ db' = db /\ writes' = writes /\ request' = request
      /\ overtook' = overtook
  BY <1>1 DEF Learn, Continue
<1>3. /\ View(t)' = View(t) /\ Open(t)' = Open(t) /\ Deleting(request[t])' = d
      /\ Belated(t)' = Belated(t) /\ Excused(t)' = Excused(t) /\ Has(t)' = Has(t)
  <2>1. View(t)' = View(t) /\ Open(t)' = Open(t) /\ Deleting(request[t])' = d
    BY <1>2 DEF View, Open, Over, Deleting
  <2>2. \A x : Belated(x)' = Belated(x)
    BY <1>2 DEF Belated, Deleting
  <2>3. Excused(t)' = Excused(t)
    BY <1>2, <2>1, <2>2 DEF Excused
  <2>4. Has(t)' = Has(t)
    BY <2>1, <2>2 DEF Has, Rows, Node, Edge, Tag, Mark, Sequence, Database
  <2> QED BY <2>1, <2>2, <2>3, <2>4
<1>4. Grounded(todo[t], Deleting(request[t]), seen[t].home, Has(t))'
  <2>1. Grounded(s, d, seen[t].home, Has(t))
    BY DEF LooksFirst
  <2>2. /\ Has(t) \subseteq Has(t) \cup GivenBy(a) /\ Gives(s[1]) \subseteq Has(t) \cup GivenBy(a)
        /\ Grounded(a, d, values.home, Has(t))
    BY DEF First
  <2> HIDE DEF s, d, S
  <2>3. Grounded(r, d, values.home, Has(t))
    BY <1>1, <2>1, <2>2, GroundedContinues
  <2> QED BY <1>2, <1>3, <2>3 DEF r
<1>5. KnowsChildren(t)'
  <2> SUFFICES ASSUME d, NEW i \in 1..Len(r), r[i][1] \in {"reassign", "insert_edge"}
               PROVE  Founded(t, r[i][2])
    <3>1. \A c : Founded(t, c)' = Founded(t, c)
      BY <1>2, <1>3 DEF Founded, Node, RefersToNothing, Edge, MarksIn, TagsIn, Mark, Tag
    <3> QED BY <1>2, <1>3, <3>1 DEF KnowsChildren
  <2>1. CASE i \in 1..Len(a)
    BY <1>1, <2>1, LaterStatements
  <2>2. ASSUME NEW j \in 2..Len(s), i = j + Len(a) - 1 PROVE Founded(t, r[i][2])
    <3>1. r[i] = s[j] /\ j \in 1..Len(s)
      <4> HIDE DEF s, S
      <4>1. r[j + Len(a) - 1] = s[j] /\ Len(s) \in Nat
        BY <1>1, LaterStatements
      <4> HIDE DEF r
      <4> QED BY <2>2, <4>1
    <3> QED BY <3>1 DEF LooksFirst, KnowsChildren
  <2>3. i \in 1..Len(a) \/ \E j \in 2..Len(s) : i = j + Len(a) - 1
    <3> HIDE DEF s, S
    <3> QED BY <1>1, LaterStatements
  <2> QED BY <2>1, <2>2, <2>3
<1>6. WritesUnderItsNode(t)'
  <2>1. WritesUnderItsNode(t)
    BY DEF LooksFirst
  <2> QED BY <1>2, <1>3, <2>1 DEF WritesUnderItsNode, Node
<1>7. Deleting(request[t])' => Swept(todo[t], Open(t), View(t))'
  <2> SUFFICES ASSUME d PROVE Swept(r, Open(t), View(t))
    BY <1>2, <1>3
  <2>1. Swept(s, Open(t), View(t)) /\ s[1][1] \notin Sweeping /\ \A i \in 1..Len(a) : a[i][1] \notin LastDeletes
    BY DEF LooksFirst, First
  <2> HIDE DEF s, S
  <2> QED BY <1>1, <2>1, SweptOn
<1>8. BringsNothing(t)'
  BY <1>2, <1>3 DEF LooksFirst, BringsNothing
<1>9. request'[t] # NoRequest
  <2>1. request'[t].op # "none"
    BY <1>1, <1>2 DEF Requests, Creations, Changes, Deletions, TagRequests
  <2>2. NoRequest.op = "none"
    BY DEF NoRequest
  <2> QED BY <2>1, <2>2
<1> QED BY <1>4, <1>5, <1>6, <1>7, <1>8, <1>9 DEF LooksFirst

(* Nothing but the request's own statements and memory changes.                    *)
LEMMA LearnKeepsFiles ==
    ASSUME IInv, FilesAreKept, NEW t \in Threads, NEW values, NEW a, Learn(t, values, a),
           engine = "sqlite" => LooksFirst(t)'
    PROVE  FilesAreKept'
<1> SUFFICES ASSUME engine = "sqlite" PROVE OneWriter' /\ \A o \in Threads : LooksFirst(o)'
  BY DEF FilesAreKept, Learn
<1>1. OneWriter'
  BY DEF FilesAreKept, OneWriter, Open, Learn
<1>2. ASSUME NEW o \in Threads, o # t PROVE LooksFirst(o)'
  <2>1. /\ LooksFirst(o) /\ db' = db /\ todo'[o] = todo[o] /\ seen'[o] = seen[o]
        /\ writes'[o] = writes[o] /\ request'[o] = request[o] /\ request' = request /\ overtook' = overtook
    BY <1>2 DEF FilesAreKept, Learn, Continue, IInv, Typed, Domains
  <2>2. (Belated(o) => Belated(o)') /\ (Excused(o) => Excused(o)')
    BY <2>1, MoreBelated DEF IInv, Deleting
  <2> QED BY <2>1, <2>2, StaysLooking
<1> QED BY <1>1, <1>2
(* The same of the next state.                                                     *)
RestsLook == \A t \in Threads :
    /\ IInv /\ todo[t] = <<>> /\ writes[t] = <<>> /\ (request[t] = NoRequest => seen[t].home = NoNode)
    => LooksFirst(t)
ViewsFit == IInv => \A t \in Threads :
    /\ Table(View(t)) /\ Table(db)
    /\ \A row \in Rows : View(t)[row] = IF row \in DOMAIN writes[t] THEN writes[t][row] ELSE db[row]
SeeTheDatabase == IInv => \A t \in Threads :
    DOMAIN writes[t] = {} => (\A row \in Rows : View(t)[row] = db[row]) /\ BringsNothing(t)
LEMMA Always == RestsLook /\ ViewsFit /\ SeeTheDatabase
<1>1. RestsLook
  BY RestsLooking DEF RestsLook
<1>2. ViewsFit
  BY ViewFits DEF ViewsFit, IInv
<1>3. SeeTheDatabase
  BY SeesTheDatabase DEF SeeTheDatabase, IInv
<1> QED BY <1>1, <1>2, <1>3

(* The statement that ends a request before its commit.                          *)
LEMMA EndKeepsFiles ==
    ASSUME IInv, IInv', FilesAreKept, NEW t \in Threads, NEW status, Running(t), End(t, status)
    PROVE  FilesAreKept'
<1> SUFFICES ASSUME engine = "sqlite" PROVE OneWriter' /\ \A o \in Threads : LooksFirst(o)'
  BY DEF FilesAreKept, End
<1>1. /\ todo'[t] = <<>> /\ writes'[t] = <<>> /\ \A o \in Threads : o # t => writes'[o] = writes[o]
      /\ request' = request /\ seen' = seen /\ db' = db /\ overtook' = overtook
  BY DEF End, IInv, Typed, Domains
<1>2. OneWriter'
  <2>1. DOMAIN <<>> = {}
    OBVIOUS
  <2> QED BY <1>1, <2>1 DEF FilesAreKept, OneWriter, Open
<1>3. LooksFirst(t)'
  <2>1. request[t] = NoRequest => seen[t].home = NoNode
    BY DEF FilesAreKept, LooksFirst
  <2>2. RestsLook'
    BY Always, PTL
  <2> QED BY <1>1, <2>1, <2>2 DEF RestsLook
<1>4. ASSUME NEW o \in Threads, o # t PROVE LooksFirst(o)'
  <2>1. LooksFirst(o) /\ todo'[o] = todo[o]
    BY <1>4 DEF FilesAreKept, End, IInv, Typed, Domains
  <2>2. (Belated(o) => Belated(o)') /\ (Excused(o) => Excused(o)')
    BY <1>1, MoreBelated DEF IInv, Deleting
  <2> QED BY <1>1, <1>4, <2>1, <2>2, StaysLooking
<1> QED BY <1>2, <1>3, <1>4
-----------------------------------------------------------------------------
(* The statements that read.                                                   *)

LEMMA HasFacts ==
    ASSUME NEW t \in Threads
    PROVE  /\ \A n \in NodeIds : Node(n) \in Has(t) <=> Belated(t) \/ View(t)[Node(n)] # "absent"
           /\ \A u \in Tags : Tag(u) \in Has(t) <=> Belated(t) \/ View(t)[Tag(u)] # FALSE
           /\ Database \in Has(t) <=> Open(t)
<1>1. \A n \in NodeIds : Node(n) \in Rows /\ Node(n) # Database /\ Node(n)[1] = "node"
                         /\ Gone(Node(n)) = "absent"
  BY DEF Rows, Node, Database, Gone
<1>2. \A u \in Tags : Tag(u) \in Rows /\ Tag(u) # Database /\ Tag(u)[1] = "tag" /\ Gone(Tag(u)) = FALSE
  <2>1. \A u \in Tags : Tag(u) \in Rows
    BY DEF Rows
  <2> QED BY <2>1 DEF Tag, Database, Gone
<1>3. Database \in Rows /\ Database[1] = "database"
  BY DEF Rows, Database
<1> QED BY <1>1, <1>2, <1>3, Zenon DEF Has

Follows(t, values, a) ==
    /\ Grounded(a, Deleting(request[t]), values.home, Has(t))
    /\ Gives(First(t)) \subseteq Has(t) \cup GivenBy(a)
    /\ values.home \in {seen[t].home, NoNode} \/ Node(values.home) \in Has(t) \cup GivenBy(a)
    /\ Deleting(request[t]) =>
          \A i \in 1..Len(a) : /\ a[i][1] \notin LastDeletes
                               /\ a[i][1] \in {"reassign", "insert_edge"} => Founded(t, a[i][2])

LEMMA LookKeepsFiles ==
    ASSUME IInv, FilesAreKept, NEW t \in Threads, Running(t), NEW values, NEW a \in Seq(Statements),
           Learn(t, values, a), First(t)[1] \notin Sweeping, engine = "sqlite" => Follows(t, values, a)
    PROVE  FilesAreKept'
<1>1. ASSUME engine = "sqlite" PROVE LooksFirst(t)'
  <2>1. LooksFirst(t) /\ Follows(t, values, a)
    BY <1>1 DEF FilesAreKept
  <2> QED BY <2>1, LooksOn DEF Follows
<1> QED BY <1>1, LearnKeepsFiles

LEMMA GlanceKeepsFiles ==
    ASSUME IInv, FilesAreKept, NEW t \in Threads, Running(t), NEW values, Learn(t, values, <<>>),
           First(t)[1] \notin Sweeping, values.home = seen[t].home, Gives(First(t)) \subseteq Has(t)
    PROVE  FilesAreKept'
<1>1. <<>> \in Seq(Statements) /\ Len(<<>>) = 0 /\ 1..0 = {}
  OBVIOUS
<1>2. \A d, home, H : Grounded(<<>>, d, home, H)
  BY NothingGrounded
<1>3. Follows(t, values, <<>>)
  BY <1>1, <1>2 DEF Follows
<1> QED BY <1>1, <1>3, LookKeepsFiles

(* A statement that needs nothing, gives nothing and is no sweep.                   *)
LEMMA PlainGives ==
    ASSUME NEW s, s[1] \notin Sweeping,
           s[1] \notin {"fetch_node", "insert_node", "ensure_container", "ensure_tag", "insert_tag"}
    PROVE  Gives(s) = {}
BY DEF Gives, Sweeping

LEMMA ChecksKeepFiles ==
    ASSUME IInv, IInv', FilesAreKept, NEW t \in Threads,
           \/ FetchNode(t) \/ EnsureChildless(t) \/ EnsureContainer(t) \/ EnsureAcyclic(t)
           \/ EnsureNewTag(t) \/ FetchTag(t)
    PROVE  FilesAreKept'
<1>1. ASSUME NEW s, Doing(t, s), s[1] \notin Sweeping, NEW holds, NEW status, Check(t, holds, status),
             holds => Gives(s) \subseteq Has(t)
      PROVE  FilesAreKept'
  <2>1. Running(t) /\ First(t) = s
    BY <1>1 DEF Doing, First
  <2>2. CASE holds
    BY <1>1, <2>1, <2>2, GlanceKeepsFiles DEF Check, Read
  <2>3. CASE ~holds
    BY <1>1, <2>1, <2>3, EndKeepsFiles DEF Check
  <2> QED BY <2>2, <2>3
<1>2. CASE FetchNode(t)
  <2>1. PICK n \in NodeIds : Doing(t, <<"fetch_node", n>>) /\ Check(t, View(t)[Node(n)] # "absent", 404)
    BY <1>2 DEF FetchNode
  <2>2. Gives(<<"fetch_node", n>>) = {Node(n)} /\ <<"fetch_node", n>>[1] \notin Sweeping
    BY GivesOf DEF Sweeping
  <2> QED BY <1>1, <2>1, <2>2, HasFacts, ZenonT(40)
<1>3. CASE EnsureChildless(t)
  <2>1. PICK n \in NodeIds : Doing(t, <<"ensure_childless", n>>) /\ Check(t, ChildrenIn(View(t), n) = {}, 400)
    BY <1>3 DEF EnsureChildless
  <2>2. Gives(<<"ensure_childless", n>>) = {} /\ <<"ensure_childless", n>>[1] \notin Sweeping
    BY GivesOf DEF Sweeping
  <2> QED BY <1>1, <2>1, <2>2
<1>4. CASE EnsureContainer(t)
  <2>1. PICK n \in NodeIds : /\ Doing(t, <<"ensure_container", n>>)
                             /\ Check(t, View(t)[Node(n)] = "container", 400)
    BY <1>4 DEF EnsureContainer
  <2>2. Gives(<<"ensure_container", n>>) = {Node(n)} /\ <<"ensure_container", n>>[1] \notin Sweeping
    BY GivesOf DEF Sweeping
  <2>3. View(t)[Node(n)] = "container" => Gives(<<"ensure_container", n>>) \subseteq Has(t)
    BY <2>2, HasFacts
  <2> QED BY <1>1, <2>1, <2>2, <2>3, ZenonT(40)
<1>5. CASE EnsureAcyclic(t)
  <2>1. PICK n \in NodeIds, p \in NodeIds :
           /\ Doing(t, <<"ensure_acyclic", n, p>>)
           /\ Check(t, n \notin Ancestors(View(t), p) \cup {p}, 400)
    BY <1>5 DEF EnsureAcyclic
  <2>2. Gives(<<"ensure_acyclic", n, p>>) = {} /\ <<"ensure_acyclic", n, p>>[1] \notin Sweeping
    BY GivesOf DEF Sweeping
  <2> QED BY <1>1, <2>1, <2>2
<1>6. CASE EnsureNewTag(t)
  <2>1. PICK u \in Tags : Doing(t, <<"ensure_new_tag", u>>) /\ Check(t, ~View(t)[Tag(u)], 409)
    BY <1>6 DEF EnsureNewTag
  <2>2. Gives(<<"ensure_new_tag", u>>) = {} /\ <<"ensure_new_tag", u>>[1] \notin Sweeping
    BY GivesOf DEF Sweeping
  <2> QED BY <1>1, <2>1, <2>2
<1>7. CASE FetchTag(t)
  <2>1. PICK u \in Tags :
           \/ Doing(t, <<"fetch_tag", u>>) /\ Check(t, View(t)[Tag(u)], 404)
           \/ Doing(t, <<"assert_tag", u>>) /\ Check(t, View(t)[Tag(u)], 500)
    BY <1>7 DEF FetchTag
  <2>2. /\ Gives(<<"fetch_tag", u>>) = {} /\ <<"fetch_tag", u>>[1] \notin Sweeping
        /\ Gives(<<"assert_tag", u>>) = {} /\ <<"assert_tag", u>>[1] \notin Sweeping
    BY GivesOf DEF Sweeping
  <2> QED BY <1>1, <2>1, <2>2
<1> QED BY <1>2, <1>3, <1>4, <1>5, <1>6, <1>7

LEMMA LowestIsNat == \A s : Lowest(s) \in Nat
BY DEF Lowest, Stage, Rank

LEMMA EventsTouchNothing ==
    ASSUME NEW s \in Statements \cup {Finish}, Lowest(s) >= 4
    PROVE  s[1] \notin LastDeletes \cup {"reassign", "insert_edge"} \cup Sweeping
<1>1. CASE s[1] = "remove_row"
  <2>1. s[2][1] \in {"edge", "mark"}
    BY <1>1, Contents DEF Finish
  <2>2. Lowest(s) \in {2, 3}
    BY <1>1, <2>1 DEF Lowest, Stage, Wide, Rank
  <2> QED BY <2>2
<1>2. CASE s[1] # "remove_row"
  BY <1>2 DEF Lowest, Stage, Wide, LastDeletes, Sweeping
<1> QED BY <1>1, <1>2

(* Events need nothing, and say so of whatever they are put in front of.             *)
LEMMA EventsAreHarmless ==
    ASSUME NEW a, NEW R, NEW e, NEW hi, Part(a, 4, hi, R, e)
    PROVE  /\ a \in Seq(Statements) /\ \A d, home, H : Grounded(a, d, home, H)
           /\ \A i \in 1..Len(a) : a[i] \in Statements /\ Lowest(a[i]) >= 4
           /\ \A i \in 1..Len(a) : a[i][1] \notin LastDeletes \cup {"reassign", "insert_edge"}
<1>1. a \in Seq(Statements) /\ \A i \in 1..Len(a) : a[i] \in Statements /\ Lowest(a[i]) >= 4
  BY LowestIsNat DEF Part
<1>2. \A d, home : \A i \in 1..Len(a) : Needs(a[i], d, home) = {}
  BY <1>1, EventsNeedNothing
<1>3. \A i \in 1..Len(a) : a[i][1] \notin LastDeletes \cup {"reassign", "insert_edge"}
  BY <1>1, EventsTouchNothing
<1> QED BY <1>1, <1>2, <1>3 DEF Grounded

LEMMA EventReadsKeepFiles ==
    ASSUME IInv, FilesAreKept, NEW t \in Threads,
           \/ AnnounceUpdate(t) \/ AnnounceReplacement(t) \/ AnnounceDeletion(t)
           \/ AnnounceBearers(t) \/ AnnounceParents(t)
    PROVE  FilesAreKept'
<1>1. PICK s, a : /\ Doing(t, s) /\ s # Finish /\ ~AnnouncesTag(s) /\ s[1] # "assert_tag"
                  /\ Lowest(s) = 4 /\ Highest(s) = 4 /\ Reach(s) = {}
                  /\ Part(a, 4, 4, {}, DeletesSomething(s)) /\ Learn(t, seen[t], a)
  BY EventReads
<1>2. Running(t) /\ First(t) = s /\ s \in Statements
  BY <1>1, FirstFacts
<1>3. s[1] \notin Sweeping
  BY <1>1, <1>2, EventsTouchNothing
<1>4. Gives(s) = {}
  BY <1>1, <1>3, PlainGives DEF Lowest, Stage, Wide
<1>5. /\ a \in Seq(Statements) /\ \A d, home, H : Grounded(a, d, home, H)
      /\ \A i \in 1..Len(a) : a[i][1] \notin LastDeletes \cup {"reassign", "insert_edge"}
  BY <1>1, EventsAreHarmless
<1>6. Follows(t, seen[t], a)
  BY <1>2, <1>4, <1>5 DEF Follows
<1> QED BY <1>1, <1>2, <1>3, <1>5, <1>6, LookKeepsFiles

LEMMA PieceReadsKeepFiles ==
    ASSUME IInv, FilesAreKept, NEW t \in Threads,
           Begins(t) \/ ReadParent(t) \/ ReadChildren(t) \/ ReadChildTags(t) \/ ReadTags(t)
    PROVE  FilesAreKept'
<1>1. PICK s, a : \E n \in NodeIds, value \in Representations :
         /\ Doing(t, s) /\ s \in (Pieced \cup {"announce"}) \X NodeIds /\ Reading(a, n)
         /\ Learn(t, [seen[t] EXCEPT !.resource = value], a)
  BY PieceReads
<1>2. PICK n \in NodeIds, value \in Representations :
         /\ Doing(t, s) /\ s \in (Pieced \cup {"announce"}) \X NodeIds /\ Reading(a, n)
         /\ Learn(t, [seen[t] EXCEPT !.resource = value], a)
  BY <1>1
<1>3. [seen[t] EXCEPT !.resource = value].home = seen[t].home
  BY DEF IInv, Typed, ThreadOK, Memory
<1>4. s # Finish /\ Lowest(s) = 4
  BY <1>2, PieceStatements
<1>5. Running(t) /\ First(t) = s /\ s \in Statements
  BY <1>2, <1>4, FirstFacts
<1>6. s[1] \notin Sweeping
  BY <1>4, <1>5, EventsTouchNothing
<1>7. Gives(s) = {}
  BY <1>4, <1>6, PlainGives DEF Lowest, Stage, Wide
<1>8. /\ a \in Seq(Statements) /\ \A d, home, H : Grounded(a, d, home, H)
      /\ \A i \in 1..Len(a) : a[i][1] \notin LastDeletes \cup {"reassign", "insert_edge"}
  BY <1>2, PiecePart, EventsAreHarmless
<1> DEFINE values == [seen[t] EXCEPT !.resource = value]
<1>9. values.home = seen[t].home /\ Learn(t, values, a)
  BY <1>2, <1>3
<1> HIDE DEF values
<1>10. Follows(t, values, a)
  BY <1>5, <1>7, <1>8, <1>9 DEF Follows
<1> QED BY <1>5, <1>6, <1>8, <1>9, <1>10, LookKeepsFiles

LEMMA GlancesKeepFiles ==
    ASSUME IInv, FilesAreKept, NEW t \in Threads,
           FetchParent(t) \/ FetchChildren(t) \/ FetchBearers(t) \/ PassBy(t)
    PROVE  FilesAreKept'
<1>0. \A x : [seen[t] EXCEPT !.nodes = x].home = seen[t].home /\ [seen[t] EXCEPT !.parent = x].home = seen[t].home
  BY DEF IInv, Typed, ThreadOK, Memory
<1>1. ASSUME NEW s, s[1] \in {"fetch_parent", "fetch_children", "fetch_bearers", "pass_by"},
             Doing(t, s), NEW values, Learn(t, values, <<>>), values.home = seen[t].home
      PROVE  FilesAreKept'
  <2>1. Running(t) /\ First(t) = s
    BY <1>1 DEF Doing, First
  <2>2. s[1] \notin Sweeping /\ Gives(s) = {}
    BY <1>1, PlainGives DEF Sweeping
  <2> QED BY <1>1, <2>1, <2>2, GlanceKeepsFiles
<1>2. CASE FetchParent(t)
  <2>1. PICK n \in NodeIds :
           /\ Doing(t, <<"fetch_parent", n>>)
           /\ Learn(t, [seen[t] EXCEPT !.parent = View(t)[Edge(n)]], <<>>)
    BY <1>2 DEF FetchParent
  <2> DEFINE s == <<"fetch_parent", n>>
             values == [seen[t] EXCEPT !.parent = View(t)[Edge(n)]]
  <2>2. values.home = seen[t].home
    BY <1>0
  <2>3. s[1] \in {"fetch_parent", "fetch_children", "fetch_bearers", "pass_by"}
    OBVIOUS
  <2>4. Doing(t, s) /\ Learn(t, values, <<>>)
    BY <2>1
  <2> HIDE DEF s, values
  <2> QED BY <1>1, <2>2, <2>3, <2>4
<1>3. CASE FetchChildren(t)
  <2>1. PICK n \in NodeIds :
           /\ Doing(t, <<"fetch_children", n>>)
           /\ Learn(t, [seen[t] EXCEPT !.nodes = ChildrenIn(View(t), n)], <<>>)
    BY <1>3 DEF FetchChildren
  <2> DEFINE s == <<"fetch_children", n>>
             values == [seen[t] EXCEPT !.nodes = ChildrenIn(View(t), n)]
  <2>2. values.home = seen[t].home
    BY <1>0
  <2>3. s[1] \in {"fetch_parent", "fetch_children", "fetch_bearers", "pass_by"}
    OBVIOUS
  <2>4. Doing(t, s) /\ Learn(t, values, <<>>)
    BY <2>1
  <2> HIDE DEF s, values
  <2> QED BY <1>1, <2>2, <2>3, <2>4
<1>4. CASE FetchBearers(t)
  <2>1. PICK u \in Tags :
           /\ Doing(t, <<"fetch_bearers", u>>)
           /\ Learn(t, [seen[t] EXCEPT !.nodes = BearersIn(View(t), u)], <<>>)
    BY <1>4 DEF FetchBearers
  <2> DEFINE s == <<"fetch_bearers", u>>
             values == [seen[t] EXCEPT !.nodes = BearersIn(View(t), u)]
  <2>2. values.home = seen[t].home
    BY <1>0
  <2>3. s[1] \in {"fetch_parent", "fetch_children", "fetch_bearers", "pass_by"}
    OBVIOUS
  <2>4. Doing(t, s) /\ Learn(t, values, <<>>)
    BY <2>1
  <2> HIDE DEF s, values
  <2> QED BY <1>1, <2>2, <2>3, <2>4
<1>5. CASE PassBy(t)
  BY <1>1, <1>5 DEF PassBy, Read
<1> QED BY <1>2, <1>3, <1>4, <1>5

LEMMA CreateOrReplaceKeepsFiles ==
    ASSUME IInv, FilesAreKept, NEW t \in Threads, CreateOrReplace(t)
    PROVE  FilesAreKept'
<1> DEFINE r == request[t]
<1>1. PICK n \in NodeIds :
         /\ Doing(t, <<"create_or_replace", n>>)
         /\ \/ Learn(t, seen[t], CreateNode(n, r.kind, r.parent, r.tags))
            \/ /\ View(t)[Node(n)] # "absent"
               /\ Learn(t, seen[t], ReplaceNode(n, r.kind, r.parent, r.tags))
  BY DEF CreateOrReplace, Read
<1> DEFINE s == <<"create_or_replace", n>>
<1>2. s # Finish /\ s[1] \notin Sweeping /\ Reach(s) = {Whole(n), Node(n), Edge(n)} \cup MarksOf(n)
  BY DEF Finish, Sweeping, Reach
<1>3. Running(t) /\ First(t) = s /\ Whole(n) \in Scope(r) /\ r \in Requests
  BY <1>1, <1>2, FirstFacts
<1>4. r.op = "PUT" /\ n = r.node /\ ~Deleting(r)
  <2>1. r.op = "PUT" /\ n = r.node
    BY <1>3 DEF Scope, Rows, MarksOf, Whole, Node, Edge, Mark, Tag, Sequence, Database
  <2> QED BY <2>1 DEF Deleting
<1>5. r.kind \in Kinds /\ r.parent \in NodeIds \cup {NoNode} /\ r.tags \in Seq(Tags)
  BY <1>3, <1>4 DEF Requests, Creations, Changes, Deletions, TagRequests
<1>6. Gives(s) = {}
  BY GivesOf
<1> HIDE DEF r, s
<1>7. ASSUME NEW a, NEW G, Ready(a, Deleting(r), seen[t].home, Has(t), G), Learn(t, seen[t], a)
      PROVE  FilesAreKept'
  <2>1. a \in Seq(Statements) /\ Grounded(a, Deleting(r), seen[t].home, Has(t))
    BY <1>7 DEF Ready
  <2>2. Follows(t, seen[t], a)
    BY <1>3, <1>4, <1>6, <2>1 DEF Follows, r
  <2> QED BY <1>2, <1>3, <1>7, <2>1, <2>2, LookKeepsFiles
<1>8. CASE Learn(t, seen[t], CreateNode(n, r.kind, r.parent, r.tags))
  BY <1>5, <1>7, <1>8, CreateNodeReady
<1>9. CASE View(t)[Node(n)] # "absent" /\ Learn(t, seen[t], ReplaceNode(n, r.kind, r.parent, r.tags))
  <2>1. Node(n) \in Has(t)
    BY <1>9, HasFacts
  <2> QED BY <1>5, <1>7, <1>9, <2>1, ReplaceNodeReady
<1> QED BY <1>1, <1>8, <1>9

(* The program that makes a new home inserts a node and announces it.                *)
LEMMA NewHomeIsPlain ==
    ASSUME NEW h \in NodeIds
    PROVE  \A i \in 1..Len(CreateNode(h, "container", NoNode, <<>>)) :
               CreateNode(h, "container", NoNode, <<>>)[i][1]
                   \notin LastDeletes \cup {"reassign", "insert_edge"}
<1> DEFINE x == <<"insert_node", h, "container">>
           e == << <<"announce", h>> >>
           f == Announcements({NoNode})
           a == CreateNode(h, "container", NoNode, <<>>)
           S == Statements
           Plain(c) == \A i \in 1..Len(c) : c[i][1] \notin LastDeletes \cup {"reassign", "insert_edge"}
<1>1. a = (((<<x>> \o <<>>) \o <<>>) \o e) \o f
  BY DEF CreateNode, When
<1>2. x \in S /\ x[1] \notin LastDeletes \cup {"reassign", "insert_edge"}
  BY DEF Statements, Kinds, LastDeletes
<1>3. <<x>> \in Seq(S) /\ Plain(<<x>>)
  BY <1>2
<1>4. e \in Seq(S) /\ Plain(e)
  BY EventPart, EventsAreHarmless
<1>5. f \in Seq(S) /\ Plain(f)
  BY AnnouncementsPart, EventsAreHarmless
<1>6. ASSUME NEW b \in Seq(S), NEW c \in Seq(S), Plain(b), Plain(c)
      PROVE  b \o c \in Seq(S) /\ Plain(b \o c)
  <2>1. /\ b \o c \in Seq(S) /\ Len(b \o c) = Len(b) + Len(c) /\ Len(b) \in Nat /\ Len(c) \in Nat
        /\ \A i \in 1..Len(b \o c) : (b \o c)[i] = IF i <= Len(b) THEN b[i] ELSE c[i - Len(b)]
    BY JoinedSeqs
  <2>2. \A i \in 1..Len(b \o c) : i \in 1..Len(b) \/ (~(i <= Len(b)) /\ i - Len(b) \in 1..Len(c))
    BY <2>1
  <2> QED BY <1>6, <2>1, <2>2
<1>7. <<x>> \o <<>> = <<x>>
  OBVIOUS
<1> HIDE DEF x, e, f, a, S
<1>8. a = (<<x>> \o e) \o f
  BY <1>1, <1>7
<1>9. <<x>> \o e \in Seq(S) /\ Plain(<<x>> \o e)
  BY <1>3, <1>4, <1>6
<1>10. Plain((<<x>> \o e) \o f)
  BY <1>5, <1>6, <1>9
<1> QED BY <1>8, <1>10 DEF a

LEMMA HomeReadsKeepFiles ==
    ASSUME IInv, FilesAreKept, NEW t \in Threads, FindHome(t) \/ FindOrphanContainer(t)
    PROVE  FilesAreKept'
<1>0. /\ setting.homes \subseteq NodeIds
      /\ \A x : [seen[t] EXCEPT !.home = x].home = x
  BY TransactionsAssumption DEF IInv, Typed, ThreadOK, Memory
<1>1. \A n : \A x \in {"find_home", "find_orphan_container"} :
         /\ <<x, n>>[1] \notin Sweeping /\ Gives(<<x, n>>) = {} /\ <<x, n>>[1] = x
         /\ \A d, home : Needs(<<x, n>>, d, home) = {}
  BY DEF Sweeping, Gives, Needs, LastDeletes
<1>2. CASE FindHome(t)
  <2>1. PICK n \in NodeIds :
           /\ Doing(t, <<"find_home", n>>)
           /\ \/ Learn(t, seen[t], <<>>)
              \/ Learn(t, seen[t], << <<"find_orphan_container", n>> >>)
    BY <1>2 DEF FindHome, Read, When
  <2>2. Running(t) /\ First(t) = <<"find_home", n>>
    BY <2>1 DEF Doing, First
  <2>3. CASE Learn(t, seen[t], <<>>)
    BY <1>1, <2>2, <2>3, GlanceKeepsFiles
  <2>4. CASE Learn(t, seen[t], << <<"find_orphan_container", n>> >>)
    <3> DEFINE x == <<"find_orphan_container", n>>
               a == <<x>>
    <3>1. x \in Statements /\ x[1] \notin LastDeletes \cup {"reassign", "insert_edge"}
      BY DEF Statements, LastDeletes
    <3>2. \A d, home : Needs(x, d, home) = {}
      BY <1>1
    <3>3. a \in Seq(Statements) /\ Len(a) = 1 /\ a[1] = x
      BY <3>1
    <3> HIDE DEF x
    <3>4. Grounded(a, Deleting(request[t]), seen[t].home, Has(t))
      BY <3>2, SingleGrounded
    <3>5. \A i \in 1..Len(a) : a[i] = x
      BY <3>3
    <3> HIDE DEF a
    <3>6. Follows(t, seen[t], a)
      BY <1>1, <2>2, <3>1, <3>4, <3>5 DEF Follows
    <3>7. Learn(t, seen[t], a)
      BY <2>4 DEF a, x
    <3> QED BY <1>1, <2>2, <3>3, <3>6, <3>7, LookKeepsFiles
  <2> QED BY <2>1, <2>3, <2>4
<1>3. CASE FindOrphanContainer(t)
  <2>1. PICK n \in NodeIds :
           /\ Doing(t, <<"find_orphan_container", n>>)
           /\ \/ \E h \in NodeIds \cup {NoNode} :
                    /\ h = NoNode \/ View(t)[Node(h)] = "container"
                    /\ Learn(t, [seen[t] EXCEPT !.home = h], <<>>)
              \/ \E h \in NodeIds :
                    Learn(t, [seen[t] EXCEPT !.home = h], CreateNode(h, "container", NoNode, <<>>))
    <3> DEFINE found == {h \in setting.homes : View(t)[Node(h)] = "container"}
    <3>1. found # {} => Min(found) \in NodeIds /\ View(t)[Node(Min(found))] = "container"
      <4>1. found \in SUBSET NodeIds /\ \A h \in found : View(t)[Node(h)] = "container"
        BY <1>0
      <4> HIDE DEF found
      <4>2. found # {} => Min(found) \in found
        BY <4>1, Least
      <4> QED BY <4>1, <4>2
    <3> QED BY <1>0, <1>3, <3>1 DEF FindOrphanContainer
  <2>2. Running(t) /\ First(t) = <<"find_orphan_container", n>>
    BY <2>1 DEF Doing, First
  <2>3. CASE \E h \in NodeIds \cup {NoNode} :
                /\ h = NoNode \/ View(t)[Node(h)] = "container"
                /\ Learn(t, [seen[t] EXCEPT !.home = h], <<>>)
    <3>1. PICK h \in NodeIds \cup {NoNode} :
             /\ h = NoNode \/ View(t)[Node(h)] = "container"
             /\ Learn(t, [seen[t] EXCEPT !.home = h], <<>>)
      BY <2>3
    <3>2. h = NoNode \/ Node(h) \in Has(t)
      BY <3>1, HasFacts
    <3>3. \A d, home, H : Grounded(<<>>, d, home, H)
      BY NothingGrounded
    <3>4. <<>> \in Seq(Statements) /\ 1..Len(<<>>) = {}
      OBVIOUS
    <3>5. Follows(t, [seen[t] EXCEPT !.home = h], <<>>)
      BY <1>0, <1>1, <2>2, <3>2, <3>3, <3>4 DEF Follows
    <3> QED BY <1>1, <2>2, <3>1, <3>4, <3>5, LookKeepsFiles
  <2>4. CASE \E h \in NodeIds :
                Learn(t, [seen[t] EXCEPT !.home = h], CreateNode(h, "container", NoNode, <<>>))
    <3>1. PICK h \in NodeIds :
             Learn(t, [seen[t] EXCEPT !.home = h], CreateNode(h, "container", NoNode, <<>>))
      BY <2>4
    <3> DEFINE a == CreateNode(h, "container", NoNode, <<>>)
    <3>2. Ready(a, Deleting(request[t]), h, Has(t), Has(t) \cup {Node(h)})
      <4>1. <<>> \in Seq(Tags) /\ "container" \in Kinds /\ NoNode \in NodeIds \cup {NoNode}
        BY DEF Kinds
      <4> QED BY <4>1, CreateNodeReady
    <3>3. \A i \in 1..Len(a) : a[i][1] \notin LastDeletes \cup {"reassign", "insert_edge"}
      BY NewHomeIsPlain
    <3> HIDE DEF a
    <3>4. a \in Seq(Statements) /\ Grounded(a, Deleting(request[t]), h, Has(t)) /\ Node(h) \in Has(t) \cup GivenBy(a)
      BY <3>2 DEF Ready
    <3>5. [seen[t] EXCEPT !.home = h].home = h
      BY <1>0
    <3>6. Follows(t, [seen[t] EXCEPT !.home = h], a)
      BY <1>1, <2>2, <3>3, <3>4, <3>5 DEF Follows
    <3> QED BY <1>1, <2>2, <3>1, <3>4, <3>6, LookKeepsFiles DEF a
  <2> QED BY <2>1, <2>3, <2>4
<1> QED BY <1>2, <1>3

(* Statements made one by one, each of which has what it needs.                      *)
LEMMA EachFollows ==
    ASSUME NEW t \in Threads, Gives(First(t)) \subseteq Has(t), NEW a \in Seq(Statements), NEW values,
           values.home = seen[t].home,
           \A i \in 1..Len(a) :
              /\ Needs(a[i], Deleting(request[t]), values.home) \subseteq Has(t)
              /\ a[i][1] \notin LastDeletes
              /\ Deleting(request[t]) /\ a[i][1] \in {"reassign", "insert_edge"} => Founded(t, a[i][2])
    PROVE  Follows(t, values, a)
<1>1. Grounded(a, Deleting(request[t]), values.home, Has(t))
  BY DEF Grounded
<1> QED BY <1>1 DEF Follows

LEMMA FirstNeeds ==
    ASSUME IInv, NEW t \in Threads, Running(t), LooksFirst(t)
    PROVE  Needs(First(t), Deleting(request[t]), seen[t].home) \subseteq Has(t)
<1>1. /\ 1 \in 1..Len(todo[t]) /\ Len(todo[t]) \in Nat
      /\ Grounded(todo[t], Deleting(request[t]), seen[t].home, Has(t))
  BY DEF IInv, Typed, ThreadOK, Rest, Running, LooksFirst
<1>2. \A j \in 1..Len(todo[t]) : ~(j < 1)
  BY <1>1
<1> QED BY <1>1, <1>2 DEF Grounded, First

LEMMA ReassignsKeepFiles ==
    ASSUME IInv, FilesAreKept, NEW t \in Threads, ReassignChildren(t) \/ Reassign(t)
    PROVE  FilesAreKept'
<1>1. CASE ReassignChildren(t)
  <2> DEFINE home == seen[t].home
  <2>1. PICK n \in NodeIds :
           LET children == Ascending(ChildrenIn(View(t), n))
           IN  /\ Doing(t, <<"reassign_children", n>>)
               /\ Learn(t, seen[t], When(home # NoNode,
                                         [i \in DOMAIN children |-> <<"reassign", children[i], home>>]))
    BY <1>1 DEF ReassignChildren, Read
  <2> DEFINE s == <<"reassign_children", n>>
             S == ChildrenIn(View(t), n)
             children == Ascending(S)
             a == [i \in DOMAIN children |-> <<"reassign", children[i], home>>]
  <2>2. PICK k \in Nat : DOMAIN children = 1..k /\ \A i \in 1..k : children[i] \in S
    <3>1. S \in SUBSET Nat /\ IsFiniteSet(S)
      BY Sights, TransactionsAssumption, FS_Subset
    <3> HIDE DEF S
    <3>2. Ascending(S) \in Seq(S)
      BY <3>1, AscendingFacts
    <3> QED BY <3>2
  <2>3. Doing(t, s) /\ Learn(t, seen[t], When(home # NoNode, a))
    BY <2>1
  <2>4. /\ s[1] \notin Sweeping /\ Gives(s) = {}
        /\ \A d : Needs(s, d, home) = IF home = NoNode THEN {} ELSE {Node(home)}
    <3>1. s[1] \notin Sweeping /\ Gives(s) = {}
      BY GivesOf DEF Sweeping
    <3>2. \A d, x : Needs(s, d, x) = IF x = NoNode THEN {} ELSE {Node(x)}
      BY DEF Needs, LastDeletes
    <3> QED BY <3>1, <3>2
  <2> HIDE DEF children, s
  <2>5. Running(t) /\ First(t) = s
    BY <2>3 DEF Doing, First
  <2>6. CASE home # NoNode
    <3>1. home \in NodeIds /\ S \subseteq NodeIds
      BY <2>6, Sights DEF Memory
    <3>2. \A c \in NodeIds : <<"reassign", c, home>> \in Statements
      BY <3>1 DEF Statements
    <3>3. \A c : \A d : Needs(<<"reassign", c, home>>, d, home) = {Node(home)}
      BY NeedsOf
    <3>4. a \in Seq(Statements) /\ Len(a) = k
      <4>1. a \in [1..k -> Statements]
        BY <2>2, <3>1, <3>2
      <4> QED BY <4>1
    <3>5. \A i \in 1..Len(a) : a[i] = <<"reassign", children[i], home>> /\ children[i] \in S
      BY <2>2, <3>4
    <3>6. Learn(t, seen[t], a)
      BY <2>3, <2>6 DEF When
    <3> HIDE DEF a
    <3>7. ASSUME engine = "sqlite", NEW c \in S PROVE Founded(t, c)
      <4>1. BringsNothing(t)
        BY <3>7 DEF FilesAreKept, LooksFirst
      <4>2. c \in NodeIds /\ View(t)[Edge(c)] = n /\ n # NoNode
        BY <3>7, TransactionsAssumption DEF ChildrenIn
      <4>3. View(t)[Node(c)] = "absent" => RefersToNothing(View(t), c)
        BY <4>2 DEF RefersToNothing
      <4> QED BY <4>1, <4>2, <4>3 DEF Founded, BringsNothing
    <3>8. ASSUME engine = "sqlite" PROVE Follows(t, seen[t], a)
      <4>1. Node(home) \in Has(t)
        <5>1. Needs(First(t), Deleting(request[t]), seen[t].home) \subseteq Has(t)
          BY <2>5, <3>8, FirstNeeds DEF FilesAreKept
        <5> QED BY <2>4, <2>5, <2>6, <5>1
      <4>2. ASSUME NEW i \in 1..Len(a)
            PROVE  /\ Needs(a[i], Deleting(request[t]), home) \subseteq Has(t)
                   /\ a[i][1] \notin LastDeletes
                   /\ Deleting(request[t]) /\ a[i][1] \in {"reassign", "insert_edge"} => Founded(t, a[i][2])
        <5>1. a[i] = <<"reassign", children[i], home>> /\ children[i] \in S
          BY <3>5
        <5>2. Needs(a[i], Deleting(request[t]), home) = {Node(home)}
          BY <3>3, <5>1
        <5>3. Founded(t, a[i][2]) /\ a[i][1] = "reassign"
          BY <3>7, <3>8, <5>1
        <5> QED BY <4>1, <5>2, <5>3 DEF LastDeletes
      <4>3. Gives(First(t)) \subseteq Has(t)
        BY <2>4, <2>5
      <4> QED BY <3>4, <4>2, <4>3, EachFollows
    <3> QED BY <2>4, <2>5, <3>4, <3>6, <3>8, LookKeepsFiles
  <2>7. CASE home = NoNode
    <3>1. Learn(t, seen[t], <<>>)
      BY <2>3, <2>7 DEF When
    <3> QED BY <2>4, <2>5, <3>1, GlanceKeepsFiles
  <2> QED BY <2>6, <2>7
<1>2. CASE Reassign(t)
  <2>1. PICK c \in NodeIds, p \in NodeIds :
           Doing(t, <<"reassign", c, p>>) /\ Learn(t, seen[t], SetParent(c, p))
    BY <1>2 DEF Reassign, Read
  <2> DEFINE s == <<"reassign", c, p>>
             a == SetParent(c, p)
  <2>2. /\ s[1] \notin Sweeping /\ Gives(s) = {} /\ \A d, home : Needs(s, d, home) = {Node(p)}
        /\ s # Finish /\ DeletesSomething(s) /\ s[1] = "reassign" /\ s[2] = c
    BY NeedsOf, GivesOf DEF Sweeping, Finish, DeletesSomething
  <2>3. Running(t) /\ First(t) = s /\ Deleting(request[t])
    BY <2>1, <2>2, FirstFacts
  <2>4. a \in Seq(Statements) /\ \A i \in 1..Len(a) : a[i] \in {<<"delete_edge", c>>, <<"insert_edge", c, p>>}
    <3>1. p # NoNode
      BY TransactionsAssumption
    <3> DEFINE x == <<"delete_edge", c>>
               y == <<"insert_edge", c, p>>
    <3>2. a = <<x>> \o <<y>>
      BY <3>1 DEF SetParent, When
    <3>3. x \in Statements /\ y \in Statements
      BY DEF Statements
    <3> HIDE DEF a, x, y
    <3>4. a \in Seq(Statements) /\ Len(a) = 2 /\ a[1] = x /\ a[2] = y
      BY <3>2, <3>3
    <3>5. \A i \in 1..Len(a) : a[i] \in {x, y}
      BY <3>4
    <3> QED BY <3>4, <3>5 DEF x, y
  <2>5. ASSUME engine = "sqlite" PROVE Follows(t, seen[t], a)
    <3>1. LooksFirst(t)
      BY <2>5 DEF FilesAreKept
    <3>2. Node(p) \in Has(t)
      <4>1. Needs(First(t), Deleting(request[t]), seen[t].home) \subseteq Has(t)
        BY <2>3, <3>1, FirstNeeds
      <4> QED BY <2>2, <2>3, <4>1
    <3>3. Ready(a, Deleting(request[t]), seen[t].home, Has(t), Has(t))
      BY <2>3, <3>2, SetParentReady
    <3>4. Founded(t, c)
      <4>1. KnowsChildren(t) /\ 1 \in 1..Len(todo[t]) /\ todo[t][1] = s
        BY <2>3, <3>1 DEF LooksFirst, IInv, Typed, ThreadOK, Rest, Running, First
      <4> QED BY <2>2, <2>3, <4>1 DEF KnowsChildren
    <3>5. \A i \in 1..Len(a) : a[i][1] \notin LastDeletes /\ a[i][2] = c
      BY <2>4 DEF LastDeletes
    <3>6. Grounded(a, Deleting(request[t]), seen[t].home, Has(t))
      BY <3>3 DEF Ready
    <3> HIDE DEF a
    <3> QED BY <2>2, <2>3, <3>4, <3>5, <3>6 DEF Follows
  <2> HIDE DEF a, s
  <2> QED BY <2>1, <2>2, <2>3, <2>4, <2>5, LookKeepsFiles DEF a, s
<1> QED BY <1>1, <1>2

LEMMA TagReadsKeepFiles ==
    ASSUME IInv, FilesAreKept, NEW t \in Threads, EnsureTag(t) \/ InsertMarks(t)
    PROVE  FilesAreKept'
<1>1. CASE EnsureTag(t)
  <2>1. PICK u \in Tags : /\ Doing(t, <<"ensure_tag", u>>)
                          /\ \/ View(t)[Tag(u)] /\ Learn(t, seen[t], <<>>)
                             \/ Learn(t, seen[t], << <<"insert_tag", u>> >>)
    BY <1>1 DEF EnsureTag, Read, When
  <2> DEFINE s == <<"ensure_tag", u>>
             x == <<"insert_tag", u>>
             a == <<x>>
  <2>2. s[1] \notin Sweeping /\ Gives(s) = {Tag(u)} /\ Gives(x) = {Tag(u)}
    BY GivesOf DEF Sweeping
  <2>3. x \in Statements /\ x[1] \notin LastDeletes \cup {"reassign", "insert_edge"}
    BY DEF Statements, LastDeletes
  <2>4. \A d, home : Needs(x, d, home) = {}
    BY NeedsOf
  <2>5. Running(t) /\ First(t) = s
    BY <2>1 DEF Doing, First
  <2>6. CASE View(t)[Tag(u)] /\ Learn(t, seen[t], <<>>)
    <3>1. View(t)[Tag(u)] # FALSE
      BY <2>6
    <3>2. Tag(u) \in Has(t)
      BY <3>1, HasFacts
    <3> HIDE DEF s, x
    <3> QED BY <2>2, <2>5, <2>6, <3>2, GlanceKeepsFiles
  <2>7. CASE Learn(t, seen[t], a)
    <3> HIDE DEF s, x
    <3>1. a \in Seq(Statements) /\ \A i \in 1..Len(a) : a[i] = x
      BY <2>3
    <3>2. Grounded(a, Deleting(request[t]), seen[t].home, Has(t)) /\ GivenBy(a) = Gives(x)
      BY <2>4, SingleGrounded
    <3> HIDE DEF a
    <3>3. Follows(t, seen[t], a)
      BY <2>2, <2>3, <2>5, <3>1, <3>2 DEF Follows
    <3> QED BY <2>2, <2>5, <2>7, <3>1, <3>3, LookKeepsFiles
  <2> QED BY <2>1, <2>6, <2>7
<1>2. CASE InsertMarks(t)
  <2>1. PICK n \in NodeIds, S \in SUBSET Tags :
           /\ Doing(t, <<"insert_marks", n, S>>)
           /\ \E list \in SetToSeqs(S) :
                 Learn(t, seen[t], [i \in DOMAIN list |-> <<"insert_mark", n, list[i]>>])
    BY <1>2 DEF InsertMarks, Read
  <2>2. PICK list \in SetToSeqs(S) :
           Learn(t, seen[t], [i \in DOMAIN list |-> <<"insert_mark", n, list[i]>>])
    BY <2>1
  <2> DEFINE s == <<"insert_marks", n, S>>
             a == [i \in DOMAIN list |-> <<"insert_mark", n, list[i]>>]
  <2>3. s[1] \notin Sweeping /\ Gives(s) = {}
    BY GivesOf DEF Sweeping
  <2>4. \A d, home : Needs(s, d, home) = {Database, Node(n)} \cup {Tag(u) : u \in S}
    BY NeedsOf
  <2>5. PICK k \in Nat : DOMAIN list = 1..k /\ \A i \in 1..k : list[i] \in S
    BY <2>2, ListOfSet, TransactionsAssumption, FS_Subset
  <2>6. ASSUME NEW u \in S
        PROVE  /\ <<"insert_mark", n, u>> \in Statements
               /\ <<"insert_mark", n, u>>[1] \notin LastDeletes \cup {"reassign", "insert_edge"}
               /\ \A d, home : Needs(<<"insert_mark", n, u>>, d, home) = {Database, Node(n), Tag(u)}
    <3>1. <<"insert_mark", n, u>> \in Statements
      BY DEF Statements
    <3>2. \A d, home : Needs(<<"insert_mark", n, u>>, d, home) = {Database, Node(n), Tag(u)}
      BY NeedsOf
    <3> QED BY <3>1, <3>2 DEF LastDeletes
  <2>7. a \in Seq(Statements) /\ Len(a) = k
    <3>1. a \in [1..k -> Statements]
      BY <2>5, <2>6
    <3> QED BY <3>1
  <2>8. \A i \in 1..Len(a) : a[i] = <<"insert_mark", n, list[i]>> /\ list[i] \in S
    BY <2>5, <2>7
  <2>9. Doing(t, s) /\ Learn(t, seen[t], a)
    BY <2>1, <2>2
  <2> HIDE DEF s, a
  <2>10. Running(t) /\ First(t) = s
    BY <2>9 DEF Doing, First
  <2>11. ASSUME engine = "sqlite" PROVE Follows(t, seen[t], a)
    <3>1. {Database, Node(n)} \cup {Tag(u) : u \in S} \subseteq Has(t)
      <4>1. Needs(First(t), Deleting(request[t]), seen[t].home) \subseteq Has(t)
        BY <2>10, <2>11, FirstNeeds DEF FilesAreKept
      <4> QED BY <2>4, <2>10, <4>1
    <3>2. ASSUME NEW i \in 1..Len(a)
          PROVE  /\ Needs(a[i], Deleting(request[t]), seen[t].home) \subseteq Has(t)
                 /\ a[i][1] \notin LastDeletes \cup {"reassign", "insert_edge"}
      <4>1. a[i] = <<"insert_mark", n, list[i]>> /\ list[i] \in S
        BY <2>8
      <4>2. Needs(a[i], Deleting(request[t]), seen[t].home) = {Database, Node(n), Tag(list[i])}
        BY <2>6, <4>1
      <4> QED BY <2>6, <3>1, <4>1, <4>2
    <3> QED BY <2>3, <2>7, <2>10, <3>2, EachFollows
  <2> QED BY <2>3, <2>7, <2>9, <2>10, <2>11, LookKeepsFiles
<1> QED BY <1>1, <1>2
-----------------------------------------------------------------------------
(* The statements that write.                                                  *)

LEMMA PublishedView ==
    ASSUME IInv, IInv', NEW t \in Threads, NEW rows, NEW references, NEW events, NEW a,
           Publish(t, rows, references, events, a), DOMAIN rows \subseteq Rows, engine = "sqlite"
    PROVE  /\ UNCHANGED <<engine, setting, db, request, seen, overtook>>
           /\ todo'[t] = a \o Tail(todo[t])
           /\ \A o \in Threads \ {t} : todo'[o] = todo[o] /\ writes'[o] = writes[o]
           /\ DOMAIN writes'[t] = DOMAIN rows \cup {Database} \cup DOMAIN writes[t] /\ Open(t)'
           /\ Table(View(t)) /\ Table(View(t)')
           /\ \A row \in DOMAIN rows : View(t)'[row] = rows[row]
           /\ \A row \in Rows \ DOMAIN rows : row # Database => View(t)'[row] = View(t)[row]
           /\ Belated(t)' = Belated(t) /\ Excused(t)' = Excused(t)
           /\ Deleting(request[t])' = Deleting(request[t])
<1>1. /\ UNCHANGED <<engine, setting, db, request, seen, overtook>>
      /\ writes' = [writes EXCEPT ![t] = Over(rows, Over(Only(Database, TRUE), @))]
      /\ todo' = [todo EXCEPT ![t] = a \o Tail(@)]
      /\ DOMAIN todo = Threads /\ DOMAIN writes = Threads
  BY DEF Publish, Continue, IInv, Typed, Domains
<1>2. writes'[t] = Over(rows, Over(Only(Database, TRUE), writes[t]))
  BY <1>1
<1>3. /\ DOMAIN Only(Database, TRUE) = {Database}
  BY OnlyFacts
<1>4. /\ DOMAIN writes'[t] = DOMAIN rows \cup {Database} \cup DOMAIN writes[t]
      /\ \A row \in DOMAIN rows : writes'[t][row] = rows[row]
      /\ \A row \in DOMAIN writes[t] \ (DOMAIN rows \cup {Database}) : writes'[t][row] = writes[t][row]
  BY <1>2, <1>3 DEF Over
<1>5. ViewsFit /\ ViewsFit'
  BY Always, PTL
<1>6. /\ Table(View(t)) /\ Table(View(t)')
      /\ \A row \in Rows : View(t)[row] = IF row \in DOMAIN writes[t] THEN writes[t][row] ELSE db[row]
      /\ \A row \in Rows : View(t)'[row] = IF row \in DOMAIN writes'[t] THEN writes'[t][row] ELSE db'[row]
  BY <1>5 DEF ViewsFit
<1>7. /\ \A row \in DOMAIN rows : View(t)'[row] = rows[row]
      /\ \A row \in Rows \ DOMAIN rows : row # Database => View(t)'[row] = View(t)[row]
  BY <1>1, <1>4, <1>6
<1>8. Deleting(request[t])' = Deleting(request[t]) /\ \A x : Belated(x)' = Belated(x)
  BY <1>1 DEF Belated, Deleting
<1>9. Excused(t)' = Excused(t)
  BY <1>1, <1>8 DEF Excused
<1>10. Open(t)'
  BY <1>4 DEF Open
<1> QED BY <1>1, <1>4, <1>6, <1>7, <1>8, <1>9, <1>10

Alone(t) == Open(t) \/ \A o \in Threads \ {t} : ~Open(o)

LEMMA PublishKeepsOthers ==
    ASSUME IInv, IInv', FilesAreKept, NEW t \in Threads, NEW rows, NEW references, NEW events, NEW a,
           Publish(t, rows, references, events, a), DOMAIN rows \subseteq Rows,
           engine = "sqlite" => Alone(t) /\ LooksFirst(t)'
    PROVE  FilesAreKept'
<1> SUFFICES ASSUME engine = "sqlite" PROVE OneWriter' /\ \A o \in Threads : LooksFirst(o)'
  BY DEF FilesAreKept, Publish
<1>1. /\ UNCHANGED <<engine, setting, db, request, seen, overtook>>
      /\ \A o \in Threads \ {t} : todo'[o] = todo[o] /\ writes'[o] = writes[o]
      /\ Open(t)'
  BY PublishedView
<1>2. OneWriter /\ \A o \in Threads \ {t} : ~Open(o)
  BY DEF FilesAreKept, OneWriter, Alone
<1>3. \A o \in Threads \ {t} : Open(o)' = Open(o)
  BY <1>1 DEF Open
<1>4. OneWriter'
  BY <1>1, <1>2, <1>3 DEF OneWriter
<1>5. ASSUME NEW o \in Threads, o # t PROVE LooksFirst(o)'
  <2>1. LooksFirst(o)
    BY DEF FilesAreKept
  <2>2. (Belated(o) => Belated(o)') /\ (Excused(o) => Excused(o)')
    BY <1>1, MoreBelated DEF IInv, Deleting
  <2> QED BY <1>1, <1>5, <2>1, <2>2, StaysLooking
<1> QED BY <1>4, <1>5

WritesWell(t, rows, a) ==
    /\ Grounded(a, Deleting(request[t]), seen[t].home, Has(t) \cup {Database})
    /\ Gives(First(t)) \subseteq Has(t) \cup {Database} \cup {row \in DOMAIN rows : row[1] \in {"node", "tag"}}
    /\ Deleting(request[t]) => \A i \in 1..Len(a) : a[i][1] \notin {"reassign", "insert_edge"}
    /\ \A row \in DOMAIN rows :
          /\ row[1] \in {"node", "tag"} => rows[row] # Gone(row)
          /\ row[1] \in {"edge", "mark"} /\ ~Deleting(request[t]) => Node(row[2]) \in Has(t)
BringsNoMoreThan(t) == \A n \in NodeIds : RefersToNothing(db, n) \/
    \A row \in RowsUnder(n) : \A ref \in Refs(row, View(t)'[row]) :
        View(t)'[ref] = Gone(ref) => ref \in Refs(row, View(t)[row]) /\ View(t)[ref] = Gone(ref)

LEMMA NothingMore ==
    ASSUME IInv, IInv', NEW t \in Threads, db' = db, Excused(t)' = Excused(t), BringsNothing(t),
           Excused(t) \/ BringsNoMoreThan(t)
    PROVE  BringsNothing(t)'
<1>1. ViewsFit /\ ViewsFit'
  BY Always, PTL
<1>2. Table(View(t)) /\ Table(View(t)')
  BY <1>1 DEF ViewsFit
<1> SUFFICES ASSUME ~Excused(t), NEW n \in NodeIds, RefersToNothing(View(t)', n)
             PROVE  RefersToNothing(db, n)
  BY DEF BringsNothing, RefersToNothing, Edge, Node, MarksIn, TagsIn, Mark, Tag
<1>3. RefersToNothing(db, n) \/ RefersToNothing(View(t), n)
  BY <1>2, BringsNoMore DEF BringsNoMoreThan
<1> QED BY <1>3 DEF BringsNothing

LEMMA EdgesOfNodes ==
    ASSUME NEW s \in Statements \cup {Finish}, s[1] \in {"reassign", "insert_edge"}
    PROVE  s[2] \in NodeIds /\ s[3] \in NodeIds
BY DEF Statements, Finish

LEMMA WritesOn ==
    ASSUME IInv, IInv', NEW t \in Threads, Running(t), LooksFirst(t), engine = "sqlite",
           NEW rows, NEW references, NEW events, NEW a \in Seq(Statements),
           Publish(t, rows, references, events, a), DOMAIN rows \subseteq Rows,
           WritesWell(t, rows, a), Excused(t) \/ BringsNoMoreThan(t),
           Deleting(request[t]) => Swept(a \o Tail(todo[t]), TRUE, View(t)')
    PROVE  LooksFirst(t)'
<1> DEFINE s == todo[t]
           r == a \o Tail(s)
           d == Deleting(request[t])
           S == Statements \cup {Finish}
           J == Has(t)'
<1>1. s \in Seq(S) /\ a \in Seq(S) /\ s # <<>> /\ request[t] \in Requests
  BY StatementsAreMore DEF IInv, Typed, ThreadOK, Rest, Running
<1>2. /\ UNCHANGED <<engine, setting, db, request, seen, overtook>>
      /\ todo'[t] = r
      /\ DOMAIN writes'[t] = DOMAIN rows \cup {Database} \cup DOMAIN writes[t] /\ Open(t)'
      /\ \A row \in DOMAIN rows : View(t)'[row] = rows[row]
      /\ \A row \in Rows \ DOMAIN rows : row # Database => View(t)'[row] = View(t)[row]
      /\ Belated(t)' = Belated(t) /\ Excused(t)' = Excused(t) /\ Deleting(request[t])' = d
  BY PublishedView
<1>3. ASSUME NEW row \in Rows, row[1] \in {"node", "tag"}, View(t)[row] # Gone(row)
      PROVE  View(t)'[row] # Gone(row)
  BY <1>2, <1>3 DEF WritesWell, Database
<1>4. Has(t) \cup {Database} \subseteq J
  BY <1>2, <1>3 DEF Has, Rows, Node, Edge, Tag, Mark, Sequence, Database
<1>5. {row \in DOMAIN rows : row[1] \in {"node", "tag"}} \subseteq J
  <2> SUFFICES ASSUME NEW row \in DOMAIN rows, row[1] \in {"node", "tag"} PROVE row \in J
    OBVIOUS
  <2>1. row \in Rows /\ rows[row] # Gone(row) /\ View(t)'[row] = rows[row]
    BY <1>2 DEF WritesWell
  <2>2. J = {x \in Rows : \/ x = Database /\ Open(t)'
                          \/ x[1] \in {"node", "tag"} /\ (Belated(t)' \/ View(t)'[x] # Gone(x))}
    BY DEF Has, Rows, Node, Edge, Tag, Mark, Sequence, Database, Gone
  <2> HIDE DEF J
  <2> QED BY <2>1, <2>2
<1> HIDE DEF J
<1>6. Grounded(r, d, seen[t].home, J)
  <2>1. Grounded(s, d, seen[t].home, Has(t)) /\ Grounded(a, d, seen[t].home, Has(t) \cup {Database})
    BY DEF LooksFirst, WritesWell
  <2>2. Grounded(a, d, seen[t].home, J)
    BY <1>4, <2>1, MoreGrounded
  <2>3. Has(t) \subseteq J \cup GivenBy(a) /\ Gives(s[1]) \subseteq J \cup GivenBy(a)
    BY <1>4, <1>5 DEF WritesWell, First
  <2> HIDE DEF s, d, S
  <2> QED BY <1>1, <2>1, <2>2, <2>3, GroundedContinues
<1>7. Grounded(todo[t], Deleting(request[t]), seen[t].home, Has(t))'
  BY <1>2, <1>6 DEF J
<1>8. KnowsChildren(t)'
  <2> DEFINE F(c) == Excused(t)' \/ View(t)'[Node(c)] # "absent" \/ RefersToNothing(db', c)
  <2>1. ASSUME NEW c \in NodeIds, Founded(t, c) PROVE F(c)
    <3>1. Node(c) \in Rows /\ Node(c)[1] = "node" /\ Gone(Node(c)) = "absent"
      BY RowFacts DEF Node, Gone
    <3> QED BY <1>2, <1>3, <2>1, <3>1 DEF Founded
  <2> HIDE DEF F
  <2>2. ASSUME d, NEW i \in 1..Len(r), r[i][1] \in {"reassign", "insert_edge"}
        PROVE  F(r[i][2])
    <3>0. i \notin 1..Len(a)
      BY <1>1, <2>2, LaterStatements DEF WritesWell
    <3>1. \A k \in 1..Len(r) : k \in 1..Len(a) \/ \E j \in 2..Len(s) : k = j + Len(a) - 1
      <4> HIDE DEF s, S
      <4> QED BY <1>1, LaterStatements
    <3>6. PICK j \in 2..Len(s) : i = j + Len(a) - 1
      BY <3>0, <3>1
    <3>2. r[i] = s[j] /\ j \in 1..Len(s)
      BY <1>1, <3>6, LaterStatements
    <3>3. Founded(t, s[j][2])
      BY <2>2, <3>2 DEF LooksFirst, KnowsChildren
    <3>4. s[j] \in S
      BY <1>1, <3>2
    <3> HIDE DEF s, r, S
    <3>5. s[j][2] \in NodeIds
      BY <2>2, <3>2, <3>4, EdgesOfNodes DEF S
    <3> QED BY <2>1, <3>2, <3>3, <3>5
  <2> HIDE DEF r
  <2> QED BY <1>2, <2>2 DEF KnowsChildren, Founded, F
<1>9. WritesUnderItsNode(t)'
  <2> SUFFICES ASSUME ~d, ~Belated(t), NEW row \in DOMAIN writes'[t], row[1] \in {"edge", "mark"}
               PROVE  View(t)'[Node(row[2])] # "absent"
    BY <1>2 DEF WritesUnderItsNode, Node
  <2>1. row \in Rows
    BY DEF IInv, Typed, ThreadOK, WritesFit
  <2>2. row[2] \in NodeIds /\ Node(row[2]) \in Rows
    <3>1. row[2] \in NodeIds
      BY <2>1 DEF Rows, Node, Edge, Tag, Mark, Sequence, Database
    <3> QED BY <3>1, RowFacts
  <2>3. View(t)[Node(row[2])] # "absent"
    <3>1. CASE row \in DOMAIN rows
      BY <2>2, <3>1, HasFacts DEF WritesWell
    <3>2. CASE row \in DOMAIN writes[t]
      BY <3>2 DEF LooksFirst, WritesUnderItsNode
    <3> QED BY <1>2, <3>1, <3>2 DEF Database
  <2> QED BY <1>3, <2>2, <2>3 DEF Node, Gone
<1>10. Deleting(request[t])' => Swept(todo[t], Open(t), View(t))'
  BY <1>2
<1>11. BringsNothing(t)'
  BY <1>2, NothingMore DEF LooksFirst
<1>12. request'[t] # NoRequest
  <2>1. request'[t].op # "none"
    BY <1>1, <1>2 DEF Requests, Creations, Changes, Deletions, TagRequests
  <2>2. NoRequest.op = "none"
    BY DEF NoRequest
  <2> QED BY <2>1, <2>2
<1> QED BY <1>7, <1>8, <1>9, <1>10, <1>11, <1>12 DEF LooksFirst

LEMMA GrantedAlone ==
    ASSUME engine = "sqlite", NEW t \in Threads, NEW s, Doing(t, s), s[1] \in FirstWrites, Granted(t)
    PROVE  Alone(t)
BY DEF Granted, Blockers, Doing, Alone

LEMMA NeedsDatabase ==
    ASSUME IInv, NEW t \in Threads, LooksFirst(t), NEW s, Doing(t, s),
           Database \in Needs(s, Deleting(request[t]), seen[t].home)
    PROVE  Open(t) /\ Alone(t)
<1>1. Running(t) /\ First(t) = s
  BY DEF Doing, First
<1>2. Database \in Has(t)
  BY <1>1, FirstNeeds
<1> QED BY <1>2, HasFacts DEF Alone

LEMMA PlainBringsNoMore ==
    ASSUME IInv, IInv', NEW t \in Threads, NEW rows, NEW references, NEW events, NEW a,
           Publish(t, rows, references, events, a), DOMAIN rows \subseteq Rows, engine = "sqlite",
           \A row \in DOMAIN rows : /\ Refs(row, rows[row]) = {}
                                    /\ row[1] \in {"node", "tag"} => rows[row] # Gone(row)
    PROVE  BringsNoMoreThan(t)
<1>1. /\ Table(View(t)) /\ Table(View(t)')
      /\ \A row \in DOMAIN rows : View(t)'[row] = rows[row]
      /\ \A row \in Rows \ DOMAIN rows : row # Database => View(t)'[row] = View(t)[row]
  BY PublishedView
<1> SUFFICES ASSUME NEW row \in Rows, NEW ref \in Refs(row, View(t)'[row]), View(t)'[ref] = Gone(ref)
             PROVE  ref \in Refs(row, View(t)[row]) /\ View(t)[ref] = Gone(ref)
  <2>1. \A n \in NodeIds : RowsUnder(n) \subseteq Rows
    BY RowFacts DEF RowsUnder
  <2> QED BY <2>1 DEF BringsNoMoreThan
<1>2. row \notin DOMAIN rows /\ row # Database
  BY <1>1 DEF Refs, Database
<1>3. ref \in Refs(row, View(t)[row])
  BY <1>1, <1>2
<1>4. ref \in Rows
  <2>1. Fits(row, View(t)[row])
    BY <1>1 DEF Table
  <2> QED BY <1>3, <2>1, RefsAreRows
<1>5. ref[1] \in {"node", "tag"} /\ ref # Database
  BY <1>3 DEF Refs, Node, Tag, Database
<1>6. ref \notin DOMAIN rows
  BY <1>1, <1>5
<1> QED BY <1>1, <1>3, <1>4, <1>5, <1>6

LEMMA WriteKeepsFiles ==
    ASSUME IInv, IInv', FilesAreKept, NEW t \in Threads, NEW s, Doing(t, s), s[1] \notin Sweeping,
           NEW rows, NEW references, NEW events, NEW a \in Seq(Statements),
           Publish(t, rows, references, events, a), DOMAIN rows \subseteq Rows,
           \A i \in 1..Len(a) : a[i][1] \notin LastDeletes,
           engine = "sqlite" =>
              Alone(t) /\ WritesWell(t, rows, a) /\ (Excused(t) \/ BringsNoMoreThan(t))
    PROVE  FilesAreKept'
<1>1. Running(t) /\ todo[t][1] = s
  BY DEF Doing
<1>2. ASSUME engine = "sqlite" PROVE LooksFirst(t)'
  <2>1. LooksFirst(t)
    BY <1>2 DEF FilesAreKept
  <2>2. ASSUME Deleting(request[t]) PROVE Swept(a \o Tail(todo[t]), TRUE, View(t)')
    <3> DEFINE p == todo[t]
               S == Statements \cup {Finish}
               w == View(t)'
    <3>1. Swept(p, Open(t), View(t)) /\ p[1][1] \notin Sweeping
      BY <1>1, <2>1, <2>2 DEF LooksFirst
    <3>2. p \in Seq(S) /\ a \in Seq(S) /\ p # <<>>
      BY <1>1, StatementsAreMore DEF IInv, Typed, ThreadOK, Rest, Running
    <3> HIDE DEF p, S, w
    <3>3. Swept(a \o Tail(p), TRUE, w)
      BY <3>1, <3>2, SweptOn
    <3> QED BY <3>3 DEF p, w
  <2> QED BY <1>1, <1>2, <2>1, <2>2, WritesOn
<1> QED BY <1>2, PublishKeepsOthers

(* A statement that writes nodes, tags or the log.                                *)
LEMMA PlainWriteKeepsFiles ==
    ASSUME IInv, IInv', FilesAreKept, NEW t \in Threads, NEW s, Doing(t, s), s[1] \notin Sweeping,
           NEW rows, NEW references, NEW events, NEW a \in Seq(Statements),
           Publish(t, rows, references, events, a), DOMAIN rows \subseteq Rows,
           \A i \in 1..Len(a) : Lowest(a[i]) >= 4,
           \A row \in DOMAIN rows : /\ row[1] \notin {"edge", "mark"}
                                    /\ row[1] \in {"node", "tag"} => rows[row] # Gone(row),
           Gives(s) \subseteq DOMAIN rows, engine = "sqlite" => Alone(t)
    PROVE  FilesAreKept'
<1>1. First(t) = s
  BY DEF Doing, First
<1>2. \A i \in 1..Len(a) : /\ a[i][1] \notin LastDeletes \cup {"reassign", "insert_edge"}
                           /\ \A d, home : Needs(a[i], d, home) = {}
  BY EventsTouchNothing, EventsNeedNothing
<1>3. \A row \in DOMAIN rows : Refs(row, rows[row]) = {}
  BY DEF Refs
<1>4. \A row \in Gives(s) : row[1] \in {"node", "tag"} \/ row = Database
  BY DEF Gives, Node, Tag
<1>5. \A d, home, H : Grounded(a, d, home, H)
  BY <1>2 DEF Grounded
<1>6. WritesWell(t, rows, a)
  BY <1>1, <1>2, <1>4, <1>5 DEF WritesWell
<1>7. engine = "sqlite" => BringsNoMoreThan(t)
  BY <1>3, PlainBringsNoMore
<1> QED BY <1>2, <1>6, <1>7, WriteKeepsFiles
-----------------------------------------------------------------------------
(* When somebody commits, those who have no transaction open see the new rows.        *)

LEMMA PassesGrounded ==
    ASSUME NEW s \in Seq(Statements \cup {Finish}), NEW r, Passes(s, r), NEW d, NEW home, NEW H,
           Grounded(s, d, home, H)
    PROVE  Grounded(r, d, home, H)
<1>1. /\ Len(r) = Len(s)
      /\ \A i \in 1..Len(s) : r[i] = s[i] \/ (s[i][1] = "remove_row" /\ r[i] = <<"pass_by">>)
  BY DEF Passes
<1>2. Needs(<<"pass_by">>, d, home) = {}
  BY NeedsOf
<1>3. \A x : x[1] = "remove_row" => Gives(x) = {}
  BY GivesOf
<1>4. \A i \in 1..Len(s) : Needs(r[i], d, home) \subseteq Needs(s[i], d, home) /\ Gives(s[i]) \subseteq Gives(r[i])
  BY <1>1, <1>2, <1>3
<1> QED BY <1>1, <1>4 DEF Grounded

LEMMA PassesSwept ==
    ASSUME NEW R, NEW d, NEW s, Rest(s, R, d), NEW r, Passes(s, r), NEW before, ~before,
           NEW v, Swept(s, before, v), NEW open, NEW w
    PROVE  Swept(r, open, w)
<1>1. /\ Len(r) = Len(s) /\ Len(s) \in Nat
      /\ \A i \in 1..Len(s) : r[i] = s[i] \/ (s[i][1] = "remove_row" /\ r[i] = <<"pass_by">>)
      /\ \A i \in 1..Len(s) : Lowest(r[i]) = 9 \/ r[i] = s[i]
  BY RestPasses DEF Passes
<1> SUFFICES ASSUME NEW i \in 1..Len(s), r[i][1] \in LastDeletes
             PROVE  (\A k \in 1..Len(s) : i < k => Lowest(r[k]) >= 4) /\ ToSweep(r, i)
  BY <1>1 DEF Swept
<1>2. r[i] = s[i]
  BY <1>1 DEF LastDeletes
<1>3. (\A k \in 1..Len(s) : i < k => Lowest(s[k]) >= 4) /\ ToSweep(s, i)
  BY <1>2 DEF Swept
<1>4. \A k \in 1..Len(s) : i < k => Lowest(r[k]) >= 4
  BY <1>1, <1>3
<1>5. \A k \in 1..Len(s) : s[k][1] # "remove_row" => r[k] = s[k]
  BY <1>1
<1>6. CASE s[i][1] = "delete_node"
  <2>1. i >= 4 /\ i - 3 \in 1..Len(s) /\ i - 2 \in 1..Len(s) /\ i - 1 \in 1..Len(s)
    BY <1>1, <1>3, <1>6 DEF ToSweep
  <2>2. /\ s[i - 3] = <<"delete_child_edges", s[i][2]>> /\ s[i - 2] = <<"delete_edge", s[i][2]>>
        /\ s[i - 1] = <<"delete_marks", s[i][2]>>
    BY <1>3, <1>6 DEF ToSweep
  <2>3. r[i - 3] = s[i - 3] /\ r[i - 2] = s[i - 2] /\ r[i - 1] = s[i - 1]
    BY <1>5, <2>1, <2>2
  <2> QED BY <1>2, <1>4, <1>6, <2>1, <2>2, <2>3 DEF ToSweep
<1>7. CASE s[i][1] # "delete_node"
  <2>1. i >= 2 /\ i - 1 \in 1..Len(s) /\ s[i - 1] = <<"delete_tag_marks", s[i][2]>>
    BY <1>1, <1>3, <1>7 DEF ToSweep
  <2>2. r[i - 1] = s[i - 1]
    BY <1>5, <2>1
  <2> QED BY <1>2, <1>4, <1>7, <2>1, <2>2 DEF ToSweep
<1> QED BY <1>6, <1>7

LEMMA OthersLook ==
    ASSUME IInv, IInv', NEW o \in Threads, LooksFirst(o), DOMAIN writes[o] = {}, writes'[o] = writes[o],
           Passes(todo[o], todo'[o]), request'[o] = request[o], seen'[o] = seen[o],
           Belated(o) => Belated(o)', Excused(o) => Excused(o)',
           \A row \in Rows : row[1] \in {"node", "tag"} /\ db[row] # Gone(row) =>
               Belated(o)' \/ db'[row] # Gone(row),
           Deleting(request[o]) => Excused(o)' \/ \A c \in NodeIds :
               db[Node(c)] = "absent" /\ db'[Node(c)] = "absent" => \A row \in RowsUnder(c) : db'[row] = db[row]
    PROVE  LooksFirst(o)'
<1> DEFINE s == todo[o]
           r == todo'[o]
           d == Deleting(request[o])
<1>1. /\ (\A row \in Rows : View(o)[row] = db[row]) /\ (\A row \in Rows : View(o)'[row] = db'[row])
      /\ BringsNothing(o)'
  <2>1. SeeTheDatabase /\ SeeTheDatabase'
    BY Always, PTL
  <2> QED BY <2>1 DEF SeeTheDatabase
<1>2. /\ Rest(s, Scope(request[o]), d) /\ s \in Seq(Statements \cup {Finish}) /\ Table(db) /\ Table(db')
  <2>1. Table(db) /\ Table(db') /\ ThreadOK(o)
    BY DEF IInv, Typed
  <2> QED BY <2>1 DEF ThreadOK, Rest
<1>3. d' = d /\ ~Open(o)
  BY DEF Deleting, Open
<1>4. Grounded(s, d, seen[o].home, Has(o))
  BY DEF LooksFirst
<1>5. Has(o) \subseteq Has(o)'
  <2> DEFINE J == {x \in Rows : \/ x = Database /\ Open(o)'
                                \/ x[1] \in {"node", "tag"} /\ (Belated(o)' \/ View(o)'[x] # Gone(x))}
  <2>1. Has(o)' = J
    BY DEF Has, Rows, Node, Edge, Tag, Mark, Sequence, Database, Gone
  <2>2. ASSUME NEW row \in Has(o) PROVE row \in J
    <3>1. row \in Rows /\ row[1] \in {"node", "tag"} /\ (Belated(o) \/ View(o)[row] # Gone(row))
      BY <1>3 DEF Has
    <3> QED BY <1>1, <3>1
  <2> QED BY <2>1, <2>2
<1>6. Grounded(todo[o], Deleting(request[o]), seen[o].home, Has(o))'
  <2> DEFINE J == Has(o)'
  <2> HIDE DEF s, r, d, J
  <2>1. Grounded(r, d, seen[o].home, Has(o))
    BY <1>2, <1>4, PassesGrounded DEF s, r
  <2>2. Grounded(r, d, seen[o].home, J)
    BY <1>5, <2>1, MoreGrounded DEF J
  <2> QED BY <1>3, <2>2 DEF r, d, J
<1>7. KnowsChildren(o)'
  <2> DEFINE F(c) == Excused(o)' \/ View(o)'[Node(c)] # "absent" \/ RefersToNothing(db', c)
  <2>1. ASSUME d, NEW c \in NodeIds, Founded(o, c) PROVE F(c)
    <3>1. Node(c) \in Rows /\ Node(c)[1] = "node" /\ Gone(Node(c)) = "absent"
      BY RowFacts DEF Node, Gone
    <3>2. Belated(o)' => Excused(o)'
      BY DEF Excused
    <3>3. CASE db[Node(c)] # "absent"
      BY <1>1, <3>1, <3>2, <3>3
    <3>4. CASE db[Node(c)] = "absent" /\ db'[Node(c)] = "absent" /\ ~(Excused(o)')
      <4>1. RefersToNothing(db, c)
        BY <1>1, <2>1, <3>1, <3>4 DEF Founded
      <4>2. \A row \in RowsUnder(c) : db'[row] = db[row]
        BY <2>1, <3>4
      <4>3. RefersToNothing(db', c)
        BY <1>2, <3>4, <4>1, <4>2, RowsOfNoNode
      <4> QED BY <4>3
    <3> QED BY <1>1, <3>1, <3>3, <3>4
  <2> HIDE DEF F
  <2>2. ASSUME d, NEW i \in 1..Len(r), r[i][1] \in {"reassign", "insert_edge"}
        PROVE  F(r[i][2])
    <3>1. r[i] = s[i] /\ i \in 1..Len(s)
      BY <2>2 DEF Passes
    <3>2. Founded(o, s[i][2])
      BY <2>2, <3>1 DEF LooksFirst, KnowsChildren
    <3>3. s[i] \in Statements \cup {Finish}
      BY <1>2, <3>1
    <3> HIDE DEF s, r
    <3>4. s[i][2] \in NodeIds
      BY <2>2, <3>1, <3>3, EdgesOfNodes
    <3> QED BY <2>1, <2>2, <3>1, <3>2, <3>4
  <2> HIDE DEF r
  <2> QED BY <1>3, <2>2 DEF KnowsChildren, Founded, F, r
<1>8. WritesUnderItsNode(o)'
  BY DEF WritesUnderItsNode
<1>9. Deleting(request[o])' => Swept(todo[o], Open(o), View(o))'
  <2> SUFFICES ASSUME d PROVE Swept(r, Open(o)', View(o)')
    BY <1>3
  <2>1. Swept(s, Open(o), View(o)) /\ ~Open(o)
    BY <1>3 DEF LooksFirst
  <2> DEFINE w == View(o)'
             open == Open(o)'
             before == Open(o)
  <2>3. Rest(s, Scope(request[o]), d) /\ Passes(s, r) /\ ~before /\ Swept(s, before, View(o))
    BY <1>2, <2>1
  <2> HIDE DEF s, r, d, w, open, before
  <2>2. Swept(r, open, w)
    BY <2>3, PassesSwept
  <2> QED BY <2>2 DEF w, open
<1> QED BY <1>1, <1>6, <1>7, <1>8, <1>9 DEF LooksFirst

(* The RELEASE of a savepoint commits a row that was not there.                       *)
LEMMA ReleaseKeepsFiles ==
    ASSUME IInv, IInv', FilesAreKept, engine = "sqlite", NEW t \in Threads, NEW s, Doing(t, s), Alone(t),
           ~Open(t), s[1] \notin Sweeping, NEW row \in Rows, row[1] \in {"node", "tag"},
           NEW value, value # Gone(row), Gives(s) \subseteq {row},
           NEW a \in Seq(Statements), \A i \in 1..Len(a) : Lowest(a[i]) >= 4,
           db' = [db EXCEPT ![row] = value], Overtake(t), Continue(t, a),
           UNCHANGED <<engine, setting, copy, request, seen, writes, shares, news, answer>>
    PROVE  FilesAreKept'
<1>1. OneWriter /\ \A o \in Threads : LooksFirst(o) /\ DOMAIN writes[o] = {} /\ ~Open(o)
  BY DEF FilesAreKept, OneWriter, Alone
<1>2. /\ Table(db) /\ Table(db') /\ DOMAIN db = Rows /\ db'[row] = value
      /\ \A x \in Rows : x # row => db'[x] = db[x]
  BY DEF IInv, Typed, Table
<1>3. OneWriter'
  <2>1. db' = [x \in Rows |-> db'[x]]
    BY <1>2
  <2> QED BY <1>1, <2>1 DEF OneWriter, Open
<1>4. ASSUME NEW o \in Threads PROVE (Belated(o) => Belated(o)') /\ (Excused(o) => Excused(o)')
  <2>1. \A x \in Threads : overtook[x] \subseteq overtook'[x]
    BY DEF Overtake
  <2> QED BY <2>1, MoreBelated DEF IInv, Deleting
<1>5. \A x \in Rows : x[1] \in {"node", "tag"} /\ db[x] # Gone(x) => db'[x] # Gone(x)
  BY <1>2
<1>6. ASSUME NEW o \in Threads, o # t PROVE LooksFirst(o)'
  <2>1. todo'[o] = todo[o]
    BY <1>6 DEF Continue, IInv, Typed, Domains
  <2>2. Passes(todo[o], todo'[o])
    BY <2>1, SelfPasses
  <2>3. ASSUME NEW c \in NodeIds PROVE \A x \in RowsUnder(c) : db'[x] = db[x]
    <3>1. RowsUnder(c) \subseteq Rows
      BY RowFacts DEF RowsUnder
    <3>2. row \notin RowsUnder(c)
      BY DEF RowsUnder, MarksOf, Edge, Mark
    <3> QED BY <1>2, <3>1, <3>2
  <2> QED BY <1>1, <1>4, <1>5, <2>2, <2>3, OthersLook
<1>7. LooksFirst(t)'
  <2> DEFINE p == todo[t]
             r == a \o Tail(p)
             d == Deleting(request[t])
             S == Statements \cup {Finish}
             J == Has(t)'
  <2>1. /\ p \in Seq(S) /\ a \in Seq(S) /\ p # <<>> /\ p[1] = s /\ request[t] \in Requests
        /\ todo'[t] = r /\ d' = d
    <3>1. p \in Seq(S) /\ p # <<>> /\ p[1] = s /\ request[t] \in Requests /\ DOMAIN todo = Threads
      BY DEF IInv, Typed, ThreadOK, Rest, Running, Doing, Domains
    <3>2. d' = d /\ todo'[t] = r
      BY <3>1 DEF Continue, Deleting
    <3> QED BY <3>1, <3>2, StatementsAreMore
  <2>2. /\ (\A x \in Rows : View(t)[x] = db[x]) /\ (\A x \in Rows : View(t)'[x] = db'[x])
        /\ BringsNothing(t)'
    <3>1. SeeTheDatabase /\ SeeTheDatabase'
      BY Always, PTL
    <3> QED BY <1>1, <3>1 DEF SeeTheDatabase
  <2>3. J = {x \in Rows : \/ x = Database /\ Open(t)'
                          \/ x[1] \in {"node", "tag"} /\ (Belated(t)' \/ View(t)'[x] # Gone(x))}
    BY DEF Has, Rows, Node, Edge, Tag, Mark, Sequence, Database, Gone
  <2> HIDE DEF J
  <2>4. Has(t) \subseteq J
    <3> SUFFICES ASSUME NEW x \in Has(t) PROVE x \in J
      OBVIOUS
    <3>1. x \in Rows /\ x[1] \in {"node", "tag"} /\ (Belated(t) \/ View(t)[x] # Gone(x))
      BY <1>1 DEF Has
    <3> QED BY <1>4, <1>5, <2>2, <2>3, <3>1
  <2>5. row \in J
    BY <1>2, <2>2, <2>3
  <2>6. \A i \in 1..Len(a) : /\ a[i][1] \notin LastDeletes \cup {"reassign", "insert_edge"}
                             /\ \A home : Needs(a[i], d, home) = {}
    BY EventsTouchNothing, EventsNeedNothing
  <2>7. Grounded(todo[t], Deleting(request[t]), seen[t].home, Has(t))'
    <3>1. Grounded(p, d, seen[t].home, Has(t)) /\ Grounded(a, d, seen[t].home, J)
      BY <1>1, <2>6 DEF LooksFirst, Grounded
    <3>2. Has(t) \subseteq J \cup GivenBy(a) /\ Gives(p[1]) \subseteq J \cup GivenBy(a)
      BY <2>1, <2>4, <2>5
    <3> HIDE DEF p, d, S
    <3>3. Grounded(r, d, seen[t].home, J)
      BY <2>1, <3>1, <3>2, GroundedContinues
    <3> QED BY <2>1, <3>3 DEF J, p, d
  <2>8. KnowsChildren(t)'
    <3> DEFINE F(c) == Excused(t)' \/ View(t)'[Node(c)] # "absent" \/ RefersToNothing(db', c)
    <3>1. ASSUME NEW c \in NodeIds, Founded(t, c) PROVE F(c)
      <4>1. Node(c) \in Rows /\ Node(c)[1] = "node" /\ Gone(Node(c)) = "absent" /\ RowsUnder(c) \subseteq Rows
        BY RowFacts DEF Node, Gone, RowsUnder
      <4>2. row \notin RowsUnder(c)
        BY DEF RowsUnder, MarksOf, Edge, Mark
      <4>3. CASE db[Node(c)] # "absent"
        BY <1>5, <2>2, <4>1, <4>3
      <4>4. CASE db[Node(c)] = "absent" /\ db'[Node(c)] = "absent" /\ ~Excused(t)
        <5>1. RefersToNothing(db, c)
          BY <2>2, <3>1, <4>1, <4>4 DEF Founded
        <5>2. RefersToNothing(db', c)
          BY <1>2, <4>1, <4>2, <4>4, <5>1, RowsOfNoNode
        <5> QED BY <5>2
      <4> QED BY <1>4, <2>2, <4>1, <4>3, <4>4
    <3> HIDE DEF F
    <3>2. ASSUME d, NEW i \in 1..Len(r), r[i][1] \in {"reassign", "insert_edge"}
          PROVE  F(r[i][2])
      <4>1. \A k \in 1..Len(r) : \/ k \in 1..Len(a) /\ r[k] = a[k]
                                 \/ \E j \in 2..Len(p) : k = j + Len(a) - 1
        BY <2>1, LaterStatements
      <4>2. PICK j \in 2..Len(p) : i = j + Len(a) - 1
        BY <2>6, <3>2, <4>1
      <4>3. r[i] = p[j] /\ j \in 1..Len(p)
        BY <2>1, <4>2, LaterStatements
      <4>4. Founded(t, p[j][2])
        BY <1>1, <3>2, <4>3 DEF LooksFirst, KnowsChildren
      <4>5. p[j] \in S
        BY <2>1, <4>3
      <4> HIDE DEF p, r, S
      <4>6. p[j][2] \in NodeIds
        BY <3>2, <4>3, <4>5, EdgesOfNodes DEF S
      <4> QED BY <3>1, <4>3, <4>4, <4>6
    <3> HIDE DEF r
    <3> QED BY <2>1, <3>2 DEF KnowsChildren, Founded, F
  <2>9. WritesUnderItsNode(t)'
    BY <1>1 DEF WritesUnderItsNode
  <2>10. Deleting(request[t])' => Swept(todo[t], Open(t), View(t))'
    <3> SUFFICES ASSUME d PROVE Swept(r, Open(t)', View(t)')
      BY <2>1
    <3> DEFINE w == View(t)'
               open == Open(t)'
    <3>1. Swept(p, Open(t), View(t)) /\ p[1][1] \notin Sweeping
      BY <1>1, <2>1 DEF LooksFirst
    <3> HIDE DEF p, S, d, w, open
    <3>2. Swept(r, open, w)
      BY <2>1, <2>6, <3>1, SweptOn
    <3> QED BY <3>2 DEF w, open
  <2>11. request'[t] # NoRequest
    <3>1. request'[t].op # "none"
      BY <2>1 DEF Requests, Creations, Changes, Deletions, TagRequests
    <3>2. NoRequest.op = "none"
      BY DEF NoRequest
    <3> QED BY <3>1, <3>2
  <2> QED BY <2>2, <2>7, <2>8, <2>9, <2>10, <2>11 DEF LooksFirst
<1> QED BY <1>3, <1>6, <1>7 DEF FilesAreKept
-----------------------------------------------------------------------------
(* The statements that write nodes, tags and events.                               *)

LEMMA SavepointKeepsFiles ==
    ASSUME IInv, IInv', FilesAreKept, NEW t \in Threads, NEW s, Doing(t, s), s[1] \in FirstWrites, Granted(t),
           s[1] \notin Sweeping, NEW row \in Rows, row[1] \in {"node", "tag"},
           NEW value, value # Gone(row), Gives(s) \subseteq {row},
           NEW a \in Seq(Statements), \A i \in 1..Len(a) : Lowest(a[i]) >= 4,
           InsertUnderSavepoint(t, row, value, a)
    PROVE  FilesAreKept'
<1>1. engine = "sqlite" => Alone(t)
  BY GrantedAlone
<1>2. CASE ReleaseCommits(t)
  <2>1. engine = "sqlite" /\ ~Open(t)
    BY <1>2 DEF ReleaseCommits
  <2>2. /\ db' = [db EXCEPT ![row] = value] /\ Overtake(t) /\ Continue(t, a)
        /\ UNCHANGED <<engine, setting, copy, request, seen, writes, shares, news, answer>>
    BY <1>2 DEF InsertUnderSavepoint
  <2> QED BY <1>1, <2>1, <2>2, ReleaseKeepsFiles
<1>3. CASE ~ReleaseCommits(t)
  <2> DEFINE rows == Only(row, value)
  <2>1. Publish(t, rows, {}, <<>>, a) /\ DOMAIN rows = {row} /\ rows[row] = value
    BY <1>3, OnlyFacts DEF InsertUnderSavepoint, Write
  <2> HIDE DEF rows
  <2>2. \A x \in DOMAIN rows : /\ x[1] \notin {"edge", "mark"}
                               /\ x[1] \in {"node", "tag"} => rows[x] # Gone(x)
    BY <2>1
  <2> QED BY <1>1, <2>1, <2>2, PlainWriteKeepsFiles
<1> QED BY <1>2, <1>3

LEMMA InsertNodeKeepsFiles ==
    ASSUME IInv, IInv', FilesAreKept, NEW t \in Threads, InsertNode(t)
    PROVE  FilesAreKept'
<1>1. PICK n \in NodeIds, kind \in Kinds :
         /\ Doing(t, <<"insert_node", n, kind>>) /\ Granted(t)
         /\ IF View(t)[Node(n)] # "absent" THEN End(t, IF request[t].op = "PUT" THEN 400 ELSE 500)
            ELSE InsertUnderSavepoint(t, Node(n), kind, <<>>)
  BY DEF InsertNode
<1> DEFINE s == <<"insert_node", n, kind>>
<1>2. CASE \E status : End(t, status)
  BY <1>1, <1>2, EndKeepsFiles DEF Doing
<1>3. CASE InsertUnderSavepoint(t, Node(n), kind, <<>>)
  <2>1. s[1] \in FirstWrites /\ s[1] \notin Sweeping
    BY DEF FirstWrites, Sweeping
  <2>2. Gives(s) = {Node(n)}
    BY GivesOf
  <2>3. Node(n) \in Rows /\ Node(n)[1] = "node" /\ kind # Gone(Node(n))
    BY RowFacts DEF Node, Gone, Kinds
  <2>4. <<>> \in Seq(Statements) /\ Len(<<>>) = 0 /\ 1..0 = {}
    OBVIOUS
  <2> HIDE DEF s
  <2> QED BY <1>1, <1>3, <2>1, <2>2, <2>3, <2>4, SavepointKeepsFiles DEF s
<1> QED BY <1>1, <1>2, <1>3

LEMMA InsertTagKeepsFiles ==
    ASSUME IInv, IInv', FilesAreKept, NEW t \in Threads, InsertTag(t)
    PROVE  FilesAreKept'
<1>1. PICK u \in Tags :
         /\ Doing(t, <<"insert_tag", u>>) /\ Granted(t)
         /\ IF View(t)[Tag(u)] THEN Read(t, << <<"ensure_tag", u>> >>)
            ELSE InsertUnderSavepoint(t, Tag(u), TRUE, << <<"assert_tag", u>>, <<"append", u, TRUE>> >>)
  BY DEF InsertTag
<1> DEFINE s == <<"insert_tag", u>>
<1>2. s[1] \in FirstWrites /\ s[1] \notin Sweeping
  BY DEF FirstWrites, Sweeping
<1>3. Gives(s) = {Tag(u)}
  BY GivesOf
<1>4. Tag(u) \in Rows /\ Tag(u)[1] = "tag" /\ Gone(Tag(u)) = FALSE
  <2>1. Tag(u) \in Rows
    BY DEF Rows
  <2> QED BY <2>1 DEF Tag, Gone
<1>5. Running(t) /\ First(t) = s /\ Doing(t, s)
  BY <1>1 DEF Doing, First
<1>6. CASE Read(t, << <<"ensure_tag", u>> >>)
  <2> DEFINE x == <<"ensure_tag", u>>
             a == <<x>>
  <2>1. x \in Statements /\ x[1] = "ensure_tag" /\ Gives(x) = {Tag(u)}
    BY GivesOf DEF Statements
  <2>2. \A d, home : Needs(x, d, home) = {}
    BY NeedsOf
  <2>3. Learn(t, seen[t], a)
    BY <1>6 DEF Read
  <2> HIDE DEF s, x
  <2>4. a \in Seq(Statements) /\ Len(a) = 1 /\ a[1] = x
    BY <2>1
  <2>5. \A d, home, H : Grounded(a, d, home, H)
    BY <2>2, SingleGrounded
  <2> HIDE DEF a
  <2>6. GivenBy(a) = {Tag(u)}
    BY <2>1, <2>4 DEF GivenBy
  <2>7. \A i \in 1..Len(a) : a[i][1] \notin LastDeletes \cup {"reassign", "insert_edge"}
    BY <2>1, <2>4 DEF LastDeletes
  <2>8. Follows(t, seen[t], a)
    BY <1>3, <1>5, <2>5, <2>6, <2>7 DEF Follows
  <2> QED BY <1>2, <1>5, <2>3, <2>4, <2>8, LookKeepsFiles
<1>7. CASE InsertUnderSavepoint(t, Tag(u), TRUE, << <<"assert_tag", u>>, <<"append", u, TRUE>> >>)
  <2> DEFINE x == <<"assert_tag", u>>
             y == <<"append", u, TRUE>>
             a == <<x, y>>
  <2>1. x \in Statements /\ y \in Statements
    BY DEF Statements
  <2>2. Lowest(x) >= 4 /\ Lowest(y) >= 4
    BY DEF Lowest, Stage, Wide, AnnouncesTag
  <2> HIDE DEF x, y
  <2>3. a \in Seq(Statements) /\ Len(a) = 2 /\ a[1] = x /\ a[2] = y
    BY <2>1
  <2> HIDE DEF a
  <2>4. \A i \in 1..Len(a) : Lowest(a[i]) >= 4
    BY <2>2, <2>3
  <2>5. InsertUnderSavepoint(t, Tag(u), TRUE, a)
    BY <1>7 DEF a, x, y
  <2> HIDE DEF s
  <2> QED BY <1>1, <1>2, <1>3, <1>4, <1>5, <2>3, <2>4, <2>5, SavepointKeepsFiles
<1> QED BY <1>1, <1>6, <1>7

LEMMA UpdateFieldsKeepsFiles ==
    ASSUME IInv, IInv', FilesAreKept, NEW t \in Threads, UpdateFields(t)
    PROVE  FilesAreKept'
<1>1. PICK n \in NodeIds, kind \in Kinds \cup {Relabel} :
         LET old == View(t)[Node(n)]
             new == IF kind = Relabel THEN old ELSE kind
         IN  /\ Doing(t, <<"update_node", n, kind>>) /\ Granted(t)
             /\ IF old = "absent" /\ request[t].op = "PATCH" THEN End(t, 404)
                ELSE Write(t, IF old = "absent" THEN <<>> ELSE Only(Node(n), new), <<>>)
  BY DEF UpdateFields
<1> DEFINE old == View(t)[Node(n)]
           new == IF kind = Relabel THEN old ELSE kind
<1>0. old # "absent" => new \in Kinds
  BY Sights
<1> HIDE DEF new
<1>11. \/ End(t, 404)
       \/ old # "absent" /\ Publish(t, Only(Node(n), new), {}, <<>>, <<>>)
       \/ Publish(t, <<>>, {}, <<>>, <<>>)
  BY <1>1, Zenon DEF Write, new
<1> HIDE DEF old
<1> DEFINE s == <<"update_node", n, kind>>
<1>2. s[1] \in FirstWrites /\ s[1] \notin Sweeping
  BY DEF FirstWrites, Sweeping
<1>3. Gives(s) = {}
  BY GivesOf
<1>4. Node(n) \in Rows /\ Node(n)[1] = "node" /\ (old # "absent" => new # Gone(Node(n)))
  BY <1>0, RowFacts DEF Node, Gone, Kinds
<1>5. <<>> \in Seq(Statements) /\ Len(<<>>) = 0 /\ 1..0 = {} /\ DOMAIN <<>> = {}
  OBVIOUS
<1>6. Running(t) /\ Doing(t, s)
  BY <1>1 DEF Doing
<1> HIDE DEF s
<1>7. engine = "sqlite" => Alone(t)
  BY <1>1, <1>2, <1>6, GrantedAlone
<1>8. CASE End(t, 404)
  BY <1>6, <1>8, EndKeepsFiles
<1>9. CASE old # "absent" /\ Publish(t, Only(Node(n), new), {}, <<>>, <<>>)
  <2> DEFINE rows == Only(Node(n), new)
  <2>1. DOMAIN rows = {Node(n)} /\ rows[Node(n)] = new
    BY OnlyFacts
  <2> HIDE DEF rows
  <2>2. Publish(t, rows, {}, <<>>, <<>>)
    BY <1>9 DEF rows
  <2> QED BY <1>2, <1>3, <1>4, <1>5, <1>6, <1>7, <1>9, <2>1, <2>2, PlainWriteKeepsFiles
<1>10. CASE Publish(t, <<>>, {}, <<>>, <<>>)
  BY <1>2, <1>3, <1>5, <1>6, <1>7, <1>10, PlainWriteKeepsFiles
<1> QED BY <1>8, <1>9, <1>10, <1>11

LEMMA EventsKeepFiles ==
    ASSUME IInv, IInv', FilesAreKept, NEW t \in Threads, Announce(t) \/ AppendEvent(t)
    PROVE  FilesAreKept'
<1>1. <<>> \in Seq(Statements) /\ Len(<<>>) = 0 /\ 1..0 = {}
  OBVIOUS
<1>2. Sequence \in Rows /\ Sequence[1] \notin {"edge", "mark", "node", "tag"}
  BY DEF Rows, Sequence
<1>3. ASSUME NEW s, Doing(t, s), s[1] \in {"announce", "append"}, NEW about, NEW resource,
             PublishEvent(t, about, resource), engine = "sqlite" => Alone(t)
      PROVE  FilesAreKept'
  <2> DEFINE rows == Only(Sequence, TRUE)
  <2>1. Publish(t, rows, {}, Only(about, resource), <<>>) /\ DOMAIN rows = {Sequence}
    BY <1>3, OnlyFacts DEF PublishEvent
  <2>2. s[1] \notin Sweeping /\ Gives(s) = {}
    BY <1>3, PlainGives DEF Sweeping
  <2> HIDE DEF rows
  <2> QED BY <1>1, <1>2, <1>3, <2>1, <2>2, PlainWriteKeepsFiles
<1>4. CASE Announce(t)
  <2>1. CASE Begins(t)
    BY <2>1, PieceReadsKeepFiles
  <2>2. ASSUME NEW n \in NodeIds, Doing(t, <<"announce", n>>), Read(t, <<>>)
        PROVE  FilesAreKept'
    <3> DEFINE s == <<"announce", n>>
    <3>1. s[1] \notin Sweeping /\ Gives(s) = {} /\ Doing(t, s)
      BY <2>2, PlainGives DEF Sweeping
    <3> HIDE DEF s
    <3>2. Running(t) /\ First(t) = s /\ Learn(t, seen[t], <<>>)
      BY <2>2, <3>1 DEF Doing, First, Read
    <3> QED BY <3>1, <3>2, GlanceKeepsFiles
  <2>3. ASSUME NEW n \in NodeIds, Doing(t, <<"announce", n>>), Sequence \in DOMAIN writes[t],
               PublishEvent(t, n, Representation(View(t), n))
        PROVE  FilesAreKept'
    <3> DEFINE s == <<"announce", n>>
               resource == Representation(View(t), n)
    <3>1. s[1] \in {"announce", "append"} /\ Doing(t, s) /\ PublishEvent(t, n, resource)
      BY <2>3
    <3>2. engine = "sqlite" => Alone(t)
      BY <2>3 DEF FilesAreKept, OneWriter, Alone
    <3> HIDE DEF s, resource
    <3> QED BY <1>3, <3>1, <3>2
  <2> QED BY <1>4, <2>1, <2>2, <2>3, AnnounceCases
<1>5. CASE AppendEvent(t)
  <2>1. Doing(t, todo[t][1]) /\ todo[t][1][1] = "append" /\ Granted(t)
        /\ PublishEvent(t, todo[t][1][2], todo[t][1][3])
    BY <1>5 DEF AppendEvent, Doing
  <2>2. "append" \in FirstWrites
    BY DEF FirstWrites
  <2>3. engine = "sqlite" => Alone(t)
    BY <2>1, <2>2, GrantedAlone
  <2> QED BY <1>3, <2>1, <2>3
<1> QED BY <1>4, <1>5
-----------------------------------------------------------------------------
(* The statements that insert edges and marks.                                   *)

LEMMA InsertsBringNoMore ==
    ASSUME IInv, IInv', NEW t \in Threads, NEW row \in Rows, NEW value, NEW references,
           Publish(t, Only(row, value), references, <<>>, <<>>), engine = "sqlite",
           row[1] \in {"edge", "mark"},
           \A n \in NodeIds : row \in RowsUnder(n) =>
              RefersToNothing(db, n) \/ \A ref \in Refs(row, value) : View(t)[ref] # Gone(ref)
    PROVE  BringsNoMoreThan(t)
<1> DEFINE rows == Only(row, value)
<1>1. DOMAIN rows = {row} /\ rows[row] = value
  BY OnlyFacts
<1> HIDE DEF rows
<1>2. /\ Table(View(t)) /\ Table(View(t)')
      /\ View(t)'[row] = value
      /\ \A x \in Rows \ {row} : x # Database => View(t)'[x] = View(t)[x]
  BY <1>1, PublishedView DEF rows
<1> SUFFICES ASSUME NEW n \in NodeIds, ~RefersToNothing(db, n),
                    NEW x \in RowsUnder(n), NEW ref \in Refs(x, View(t)'[x]), View(t)'[ref] = Gone(ref)
             PROVE  ref \in Refs(x, View(t)[x]) /\ View(t)[ref] = Gone(ref)
  BY DEF BringsNoMoreThan
<1>3. x \in Rows /\ x # Database
  <2>1. x \in Rows
    BY RowFacts DEF RowsUnder
  <2>2. x # Database
    BY DEF RowsUnder, MarksOf, Edge, Mark, Database
  <2> QED BY <2>1, <2>2
<1>4. ref \in Rows /\ ref # row /\ ref # Database
  <2>1. Fits(x, View(t)'[x])
    BY <1>2, <1>3 DEF Table
  <2>2. ref \in Rows
    BY <1>3, <2>1, RefsAreRows
  <2>3. ref[1] \in {"node", "tag"}
    BY DEF Refs, Node, Tag
  <2> QED BY <2>2, <2>3 DEF Database
<1>5. View(t)[ref] = Gone(ref)
  BY <1>2, <1>4
<1>6. x # row
  BY <1>2, <1>5
<1> QED BY <1>2, <1>3, <1>5, <1>6

LEMMA InsertKeepsFiles ==
    ASSUME IInv, IInv', FilesAreKept, NEW t \in Threads, NEW s, Doing(t, s), s[1] \notin Sweeping,
           NEW row \in Rows, NEW value, row[1] \in {"edge", "mark"}, row[2] = s[2], NEW references,
           Insert(t, Only(row, value), references), Gives(s) = {}, NEW N,
           Needs(s, Deleting(request[t]), seen[t].home) = {Database} \cup N,
           ~Deleting(request[t]) => Node(s[2]) \in N,
           engine = "sqlite" /\ LooksFirst(t) /\ N \subseteq Has(t) =>
              Excused(t) \/ \A n \in NodeIds : row \in RowsUnder(n) =>
                 RefersToNothing(db, n) \/ \A ref \in Refs(row, value) : View(t)[ref] # Gone(ref)
    PROVE  FilesAreKept'
<1> DEFINE rows == Only(row, value)
<1>1. Running(t) /\ First(t) = s
  BY DEF Doing, First
<1>2. CASE End(t, 500)
  BY <1>1, <1>2, EndKeepsFiles
<1>3. CASE Publish(t, rows, references, <<>>, <<>>)
  <2>1. DOMAIN rows = {row}
    BY OnlyFacts
  <2>2. <<>> \in Seq(Statements) /\ Len(<<>>) = 0 /\ 1..0 = {}
    OBVIOUS
  <2>3. ASSUME engine = "sqlite"
        PROVE  Alone(t) /\ WritesWell(t, rows, <<>>) /\ (Excused(t) \/ BringsNoMoreThan(t))
    <3>1. LooksFirst(t)
      BY <2>3 DEF FilesAreKept
    <3>2. Needs(s, Deleting(request[t]), seen[t].home) \subseteq Has(t)
      BY <1>1, <3>1, FirstNeeds
    <3>3. Alone(t)
      BY <3>1, NeedsDatabase
    <3>4. WritesWell(t, rows, <<>>)
      <4>1. Grounded(<<>>, Deleting(request[t]), seen[t].home, Has(t) \cup {Database})
        BY NothingGrounded
      <4> HIDE DEF rows
      <4> QED BY <1>1, <2>1, <2>2, <3>2, <4>1 DEF WritesWell
    <3>5. Excused(t) \/ BringsNoMoreThan(t)
      BY <1>3, <2>3, <3>1, <3>2, InsertsBringNoMore
    <3> QED BY <3>3, <3>4, <3>5
  <2> HIDE DEF rows
  <2> QED BY <1>3, <2>1, <2>2, <2>3, WriteKeepsFiles
<1> QED BY <1>2, <1>3 DEF Insert

LEMMA InsertsKeepFiles ==
    ASSUME IInv, IInv', FilesAreKept, NEW t \in Threads, InsertEdge(t) \/ InsertMark(t)
    PROVE  FilesAreKept'
<1>0. \A n : Gone(Node(n)) = "absent"
  BY DEF Gone, Node
<1>1. CASE InsertEdge(t)
  <2>1. PICK n \in NodeIds, p \in NodeIds :
           /\ Doing(t, <<"insert_edge", n, p>>)
           /\ End(t, 500) \/ Insert(t, Only(Edge(n), p), References(todo[t][1]))
    BY <1>1 DEF InsertEdge
  <2> DEFINE s == <<"insert_edge", n, p>>
             row == Edge(n)
             N == {Node(p)} \cup (IF Deleting(request[t]) THEN {} ELSE {Node(n)})
  <2>2. CASE End(t, 500)
    BY <2>1, <2>2, EndKeepsFiles DEF Doing
  <2>3. CASE Insert(t, Only(row, p), References(todo[t][1]))
    <3>1. /\ s[1] \notin Sweeping /\ row \in Rows /\ row[1] \in {"edge", "mark"} /\ row[2] = s[2]
          /\ Gives(s) = {}
      BY GivesOf, RowFacts DEF Sweeping, Edge
    <3>2. Needs(s, Deleting(request[t]), seen[t].home) = {Database} \cup N
      BY NeedsOf
    <3>3. ~Deleting(request[t]) => Node(s[2]) \in N
      OBVIOUS
    <3>4. \A m \in NodeIds : row \in RowsUnder(m) => m = n
      BY DEF RowsUnder, MarksOf, Edge, Mark
    <3>5. Refs(row, p) \subseteq {Node(n), Node(p)}
      BY DEF Refs, Edge
    <3>6. ASSUME engine = "sqlite", LooksFirst(t), N \subseteq Has(t), ~Excused(t)
          PROVE  RefersToNothing(db, n) \/ \A ref \in Refs(row, p) : View(t)[ref] # Gone(ref)
      <4>1. ~Belated(t)
        BY <3>6 DEF Excused
      <4>2. View(t)[Node(p)] # "absent" /\ (~Deleting(request[t]) => View(t)[Node(n)] # "absent")
        BY <3>6, <4>1, HasFacts
      <4>3. Deleting(request[t]) => View(t)[Node(n)] # "absent" \/ RefersToNothing(db, n)
        <5>1. KnowsChildren(t) /\ 1 \in 1..Len(todo[t]) /\ todo[t][1] = s
          BY <2>1, <3>6 DEF LooksFirst, IInv, Typed, ThreadOK, Rest, Running, Doing
        <5>2. Deleting(request[t]) => Founded(t, n)
          BY <5>1 DEF KnowsChildren
        <5> QED BY <3>6, <5>2 DEF Founded
      <4> QED BY <1>0, <3>5, <4>2, <4>3
    <3>7. Doing(t, s) /\ Insert(t, Only(row, p), References(todo[t][1]))
      BY <2>1, <2>3
    <3> DEFINE refs == References(todo[t][1])
    <3> HIDE DEF s, row, N, refs
    <3> QED BY <3>1, <3>2, <3>3, <3>4, <3>6, <3>7, InsertKeepsFiles DEF refs
  <2> QED BY <2>1, <2>2, <2>3
<1>2. CASE InsertMark(t)
  <2>1. PICK n \in NodeIds, u \in Tags :
           Doing(t, <<"insert_mark", n, u>>) /\ Insert(t, Only(Mark(n, u), TRUE), References(todo[t][1]))
    BY <1>2 DEF InsertMark
  <2> DEFINE s == <<"insert_mark", n, u>>
             row == Mark(n, u)
             N == {Node(n), Tag(u)}
  <2>2. /\ s[1] \notin Sweeping /\ row[1] \in {"edge", "mark"} /\ row[2] = s[2] /\ Gives(s) = {}
    BY GivesOf DEF Sweeping, Mark
  <2>3. row \in Rows
    BY RowFacts
  <2>4. Needs(s, Deleting(request[t]), seen[t].home) = {Database} \cup N
    BY NeedsOf
  <2>5. Refs(row, TRUE) \subseteq {Node(n), Tag(u)}
    BY DEF Refs, Mark
  <2>6. Gone(Tag(u)) = FALSE
    BY DEF Gone, Tag
  <2>7. ASSUME N \subseteq Has(t), ~Excused(t)
        PROVE  \A ref \in Refs(row, TRUE) : View(t)[ref] # Gone(ref)
    <3>1. ~Belated(t)
      BY <2>7 DEF Excused
    <3>2. View(t)[Node(n)] # "absent" /\ View(t)[Tag(u)] # FALSE
      BY <2>7, <3>1, HasFacts
    <3> QED BY <1>0, <2>5, <2>6, <3>2
  <2>8. ~Deleting(request[t]) => Node(s[2]) \in N
    OBVIOUS
  <2>9. Doing(t, s) /\ Insert(t, Only(row, TRUE), References(todo[t][1]))
    BY <2>1
  <2> DEFINE refs == References(todo[t][1])
             value == TRUE
  <2>10. N \subseteq Has(t) => Excused(t) \/ \A m \in NodeIds : row \in RowsUnder(m) =>
            RefersToNothing(db, m) \/ \A ref \in Refs(row, value) : View(t)[ref] # Gone(ref)
    BY <2>7
  <2>11. Insert(t, Only(row, value), refs)
    BY <2>9
  <2> HIDE DEF s, row, N, refs, value
  <2> QED BY <2>2, <2>3, <2>4, <2>8, <2>9, <2>10, <2>11, InsertKeepsFiles
<1> QED BY <1>1, <1>2
-----------------------------------------------------------------------------
(* The statements that remove rows: what is to be swept is swept.                   *)

LEMMA ListHoldsAll ==
    ASSUME NEW S, IsFiniteSet(S), NEW list \in SetToSeqs(S)
    PROVE  \E k \in Nat : /\ DOMAIN list = 1..k /\ \A i \in 1..k : list[i] \in S
                          /\ \A x \in S : \E i \in 1..k : list[i] = x
<1> DEFINE k == Cardinality(S)
<1>1. k \in Nat
  BY FS_CardinalityType
<1>2. list \in [1..k -> S] /\ \A i, j \in 1..k : i # j => list[i] # list[j]
  BY DEF SetToSeqs
<1>3. list \in Injection(1..k, S)
  BY <1>2 DEF Injection, IsInjective
<1>4. Cardinality(1..k) = k
  <2>1. 1 \in Int /\ k \in Int
    BY <1>1
  <2>2. Cardinality(1..k) = IF 1 > k THEN 0 ELSE k - 1 + 1
    BY <2>1, FS_Interval
  <2> QED BY <1>1, <2>2
<1>5. list \in Surjection(1..k, S)
  BY <1>3, <1>4, FS_Injection
<1>6. \A x \in S : \E i \in 1..k : list[i] = x
  BY <1>5 DEF Surjection
<1> QED BY <1>1, <1>2, <1>6

LEMMA ToSweepIsAll ==
    ASSUME NEW S, NEW s \in Seq(S), NEW i \in 1..Len(s), s[i][1] \in LastDeletes, ToSweep(s, i),
           s[i][1] = "delete_node" => i = 4, s[i][1] # "delete_node" => i = 2, NEW v
    PROVE  SweepsAll(s, i, v)
<1>1. CASE s[i][1] = "delete_node"
  <2> DEFINE n == s[4][2]
  <2>1. /\ i = 4 /\ s[1] = <<"delete_child_edges", n>> /\ s[2] = <<"delete_edge", n>>
        /\ s[3] = <<"delete_marks", n>> /\ 1 \in 1..Len(s) /\ 2 \in 1..Len(s) /\ 3 \in 1..Len(s)
    BY <1>1 DEF ToSweep
  <2>2. Target(s[i]) = Node(n)
    BY <1>1, <2>1 DEF Target
  <2> HIDE DEF n
  <2>3. \A j \in 1..Len(s) : j < i => j \in {1, 2, 3}
    BY <2>1
  <2>4. \A j \in 1..Len(s) : j < i => s[j][1] \in Sweeping
    BY <2>1, <2>3 DEF Sweeping
  <2>5. ASSUME NEW row \in Rows, Node(n) \in Refs(row, v[row])
        PROVE  Sweeps(s[1], row, v) \/ Sweeps(s[2], row, v) \/ Sweeps(s[3], row, v)
    <3>1. \/ row[1] = "edge" /\ n \in {row[2], v[row]}
          \/ row[1] = "mark" /\ n = row[2]
      BY <2>5 DEF Refs, Node, Tag
    <3> QED BY <2>1, <3>1 DEF Sweeps
  <2>6. 1 < i /\ 2 < i /\ 3 < i
    BY <2>1
  <2> HIDE DEF Target
  <2> QED BY <2>1, <2>2, <2>4, <2>5, <2>6 DEF SweepsAll
<1>2. CASE s[i][1] # "delete_node"
  <2> DEFINE u == s[2][2]
  <2>1. i = 2 /\ s[1] = <<"delete_tag_marks", u>> /\ 1 \in 1..Len(s)
    BY <1>2 DEF ToSweep
  <2>2. Target(s[i]) = Tag(u)
    BY <1>2, <2>1 DEF Target
  <2> HIDE DEF u
  <2>3. \A j \in 1..Len(s) : j < i => s[j][1] \in Sweeping
    BY <2>1 DEF Sweeping
  <2>4. ASSUME NEW row \in Rows, Tag(u) \in Refs(row, v[row])
        PROVE  Sweeps(s[1], row, v)
    <3>1. row[1] = "mark" /\ u = row[3]
      BY <2>4 DEF Refs, Node, Tag
    <3> QED BY <2>1, <3>1 DEF Sweeps
  <2>5. 1 < i
    BY <2>1
  <2> HIDE DEF Target
  <2> QED BY <2>1, <2>2, <2>3, <2>4, <2>5 DEF SweepsAll
<1> QED BY <1>1, <1>2

LEMMA SweptContinues ==
    ASSUME NEW S, NEW s \in Seq(S), NEW a \in Seq(S), s # <<>>, NEW open, NEW v, NEW w,
           Swept(s, open, v), s[1][1] \in Sweeping, \A i \in 1..Len(a) : a[i][1] = "remove_row",
           \A row \in Rows : Refs(row, w[row]) # {} =>
              /\ w[row] = v[row]
              /\ Sweeps(s[1], row, v) => \E k \in 1..Len(a) : a[k] = <<"remove_row", row>>
    PROVE  Swept(a \o Tail(s), TRUE, w)
<1> DEFINE r == a \o Tail(s)
<1>1. /\ Len(s) \in Nat /\ Len(a) \in Nat /\ 1 \in 1..Len(s) /\ Len(r) = Len(a) + Len(s) - 1
      /\ \A i \in 1..Len(a) : i \in 1..Len(r) /\ r[i] = a[i]
      /\ \A j \in 2..Len(s) : j + Len(a) - 1 \in 1..Len(r) /\ r[j + Len(a) - 1] = s[j]
      /\ \A i \in 1..Len(r) : i \in 1..Len(a) \/ \E x \in 2..Len(s) : i = x + Len(a) - 1
  <2>1. Len(s) \in Nat /\ Len(a) \in Nat /\ 1 \in 1..Len(s) /\ Len(r) = Len(a) + Len(s) - 1
    BY LaterStatements
  <2>2. \A i \in 1..Len(a) : i \in 1..Len(r) /\ r[i] = a[i]
    BY LaterStatements
  <2>3. \A j \in 2..Len(s) : j + Len(a) - 1 \in 1..Len(r)
    BY LaterStatements
  <2>4. \A j \in 2..Len(s) : r[j + Len(a) - 1] = s[j]
    BY LaterStatements
  <2>5. \A i \in 1..Len(r) : i \in 1..Len(a) \/ \E x \in 2..Len(s) : i = x + Len(a) - 1
    BY LaterStatements
  <2> HIDE DEF r
  <2> QED BY <2>1, <2>2, <2>3, <2>4, <2>5
<1> HIDE DEF r
<1> SUFFICES ASSUME NEW i \in 1..Len(r), r[i][1] \in LastDeletes
             PROVE  /\ \A k \in 1..Len(r) : i < k => Lowest(r[k]) >= 4
                    /\ ToSweep(r, i) \/ SweepsAll(r, i, w)
  BY DEF Swept, r
<1>2. PICK j \in 2..Len(s) : i = j + Len(a) - 1
  BY <1>1 DEF LastDeletes
<1>3. s[j][1] \in LastDeletes /\ j \in 1..Len(s) /\ r[i] = s[j]
  BY <1>1, <1>2
<1>4. \A k \in 1..Len(r) : i < k => Lowest(r[k]) >= 4
  BY <1>2, <1>3, LastLater DEF r
<1>5. ToSweep(s, j) \/ SweepsAll(s, j, v)
  BY <1>3 DEF Swept
<1>6. ASSUME ~SweepsAll(s, j, v) PROVE ToSweep(r, i)
  <2>1. (s[j][1] = "delete_node" => j # 4) /\ (s[j][1] # "delete_node" => j # 2)
    BY <1>3, <1>5, <1>6, ToSweepIsAll
  <2> QED BY <1>2, <1>5, <1>6, <2>1, ToSweepLater DEF r
<1>7. ASSUME SweepsAll(s, j, v) PROVE SweepsAll(r, i, w)
  <2>1. ASSUME NEW k \in 1..Len(r), k < i PROVE r[k][1] \in Sweeping
    <3>1. CASE k \in 1..Len(a)
      BY <1>1, <3>1 DEF Sweeping
    <3>2. ASSUME NEW x \in 2..Len(s), k = x + Len(a) - 1 PROVE r[k][1] \in Sweeping
      <4>1. x \in 1..Len(s) /\ x < j /\ r[k] = s[x]
        BY <1>1, <1>2, <2>1, <3>2
      <4> QED BY <1>7, <4>1 DEF SweepsAll
    <3> QED BY <1>1, <3>1, <3>2
  <2>2. ASSUME NEW row \in Rows, Target(r[i]) \in Refs(row, w[row])
        PROVE  \E k \in 1..Len(r) : k < i /\ Sweeps(r[k], row, w)
    <3>1. w[row] = v[row] /\ (Sweeps(s[1], row, v) => \E k \in 1..Len(a) : a[k] = <<"remove_row", row>>)
      BY <2>2
    <3>2. PICK x \in 1..Len(s) : x < j /\ Sweeps(s[x], row, v)
      BY <1>3, <1>7, <2>2, <3>1 DEF SweepsAll
    <3>3. CASE x = 1
      <4>1. PICK k \in 1..Len(a) : a[k] = <<"remove_row", row>>
        BY <3>1, <3>2, <3>3
      <4>2. k \in 1..Len(r) /\ r[k] = <<"remove_row", row>> /\ k < i
        BY <1>1, <1>2, <4>1
      <4> QED BY <4>2 DEF Sweeps
    <3>4. CASE x # 1
      <4>1. x \in 2..Len(s) /\ x + Len(a) - 1 < i
        BY <1>1, <1>2, <3>2, <3>4
      <4>2. Sweeps(s[x], row, w)
        BY <3>1, <3>2 DEF Sweeps
      <4> QED BY <1>1, <4>1, <4>2
    <3> QED BY <3>3, <3>4
  <2> QED BY <2>1, <2>2 DEF SweepsAll
<1> QED BY <1>4, <1>6, <1>7

LEMMA DeleteRowsKeepsFiles ==
    ASSUME IInv, IInv', FilesAreKept, NEW t \in Threads, NEW s, s # Finish,
           s[1] \in {"delete_edge", "delete_child_edges", "delete_marks", "delete_tag_marks"},
           NEW R, IsFiniteSet(R), \A row \in R : row \in Rows /\ row[1] \in {"edge", "mark"},
           ~Deleting(request[t]) =>
              s[1] \in {"delete_edge", "delete_marks"} /\ \A row \in R : row[2] = s[2],
           \A row \in Rows : Refs(row, View(t)[row]) # {} /\ Sweeps(s, row, View(t)) => row \in R,
           DeleteRows(t, s, R)
    PROVE  FilesAreKept'
<1>1. PICK found \in SetToSeqs(R) :
         /\ Doing(t, s) /\ Granted(t)
         /\ Publish(t, <<>>, {}, <<>>, [i \in DOMAIN found |-> <<"remove_row", found[i]>>])
  BY DEF DeleteRows, Write
<1> DEFINE a == [i \in DOMAIN found |-> <<"remove_row", found[i]>>]
<1>2. PICK k \in Nat : /\ DOMAIN found = 1..k /\ \A i \in 1..k : found[i] \in R
                       /\ \A row \in R : \E i \in 1..k : found[i] = row
  BY ListHoldsAll
<1>3. \A row \in R : <<"remove_row", row>> \in Statements
  BY DEF Statements
<1>4. a \in [1..k -> Statements]
  BY <1>2, <1>3
<1>5. \A i \in 1..k : a[i] = <<"remove_row", found[i]>>
  BY <1>2
<1>6. Publish(t, <<>>, {}, <<>>, a)
  BY <1>1
<1> HIDE DEF a
<1>7. a \in Seq(Statements) /\ Len(a) = k
  BY <1>4
<1>8. /\ \A i \in 1..Len(a) : a[i][1] = "remove_row" /\ a[i][2] \in R
      /\ \A row \in R : \E i \in 1..Len(a) : a[i] = <<"remove_row", row>>
  BY <1>2, <1>5, <1>7
<1>9. DOMAIN <<>> = {} /\ Running(t) /\ First(t) = s
  BY <1>1 DEF Doing, First
<1>10. ASSUME engine = "sqlite" PROVE Alone(t) /\ LooksFirst(t)'
  <2>1. LooksFirst(t) /\ Alone(t)
    BY <1>1, <1>10, GrantedAlone DEF FilesAreKept, FirstWrites
  <2>2. /\ Table(View(t)) /\ Table(View(t)')
        /\ \A row \in Rows : row # Database => View(t)'[row] = View(t)[row]
    BY <1>6, <1>9, <1>10, PublishedView
  <2>3. Needs(s, Deleting(request[t]), seen[t].home) \subseteq Has(t)
    BY <1>9, <2>1, FirstNeeds
  <2>4. ASSUME NEW i \in 1..Len(a)
        PROVE  Needs(a[i], Deleting(request[t]), seen[t].home) \subseteq Has(t) \cup {Database}
    <3>1. a[i][1] = "remove_row" /\ a[i][2] \in R
      BY <1>8
    <3>2. Needs(a[i], Deleting(request[t]), seen[t].home) =
             {Database} \cup (IF Deleting(request[t]) THEN {} ELSE {Node(a[i][2][2])})
      BY <3>1, NeedsOf
    <3>3. ~Deleting(request[t]) => Node(s[2]) \in Has(t)
      BY <2>3, NeedsOf
    <3> QED BY <3>1, <3>2, <3>3
  <2>5. Gives(First(t)) = {Database}
    BY <1>9, GivesOf
  <2>6. WritesWell(t, <<>>, a)
    BY <1>8, <1>9, <2>4, <2>5 DEF WritesWell, Grounded
  <2>7. BringsNoMoreThan(t)
    BY <1>6, <1>9, <1>10, PlainBringsNoMore
  <2>8. ASSUME Deleting(request[t]) PROVE Swept(a \o Tail(todo[t]), TRUE, View(t)')
    <3> DEFINE p == todo[t]
               S == Statements \cup {Finish}
               v == View(t)
               w == View(t)'
               open == Open(t)
    <3>1. Swept(p, open, v) /\ p[1] = s /\ p[1][1] \in Sweeping
      BY <1>9, <2>1, <2>8 DEF LooksFirst, First, Sweeping
    <3>2. p \in Seq(S) /\ a \in Seq(S) /\ p # <<>>
      BY <1>7, <1>9, StatementsAreMore DEF IInv, Typed, ThreadOK, Rest, Running
    <3>3. ASSUME NEW row \in Rows, Refs(row, w[row]) # {}
          PROVE  /\ w[row] = v[row]
                 /\ Sweeps(p[1], row, v) => \E j \in 1..Len(a) : a[j] = <<"remove_row", row>>
      <4>1. row # Database
        BY <3>3 DEF Refs, Database
      <4>2. w[row] = v[row]
        BY <2>2, <4>1
      <4>3. Sweeps(s, row, v) => row \in R
        BY <3>3, <4>2
      <4> QED BY <1>8, <3>1, <4>2, <4>3
    <3>4. \A i \in 1..Len(a) : a[i][1] = "remove_row"
      BY <1>8
    <3> HIDE DEF p, S, v, w, open
    <3>5. Swept(a \o Tail(p), TRUE, w)
      BY <3>1, <3>2, <3>3, <3>4, SweptContinues
    <3> QED BY <3>5 DEF p, w
  <2>9. LooksFirst(t)'
    BY <1>6, <1>7, <1>9, <1>10, <2>1, <2>6, <2>7, <2>8, WritesOn
  <2> QED BY <2>1, <2>9
<1> QED BY <1>6, <1>9, <1>10, PublishKeepsOthers

LEMMA EdgesAndMarks ==
    ASSUME NEW row \in Rows, NEW value, Refs(row, value) # {}
    PROVE  \/ \E n \in NodeIds : row = Edge(n) /\ value # NoNode
           \/ \E n \in NodeIds, u \in Tags : row = Mark(n, u) /\ value = TRUE
BY DEF Refs, Rows, Node, Edge, Tag, Mark, Sequence, Database

LEMMA DeletionsKeepFiles ==
    ASSUME IInv, IInv', FilesAreKept, NEW t \in Threads,
           DeleteEdge(t) \/ DeleteChildEdges(t) \/ DeleteMarks(t) \/ DeleteTagMarks(t)
    PROVE  FilesAreKept'
<1> DEFINE v == View(t)
<1>1. /\ \A n \in NodeIds : ChildrenIn(v, n) \in SUBSET NodeIds /\ MarksIn(v, n) \in SUBSET Tags
      /\ \A u \in Tags : BearersIn(v, u) \in SUBSET NodeIds
      /\ \A n \in NodeIds : Edge(n) \in Rows /\ \A u \in Tags : Mark(n, u) \in Rows
  BY DEF ChildrenIn, MarksIn, BearersIn, Rows
<1>2. /\ \A c : Edge(c)[1] = "edge" /\ Edge(c)[2] = c
      /\ \A c, u : Mark(c, u)[1] = "mark" /\ Mark(c, u)[2] = c /\ Mark(c, u)[3] = u
  BY DEF Edge, Mark
<1>3. CASE DeleteEdge(t)
  <2>1. PICK n \in NodeIds : DeleteRows(t, <<"delete_edge", n>>, {e \in {Edge(n)} : v[e] # NoNode})
    BY <1>3 DEF DeleteEdge
  <2> DEFINE s == <<"delete_edge", n>>
             R == {e \in {Edge(n)} : v[e] # NoNode}
  <2>2. IsFiniteSet(R)
    BY FS_Singleton, FS_Subset
  <2>3. \A row \in R : row \in Rows /\ row[1] \in {"edge", "mark"} /\ row[2] = n
    BY <1>1, <1>2
  <2>4. ASSUME NEW row \in Rows, Refs(row, v[row]) # {}, Sweeps(s, row, v) PROVE row \in R
    <3>1. row[1] = "edge" /\ row[2] = n
      BY <2>4 DEF Sweeps
    <3>2. \/ \E m \in NodeIds : row = Edge(m) /\ v[row] # NoNode
          \/ \E m \in NodeIds, w \in Tags : row = Mark(m, w) /\ v[row] = TRUE
      <4> HIDE DEF v
      <4> QED BY <2>4, EdgesAndMarks
    <3>3. row = Edge(n) /\ v[row] # NoNode
      BY <1>2, <3>1, <3>2
    <3> QED BY <3>3
  <2>5. s # Finish /\ s[1] = "delete_edge" /\ s[2] = n /\ DeleteRows(t, s, R)
    BY <2>1 DEF Finish
  <2> HIDE DEF s, R
  <2> QED BY <2>2, <2>3, <2>4, <2>5, DeleteRowsKeepsFiles
<1>4. CASE DeleteChildEdges(t)
  <2>1. PICK n \in NodeIds : DeleteRows(t, <<"delete_child_edges", n>>, {Edge(c) : c \in ChildrenIn(v, n)})
    BY <1>4 DEF DeleteChildEdges
  <2> DEFINE s == <<"delete_child_edges", n>>
             R == {Edge(c) : c \in ChildrenIn(v, n)}
  <2>2. IsFiniteSet(R)
    BY <1>1, FiniteRows
  <2>3. \A row \in R : row \in Rows /\ row[1] \in {"edge", "mark"}
    BY <1>1, <1>2
  <2>4. ASSUME NEW row \in Rows, Refs(row, v[row]) # {}, Sweeps(s, row, v) PROVE row \in R
    <3>1. row[1] = "edge" /\ v[row] = n
      BY <2>4 DEF Sweeps
    <3>2. \/ \E m \in NodeIds : row = Edge(m) /\ v[row] # NoNode
          \/ \E m \in NodeIds, w \in Tags : row = Mark(m, w) /\ v[row] = TRUE
      <4> HIDE DEF v
      <4> QED BY <2>4, EdgesAndMarks
    <3>3. PICK c \in NodeIds : row = Edge(c)
      BY <1>2, <3>1, <3>2
    <3> QED BY <3>1, <3>3 DEF ChildrenIn
  <2>5. /\ s # Finish /\ s[1] = "delete_child_edges" /\ DeletesSomething(s) /\ Doing(t, s)
        /\ DeleteRows(t, s, R)
    BY <2>1 DEF Finish, DeletesSomething, DeleteRows
  <2> HIDE DEF s, R
  <2>6. Deleting(request[t])
    BY <2>5, FirstFacts
  <2> QED BY <2>2, <2>3, <2>4, <2>5, <2>6, DeleteRowsKeepsFiles
<1>5. CASE DeleteMarks(t)
  <2>1. PICK n \in NodeIds : DeleteRows(t, <<"delete_marks", n>>, {Mark(n, u) : u \in MarksIn(v, n)})
    BY <1>5 DEF DeleteMarks
  <2> DEFINE s == <<"delete_marks", n>>
             R == {Mark(n, u) : u \in MarksIn(v, n)}
  <2>2. IsFiniteSet(R)
    BY <1>1, FiniteRows
  <2>3. \A row \in R : row \in Rows /\ row[1] \in {"edge", "mark"} /\ row[2] = n
    BY <1>1, <1>2
  <2>4. ASSUME NEW row \in Rows, Refs(row, v[row]) # {}, Sweeps(s, row, v) PROVE row \in R
    <3>1. row[1] = "mark" /\ row[2] = n
      BY <2>4 DEF Sweeps
    <3>2. \/ \E m \in NodeIds : row = Edge(m) /\ v[row] # NoNode
          \/ \E m \in NodeIds, w \in Tags : row = Mark(m, w) /\ v[row] = TRUE
      <4> HIDE DEF v
      <4> QED BY <2>4, EdgesAndMarks
    <3>3. PICK u \in Tags : row = Mark(n, u) /\ v[row] = TRUE
      BY <1>2, <3>1, <3>2
    <3> QED BY <3>3 DEF MarksIn
  <2>5. s # Finish /\ s[1] = "delete_marks" /\ s[2] = n /\ DeleteRows(t, s, R)
    BY <2>1 DEF Finish
  <2> HIDE DEF s, R
  <2> QED BY <2>2, <2>3, <2>4, <2>5, DeleteRowsKeepsFiles
<1>6. CASE DeleteTagMarks(t)
  <2>1. PICK u \in Tags : DeleteRows(t, <<"delete_tag_marks", u>>, {Mark(n, u) : n \in BearersIn(v, u)})
    BY <1>6 DEF DeleteTagMarks
  <2> DEFINE s == <<"delete_tag_marks", u>>
             R == {Mark(n, u) : n \in BearersIn(v, u)}
  <2>2. IsFiniteSet(R)
    BY <1>1, FiniteRows
  <2>3. \A row \in R : row \in Rows /\ row[1] \in {"edge", "mark"}
    BY <1>1, <1>2
  <2>4. ASSUME NEW row \in Rows, Refs(row, v[row]) # {}, Sweeps(s, row, v) PROVE row \in R
    <3>1. row[1] = "mark" /\ row[3] = u
      BY <2>4 DEF Sweeps
    <3>2. \/ \E m \in NodeIds : row = Edge(m) /\ v[row] # NoNode
          \/ \E m \in NodeIds, w \in Tags : row = Mark(m, w) /\ v[row] = TRUE
      <4> HIDE DEF v
      <4> QED BY <2>4, EdgesAndMarks
    <3>3. PICK n \in NodeIds : row = Mark(n, u) /\ v[row] = TRUE
      BY <1>2, <3>1, <3>2
    <3> QED BY <3>3 DEF BearersIn
  <2>5. /\ s # Finish /\ s[1] = "delete_tag_marks" /\ DeletesSomething(s) /\ Doing(t, s)
        /\ DeleteRows(t, s, R)
    BY <2>1 DEF Finish, DeletesSomething, DeleteRows
  <2> HIDE DEF s, R
  <2>6. Deleting(request[t])
    BY <2>5, FirstFacts
  <2> QED BY <2>2, <2>3, <2>4, <2>5, <2>6, DeleteRowsKeepsFiles
<1> QED BY <1>3, <1>4, <1>5, <1>6

LEMMA RemoveRowKeepsFiles ==
    ASSUME IInv, IInv', FilesAreKept, NEW t \in Threads, RemoveRow(t)
    PROVE  FilesAreKept'
<1>1. PICK row \in Rows : Doing(t, <<"remove_row", row>>) /\ Publish(t, Only(row, Gone(row)), {}, <<>>, <<>>)
  BY DEF RemoveRow, Write
<1> DEFINE s == <<"remove_row", row>>
           rows == Only(row, Gone(row))
           a == <<>>
<1>2. s # Finish /\ s[1] = "remove_row" /\ s[2] = row /\ Doing(t, s) /\ Publish(t, rows, {}, <<>>, a)
  BY <1>1 DEF Finish
<1>3. DOMAIN rows = {row} /\ rows[row] = Gone(row)
  BY OnlyFacts
<1>4. a \in Seq(Statements) /\ Len(a) = 0 /\ 1..0 = {}
  OBVIOUS
<1> HIDE DEF s, rows, a
<1>5. s \in Statements
  BY <1>2, FirstFacts
<1>6. row[1] \in {"edge", "mark"}
  BY <1>2, <1>5, Contents
<1>7. Refs(row, Gone(row)) = {}
  BY <1>6 DEF Refs, Gone
<1>8. Running(t) /\ First(t) = s
  BY <1>2 DEF Doing, First
<1>9. ASSUME engine = "sqlite" PROVE Alone(t) /\ LooksFirst(t)'
  <2>1. LooksFirst(t)
    BY <1>9 DEF FilesAreKept
  <2>2. Needs(s, Deleting(request[t]), seen[t].home) =
           {Database} \cup (IF Deleting(request[t]) THEN {} ELSE {Node(row[2])})
    BY <1>2, NeedsOf
  <2>3. Alone(t) /\ (~Deleting(request[t]) => Node(row[2]) \in Has(t))
    BY <1>2, <1>8, <2>1, <2>2, NeedsDatabase, FirstNeeds
  <2>4. /\ Table(View(t)) /\ Table(View(t)') /\ View(t)'[row] = Gone(row)
        /\ \A x \in Rows \ {row} : x # Database => View(t)'[x] = View(t)[x]
    BY <1>2, <1>3, <1>9, PublishedView
  <2>5. WritesWell(t, rows, a)
    <3>1. Gives(First(t)) = {}
      BY <1>2, <1>8, GivesOf
    <3> QED BY <1>3, <1>4, <1>6, <2>3, <3>1 DEF WritesWell, Grounded
  <2>6. BringsNoMoreThan(t)
    BY <1>2, <1>3, <1>6, <1>7, <1>9, PlainBringsNoMore
  <2>7. ASSUME Deleting(request[t]) PROVE Swept(a \o Tail(todo[t]), TRUE, View(t)')
    <3> DEFINE p == todo[t]
               S == Statements \cup {Finish}
               v == View(t)
               w == View(t)'
               open == Open(t)
    <3>1. Swept(p, open, v) /\ p[1] = s /\ p[1][1] \in Sweeping
      BY <1>2, <1>8, <2>1, <2>7 DEF LooksFirst, First, Sweeping
    <3>2. p \in Seq(S) /\ a \in Seq(S) /\ p # <<>>
      BY <1>4, <1>8, StatementsAreMore DEF IInv, Typed, ThreadOK, Rest, Running
    <3>3. ASSUME NEW x \in Rows, Refs(x, w[x]) # {}
          PROVE  /\ w[x] = v[x]
                 /\ Sweeps(p[1], x, v) => \E j \in 1..Len(a) : a[j] = <<"remove_row", x>>
      <4>1. x # Database /\ x # row
        BY <1>7, <2>4, <3>3 DEF Refs, Database
      <4>2. ~Sweeps(s, x, v)
        BY <4>1 DEF Sweeps, s
      <4> QED BY <2>4, <3>1, <4>1, <4>2
    <3>4. \A i \in 1..Len(a) : a[i][1] = "remove_row"
      BY <1>4
    <3> HIDE DEF p, S, v, w, open
    <3>5. Swept(a \o Tail(p), TRUE, w)
      BY <3>1, <3>2, <3>3, <3>4, SweptContinues
    <3> QED BY <3>5 DEF p, w
  <2>8. LooksFirst(t)'
    BY <1>2, <1>3, <1>4, <1>8, <1>9, <2>1, <2>5, <2>6, <2>7, WritesOn
  <2> QED BY <2>3, <2>8
<1> QED BY <1>2, <1>3, <1>9, PublishKeepsOthers

LEMMA DeleteLastKeepsFiles ==
    ASSUME IInv, IInv', FilesAreKept, NEW t \in Threads, NEW s, s # Finish, s[1] \in LastDeletes,
           NEW row \in Rows, row[1] \in {"node", "tag"}, row = Target(s), DeleteLast(t, s, row)
    PROVE  FilesAreKept'
<1>1. Doing(t, s) /\ Running(t) /\ First(t) = s /\ DeletesSomething(s)
  BY DEF DeleteLast, Doing, First, DeletesSomething, LastDeletes
<1>2. CASE End(t, 404)
  BY <1>1, <1>2, EndKeepsFiles
<1>3. CASE engine # "sqlite"
  <2>1. engine' = engine
    BY DEF DeleteLast, End, Write, Publish
  <2> QED BY <1>3, <2>1 DEF FilesAreKept
<1>4. CASE engine = "sqlite" /\ ~End(t, 404)
  <2> DEFINE rows == [x \in {row} \cup {} |-> Gone(x)]
             p == todo[t]
             r == <<>> \o Tail(p)
             S == Statements \cup {Finish}
             v == View(t)
  <2>1. Publish(t, rows, {}, <<>>, <<>>)
    <3>1. Write(t, [x \in {row} \cup (IF engine = "postgres" THEN Cascade(View(t), row) ELSE {}) |-> Gone(x)], <<>>)
      BY <1>4 DEF DeleteLast
    <3> QED BY <1>4, <3>1 DEF Write
  <2>2. DOMAIN rows = {row} /\ rows[row] = Gone(row)
    OBVIOUS
  <2>3. LooksFirst(t) /\ Deleting(request[t])
    BY <1>1, <1>4, FirstFacts DEF FilesAreKept
  <2>4. Open(t) /\ Alone(t)
    <3>1. Database \in Needs(s, Deleting(request[t]), seen[t].home)
      BY NeedsOf DEF LastDeletes
    <3> QED BY <1>1, <2>3, <3>1, NeedsDatabase
  <2> HIDE DEF rows
  <2>5. /\ UNCHANGED <<engine, setting, db, request, seen, overtook>>
        /\ todo'[t] = r /\ Open(t)'
        /\ Table(v) /\ Table(View(t)') /\ Excused(t)' = Excused(t) /\ Deleting(request[t])' = Deleting(request[t])
        /\ \A x \in Rows \ {row} : x # Database => View(t)'[x] = v[x]
    <3> DEFINE a == <<>>
    <3>1. Publish(t, rows, {}, <<>>, a) /\ DOMAIN rows \subseteq Rows
      BY <2>1, <2>2
    <3> HIDE DEF a
    <3>2. UNCHANGED <<engine, setting, db, request, seen, overtook>> /\ todo'[t] = a \o Tail(p) /\ Open(t)'
      BY <1>4, <3>1, PublishedView
    <3>3. /\ Table(v) /\ Table(View(t)') /\ Excused(t)' = Excused(t)
          /\ Deleting(request[t])' = Deleting(request[t])
      BY <1>4, <3>1, PublishedView
    <3>4. \A x \in Rows \ DOMAIN rows : x # Database => View(t)'[x] = v[x]
      BY <1>4, <3>1, PublishedView
    <3> QED BY <2>2, <3>2, <3>3, <3>4 DEF a
  <2>6. /\ p \in Seq(S) /\ p # <<>> /\ p[1] = s /\ Swept(p, Open(t), v) /\ request[t] \in Requests
    BY <1>1, <2>3 DEF LooksFirst, First, IInv, Typed, ThreadOK, Rest, Running
  <2>7. /\ \A k \in 1..Len(p) : 1 < k => Lowest(p[k]) >= 4
        /\ \A x \in Rows : row \notin Refs(x, v[x])
    <3> HIDE DEF p, S, v
    <3>1. 1 \in 1..Len(p) /\ Len(p) \in Nat
      BY <2>6
    <3>2. ~ToSweep(p, 1)
      BY <2>6 DEF ToSweep
    <3>3. (\A k \in 1..Len(p) : 1 < k => Lowest(p[k]) >= 4) /\ SweepsAll(p, 1, v)
      BY <2>6, <3>1, <3>2 DEF Swept
    <3>4. \A j \in 1..Len(p) : ~(j < 1)
      BY <3>1
    <3> QED BY <2>6, <3>3, <3>4 DEF SweepsAll
  <2>8. \A i \in 1..Len(r) : /\ Lowest(r[i]) >= 4 /\ r[i] \in S
                             /\ r[i][1] \notin LastDeletes \cup {"reassign", "insert_edge"}
                             /\ \A d, home : Needs(r[i], d, home) = {}
    <3> SUFFICES ASSUME NEW i \in 1..Len(r)
                 PROVE  /\ Lowest(r[i]) >= 4 /\ r[i] \in S
                        /\ r[i][1] \notin LastDeletes \cup {"reassign", "insert_edge"}
                        /\ \A d, home : Needs(r[i], d, home) = {}
      OBVIOUS
    <3>1. r[i] = p[i + 1] /\ i + 1 \in 1..Len(p) /\ 1 < i + 1
      <4> HIDE DEF p, S
      <4> QED BY <2>6
    <3>2. Lowest(r[i]) >= 4 /\ r[i] \in S
      BY <2>6, <2>7, <3>1
    <3> HIDE DEF r
    <3> QED BY <3>2, EventsTouchNothing, EventsNeedNothing
  <2>9. BringsNoMoreThan(t)
    <3> SUFFICES ASSUME NEW x \in Rows, NEW ref \in Refs(x, View(t)'[x]), View(t)'[ref] = Gone(ref)
                 PROVE  ref \in Refs(x, v[x]) /\ v[ref] = Gone(ref)
      <4>1. \A n \in NodeIds : RowsUnder(n) \subseteq Rows
        BY RowFacts DEF RowsUnder
      <4> QED BY <4>1 DEF BringsNoMoreThan
    <3>1. x \notin {row, Database}
      BY DEF Refs, Database
    <3>2. ref \in Refs(x, v[x])
      BY <2>5, <3>1
    <3>3. ref # row /\ ref # Database
      BY <2>7, <3>2 DEF Refs, Node, Tag, Database
    <3>4. ref \in Rows
      <4>1. Fits(x, v[x])
        BY <2>5 DEF Table
      <4> QED BY <3>2, <4>1, RefsAreRows
    <3> QED BY <2>5, <3>2, <3>3, <3>4
  <2>10. BringsNothing(t)'
    BY <2>3, <2>5, <2>9, NothingMore DEF LooksFirst
  <2>11. LooksFirst(t)'
    <3>1. request'[t] # NoRequest
      <4>1. request'[t].op # "none"
        BY <2>5, <2>6 DEF Requests, Creations, Changes, Deletions, TagRequests
      <4>2. NoRequest.op = "none"
        BY DEF NoRequest
      <4> QED BY <4>1, <4>2
    <3> HIDE DEF r, v
    <3>2. Grounded(todo[t], Deleting(request[t]), seen[t].home, Has(t))'
      BY <2>5, <2>8 DEF Grounded
    <3>3. KnowsChildren(t)'
      BY <2>5, <2>8 DEF KnowsChildren
    <3>4. WritesUnderItsNode(t)'
      BY <2>3, <2>5 DEF WritesUnderItsNode
    <3>5. Swept(todo[t], Open(t), View(t))'
      BY <2>5, <2>8 DEF Swept
    <3> QED BY <2>10, <3>1, <3>2, <3>3, <3>4, <3>5 DEF LooksFirst
  <2> QED BY <2>1, <2>2, <2>4, <2>11, PublishKeepsOthers
<1> QED BY <1>2, <1>3, <1>4

LEMMA LastDeletionsKeepFiles ==
    ASSUME IInv, IInv', FilesAreKept, NEW t \in Threads, DeleteNodeRow(t) \/ DeleteTagRow(t)
    PROVE  FilesAreKept'
<1>1. ASSUME NEW n \in NodeIds, DeleteLast(t, <<"delete_node", n>>, Node(n))
      PROVE  FilesAreKept'
  <2> DEFINE s == <<"delete_node", n>>
             row == Node(n)
  <2>1. s # Finish /\ s[1] \in LastDeletes /\ row = Target(s) /\ row[1] \in {"node", "tag"}
    BY DEF Finish, LastDeletes, Target, Node
  <2>2. row \in Rows /\ DeleteLast(t, s, row)
    BY <1>1, RowFacts
  <2> HIDE DEF s, row
  <2> QED BY <2>1, <2>2, DeleteLastKeepsFiles
<1>2. ASSUME NEW u \in Tags, DeleteLast(t, <<"delete_tag", u>>, Tag(u))
      PROVE  FilesAreKept'
  <2> DEFINE s == <<"delete_tag", u>>
             row == Tag(u)
  <2>1. s # Finish /\ s[1] \in LastDeletes /\ row = Target(s) /\ row[1] \in {"node", "tag"}
    BY DEF Finish, LastDeletes, Target, Tag
  <2>2. row \in Rows /\ DeleteLast(t, s, row)
    BY <1>2 DEF Rows
  <2> HIDE DEF s, row
  <2> QED BY <2>1, <2>2, DeleteLastKeepsFiles
<1> QED BY <1>1, <1>2 DEF DeleteNodeRow, DeleteTagRow

LEMMA CommitKeepsFiles ==
    ASSUME IInv, IInv', FilesAreKept, NEW t \in Threads, Commit(t)
    PROVE  FilesAreKept'
<1> DEFINE passedBy(s) == s[1] = "remove_row" /\ s[2] \in DOMAIN writes[t]
<1> SUFFICES ASSUME engine = "sqlite" PROVE OneWriter' /\ \A o \in Threads : LooksFirst(o)'
  BY DEF FilesAreKept, Commit
<1>1. /\ UNCHANGED <<engine, setting, request, seen>> /\ Overtake(t) /\ db' = View(t)
      /\ todo' = [o \in Threads |->
                     IF o = t THEN <<>>
                     ELSE [i \in DOMAIN todo[o] |-> IF passedBy(todo[o][i]) THEN <<"pass_by">> ELSE todo[o][i]]]
      /\ writes' = [writes EXCEPT ![t] = <<>>]
      /\ DOMAIN writes = Threads /\ DOMAIN overtook = Threads
  BY DEF Commit, IInv, Typed, Domains
<1>2. todo'[t] = <<>> /\ writes'[t] = <<>> /\ \A o \in Threads \ {t} : writes'[o] = writes[o]
  BY <1>1
<1>3. \A o \in Threads \ {t} :
         todo'[o] = [i \in DOMAIN todo[o] |-> IF passedBy(todo[o][i]) THEN <<"pass_by">> ELSE todo[o][i]]
  BY <1>1
<1>4. OneWriter /\ \A o \in Threads : LooksFirst(o) /\ todo[o] \in Seq(Statements \cup {Finish}) /\ ThreadOK(o)
  BY DEF FilesAreKept, IInv, Typed, ThreadOK, Rest
<1>5. ASSUME NEW o \in Threads \ {t} PROVE Passes(todo[o], todo'[o])
  <2> DEFINE S == Statements \cup {Finish}
  <2>1. <<"pass_by">> \in S
    BY DEF Statements
  <2>0. todo[o] \in Seq(S)
    BY <1>4
  <2>3. todo'[o] = [i \in DOMAIN todo[o] |-> IF passedBy(todo[o][i]) THEN <<"pass_by">> ELSE todo[o][i]]
    BY <1>3
  <2> HIDE DEF S
  <2>2. /\ todo'[o] \in Seq(S) /\ Len(todo'[o]) = Len(todo[o])
        /\ \A i \in 1..Len(todo[o]) : todo'[o][i] = todo[o][i]
                                      \/ (todo[o][i][1] = "remove_row" /\ todo'[o][i] = <<"pass_by">>)
    BY <2>0, <2>1, <2>3
  <2> QED BY <2>2 DEF Passes, S
<1>6. /\ \A o \in Threads : overtook[o] \subseteq overtook'[o]
      /\ \A o \in Threads \ {t} : Running(o) => t \in overtook'[o]
  BY <1>1 DEF Overtake
<1>7. ASSUME NEW o \in Threads PROVE (Belated(o) => Belated(o)') /\ (Excused(o) => Excused(o)')
  BY <1>1, <1>6, MoreBelated DEF IInv, Deleting
<1>8. /\ Table(db) /\ Table(db') /\ Table(View(t))
      /\ \A row \in Rows : db'[row] = IF row \in DOMAIN writes[t] THEN writes[t][row] ELSE db[row]
  <2>1. ViewsFit
    BY Always, PTL
  <2> QED BY <1>1, <2>1 DEF ViewsFit
<1>9. db' = [row \in Rows |-> db'[row]]
  <2>1. DOMAIN View(t) = Rows
    BY <1>8 DEF Table
  <2>2. DOMAIN View(t) = DOMAIN writes[t] \cup DOMAIN db
    BY DEF View, Over
  <2>3. View(t) = [row \in Rows |-> IF row \in DOMAIN writes[t] THEN writes[t][row] ELSE db[row]]
    BY <2>1, <2>2 DEF View, Over
  <2> QED BY <1>1, <2>3
<1>10. OneWriter'
  <2>1. /\ \A o \in Threads \ {t} : Open(o)' = Open(o)
        /\ ~(Open(t)') /\ DOMAIN writes'[t] = {}
    BY <1>2 DEF Open
  <2> QED BY <1>2, <1>4, <1>9, <2>1 DEF OneWriter
<1>11. RestsLook'
  BY Always, PTL
<1>12. LooksFirst(t)'
  <2>1. request[t] = NoRequest => seen[t].home = NoNode
    BY <1>4 DEF LooksFirst
  <2> QED BY <1>1, <1>2, <1>11, <2>1 DEF RestsLook
<1>13. ASSUME NEW o \in Threads \ {t}, ~Running(o) PROVE LooksFirst(o)'
  <2>1. request[o] = NoRequest => seen[o].home = NoNode
    BY <1>4 DEF LooksFirst
  <2>2. todo'[o] = <<>> /\ writes'[o] = <<>>
    <3>1. todo[o] = <<>> /\ writes[o] = <<>>
      BY <1>4, <1>13 DEF ThreadOK, Running
    <3>2. Len(todo'[o]) = 0 /\ todo'[o] \in Seq(Statements \cup {Finish})
      BY <1>5, <3>1 DEF Passes
    <3> QED BY <1>2, <3>1, <3>2
  <2> QED BY <1>1, <1>11, <2>1, <2>2 DEF RestsLook
<1>14. ASSUME NEW o \in Threads \ {t}, Running(o), ~Open(t) PROVE LooksFirst(o)'
  <2>1. DOMAIN writes[t] = {}
    BY <1>4, <1>14 DEF OneWriter
  <2>2. db' = db
    <3>1. \A row \in Rows : db'[row] = db[row]
      BY <1>8, <2>1
    <3>2. db = [row \in Rows |-> db[row]]
      BY <1>4 DEF OneWriter
    <3> QED BY <1>9, <3>1, <3>2
  <2>3. todo'[o] = todo[o]
    <3>1. todo'[o] = [i \in DOMAIN todo[o] |-> todo[o][i]]
      BY <1>3, <2>1
    <3> QED BY <1>4, <3>1
  <2> QED BY <1>1, <1>2, <1>4, <1>7, <2>2, <2>3, StaysLooking
<1>15. ASSUME NEW o \in Threads \ {t}, Running(o), Open(t) PROVE LooksFirst(o)'
  <2>1. DOMAIN writes[o] = {}
    BY <1>4, <1>15 DEF OneWriter
  <2>2. t \in overtook'[o]
    BY <1>6, <1>15
  <2>3. Deleting(request[t]) => Belated(o)'
    BY <1>1, <2>2 DEF Belated, Deleting
  <2>4. Belated(o)' => Excused(o)'
    BY DEF Excused
  <2>5. Deleting(request[o]) /\ Belated(t) => Excused(o)'
    <3>1. Belated(t) => Belated(t)'
      BY <1>7
    <3>2. Deleting(request[o]) => Deleting(request'[o])
      BY <1>1
    <3> QED BY <2>2, <3>1, <3>2 DEF Excused, Deleting
  <2>6. ASSUME NEW row \in Rows, row[1] \in {"node", "tag"}, db[row] # Gone(row)
        PROVE  Belated(o)' \/ db'[row] # Gone(row)
    <3>1. HoldsInOrder(t)
      BY DEF IInv
    <3> QED BY <1>8, <2>3, <2>6, <3>1 DEF HoldsInOrder
  <2>7. ASSUME Deleting(request[o]), ~(Excused(o)'), NEW c \in NodeIds, db'[Node(c)] = "absent"
        PROVE  \A row \in RowsUnder(c) : db'[row] = db[row]
    <3>1. ~Deleting(request[t]) /\ ~Belated(t)
      BY <2>3, <2>4, <2>5, <2>7
    <3>2. \A row \in DOMAIN writes[t] : row[1] \in {"edge", "mark"} => db'[Node(row[2])] # "absent"
      BY <1>1, <1>4, <3>1 DEF LooksFirst, WritesUnderItsNode
    <3>3. \A row \in RowsUnder(c) : row \in Rows /\ row[1] \in {"edge", "mark"} /\ row[2] = c
      <4>1. RowsUnder(c) \subseteq Rows
        BY RowFacts DEF RowsUnder
      <4> QED BY <4>1 DEF RowsUnder, MarksOf, Edge, Mark
    <3> QED BY <1>8, <2>7, <3>2, <3>3
  <2> QED BY <1>1, <1>2, <1>4, <1>5, <1>7, <2>1, <2>6, <2>7, OthersLook
<1> QED BY <1>10, <1>12, <1>13, <1>14, <1>15

LEMMA DeletionIsSwept ==
    ASSUME NEW a \in Seq(Statements), NEW k \in 1..Len(a), Len(a) = k + 1, ToSweep(a, k),
           \A i \in 1..Len(a) : a[i][1] \in LastDeletes => i = k, Lowest(a[k + 1]) >= 4,
           NEW open, NEW v
    PROVE  Swept(a \o <<Finish>>, open, v)
<1> DEFINE r == a \o <<Finish>>
<1>1. Len(a) \in Nat /\ Len(r) = k + 2 /\ r[k + 2] = Finish /\ \A i \in 1..Len(a) : i \in 1..Len(r) /\ r[i] = a[i]
  OBVIOUS
<1>2. Finish[1] \notin LastDeletes /\ Lowest(Finish) >= 4
  BY DEF Finish, LastDeletes, Lowest, Stage, Wide
<1> HIDE DEF r
<1>3. ASSUME NEW i \in 1..Len(r), r[i][1] \in LastDeletes PROVE i = k
  <2>1. i \in 1..Len(a) \/ i = k + 2
    BY <1>1
  <2> QED BY <1>1, <1>2, <1>3, <2>1
<1>4. ASSUME NEW i \in 1..Len(r), k < i PROVE Lowest(r[i]) >= 4
  <2>1. i = k + 1 \/ i = k + 2
    BY <1>1, <1>4
  <2> QED BY <1>1, <1>2, <2>1
<1>5. r[k] = a[k]
  BY <1>1
<1>6. ToSweep(r, k)
  <2>1. CASE a[k][1] = "delete_node"
    <3>1. k >= 4 /\ k - 3 \in 1..Len(a) /\ k - 2 \in 1..Len(a) /\ k - 1 \in 1..Len(a)
      BY <1>1, <2>1 DEF ToSweep
    <3>2. r[k - 3] = a[k - 3] /\ r[k - 2] = a[k - 2] /\ r[k - 1] = a[k - 1]
      BY <1>1, <3>1
    <3> QED BY <1>5, <2>1, <3>1, <3>2 DEF ToSweep
  <2>2. CASE a[k][1] # "delete_node"
    <3>1. k >= 2 /\ k - 1 \in 1..Len(a)
      BY <1>1, <2>2 DEF ToSweep
    <3>2. r[k - 1] = a[k - 1]
      BY <1>1, <3>1
    <3> QED BY <1>5, <2>2, <3>1, <3>2 DEF ToSweep
  <2> QED BY <2>1, <2>2
<1> QED BY <1>3, <1>4, <1>6 DEF Swept, r

LEMMA ProgramFacts ==
    ASSUME NEW r \in Requests, Deleting(r)
    PROVE  /\ \A i \in 1..Len(Program(r)) : Program(r)[i][1] \notin {"reassign", "insert_edge"}
           /\ \A open, v : Swept(Program(r) \o <<Finish>>, open, v)
<1>1. CASE r.op = "DELETE"
  <2> DEFINE n == r.node
             a == DeleteNode(n)
  <2>1. n \in NodeIds /\ Program(r) = a
    BY <1>1 DEF Requests, Creations, Changes, Deletions, TagRequests, Program
  <2>2. /\ Ready(a, TRUE, NoNode, {}, {})
        /\ \A i \in 1..Len(a) : /\ a[i][1] \notin {"reassign", "insert_edge"}
                                /\ a[i][1] \in LastDeletes => i = 9
        /\ Len(a) = 10 /\ ToSweep(a, 9) /\ Lowest(a[10]) = 4
    <3> HIDE DEF n
    <3> QED BY <2>1, DeleteNodeReady
  <2> HIDE DEF a
  <2>3. a \in Seq(Statements) /\ 9 \in 1..Len(a) /\ Len(a) = 9 + 1 /\ Lowest(a[9 + 1]) >= 4
    BY <2>2 DEF Ready
  <2> QED BY <2>1, <2>2, <2>3, DeletionIsSwept
<1>2. CASE r.op = "DELETE tag"
  <2> DEFINE u == r.tag
             a == DeleteTag(u)
  <2>1. u \in Tags /\ Program(r) = a
    BY <1>2 DEF Requests, Creations, Changes, Deletions, TagRequests, Program
  <2>2. /\ Ready(a, TRUE, NoNode, {}, {})
        /\ \A i \in 1..Len(a) : /\ a[i][1] \notin {"reassign", "insert_edge"}
                                /\ a[i][1] \in LastDeletes => i = 4
        /\ Len(a) = 5 /\ ToSweep(a, 4) /\ Lowest(a[5]) = 4
    <3> HIDE DEF u
    <3> QED BY <2>1, DeleteTagReady
  <2> HIDE DEF a
  <2>3. a \in Seq(Statements) /\ 4 \in 1..Len(a) /\ Len(a) = 4 + 1 /\ Lowest(a[4 + 1]) >= 4
    BY <2>2 DEF Ready
  <2> QED BY <2>1, <2>2, <2>3, DeletionIsSwept
<1> QED BY <1>1, <1>2 DEF Deleting

LEMMA StartKeepsFiles ==
    ASSUME IInv, IInv', FilesAreKept, NEW t \in Threads, Start(t)
    PROVE  FilesAreKept'
<1> SUFFICES ASSUME engine = "sqlite" PROVE OneWriter' /\ \A o \in Threads : LooksFirst(o)'
  BY DEF FilesAreKept, Start
<1>1. /\ UNCHANGED <<engine, setting, db, copy, seen, writes, shares, news, overtook, answer>>
      /\ request[t] = NoRequest /\ setting \in Settings /\ request \in [Threads -> Requests \cup {NoRequest}]
      /\ DOMAIN todo = Threads /\ ThreadOK(t) /\ OneWriter /\ \A o \in Threads : LooksFirst(o)
  BY DEF Start, IInv, Typed, Domains, FilesAreKept
<1>2. PICK r \in setting.requests :
         /\ request' = [request EXCEPT ![t] = r]
         /\ todo' = [todo EXCEPT ![t] = Program(r) \o <<Finish>>]
  BY DEF Start, Finish
<1>3. r \in Requests
  BY <1>1, TransactionsAssumption
<1>4. /\ todo'[t] = Program(r) \o <<Finish>> /\ request'[t] = r /\ seen'[t].home = NoNode
      /\ \A o \in Threads \ {t} : todo'[o] = todo[o] /\ request'[o] = request[o]
  BY <1>1, <1>2 DEF LooksFirst
<1>5. NoRequest.op = "none" /\ r.op # "none"
  BY <1>3 DEF NoRequest, Requests, Creations, Changes, Deletions, TagRequests
<1>6. writes[t] = <<>> /\ DOMAIN writes'[t] = {}
  <2>1. request[t] \notin Requests
    BY <1>1, <1>5 DEF Requests, Creations, Changes, Deletions, TagRequests
  <2> QED BY <1>1, <2>1 DEF ThreadOK
<1>7. OneWriter'
  BY <1>1 DEF OneWriter, Open
<1>8. \A x \in Threads : Deleting(request[x]) => Deleting(request'[x])
  <2>1. ~Deleting(request[t])
    BY <1>1, <1>5 DEF Deleting
  <2> QED BY <1>4, <2>1
<1>9. ASSUME NEW o \in Threads, o # t PROVE LooksFirst(o)'
  <2>1. (Belated(o) => Belated(o)') /\ (Excused(o) => Excused(o)')
    BY <1>1, <1>8, MoreBelated DEF IInv
  <2> QED BY <1>1, <1>4, <1>9, <2>1, StaysLooking
<1>10. LooksFirst(t)'
  <2> DEFINE a == Program(r)
             b == <<Finish>>
             p == a \o b
             S == Statements \cup {Finish}
             d == Deleting(r)
             J == Has(t)'
  <2>1. a \in Seq(Statements) /\ Grounded(a, d, NoNode, J)
    BY <1>3, ProgramReady DEF Ready
  <2>2. Finish[1] = "commit" /\ Needs(Finish, d, NoNode) = {}
    BY NeedsOf DEF Finish
  <2>3. a \in Seq(S) /\ b \in Seq(S) /\ b \in Seq({Finish}) /\ Len(b) = 1 /\ b[1] = Finish
    BY <2>1, StatementsAreMore
  <2>4. Grounded(b, d, NoNode, J \cup GivenBy(a))
    BY <2>2, <2>3 DEF Grounded
  <2>5. d => /\ \A i \in 1..Len(a) : a[i][1] \notin {"reassign", "insert_edge"}
             /\ \A open, v : Swept(p, open, v)
    BY <1>3, ProgramFacts
  <2>6. todo'[t] = p /\ Deleting(request[t])' = d
    BY <1>4 DEF Deleting
  <2> HIDE DEF a, d, S, J
  <2>7. Grounded(p, d, NoNode, J)
    <3> HIDE DEF b
    <3> QED BY <2>1, <2>3, <2>4, JoinGrounded
  <2>8. Grounded(todo[t], Deleting(request[t]), seen[t].home, Has(t))'
    BY <1>4, <2>6, <2>7 DEF J
  <2>9. d => \A i \in 1..Len(p) : p[i][1] \notin {"reassign", "insert_edge"}
    <3>1. \A i \in 1..Len(p) : (i \in 1..Len(a) /\ p[i] = a[i]) \/ p[i] = Finish
      BY <2>1
    <3> HIDE DEF p
    <3> QED BY <2>2, <2>5, <3>1
  <2> HIDE DEF p
  <2>10. KnowsChildren(t)'
    BY <2>6, <2>9 DEF KnowsChildren
  <2>11. WritesUnderItsNode(t)'
    BY <1>6 DEF WritesUnderItsNode
  <2>12. Deleting(request[t])' => Swept(todo[t], Open(t), View(t))'
    BY <2>5, <2>6
  <2>13. BringsNothing(t)'
    <3>1. SeeTheDatabase'
      BY Always, PTL
    <3> QED BY <1>6, <3>1 DEF SeeTheDatabase
  <2> QED BY <1>4, <2>8, <2>10, <2>11, <2>12, <2>13 DEF LooksFirst
<1> QED BY <1>7, <1>9, <1>10

LEMMA StepKeepsFiles ==
    ASSUME IInv, IInv', FilesAreKept, NEW t \in Threads, Step(t)
    PROVE  FilesAreKept'
<1>1. CASE \/ FetchNode(t) \/ EnsureChildless(t) \/ EnsureContainer(t) \/ EnsureAcyclic(t)
           \/ EnsureNewTag(t) \/ FetchTag(t)
  BY <1>1, ChecksKeepFiles
<1>2. CASE FetchParent(t) \/ FetchChildren(t) \/ FetchBearers(t) \/ PassBy(t)
  BY <1>2, GlancesKeepFiles
<1>3. CASE FindHome(t) \/ FindOrphanContainer(t)
  BY <1>3, HomeReadsKeepFiles
<1>4. CASE ReassignChildren(t) \/ Reassign(t)
  BY <1>4, ReassignsKeepFiles
<1>5. CASE EnsureTag(t) \/ InsertMarks(t)
  BY <1>5, TagReadsKeepFiles
<1>6. CASE \/ AnnounceUpdate(t) \/ AnnounceReplacement(t) \/ AnnounceDeletion(t)
           \/ AnnounceBearers(t) \/ AnnounceParents(t)
  BY <1>6, EventReadsKeepFiles
<1>7. CASE DeleteEdge(t) \/ DeleteChildEdges(t) \/ DeleteMarks(t) \/ DeleteTagMarks(t)
  BY <1>7, DeletionsKeepFiles
<1>8. CASE InsertEdge(t) \/ InsertMark(t)
  BY <1>8, InsertsKeepFiles
<1>9. CASE DeleteNodeRow(t) \/ DeleteTagRow(t)
  BY <1>9, LastDeletionsKeepFiles
<1>10. CASE Announce(t) \/ AppendEvent(t)
  BY <1>10, EventsKeepFiles
<1>11. CASE \/ CreateOrReplace(t) \/ InsertNode(t) \/ UpdateFields(t) \/ RemoveRow(t)
            \/ InsertTag(t) \/ Commit(t)
  BY <1>11, CreateOrReplaceKeepsFiles, InsertNodeKeepsFiles, UpdateFieldsKeepsFiles,
     RemoveRowKeepsFiles, InsertTagKeepsFiles, CommitKeepsFiles
<1>12. CASE ReadParent(t) \/ ReadChildren(t) \/ ReadChildTags(t) \/ ReadTags(t)
  BY <1>12, PieceReadsKeepFiles
<1> QED BY <1>1, <1>2, <1>3, <1>4, <1>5, <1>6, <1>7, <1>8, <1>9, <1>10, <1>11, <1>12 DEF Step

LEMMA NextKeepsFiles ==
    ASSUME IInv, IInv', FilesAreKept, [Next]_vars
    PROVE  FilesAreKept'
<1>1. ASSUME NEW t \in Threads, Start(t) \/ Step(t) \/ Victim(t) \/ Timeout(t)
      PROVE  FilesAreKept'
  <2>1. CASE Start(t)
    BY <2>1, StartKeepsFiles
  <2>2. CASE Step(t)
    BY <2>2, StepKeepsFiles
  <2>3. CASE Victim(t)
    <3>1. End(t, 500) /\ Running(t)
      BY <2>3 DEF Victim, InCircle, Circle
    <3> QED BY <3>1, EndKeepsFiles
  <2>4. CASE Timeout(t)
    BY <2>4, EndKeepsFiles DEF Timeout
  <2> QED BY <1>1, <2>1, <2>2, <2>3, <2>4
<1>2. CASE (UNCHANGED vars) \/ \E t \in Threads : Respond(t)
  <2>1. UNCHANGED <<engine, setting, db, request, todo, seen, writes, shares, news, overtook>>
    BY <1>2 DEF vars, Respond
  <2>2. ASSUME engine = "sqlite", NEW t \in Threads PROVE LooksFirst(t)'
    <3>1. LooksFirst(t)
      BY <2>2 DEF FilesAreKept
    <3>2. (Belated(t) => Belated(t)') /\ (Excused(t) => Excused(t)')
      BY <2>1, MoreBelated DEF IInv, Deleting
    <3> QED BY <2>1, <3>1, <3>2, StaysLooking
  <2>3. engine = "sqlite" => OneWriter'
    BY <2>1 DEF FilesAreKept, OneWriter, Open
  <2> QED BY <2>1, <2>2, <2>3 DEF FilesAreKept
<1> QED BY <1>1, <1>2 DEF Next, Proceed

LEMMA InitKeepsFiles ==
    ASSUME Init
    PROVE  FilesAreKept
<1>1. /\ db = RowsOf(setting) /\ request = [t \in Threads |-> NoRequest] /\ todo = [t \in Threads |-> <<>>]
      /\ seen = [t \in Threads |-> [parent |-> NoNode, nodes |-> {}, home |-> NoNode,
                                      resource |-> Absent]]
      /\ writes = [t \in Threads |-> <<>>]
  BY DEF Init
<1>2. \A t \in Threads : todo[t] = <<>> /\ writes[t] = <<>> /\ seen[t].home = NoNode /\ DOMAIN writes[t] = {}
  BY <1>1
<1>3. db = [row \in Rows |-> db[row]]
  BY <1>1 DEF RowsOf
<1>4. OneWriter
  BY <1>2, <1>3 DEF OneWriter, Open
<1>5. \A t \in Threads : LooksFirst(t)
  BY <1>2, InitHasIInv, RestsLooking
<1> QED BY <1>4, <1>5 DEF FilesAreKept
-----------------------------------------------------------------------------
(* The steps after which something refers to nothing.                             *)

(* What changes the committed rows: a commit, and a RELEASE that inserts one.        *)
Releases(row) ==
    /\ engine = "sqlite" /\ row[1] \in {"node", "tag"}
    /\ \E value : value # Gone(row) /\ db' = [db EXCEPT ![row] = value]
    /\ \E t \in Threads : ~Open(t) /\ (row[1] = "node" => View(t)[row] = "absent")

LEMMA ReleasesOne ==
    ASSUME NEW t \in Threads, NEW row \in Rows, row[1] \in {"node", "tag"}, NEW value, value # Gone(row),
           NEW a, row[1] = "node" => View(t)[row] = "absent", InsertUnderSavepoint(t, row, value, a)
    PROVE  UNCHANGED engine /\ (UNCHANGED db \/ Releases(row))
<1>1. CASE ReleaseCommits(t)
  BY <1>1 DEF InsertUnderSavepoint, ReleaseCommits, Releases
<1>2. CASE ~ReleaseCommits(t)
  BY <1>2 DEF InsertUnderSavepoint, Write, Publish
<1> QED BY <1>1, <1>2

LEMMA CommittedRows ==
    ASSUME NEW t \in Threads, Start(t) \/ Proceed(t)
    PROVE  UNCHANGED engine /\ (UNCHANGED db \/ Commit(t) \/ \E row \in Rows : Releases(row))
<1> DEFINE Shown == UNCHANGED engine /\ (UNCHANGED db \/ Commit(t) \/ \E row \in Rows : Releases(row))
<1> SUFFICES Shown
  OBVIOUS
<1>1. ASSUME \E status : End(t, status) PROVE Shown
  BY <1>1 DEF End
<1>2. ASSUME \E values, a : Learn(t, values, a) PROVE Shown
  BY <1>2 DEF Learn
<1>3. ASSUME \E rows, references, events, a : Publish(t, rows, references, events, a) PROVE Shown
  BY <1>3 DEF Publish
<1> HIDE DEF Shown
<1>4. ASSUME \E a : Read(t, a) PROVE Shown
  BY <1>2, <1>4 DEF Read
<1>5. ASSUME \E rows, a : Write(t, rows, a) PROVE Shown
  BY <1>3, <1>5 DEF Write
<1>6. CASE Start(t) \/ Victim(t) \/ Timeout(t) \/ Respond(t)
  <2>1. CASE Start(t) \/ Respond(t)
    BY <2>1 DEF Start, Respond, Shown
  <2> QED BY <1>1, <1>6, <2>1, Zenon DEF Victim, Timeout
<1>7. CASE \/ FetchNode(t) \/ EnsureChildless(t) \/ EnsureContainer(t) \/ EnsureAcyclic(t)
           \/ EnsureNewTag(t) \/ FetchTag(t)
  <2>1. (\E a : Read(t, a)) \/ \E status : End(t, status)
    BY <1>7, Zenon DEF Check, FetchNode, EnsureChildless, EnsureContainer, EnsureAcyclic, EnsureNewTag,
       FetchTag
  <2> QED BY <1>1, <1>4, <2>1
<1>8. CASE FetchParent(t) \/ FetchChildren(t) \/ FetchBearers(t) \/ FindOrphanContainer(t)
  BY <1>2, <1>8, Zenon DEF FetchParent, FetchChildren, FetchBearers, FindOrphanContainer
<1>9. CASE CreateOrReplace(t) \/ FindHome(t) \/ ReassignChildren(t) \/ Reassign(t)
  BY <1>4, <1>9, Zenon DEF CreateOrReplace, FindHome, ReassignChildren, Reassign
<1>10. CASE EnsureTag(t) \/ PassBy(t) \/ InsertMarks(t)
  BY <1>4, <1>10, Zenon DEF EnsureTag, PassBy, InsertMarks
<1>11. CASE AnnounceUpdate(t) \/ AnnounceReplacement(t) \/ AnnounceDeletion(t)
  BY <1>4, <1>11, Zenon DEF AnnounceUpdate, AnnounceReplacement, AnnounceDeletion
<1>12. CASE AnnounceBearers(t) \/ AnnounceParents(t)
  BY <1>4, <1>12, Zenon DEF AnnounceBearers, AnnounceParents
<1>13. CASE DeleteEdge(t) \/ DeleteChildEdges(t) \/ DeleteMarks(t) \/ DeleteTagMarks(t) \/ RemoveRow(t)
  BY <1>5, <1>13, Zenon DEF DeleteEdge, DeleteChildEdges, DeleteMarks, DeleteTagMarks, DeleteRows, RemoveRow
<1>14. CASE DeleteNodeRow(t) \/ DeleteTagRow(t)
  <2>1. (\E rows, a : Write(t, rows, a)) \/ \E status : End(t, status)
    BY <1>14, Zenon DEF DeleteNodeRow, DeleteTagRow, DeleteLast
  <2> QED BY <1>1, <1>5, <2>1
<1>15. CASE UpdateFields(t)
  <2>1. (\E rows, a : Write(t, rows, a)) \/ \E status : End(t, status)
    BY <1>15, Zenon DEF UpdateFields
  <2> QED BY <1>1, <1>5, <2>1
<1>16. CASE InsertEdge(t) \/ InsertMark(t)
  <2>1. \/ \E rows, references, events, a : Publish(t, rows, references, events, a)
        \/ \E status : End(t, status)
    BY <1>16, ZenonT(40) DEF InsertEdge, InsertMark, Insert
  <2> QED BY <1>1, <1>3, <2>1
<1>17. CASE Announce(t) \/ AppendEvent(t)
  <2>1. \/ \E rows, references, events, a : Publish(t, rows, references, events, a)
        \/ \E values, a : Learn(t, values, a)
    BY <1>17, AnnounceCases, Zenon DEF Begins, Read, AppendEvent, PublishEvent
  <2> QED BY <1>2, <1>3, <2>1
<1>18. CASE InsertNode(t)
  <2>1. PICK n \in NodeIds, kind \in Kinds :
           \/ \E status : End(t, status)
           \/ View(t)[Node(n)] = "absent" /\ InsertUnderSavepoint(t, Node(n), kind, <<>>)
    BY <1>18, Zenon DEF InsertNode
  <2>2. Node(n) \in Rows /\ Node(n)[1] \in {"node", "tag"} /\ kind # Gone(Node(n))
    BY DEF Rows, Node, Kinds, Gone
  <2>3. CASE View(t)[Node(n)] = "absent" /\ InsertUnderSavepoint(t, Node(n), kind, <<>>)
    BY <2>2, <2>3, ReleasesOne DEF Shown
  <2> QED BY <1>1, <2>1, <2>3 DEF Shown
<1>19. CASE InsertTag(t)
  <2>1. PICK u \in Tags : (\E a : Read(t, a)) \/ \E a : InsertUnderSavepoint(t, Tag(u), TRUE, a)
    BY <1>19, Zenon DEF InsertTag
  <2>2. Tag(u) \in Rows /\ Tag(u)[1] = "tag"
    BY DEF Rows, Tag
  <2>3. Gone(Tag(u)) = FALSE
    BY <2>2, Zenon DEF Gone
  <2> DEFINE value == TRUE
  <2>4. value # Gone(Tag(u))
    BY <2>3
  <2>5. ASSUME NEW a, InsertUnderSavepoint(t, Tag(u), TRUE, a)
        PROVE  UNCHANGED engine /\ (UNCHANGED db \/ Releases(Tag(u)))
    <3>1. InsertUnderSavepoint(t, Tag(u), value, a)
      BY <2>5
    <3> HIDE DEF value
    <3> QED BY <2>2, <2>4, <3>1, ReleasesOne
  <2> QED BY <1>4, <2>1, <2>2, <2>5 DEF Shown
<1>20. CASE Commit(t)
  BY <1>20 DEF Commit, Shown
<1>21. CASE ReadParent(t) \/ ReadChildren(t) \/ ReadChildTags(t)
  BY <1>2, <1>21, Zenon DEF ReadParent, ReadChildren, ReadChildTags
<1>22. CASE ReadTags(t)
  BY <1>4, <1>22, Zenon DEF ReadTags
<1> QED BY <1>6, <1>7, <1>8, <1>9, <1>10, <1>11, <1>12, <1>13, <1>14, <1>15, <1>16, <1>17, <1>18, <1>19,
        <1>20, <1>21, <1>22 DEF Step, Proceed

LEMMA ReleaseBringsNothing ==
    ASSUME IInv, IInv', NEW row \in Rows, Releases(row), NEW n \in NodeIds, RefersToNothing(db', n)
    PROVE  RefersToNothing(db, n)
<1>1. Table(db) /\ Table(db')
  BY DEF IInv, Typed
<1>2. /\ row[1] \in {"node", "tag"} /\ db'[row] # Gone(row)
      /\ \A x \in Rows : x # row => db'[x] = db[x]
  BY <1>1 DEF Releases, Table
<1>3. ASSUME NEW x \in RowsUnder(n), NEW ref \in Refs(x, db'[x]), db'[ref] = Gone(ref)
      PROVE  ref \in Refs(x, db[x]) /\ db[ref] = Gone(ref)
  <2>1. x \in Rows
    BY RowFacts DEF RowsUnder
  <2>2. x # row
    BY <1>2 DEF RowsUnder, MarksOf, Edge, Mark
  <2>3. ref \in Refs(x, db[x])
    BY <1>2, <1>3, <2>1, <2>2
  <2>4. ref \in Rows
    <3>1. Fits(x, db[x])
      BY <1>1, <2>1 DEF Table
    <3> QED BY <2>1, <2>3, <3>1, RefsAreRows
  <2> QED BY <1>2, <1>3, <2>3, <2>4
<1> QED BY <1>1, <1>3, BringsNoMore

LEMMA DanglingStep ==
    ASSUME IInv, IInv', FilesAreKept, NothingDangles', [Next]_vars,
           NEW n \in NodeIds, RefersToNothing(db', n), ~RefersToNothing(db, n)
    PROVE  engine = "sqlite" /\ \E t \in Threads : Committing(t) /\ Excused(t)
<1>1. db' # db
  OBVIOUS
<1>2. PICK t \in Threads : Start(t) \/ Proceed(t)
  BY <1>1 DEF Next, vars
<1>3. engine' = engine /\ (Commit(t) \/ \E row \in Rows : Releases(row))
  BY <1>1, <1>2, CommittedRows
<1>4. Commit(t)
  BY <1>3, ReleaseBringsNothing
<1>5. engine = "sqlite"
  <2>1. engine \in {"sqlite", "postgres"}
    BY TransactionsAssumption DEF IInv, Typed
  <2>2. (engine = "postgres" => \A m \in NodeIds : ~RefersToNothing(db, m))'
    BY DEF NothingDangles
  <2>3. engine' = "postgres" => ~RefersToNothing(db', n)
    BY <2>2 DEF RefersToNothing, Edge, Node, MarksIn, TagsIn, Mark, Tag
  <2> QED BY <1>3, <2>1, <2>3
<1>6. Committing(t)
  <2>1. todo'[t] = <<>>
    BY <1>4 DEF Commit
  <2>2. Doing(t, <<"commit">>) /\ db' = View(t)
    BY <1>4 DEF Commit
  <2> QED BY <2>1, <2>2 DEF Committing, Running
<1>7. RefersToNothing(View(t), n)
  BY <1>6 DEF Committing
<1>8. Excused(t)
  BY <1>5, <1>7 DEF FilesAreKept, LooksFirst, BringsNothing
<1> QED BY <1>5, <1>6, <1>8
-----------------------------------------------------------------------------
(* The theorems about references on SQLite.                                      *)

LEMMA FilesStayKept == Spec => []FilesAreKept
BY InitKeepsFiles, NextKeepsFiles, Invariant, PTL DEF Spec

(* On SQLite no two requests have a transaction open that has written something: the   *)
(* first write of a request takes the lock of the database file and keeps it until the  *)
(* commit or the rollback, whichever handler it is and wherever it fails.                *)
OneTransactionOnSQLite == engine = "sqlite" =>
    \A t, o \in Threads : t # o => ~(Open(t) /\ Open(o)) /\ (DOMAIN writes[t] # {} => Open(t))
LEMMA OneWriterOnSQLite == Spec => []OneTransactionOnSQLite
<1>1. FilesAreKept => OneTransactionOnSQLite
  BY DEF FilesAreKept, OneWriter, OneTransactionOnSQLite
<1> QED BY <1>1, FilesStayKept, PTL

(* On SQLite, where nothing enforces foreign keys, a commit leaves an edge or a mark   *)
(* that refers to no row, where there was none, only if a deletion of a node or of a    *)
(* tag committed while the request was under way, or if the request is itself a         *)
(* deletion that such a request overtook: what every other handler has looked up is      *)
(* still there when it writes, and a deletion removes all that refers to its row.         *)
THEOREM DanglingNeedsADeletion == Spec => OnlyDeletionsDangle
<1>1. IInv /\ IInv' /\ FilesAreKept /\ NothingDangles' /\ [Next]_vars =>
         [\A n \in NodeIds : RefersToNothing(db', n) /\ ~RefersToNothing(db, n) =>
            /\ engine = "sqlite"
            /\ \E t \in Threads :
                  /\ Committing(t)
                  /\ Belated(t) \/ (Deleting(request[t]) /\ \E o \in overtook[t] : Belated(o))]_vars
  BY DanglingStep DEF Excused
<1> QED BY <1>1, Invariant, FilesStayKept, NothingDanglesOnPostgres, PTL DEF Spec, OnlyDeletionsDangle
===============================================================================
