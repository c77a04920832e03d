----------------------------- MODULE Transactions -----------------------------
(***************************************************************************)
(* Mutations that overlap, statement by statement, on two kinds of engine.  *)
(*                                                                         *)
(* A request is a program: the sequence of statements its handler sends.    *)
(* db holds the committed rows, writes[t] what t's open transaction has     *)
(* written on top of them; the rows in DOMAIN writes[t] are locked until    *)
(* it ends, and shares[t] are those its foreign keys hold (FOR KEY SHARE).  *)
(*                                                                         *)
(* "postgres": READ COMMITTED, row locks, foreign keys that cascade.        *)
(* "sqlite": one write lock on the database from the first write to the     *)
(* commit, no foreign keys; statements before the first write see whatever  *)
(* is committed, and the RELEASE of a SAVEPOINT that is the first write      *)
(* commits it.                                                             *)
(***************************************************************************)
EXTENDS Integers, Sequences, FiniteSets, SequencesExt, FiniteSetsExt, TLC, Ordering

CONSTANTS
    NodeIds,    \* the ids of nodes, those a create draws included
    NoNode,     \* no parent
    Tags,       \* tag names; a name stands for the one id it ever has here
    Threads,    \* requests served at the same time, one each
    Keep,       \* a field a PATCH leaves out
    Relabel,    \* what a PATCH does to a node that gives it another label or description only
    Engines,    \* the engines to look at
    Settings    \* a graph, the ids ORPHAN_LOCATION labels, and the requests that arrive

Kinds == {"container", "item"}
NoRequest == [op |-> "none"]

(* Bodies that pass validation; a list of tag names is what dict.fromkeys leaves.   *)
Creations ==
    [op : {"POST", "PUT"}, node : NodeIds, kind : Kinds, parent : NodeIds \cup {NoNode},
     tags : Seq(Tags)]
Changes ==
    [op : {"PATCH"}, node : NodeIds, kind : Kinds \cup {Keep, Relabel},
     parent : NodeIds \cup {NoNode, Keep}, tags : Seq(Tags) \cup {Keep}]
Deletions == [op : {"DELETE"}, node : NodeIds]
TagRequests == [op : {"POST tag", "DELETE tag"}, tag : Tags]
Requests == Creations \cup Changes \cup Deletions \cup TagRequests

ASSUME TransactionsAssumption ==
    /\ NodeIds \subseteq Nat /\ IsFiniteSet(NodeIds)
    /\ NoNode \notin NodeIds /\ Tags \cap NodeIds = {} /\ IsFiniteSet(Tags)
    /\ Keep \notin Kinds /\ Keep \notin NodeIds /\ Relabel \notin Kinds \cup {Keep}
    /\ Engines \subseteq {"sqlite", "postgres"}
    /\ \A g \in Settings :
          /\ DOMAIN g.kind \subseteq NodeIds
          /\ \A n \in DOMAIN g.parent : {n, g.parent[n]} \subseteq DOMAIN g.kind
          /\ \A n \in DOMAIN g.tagged : n \in DOMAIN g.kind /\ g.tagged[n] \subseteq g.tags
          /\ \A n \in DOMAIN g.kind : g.kind[n] \in Kinds
          /\ g.tags \subseteq Tags /\ g.homes \subseteq NodeIds /\ g.requests \subseteq Requests

VARIABLES
    engine,     \* what the server runs on
    setting,    \* the one of Settings it is in
    db,         \* the committed rows
    copy,       \* what a subscriber that has read every event knows
    request,    \* the request of a thread
    todo,       \* its statements still to come
    seen,       \* the values its handler holds in variables
    writes,     \* its uncommitted writes, and so the rows it has locked
    shares,     \* the rows its foreign keys hold
    news,       \* its uncommitted events: the last word on a node or tag
    overtook,   \* the threads that committed something since this one began
    answer      \* the status sent, 0 before

vars == <<engine, setting, db, copy, request, todo, seen, writes, shares, news, overtook, answer>>
-----------------------------------------------------------------------------
(* Rows, each named by the unique key a statement finds or inserts it by.     *)

Node(n) == <<"node", n>>         \* "absent", "item" or "container"
Edge(n) == <<"edge", n>>         \* the parent_id of child n, NoNode for no row
Tag(u) == <<"tag", u>>           \* whether there is such a tag
Mark(n, u) == <<"mark", n, u>>   \* whether tag_node has this row
Sequence == <<"event_sequence">>
Database == <<"database">>       \* the write lock of SQLite

Rows == {Node(n) : n \in NodeIds} \cup {Edge(n) : n \in NodeIds} \cup {Tag(u) : u \in Tags}
           \cup {Mark(n, u) : n \in NodeIds, u \in Tags} \cup {Sequence, Database}

Gone(row) == IF row[1] = "node" THEN "absent" ELSE IF row[1] = "edge" THEN NoNode ELSE FALSE

(* The values of f, and those of g where f has none.                           *)
Over(f, g) == [x \in (DOMAIN f) \cup (DOMAIN g) |-> IF x \in DOMAIN f THEN f[x] ELSE g[x]]
Only(x, value) == [y \in {x} |-> value]

View(t) == Over(writes[t], db)

ChildrenIn(v, n) == {m \in NodeIds : v[Edge(m)] = n}
BearersIn(v, u) == {n \in NodeIds : v[Mark(n, u)]}
MarksIn(v, n) == {u \in Tags : v[Mark(n, u)]}
TagsIn(v, n) == {u \in MarksIn(v, n) : v[Tag(u)]}

(* fetch_node_representation; its joins leave out what is not there.          *)
Absent == [gone |-> TRUE]
Representation(v, n) ==
    IF v[Node(n)] = "absent" THEN Absent
    ELSE [kind |-> v[Node(n)], parent |-> v[Edge(n)], tags |-> TagsIn(v, n),
          children |-> [m \in {c \in ChildrenIn(v, n) : v[Node(c)] # "absent"} |->
                            [kind |-> v[Node(m)], tags |-> TagsIn(v, m)]]]

(* The recursive query of ensure_parent_is_valid, and when it does not end.   *)
Ancestors(v, p) ==
    LET up[k \in 0..Cardinality(NodeIds)] ==
            IF k = 0 THEN {v[Edge(p)]} \ {NoNode}
            ELSE up[k - 1] \cup ({v[Edge(a)] : a \in up[k - 1]} \ {NoNode})
    IN  up[Cardinality(NodeIds)]

Endless(v, n, p) ==
    /\ n \notin Ancestors(v, p) \cup {p}
    /\ \E a \in Ancestors(v, p) : a \in Ancestors(v, a)
-----------------------------------------------------------------------------
(* Programs.                                                                  *)

When(condition, statements) == IF condition THEN statements ELSE <<>>

Announcements(S) ==
    LET ids == Ascending(S \ {NoNode}) IN [i \in DOMAIN ids |-> <<"announce", ids[i]>>]

NoCycleCheck(n, p) == << <<"ensure_container", p>> >>
EnsureParentIsValid(n, p) == << <<"ensure_container", p>>, <<"ensure_acyclic", n, p>> >>

SetParent(n, p) ==
    << <<"delete_edge", n>> >> \o When(p # NoNode, << <<"insert_edge", n, p>> >>)

KeepsOldMarks(n, names) ==
    [i \in DOMAIN names |-> <<"ensure_tag", names[i]>>]
        \o When(names # <<>>, << <<"insert_marks", n, ToSet(names)>> >>)
ReplaceNodeTags(n, names) ==
    << <<"delete_marks", n>> >>
        \o [i \in DOMAIN names |-> <<"ensure_tag", names[i]>>]
        \o When(names # <<>>, << <<"insert_marks", n, ToSet(names)>> >>)

CreateNode(n, kind, p, names) ==
    << <<"insert_node", n, kind>> >>
        \o When(p # NoNode, << <<"ensure_container", p>> >> \o SetParent(n, p))
        \o When(names # <<>>, ReplaceNodeTags(n, names))
        \o << <<"announce", n>> >> \o Announcements({p})

UpdateNode(n, kind, p, names) ==
    << <<"fetch_node", n>>, <<"fetch_parent", n>> >>
        \o When(kind = "item", << <<"ensure_childless", n>> >>)
        \o When(p \notin {Keep, NoNode}, EnsureParentIsValid(n, p))
        \o When(kind # Keep, << <<"update_node", n, kind>> >>)
        \o When(p # Keep, SetParent(n, p))
        \o When(names # Keep, ReplaceNodeTags(n, names))
        \o << <<"announce_update", n>> >>

AnnouncesFirst(n, kind, p, names) ==
    << <<"fetch_parent", n>>, <<"announce", n>>, <<"update_node", n, kind>> >>
        \o SetParent(n, p) \o ReplaceNodeTags(n, names) \o << <<"announce_replacement", n, p>> >>
ReplaceNode(n, kind, p, names) ==
    When(kind = "item", << <<"ensure_childless", n>> >>)
        \o << <<"fetch_parent", n>> >>
        \o When(p # NoNode, EnsureParentIsValid(n, p))
        \o << <<"update_node", n, kind>> >> \o SetParent(n, p) \o ReplaceNodeTags(n, names)
        \o << <<"announce_replacement", n, p>> >>

LeavesEdges(n) ==
    << <<"fetch_node", n>>, <<"fetch_parent", n>>, <<"find_home", n>>, <<"fetch_children", n>>,
       <<"reassign_children", n>>, <<"delete_marks", n>>, <<"delete_node", n>>,
       <<"announce_deletion", n>> >>
DeleteNode(n) ==
    << <<"fetch_node", n>>, <<"fetch_parent", n>>, <<"find_home", n>>, <<"fetch_children", n>>,
       <<"reassign_children", n>>, <<"delete_child_edges", n>>, <<"delete_edge", n>>,
       <<"delete_marks", n>>, <<"delete_node", n>>, <<"announce_deletion", n>> >>

CreateTag(u) == << <<"ensure_new_tag", u>>, <<"ensure_tag", u>> >>

DeleteTag(u) ==
    << <<"fetch_tag", u>>, <<"fetch_bearers", u>>, <<"delete_tag_marks", u>>, <<"delete_tag", u>>,
       <<"announce_bearers", u>> >>

Program(r) ==
    CASE r.op = "POST" -> CreateNode(r.node, r.kind, r.parent, r.tags)
      [] r.op = "PATCH" -> UpdateNode(r.node, r.kind, r.parent, r.tags)
      [] r.op = "PUT" -> << <<"create_or_replace", r.node>> >>
      [] r.op = "DELETE" -> DeleteNode(r.node)
      [] r.op = "POST tag" -> CreateTag(r.tag)
      [] r.op = "DELETE tag" -> DeleteTag(r.tag)
-----------------------------------------------------------------------------
(* Locks.  On PostgreSQL a statement waits for the transactions that hold a   *)
(* row it writes; to delete a row also for those with a foreign key on it; and *)
(* to insert a foreign key for those that delete the row it refers to.         *)

Running(t) == todo[t] # <<>>
Doing(t, statement) == Running(t) /\ todo[t][1] = statement
Open(t) == Database \in DOMAIN writes[t]

Cascade(v, row) ==
    IF row[1] = "tag" THEN {Mark(n, row[2]) : n \in BearersIn(v, row[2])}
    ELSE {Edge(c) : c \in ChildrenIn(v, row[2])} \cup {Mark(row[2], u) : u \in MarksIn(v, row[2])}
            \cup {e \in {Edge(row[2])} : v[e] # NoNode}

Written(t, s) ==
    CASE s[1] \in {"insert_node", "update_node"} -> {Node(s[2])}
      [] s[1] = "delete_node" -> {Node(s[2])} \cup Cascade(View(t), Node(s[2]))
      [] s[1] = "insert_edge" -> {Edge(s[2])}
      [] s[1] = "insert_mark" -> {Mark(s[2], s[3])}
      [] s[1] = "insert_tag" -> {Tag(s[2])}
      [] s[1] = "delete_tag" -> {Tag(s[2])} \cup Cascade(View(t), Tag(s[2]))
      [] s[1] = "remove_row" -> {s[2]}
      [] s[1] = "append" -> {Sequence}
      [] OTHER -> {}

Deleted(s) ==
    CASE s[1] = "delete_node" -> {Node(s[2])}
      [] s[1] = "delete_tag" -> {Tag(s[2])}
      [] OTHER -> {}

References(s) ==
    CASE s[1] = "insert_edge" -> {Node(s[2]), Node(s[3])}
      [] s[1] = "insert_mark" -> {Node(s[2]), Tag(s[3])}
      [] OTHER -> {}

Deletes(t, row) == row \in DOMAIN writes[t] /\ writes[t][row] = Gone(row)

(* On SQLite the first write waits for the transaction that is open, and a    *)
(* commit for the queries that are still reading.                             *)
FirstWrites == {"insert_node", "insert_tag", "update_node", "delete_edge", "delete_child_edges",
                "delete_marks", "delete_tag_marks", "append"}
ReleaseCommits(t) == engine = "sqlite" /\ ~Open(t)
CommitsNow(t, s) == s[1] = "commit" \/ (s[1] \in {"insert_node", "insert_tag"} /\ ReleaseCommits(t))

Walking(t) ==
    \E n, p \in NodeIds : Doing(t, <<"ensure_acyclic", n, p>>) /\ Endless(View(t), n, p)

Blockers(t) ==
    LET s == todo[t][1]
        rowLock(o) == \/ Written(t, s) \cap DOMAIN writes[o] # {}
                      \/ Deleted(s) \cap shares[o] # {}
                      \/ \E row \in References(s) : Deletes(o, row)
        fileLock(o) == \/ s[1] \in FirstWrites /\ ~Open(t) /\ Open(o)
                       \/ CommitsNow(t, s) /\ Walking(o)
    IN  {o \in Threads \ {t} : IF engine = "sqlite" THEN fileLock(o) ELSE rowLock(o)}

Granted(t) == Blockers(t) = {}

(* Threads that wait for each other.                                           *)
Circle(S) == S # {} /\ \A o \in S : Running(o) /\ Blockers(o) \cap S # {}
InCircle(t) == \E S \in SUBSET Threads : t \in S /\ Circle(S)
-----------------------------------------------------------------------------
(* Steps.                                                                     *)

Continue(t, statements) == todo' = [todo EXCEPT ![t] = statements \o Tail(@)]

(* A SELECT: it decides how to go on, and what the handler remembers.          *)
Learn(t, values, statements) ==
    /\ seen' = [seen EXCEPT ![t] = values]
    /\ Continue(t, statements)
    /\ UNCHANGED <<engine, setting, db, copy, request, writes, shares, news, overtook, answer>>

Read(t, statements) == Learn(t, seen[t], statements)

(* An exception or an early return: rollback, and the status.                 *)
NoRollback(t, status) ==
    /\ todo' = [todo EXCEPT ![t] = <<>>]
    /\ answer' = [answer EXCEPT ![t] = status]
    /\ UNCHANGED <<engine, setting, db, copy, request, seen, writes, shares, news, overtook>>
End(t, status) ==
    /\ todo' = [todo EXCEPT ![t] = <<>>]
    /\ writes' = [writes EXCEPT ![t] = <<>>]
    /\ shares' = [shares EXCEPT ![t] = {}]
    /\ news' = [news EXCEPT ![t] = <<>>]
    /\ answer' = [answer EXCEPT ![t] = status]
    /\ UNCHANGED <<engine, setting, db, copy, request, seen, overtook>>

Check(t, holds, status) == IF holds THEN Read(t, <<>>) ELSE End(t, status)

(* A statement that writes: the values of rows, and the events it makes known. *)
Publish(t, rows, references, events, statements) ==
    LET opened == IF engine = "sqlite" THEN Only(Database, TRUE) ELSE <<>>
    IN  /\ writes' = [writes EXCEPT ![t] = Over(rows, Over(opened, @))]
        /\ shares' = [shares EXCEPT ![t] = @ \cup (IF engine = "postgres" THEN references ELSE {})]
        /\ news' = [news EXCEPT ![t] = Over(events, @)]
        /\ Continue(t, statements)
        /\ UNCHANGED <<engine, setting, db, copy, request, seen, overtook, answer>>

Write(t, rows, statements) == Publish(t, rows, {}, <<>>, statements)

Overtake(t) ==
    overtook' = [o \in Threads |-> IF Running(o) /\ o # t THEN overtook[o] \cup {t} ELSE overtook[o]]

InsertUnderSavepoint(t, row, value, statements) ==
    IF ReleaseCommits(t)
    THEN /\ db' = [db EXCEPT ![row] = value]
         /\ Overtake(t)
         /\ Continue(t, statements)
         /\ UNCHANGED <<engine, setting, copy, request, seen, writes, shares, news, answer>>
    ELSE Write(t, Only(row, value), statements)

Start(t) ==
    /\ request[t] = NoRequest
    /\ \E r \in setting.requests :
          /\ request' = [request EXCEPT ![t] = r]
          /\ todo' = [todo EXCEPT ![t] = Program(r) \o << <<"commit">> >>]
    /\ UNCHANGED <<engine, setting, db, copy, seen, writes, shares, news, overtook, answer>>
-----------------------------------------------------------------------------
(* The statements that read.                                                  *)

FetchNode(t) == \E n \in NodeIds :
    /\ Doing(t, <<"fetch_node", n>>)
    /\ Check(t, View(t)[Node(n)] # "absent", 404)

CreateOrReplace(t) == \E n \in NodeIds :
    LET r == request[t]
        create == View(t)[Node(n)] = "absent"
    IN  /\ Doing(t, <<"create_or_replace", n>>)
        /\ Read(t, IF create THEN CreateNode(n, r.kind, r.parent, r.tags)
                             ELSE ReplaceNode(n, r.kind, r.parent, r.tags))

FetchParent(t) == \E n \in NodeIds :
    /\ Doing(t, <<"fetch_parent", n>>)
    /\ Learn(t, [seen[t] EXCEPT !.parent = View(t)[Edge(n)]], <<>>)

NeverLooks(t) == \E n \in NodeIds : Doing(t, <<"ensure_childless", n>>) /\ Read(t, <<>>)
EnsureChildless(t) == \E n \in NodeIds :
    /\ Doing(t, <<"ensure_childless", n>>)
    /\ Check(t, ChildrenIn(View(t), n) = {}, 400)

EnsureContainer(t) == \E p \in NodeIds :
    /\ Doing(t, <<"ensure_container", p>>)
    /\ Check(t, View(t)[Node(p)] = "container", 400)

EnsureAcyclic(t) == \E n, p \in NodeIds :
    /\ Doing(t, <<"ensure_acyclic", n, p>>)
    /\ ~Endless(View(t), n, p)
    /\ Check(t, n \notin Ancestors(View(t), p) \cup {p}, 400)

(* delete_node: has it children to find a home for, and is there one?          *)
FindHome(t) == \E n \in NodeIds :
    /\ Doing(t, <<"find_home", n>>)
    /\ Read(t, When(setting.homes # {} /\ ChildrenIn(View(t), n) # {},
                    << <<"find_orphan_container", n>> >>))

FindOrphanContainer(t) == \E n \in NodeIds :
    LET found == {h \in setting.homes : View(t)[Node(h)] = "container"}
        drawn == {h \in setting.homes : \A o \in Threads : View(o)[Node(h)] = "absent"}
    IN  /\ Doing(t, <<"find_orphan_container", n>>)
        /\ \/ /\ found # {}
              /\ Learn(t, [seen[t] EXCEPT !.home = IF Min(found) = n THEN NoNode ELSE Min(found)], <<>>)
           \/ /\ found = {}
              /\ \E h \in drawn :
                    Learn(t, [seen[t] EXCEPT !.home = h], CreateNode(h, "container", NoNode, <<>>))

FetchChildren(t) == \E n \in NodeIds :
    /\ Doing(t, <<"fetch_children", n>>)
    /\ Learn(t, [seen[t] EXCEPT !.nodes = ChildrenIn(View(t), n)], <<>>)

(* _reassign_children_of_deleted_node reads the children once more.            *)
ReassignChildren(t) == \E n \in NodeIds :
    LET home == seen[t].home
        children == Ascending(ChildrenIn(View(t), n))
    IN  /\ Doing(t, <<"reassign_children", n>>)
        /\ Read(t, When(home # NoNode,
                        [i \in DOMAIN children |-> <<"reassign", children[i], home>>]))

Reassign(t) == \E c, p \in NodeIds : Doing(t, <<"reassign", c, p>>) /\ Read(t, SetParent(c, p))

EnsureNewTag(t) == \E u \in Tags :
    /\ Doing(t, <<"ensure_new_tag", u>>)
    /\ Check(t, ~View(t)[Tag(u)], 409)

EnsureTag(t) == \E u \in Tags :
    /\ Doing(t, <<"ensure_tag", u>>)
    /\ Read(t, When(~View(t)[Tag(u)], << <<"insert_tag", u>> >>))

(* The lookup of delete_tag, and "assert tag is not None" of ensure_tag.        *)
FetchTag(t) == \E u \in Tags :
    \/ Doing(t, <<"fetch_tag", u>>) /\ Check(t, View(t)[Tag(u)], 404)
    \/ Doing(t, <<"assert_tag", u>>) /\ Check(t, View(t)[Tag(u)], 500)

FetchBearers(t) == \E u \in Tags :
    /\ Doing(t, <<"fetch_bearers", u>>)
    /\ Learn(t, [seen[t] EXCEPT !.nodes = BearersIn(View(t), u)], <<>>)
-----------------------------------------------------------------------------
(* The statements that write.                                                 *)

(* An id that is taken is refused when a PUT gave it; five drawn ids that are      *)
(* taken are an error (a redraw that succeeds is a request with another id).       *)
InsertNode(t) == \E n \in NodeIds, kind \in Kinds :
    /\ Doing(t, <<"insert_node", n, kind>>) /\ Granted(t)
    /\ IF View(t)[Node(n)] # "absent" THEN End(t, IF request[t].op = "PUT" THEN 400 ELSE 500)
       ELSE InsertUnderSavepoint(t, Node(n), kind, <<>>)

(* update_node looks at the number of rows it changed, put_node does not.       *)
UpdateFields(t) == \E n \in NodeIds, kind \in Kinds \cup {Relabel} :
    LET old == View(t)[Node(n)]
        new == IF kind = Relabel THEN old ELSE kind
    IN  /\ Doing(t, <<"update_node", n, kind>>) /\ Granted(t)
        /\ IF old = "absent" /\ request[t].op = "PATCH" THEN End(t, 404)
           ELSE Write(t, IF old = "absent" THEN <<>> ELSE Only(Node(n), new), <<>>)

(* A DELETE takes the rows it finds when it starts.  One that it waits for and  *)
(* that is gone when the wait is over is passed by (see Commit and PassBy); a   *)
(* row inserted in its place is not seen.                                       *)
DeleteRows(t, statement, rows) ==
    /\ Doing(t, statement) /\ Granted(t)
    /\ \E found \in SetToSeqs(rows) :
          Write(t, <<>>, [i \in DOMAIN found |-> <<"remove_row", found[i]>>])

DeleteEdge(t) == \E n \in NodeIds :
    DeleteRows(t, <<"delete_edge", n>>, {e \in {Edge(n)} : View(t)[e] # NoNode})
DeleteChildEdges(t) == \E n \in NodeIds :
    DeleteRows(t, <<"delete_child_edges", n>>, {Edge(c) : c \in ChildrenIn(View(t), n)})
DeleteMarks(t) == \E n \in NodeIds :
    DeleteRows(t, <<"delete_marks", n>>, {Mark(n, u) : u \in MarksIn(View(t), n)})
DeleteTagMarks(t) == \E u \in Tags :
    DeleteRows(t, <<"delete_tag_marks", u>>, {Mark(n, u) : n \in BearersIn(View(t), u)})

RemoveRow(t) == \E row \in Rows :
    /\ Doing(t, <<"remove_row", row>>) /\ Granted(t)
    /\ Write(t, Only(row, Gone(row)), <<>>)
PassBy(t) == Doing(t, <<"pass_by">>) /\ Read(t, <<>>)

(* A row with the key of one that is there, or a foreign key that refers to    *)
(* nothing, is an IntegrityError that nobody catches.                          *)
Insert(t, rows, references) ==
    IF \/ \E row \in DOMAIN rows : View(t)[row] # Gone(row)
       \/ engine = "postgres" /\ \E row \in references : View(t)[row] = Gone(row)
    THEN End(t, 500)
    ELSE Publish(t, rows, references, <<>>, <<>>)

InsertEdge(t) == \E n, p \in NodeIds :
    /\ Doing(t, <<"insert_edge", n, p>>) /\ Granted(t)
    /\ IF n = p THEN End(t, 500) ELSE Insert(t, Only(Edge(n), p), References(todo[t][1]))

(* replace_node_tags inserts its rows one by one, those of a set(): in any order. *)
InsertMarks(t) == \E n \in NodeIds, S \in SUBSET Tags :
    /\ Doing(t, <<"insert_marks", n, S>>)
    /\ \E list \in SetToSeqs(S) : Read(t, [i \in DOMAIN list |-> <<"insert_mark", n, list[i]>>])
InsertMark(t) == \E n \in NodeIds, u \in Tags :
    /\ Doing(t, <<"insert_mark", n, u>>) /\ Granted(t)
    /\ Insert(t, Only(Mark(n, u), TRUE), References(todo[t][1]))

(* A tag that somebody else has inserted in the meantime is looked up again, and     *)
(* inserted if it has gone once more (the five attempts do not run out here).        *)
InsertTag(t) == \E u \in Tags :
    /\ Doing(t, <<"insert_tag", u>>) /\ Granted(t)
    /\ IF View(t)[Tag(u)] THEN Read(t, << <<"ensure_tag", u>> >>)
       ELSE InsertUnderSavepoint(t, Tag(u), TRUE, << <<"assert_tag", u>>, <<"append", u, TRUE>> >>)

(* The last DELETE of a request, with what ON DELETE CASCADE takes along.        *)
DeleteLast(t, statement, row) ==
    LET cascade == IF engine = "postgres" THEN Cascade(View(t), row) ELSE {}
    IN  /\ Doing(t, statement) /\ Granted(t)
        /\ IF View(t)[row] = Gone(row) THEN End(t, 404)
           ELSE Write(t, [r \in {row} \cup cascade |-> Gone(r)], <<>>)

DeleteNodeRow(t) == \E n \in NodeIds : DeleteLast(t, <<"delete_node", n>>, Node(n))
DeleteTagRow(t) == \E u \in Tags : DeleteLast(t, <<"delete_tag", u>>, Tag(u))
-----------------------------------------------------------------------------
(* Events.  The resource is read, in several SELECTs, then append_event takes     *)
(* event_sequence; what is read while the row is held does not change before the    *)
(* commit, so that one step stands for all of it.                               *)

PublishEvent(t, about, resource) ==
    Publish(t, Only(Sequence, TRUE), {}, Only(about, resource), <<>>)

Announce(t) == \E n \in NodeIds :
    LET kind == View(t)[Node(n)]
        begun == [kind |-> kind, parent |-> NoNode, tags |-> {}, children |-> <<>>]
    IN  /\ Doing(t, <<"announce", n>>)
        /\ \/ kind = "absent" /\ Read(t, <<>>)
           \/ /\ kind # "absent" /\ Sequence \in DOMAIN writes[t]
              /\ PublishEvent(t, n, Representation(View(t), n))
           \/ /\ kind # "absent" /\ Sequence \notin DOMAIN writes[t]
              /\ Learn(t, [seen[t] EXCEPT !.resource = begun],
                       << <<"read_parent", n>>, <<"read_children", n>>, <<"read_tags", n>> >>)

ReadParent(t) == \E n \in NodeIds :
    /\ Doing(t, <<"read_parent", n>>)
    /\ Learn(t, [seen[t] EXCEPT !.resource.parent = View(t)[Edge(n)]], <<>>)

(* The children, and then the tags of one after the other.                      *)
ReadChildren(t) == \E n \in NodeIds :
    LET v == View(t)
        found == {m \in ChildrenIn(v, n) : v[Node(m)] # "absent"}
        ids == Ascending(found)
    IN  /\ Doing(t, <<"read_children", n>>)
        /\ Learn(t, [seen[t] EXCEPT !.resource.children =
                         [m \in found |-> [kind |-> v[Node(m)], tags |-> {}]]],
                  [i \in DOMAIN ids |-> <<"read_child_tags", ids[i]>>])

ReadChildTags(t) == \E m \in NodeIds :
    /\ Doing(t, <<"read_child_tags", m>>)
    /\ Learn(t, [seen[t] EXCEPT !.resource.children[m].tags = TagsIn(View(t), m)], <<>>)

ReadTags(t) == \E n \in NodeIds :
    LET resource == [seen[t].resource EXCEPT !.tags = TagsIn(View(t), n)]
    IN  /\ Doing(t, <<"read_tags", n>>)
        /\ Read(t, << <<"append", n, resource>> >>)

AppendEvent(t) ==
    /\ Running(t) /\ todo[t][1][1] = "append" /\ Granted(t)
    /\ PublishEvent(t, todo[t][1][2], todo[t][1][3])

ForgetsOldParent(t) == \E n \in NodeIds :
    /\ Doing(t, <<"announce_update", n>>)
    /\ Read(t, << <<"announce", n>> >> \o Announcements({View(t)[Edge(n)]}))
AnnounceUpdate(t) == \E n \in NodeIds :
    /\ Doing(t, <<"announce_update", n>>)
    /\ Read(t, << <<"announce", n>> >> \o Announcements({seen[t].parent, View(t)[Edge(n)]}))

AnnounceReplacement(t) == \E n \in NodeIds, p \in NodeIds \cup {NoNode} :
    /\ Doing(t, <<"announce_replacement", n, p>>)
    /\ Read(t, << <<"announce", n>> >> \o Announcements({seen[t].parent, p}))

AnnounceDeletion(t) == \E n \in NodeIds :
    /\ Doing(t, <<"announce_deletion", n>>)
    /\ Read(t, Announcements(seen[t].nodes) \o Announcements({seen[t].parent, seen[t].home} \ {n})
                  \o << <<"append", n, Absent>> >>)

AnnounceBearers(t) == \E u \in Tags :
    /\ Doing(t, <<"announce_bearers", u>>)
    /\ Read(t, Announcements(seen[t].nodes) \o << <<"announce_parents">>, <<"append", u, FALSE>> >>)

AnnounceParents(t) ==
    /\ Doing(t, <<"announce_parents">>)
    /\ Read(t, Announcements({View(t)[Edge(n)] : n \in seen[t].nodes}))
-----------------------------------------------------------------------------
(* The end.                                                                   *)

Commit(t) ==
    LET passedBy(s) == s[1] = "remove_row" /\ s[2] \in DOMAIN writes[t]
    IN  /\ Doing(t, <<"commit">>) /\ Granted(t)
        /\ db' = View(t)
        /\ copy' = Over(news[t], copy)
        /\ todo' = [o \in Threads |->
                       IF o = t THEN <<>>
                       ELSE [i \in DOMAIN todo[o] |->
                                IF passedBy(todo[o][i]) THEN <<"pass_by">> ELSE todo[o][i]]]
        /\ writes' = [writes EXCEPT ![t] = <<>>]
        /\ shares' = [shares EXCEPT ![t] = {}]
        /\ news' = [news EXCEPT ![t] = <<>>]
        /\ Overtake(t)
        /\ UNCHANGED <<engine, setting, request, seen, answer>>

(* Without an idempotency key the response is made from what is there when the     *)
(* commit is through and the handler reads its resource once more.                *)
Status(r, rows) ==
    IF \/ r.op \in {"POST", "PUT", "PATCH"} /\ rows[Node(r.node)] = "absent"
       \/ r.op = "POST tag" /\ ~rows[Tag(r.tag)]
    THEN 500 ELSE 200

Respond(t) ==
    /\ request[t] # NoRequest /\ ~Running(t) /\ answer[t] = 0
    /\ answer' = [answer EXCEPT ![t] = Status(request[t], db)]
    /\ UNCHANGED <<engine, setting, db, copy, request, todo, seen, writes, shares, news, overtook>>

(* PostgreSQL aborts one of those that wait in a circle; SQLite gives up waiting *)
(* when its busy timeout is over.  Either is an OperationalError, status 500.    *)
Victim(t) == engine = "postgres" /\ InCircle(t) /\ End(t, 500)
WaitsForEver(t) == FALSE
Timeout(t) == engine = "sqlite" /\ Running(t) /\ ~Granted(t) /\ End(t, 500)

Step(t) ==
    /\ Running(t)
    /\ \/ FetchNode(t) \/ CreateOrReplace(t) \/ FetchParent(t) \/ EnsureChildless(t)
       \/ EnsureContainer(t) \/ EnsureAcyclic(t) \/ FindHome(t) \/ FindOrphanContainer(t)
       \/ FetchChildren(t) \/ ReassignChildren(t) \/ Reassign(t) \/ EnsureNewTag(t) \/ EnsureTag(t)
       \/ FetchTag(t) \/ FetchBearers(t) \/ InsertNode(t) \/ UpdateFields(t) \/ DeleteEdge(t)
       \/ DeleteChildEdges(t) \/ DeleteMarks(t) \/ DeleteTagMarks(t) \/ RemoveRow(t) \/ PassBy(t)
       \/ InsertEdge(t) \/ InsertMarks(t) \/ InsertMark(t) \/ InsertTag(t) \/ DeleteNodeRow(t)
       \/ DeleteTagRow(t) \/ Announce(t) \/ ReadParent(t) \/ ReadChildren(t) \/ ReadChildTags(t)
       \/ ReadTags(t) \/ AppendEvent(t) \/ AnnounceUpdate(t)
       \/ AnnounceReplacement(t) \/ AnnounceDeletion(t) \/ AnnounceBearers(t) \/ AnnounceParents(t)
       \/ Commit(t)

RowsOf(g) ==
    [row \in Rows |->
        CASE row[1] = "node" -> IF row[2] \in DOMAIN g.kind THEN g.kind[row[2]] ELSE "absent"
          [] row[1] = "edge" -> IF row[2] \in DOMAIN g.parent THEN g.parent[row[2]] ELSE NoNode
          [] row[1] = "tag" -> row[2] \in g.tags
          [] row[1] = "mark" -> row[2] \in DOMAIN g.tagged /\ row[3] \in g.tagged[row[2]]
          [] OTHER -> TRUE]

Known(v) == [x \in NodeIds \cup Tags |-> IF x \in NodeIds THEN Representation(v, x) ELSE v[Tag(x)]]

Init ==
    /\ engine \in Engines
    /\ setting \in Settings
    /\ db = RowsOf(setting)
    /\ copy = Known(db)
    /\ request = [t \in Threads |-> NoRequest]
    /\ todo = [t \in Threads |-> <<>>]
    /\ seen = [t \in Threads |-> [parent |-> NoNode, nodes |-> {}, home |-> NoNode,
                                   resource |-> Absent]]
    /\ writes = [t \in Threads |-> <<>>]
    /\ shares = [t \in Threads |-> {}]
    /\ news = [t \in Threads |-> <<>>]
    /\ overtook = [t \in Threads |-> {}]
    /\ answer = [t \in Threads |-> 0]

Proceed(t) == Step(t) \/ Victim(t) \/ Timeout(t) \/ Respond(t)
Next == \E t \in Threads : Start(t) \/ Proceed(t)

Fairness == WF_vars(\E t \in Threads : Proceed(t))
Spec == Init /\ [][Next]_vars
FairSpec == Spec /\ Fairness
-----------------------------------------------------------------------------
(* Properties.                                                                *)

Committing(t) == Doing(t, <<"commit">>) /\ ~Running(t)' /\ db' = View(t)

(* Requests that put something under a node they have looked at before.         *)
Attaches(r) ==
    IF r.op \in {"POST", "PUT", "PATCH"} THEN r.parent \notin {Keep, NoNode}
    ELSE r.op = "DELETE" /\ setting.homes # {}
MakesItem(r, n) == r.op \in {"POST", "PUT", "PATCH"} /\ r.node = n /\ r.kind = "item"
Lists(r) == r.op \in {"POST", "PUT"} \/ (r.op = "PATCH" /\ r.tags # Keep)
LocksNode(r) == r.op # "PATCH" \/ r.kind # Keep

Acyclic(v) == \A n \in NodeIds : n \notin Ancestors(v, n)
ItemWithChildren(v, n) == v[Node(n)] = "item" /\ ChildrenIn(v, n) # {}
RefersToNothing(v, n) ==
    \/ v[Edge(n)] # NoNode /\ "absent" \in {v[Node(n)], v[Node(v[Edge(n)])]}
    \/ MarksIn(v, n) # TagsIn(v, n)
    \/ v[Node(n)] = "absent" /\ MarksIn(v, n) # {}

TypeOK ==
    /\ engine \in Engines
    /\ \A row \in Rows : /\ row[1] = "node" => db[row] \in Kinds \cup {"absent"}
                         /\ row[1] = "edge" => db[row] \in NodeIds \cup {NoNode}
                         /\ row[1] \in {"tag", "mark"} => db[row] \in BOOLEAN
    /\ \A t \in Threads :
          /\ DOMAIN writes[t] \subseteq Rows /\ shares[t] \subseteq Rows
          /\ DOMAIN news[t] \subseteq NodeIds \cup Tags
          /\ overtook[t] \subseteq Threads \ {t}
          /\ answer[t] \in {0, 200, 400, 404, 409, 500}
          /\ ~Running(t) => writes[t] = <<>> /\ shares[t] = {} /\ news[t] = <<>>

(* ensure_parent_is_valid keeps the edges a forest as long as requests come one *)
(* after the other: a commit closes a cycle only when another request that       *)
(* attaches something has committed since this one began, or by the DELETE that  *)
(* gives children a home below themselves (_reassign_children checks nothing), or *)
(* on SQLite by a request for a node with the id of a deleted one that left          *)
(* children, when that node is not written by its transaction (the savepoint has      *)
(* committed it, or put_node's UPDATE found nothing).                              *)
LeavesNodeOut(t) ==
    /\ engine = "sqlite" /\ request[t].op \in {"POST", "PUT"}
    /\ Node(request[t].node) \notin DOMAIN writes[t]
CyclesNeedTwoMoves ==
    [][Acyclic(db) /\ ~Acyclic(db') =>
        \E t \in Threads : /\ Committing(t) /\ Attaches(request[t])
                           /\ \/ request[t].op = "DELETE"
                              \/ LeavesNodeOut(t)
                              \/ \E o \in overtook[t] : Attaches(request[o])]_vars

(* ensure_childless and ensure_container guard is_container from both ends: an   *)
(* item gets children only when the request that makes it an item and the one    *)
(* that attaches a child overlap, or when it is created on SQLite with the id of  *)
(* a deleted node that left children.                                            *)
ItemsGetChildrenInRaces ==
    [][\A n \in NodeIds : ItemWithChildren(db', n) /\ ~ItemWithChildren(db, n) =>
        \/ engine = "sqlite" /\ db[Node(n)] = "absent"
        \/ \E t \in Threads : Committing(t) /\ \E o \in overtook[t] :
              \/ MakesItem(request[t], n) /\ Attaches(request[o])
              \/ MakesItem(request[o], n) /\ Attaches(request[t])]_vars

(* Edges and marks refer to rows that are there.  PostgreSQL sees to it whatever *)
(* overlaps; on SQLite, where foreign keys are off, it takes a DELETE that        *)
(* commits between what another request reads and what it writes (or a DELETE     *)
(* that gives a home to such a child, from which a third one takes its parent).    *)
Deleting(r) == r.op \in {"DELETE", "DELETE tag"}
Belated(t) == \E o \in overtook[t] : Deleting(request[o])
OnlyDeletionsDangle ==
    [][\A n \in NodeIds : RefersToNothing(db', n) /\ ~RefersToNothing(db, n) =>
        /\ engine = "sqlite"
        /\ \E t \in Threads :
              /\ Committing(t)
              /\ Belated(t) \/ (Deleting(request[t]) /\ \E o \in overtook[t] : Belated(o))]_vars

(* A subscriber that has read every event has a copy of what the API serves, but *)
(* for requests that overlap: append_node_event reads the resource before         *)
(* append_event takes the lock that puts events in order, and a handler announces *)
(* the neighbours it read when it began.  Even then a PUT or PATCH announces its   *)
(* own node, POST /tags whatever it changes, and on PostgreSQL tags stay exact.    *)
Stale(v, c, m) == c[m] # Known(v)[m]
CopiesGoStaleInRaces ==
    [][\A t \in Threads, m \in NodeIds \cup Tags :
        Committing(t) /\ Stale(db', copy', m) /\ ~Stale(db, copy, m) =>
            /\ overtook[t] # {}
            /\ m \in Tags => engine = "sqlite"
            /\ \/ m \in DOMAIN news[t]
               \/ /\ request[t].op # "POST tag"
                  /\ request[t].op \in {"PUT", "PATCH"} => m # request[t].node]_vars

(* Two lists of tags for one node, which its row does not keep apart: one is a PATCH  *)
(* that does not lock it, or a DELETE has let put_node update, and lock, nothing.      *)
NodeWent(t) == [op |-> "DELETE", node |-> request[t].node] \in {request[d] : d \in overtook[t]}
ListsMeet(t, o) ==
    /\ Lists(request[t]) /\ Lists(request[o]) /\ request[t].node = request[o].node
    /\ ~(LocksNode(request[t]) /\ LocksNode(request[o])) \/ NodeWent(t) \/ NodeWent(o)

(* A handler writes its node first, then the edge, the tags, and its events last,  *)
(* so that no two wait for each other in a circle, on PostgreSQL, unless one of them *)
(* deletes something, or announces a new tag before it is through, or two of them     *)
(* give one node lists of tags (whose rows come in any order) that its row does not    *)
(* keep apart.  On SQLite, with its one lock, nobody ever waits in a circle.          *)
NewTag(t) == \E u \in Tags \cap DOMAIN news[t] : news[t][u]
CirclesNeedLocksOutOfOrder ==
    \A S \in SUBSET Threads : Circle(S) =>
        /\ engine = "postgres"
        /\ \E t \in S : \/ Deleting(request[t]) \/ NewTag(t)
                        \/ \E o \in S \ {t} : ListsMeet(t, o)

(* replace_node_tags: when the request commits, the node has the tags of the list, *)
(* no more and no fewer; on PostgreSQL overlapping lists for a node can become their *)
(* union, but only when the row of the node does not keep them apart; on SQLite a     *)
(* request without tags leaves those of a deleted node with its id when it does not    *)
(* write the node in its transaction (it has created it under a savepoint).           *)
TagsBecomeTheList ==
    [][\A t \in Threads : Committing(t) /\ Lists(request[t]) =>
        \/ TagsIn(db', request[t].node) = ToSet(request[t].tags)
        \/ /\ LeavesNodeOut(t) /\ request[t].tags = <<>>
           /\ MarksIn(db', request[t].node) = MarksIn(db, request[t].node)
        \/ engine = "postgres" /\ \E o \in overtook[t] : ListsMeet(t, o)]_vars

(* Every request is answered, whatever it waits for, except one whose recursive    *)
(* query walks round a cycle of edges that does not hold the node it looks for.     *)
EveryRequestIsAnswered ==
    []<>(\A t \in Threads : request[t] = NoRequest \/ answer[t] # 0 \/ Walking(t))
=============================================================================
