------------------------------ MODULE Inventory ------------------------------
(***************************************************************************)
(* The inventory graph of the server: the tables nodes, edges, tags and    *)
(* tag_node, the handlers that write them (one action per handler, request *)
(* served to its end before the next one) and the events a handler appends *)
(* in the transaction of its writes.                                       *)
(*                                                                         *)
(* label and containers are the columns of a nodes row that a guard or an  *)
(* event reads; description and the timestamps follow them.  parent is the *)
(* edges table, a function because child_id is UNIQUE.  tagged is tag_node *)
(* with the tag named instead of numbered.                                 *)
(***************************************************************************)
EXTENDS Ordering, Sequences, SequencesExt, FiniteSetsExt

CONSTANTS
    NodeIds,          \* the node ids that requests may name or the server draw
    NoNode,           \* no edges row for this child
    Labels,           \* the labels requests use
    NoLabel,          \* no nodes row; also ORPHAN_LOCATION when it is not set
    OrphanLocation,   \* ORPHAN_LOCATION: one of Labels, or NoLabel
    Tags,             \* the valid tag names that requests use
    BadTag,           \* a tag name _validate_tag_name rejects
    Keep,             \* a field that a PATCH body leaves out
    EarlyCommit,      \* RELEASE of create_node's SAVEPOINT commits the row
    MaxTagsPerRequest \* bound on the tags one request lists

(* Ids are positive 63-bit integers and the sentinels are no values of     *)
(* their tables.  EarlyCommit is TRUE on SQLite, whose driver does not      *)
(* begin a transaction before a SAVEPOINT, and FALSE on the others.         *)
Kinds == {"container", "item"}    \* is_container

ASSUME InventoryAssumption ==
    /\ NodeIds \subseteq Nat \ {0}
    /\ NoNode \notin NodeIds
    /\ NoLabel \notin Labels
    /\ OrphanLocation \in Labels \cup {NoLabel}
    /\ BadTag \notin Tags
    /\ Keep \notin Labels /\ Keep \notin Kinds /\ Keep \notin NodeIds \cup {NoNode}
    /\ \A ts \in (SUBSET Tags) \cup {{BadTag}} : Keep # ts
    /\ EarlyCommit \in BOOLEAN
    /\ MaxTagsPerRequest \in Nat

(* Ids are BIGINTs; the name of a tag has at most 255 letters and hyphens.    *)
ASSUME FinitenessAssumption == IsFiniteSet(NodeIds) /\ IsFiniteSet(Tags)

VARIABLES
    nodes,        \* ids in table nodes
    containers,   \* those with is_container = 1
    label,        \* their label
    parent,       \* parent_id of the edges row of a child
    tags,         \* names in table tags
    tagged,       \* the tag names of a node
    reply,        \* status of the last request, 0 when none was sent
    batch         \* the events the last request committed, oldest first

graph == <<nodes, containers, label, parent, tags, tagged>>
vars == <<nodes, containers, label, parent, tags, tagged, reply, batch>>

Children(n) == {m \in NodeIds : parent[m] = n}
HasNoCheck(n) == FALSE
HasChildren(n) == Children(n) # {}
Bearers(t) == {m \in NodeIds : t \in tagged[m]}
-----------------------------------------------------------------------------
(* Events.  A resource is what fetch_node_representation returns, with the  *)
(* direct children embedded.                                                *)

Absent == [gone |-> TRUE]

Representations ==
    [n \in nodes |->
        [label |-> label[n], container |-> n \in containers, parent |-> parent[n],
         tags |-> tagged[n],
         children |-> [m \in Children(n) |->
            [label |-> label[m], container |-> m \in containers, tags |-> tagged[m]]]]]

NodeEvents(operation, ids, resources) ==
    [i \in DOMAIN ids |->
        [kind |-> "node", operation |-> operation, about |-> ids[i],
         resource |-> resources[ids[i]]]]

TagEvent(operation, t, old) ==
    [kind |-> "tag", operation |-> operation, about |-> t, previous |-> old]

Updated(S, resources) ==
    NodeEvents("updated", Ascending(S \cap DOMAIN resources), resources)

TagsCreated(ts) ==
    LET missing == SetToSeq(ts \ tags)
    IN  [i \in DOMAIN missing |-> TagEvent("created", missing[i], missing[i])]
-----------------------------------------------------------------------------
(* ensure_parent_is_valid.  The recursive query walks up from p; it does not *)
(* end when the walk enters a cycle that n is not on.                        *)

UpClosed(p) ==
    {R \in SUBSET NodeIds :
        parent[p] \in R \cup {NoNode} /\ \A r \in R : parent[r] \in R \cup {NoNode}}

Ancestors(p) == {a \in NodeIds : \A R \in UpClosed(p) : a \in R}

IsOwnChild(p, n) == parent[p] = n
MakesCycle(p, n) == n \in Ancestors(p)

WalkEnds(p) == \A a \in Ancestors(p) : a \notin Ancestors(a)

ParentRefused(p, n) ==
    p # NoNode /\ (p = n \/ p \notin containers \/ MakesCycle(p, n))

ParentAccepted(p, n) ==
    p = NoNode \/ (p # n /\ p \in containers /\ ~MakesCycle(p, n) /\ WalkEnds(p))

(* _validate_tag_name of every name in a request.                            *)
AnyNames(ts) == TRUE
ValidNames(ts) == ts \subseteq Tags

Refuse(code) == reply' = code /\ batch' = <<>> /\ UNCHANGED graph

WriteRow(n, l, c) ==
    /\ nodes' = nodes \cup {n}
    /\ label' = [label EXCEPT ![n] = l]
    /\ containers' = IF c = "container" THEN containers \cup {n} ELSE containers \ {n}

SetParent(n, p) == parent' = [parent EXCEPT ![n] = p]

ReplaceTags(n, ts) ==
    /\ tags' = tags \cup ts
    /\ tagged' = [tagged EXCEPT ![n] = ts]
-----------------------------------------------------------------------------
(* create_node.  The row is inserted under a SAVEPOINT before the parent and *)
(* the tag names are examined: where EarlyCommit holds, the row outlives a   *)
(* refusal.  The parent is examined with no child_id, so a container put     *)
(* under itself passes and is stopped by the CHECK of the edges table.       *)

RefuseCreate(n, l, c, code) ==
    /\ reply' = code
    /\ batch' = <<>>
    /\ IF EarlyCommit THEN WriteRow(n, l, c) ELSE UNCHANGED <<nodes, containers, label>>
    /\ UNCHANGED <<parent, tags, tagged>>

ParentFirst(n, p, ts, resources) ==
    TagsCreated(ts) \o Updated({p}, resources) \o NodeEvents("created", <<n>>, resources)
CreateEvents(n, p, ts, resources) ==
    TagsCreated(ts) \o NodeEvents("created", <<n>>, resources) \o Updated({p}, resources)

CreateNode(n, l, c, p, ts) ==
    \/ /\ p \in containers \cup {NoNode}
       /\ ValidNames(ts)
       /\ WriteRow(n, l, c)
       /\ SetParent(n, p)
       /\ ReplaceTags(n, ts)
       /\ reply' = 201
       /\ batch' = CreateEvents(n, p, ts, Representations')
    \/ /\ p = n /\ c = "container"
       /\ RefuseCreate(n, l, c, 500)
    \/ /\ ~(p = n /\ c = "container")
       /\ p \notin containers \cup {NoNode} \/ ~ValidNames(ts)
       /\ RefuseCreate(n, l, c, 400)

PostNode(n, l, c, p, ts) ==
    /\ n \notin nodes
    /\ p # n
    /\ CreateNode(n, l, c, p, ts)

(* The server stops between the two commits of a create.                    *)
CreateInterrupted(n, l, c) ==
    /\ EarlyCommit
    /\ n \notin nodes
    /\ RefuseCreate(n, l, c, 0)

CreateTagInterrupted(t) ==
    /\ EarlyCommit
    /\ t \notin tags
    /\ tags' = tags \cup {t}
    /\ reply' = 0 /\ batch' = <<>>
    /\ UNCHANGED <<nodes, containers, label, parent, tagged>>
-----------------------------------------------------------------------------
(* update_node and put_node of an existing row: field for field the same     *)
(* checks and events, with Keep for what a PATCH leaves alone.                *)

Or(v, old) == IF v = Keep THEN old ELSE v

UpdateNode(n, l, c, p, ts) ==
    \/ /\ \/ c = "item" /\ HasChildren(n)
          \/ p # Keep /\ ParentRefused(p, n)
          \/ ~ValidNames(Or(ts, {})) /\ (p = Keep \/ ParentAccepted(p, n))
       /\ Refuse(400)
    \/ /\ ~(c = "item" /\ HasChildren(n))
       /\ p = Keep \/ ParentAccepted(p, n)
       /\ ValidNames(Or(ts, {}))
       /\ WriteRow(n, Or(l, label[n]), Or(c, IF n \in containers THEN "container" ELSE "item"))
       /\ SetParent(n, Or(p, parent[n]))
       /\ ReplaceTags(n, Or(ts, tagged[n]))
       /\ reply' = 200
       /\ batch' = TagsCreated(Or(ts, {})) \o NodeEvents("updated", <<n>>, Representations')
                       \o Updated({parent[n], Or(p, parent[n])}, Representations')

PatchNode(n, l, c, p, ts) ==
    IF n \in nodes THEN UpdateNode(n, l, c, p, ts) ELSE Refuse(404)

PutNode(n, l, c, p, ts) ==
    IF n \in nodes THEN UpdateNode(n, l, c, p, ts) ELSE CreateNode(n, l, c, p, ts)
-----------------------------------------------------------------------------
(* delete_node.  Children go to the first container labelled OrphanLocation,  *)
(* wherever it is; one is created when there is none.                         *)

OrphanLabelled == {o \in nodes : label[o] = OrphanLocation}
OrphanContainers == {o \in containers : label[o] = OrphanLocation}
FoundOrphanContainer == {o \in OrphanContainers : \A q \in OrphanContainers : o <= q}

OrphanCreated(o) ==
    [kind |-> "node", operation |-> "created", about |-> o,
     resource |-> [label |-> OrphanLocation, container |-> TRUE, parent |-> NoNode,
                   tags |-> {}, children |-> <<>>]]

(* The edges once both sides of n are deleted and its children sent home.    *)
KeepsChildEdges(n, home) == [parent EXCEPT ![n] = NoNode]
UprootsHome(n, home) ==
    [m \in NodeIds |->
        IF m \in {n, home} THEN NoNode ELSE IF parent[m] = n THEN home ELSE parent[m]]
EdgesWithout(n, home) ==
    [m \in NodeIds |-> IF m = n THEN NoNode ELSE IF parent[m] = n THEN home ELSE parent[m]]

OldParentOnly(n, home) == {parent[n]}
ParentsChanged(n, home) == {parent[n], home}

DeletedFirst(n, home, created, resources) ==
    <<[kind |-> "node", operation |-> "deleted", about |-> n, resource |-> Absent]>>
        \o (IF created = {} THEN <<>> ELSE <<OrphanCreated(home)>>)
        \o Updated(Children(n), resources) \o Updated(ParentsChanged(n, home), resources)
ForgetsChildren(n, home, created, resources) ==
    (IF created = {} THEN <<>> ELSE <<OrphanCreated(home)>>)
        \o Updated(ParentsChanged(n, home), resources)
        \o <<[kind |-> "node", operation |-> "deleted", about |-> n, resource |-> Absent]>>
DeleteEvents(n, home, created, resources) ==
    (IF created = {} THEN <<>> ELSE <<OrphanCreated(home)>>)
        \o Updated(Children(n), resources) \o Updated(ParentsChanged(n, home), resources)
        \o <<[kind |-> "node", operation |-> "deleted", about |-> n, resource |-> Absent]>>

RemoveNode(n, home, created) ==
    /\ nodes' = (nodes \cup created) \ {n}
    /\ containers' = (containers \cup created) \ {n}
    /\ label' = [m \in NodeIds |->
                    IF m = n THEN NoLabel ELSE IF m \in created THEN OrphanLocation ELSE label[m]]
    /\ parent' = EdgesWithout(n, home)
    /\ tagged' = [tagged EXCEPT ![n] = {}]
    /\ UNCHANGED tags
    /\ reply' = 200
    /\ batch' = DeleteEvents(n, home, created, Representations')

DeleteNode(n) ==
    LET orphaning == OrphanLocation # NoLabel /\ HasChildren(n)
    IN  \/ n \notin nodes /\ Refuse(404)
        \/ n \in nodes /\ ~orphaning /\ RemoveNode(n, NoNode, {})
        \/ /\ n \in nodes /\ orphaning
           /\ \E home \in FoundOrphanContainer :
                 \/ home = n /\ RemoveNode(n, NoNode, {})
                 \/ home \in Children(n) /\ Refuse(500)
                 \/ home \notin Children(n) \cup {n} /\ RemoveNode(n, home, {})
        \/ /\ n \in nodes /\ orphaning /\ OrphanContainers = {}
           /\ \E home \in NodeIds \ nodes : RemoveNode(n, home, {home})
-----------------------------------------------------------------------------
(* Tags.                                                                      *)

NoParents(S) == {}
ParentsOf(S) == {parent[m] : m \in S}

CreateTag(t) ==
    \/ t \in tags /\ Refuse(409)
    \/ /\ t \notin tags
       /\ tags' = tags \cup {t}
       /\ UNCHANGED <<nodes, containers, label, parent, tagged>>
       /\ reply' = 201
       /\ batch' = TagsCreated({t})

RenameTag(t, u) ==
    \/ t \notin tags /\ Refuse(404)
    \/ t \in tags /\ u \in tags \ {t} /\ Refuse(409)
    \/ /\ t \in tags /\ u \notin tags \ {t}
       /\ tags' = (tags \ {t}) \cup {u}
       /\ tagged' = [m \in NodeIds |->
                        IF t \in tagged[m] THEN (tagged[m] \ {t}) \cup {u} ELSE tagged[m]]
       /\ UNCHANGED <<nodes, containers, label, parent>>
       /\ reply' = 200
       /\ batch' = <<TagEvent("updated", u, t)>> \o Updated(Bearers(t), Representations')
                       \o Updated(ParentsOf(Bearers(t)), Representations')

DeleteTag(t) ==
    \/ t \notin tags /\ Refuse(404)
    \/ /\ t \in tags
       /\ tags' = tags \ {t}
       /\ tagged' = [m \in NodeIds |-> tagged[m] \ {t}]
       /\ UNCHANGED <<nodes, containers, label, parent>>
       /\ reply' = 200
       /\ batch' = Updated(Bearers(t), Representations')
                       \o Updated(ParentsOf(Bearers(t)), Representations')
                       \o <<TagEvent("deleted", t, t)>>
-----------------------------------------------------------------------------
Init ==
    /\ nodes = {} /\ containers = {}
    /\ label = [n \in NodeIds |-> NoLabel]
    /\ parent = [n \in NodeIds |-> NoNode]
    /\ tags = {}
    /\ tagged = [n \in NodeIds |-> {}]
    /\ reply = 0 /\ batch = <<>>

Parents == NodeIds \cup {NoNode}
TagLists == {ts \in SUBSET Tags : Cardinality(ts) <= MaxTagsPerRequest} \cup {{BadTag}}

Next ==
    \/ \E n \in NodeIds, l \in Labels, c \in Kinds, p \in Parents, ts \in TagLists :
          PostNode(n, l, c, p, ts) \/ PutNode(n, l, c, p, ts)
    \/ \E n \in NodeIds, l \in Labels, c \in Kinds : CreateInterrupted(n, l, c)
    \/ \E t \in Tags : CreateTagInterrupted(t)
    \/ \E n \in NodeIds, l \in Labels \cup {Keep}, c \in Kinds \cup {Keep},
          p \in Parents \cup {Keep}, ts \in TagLists \cup {Keep} : PatchNode(n, l, c, p, ts)
    \/ \E n \in NodeIds : DeleteNode(n)
    \/ \E t \in Tags : CreateTag(t) \/ DeleteTag(t) \/ \E u \in Tags : RenameTag(t, u)

Spec == Init /\ [][Next]_vars
-----------------------------------------------------------------------------
(* Properties.                                                                *)

(* Every table holds values of its columns; the columns of a node that is not *)
(* there are empty.                                                           *)
TypeOK ==
    /\ nodes \subseteq NodeIds
    /\ containers \subseteq nodes
    /\ label \in [NodeIds -> Labels \cup {NoLabel}]
    /\ parent \in [NodeIds -> NodeIds \cup {NoNode}]
    /\ tags \subseteq Tags
    /\ tagged \in [NodeIds -> SUBSET Tags]
    /\ reply \in {0, 200, 201, 400, 404, 409, 500}

(* No edges or tag_node row refers to a row that is gone: the delete handlers  *)
(* clear both sides themselves, since the server never turns SQLite's foreign  *)
(* keys on.                                                                    *)
NoDanglingRows ==
    /\ \A m \in NodeIds : parent[m] # NoNode => m \in nodes /\ parent[m] \in nodes
    /\ \A m \in NodeIds : tagged[m] \subseteq tags /\ (tagged[m] # {} => m \in nodes)

(* Only containers have children: what ensure_parent_is_valid and the          *)
(* is_container=false checks of PATCH and PUT keep together.                   *)
ParentsAreContainers ==
    \A m \in NodeIds : parent[m] # NoNode => parent[m] \in containers

(* "A forest of trees": every non-empty set of nodes has a member whose parent *)
(* is not in the set, so no chain of parents returns to where it started.      *)
Forest == \A S \in SUBSET NodeIds : S # {} => \E n \in S : parent[n] \notin S

(* A request turns a forest into something else in one way only: by deleting a   *)
(* node that the orphan container lies below, whose children then go under their *)
(* own descendant.                                                               *)
CyclesComeFromOrphaning ==
    [][Forest /\ ~Forest' =>
        \E n \in nodes \ nodes', home \in FoundOrphanContainer : n \in Ancestors(home)]_vars

(* What a subscriber that held `before` knows of the nodes after the first k    *)
(* events of evs: of each the resource of the last event about it.             *)
CopyAfter(before, evs, k) ==
    [n \in NodeIds |->
        LET about == {i \in 1..k : evs[i].kind = "node" /\ evs[i].about = n}
        IN  IF about # {} THEN evs[Max(about)].resource
            ELSE IF n \in DOMAIN before THEN before[n] ELSE Absent]

KnownTags(before, evs) ==
    LET about(t) == {i \in DOMAIN evs : evs[i].kind = "tag" /\ t \in {evs[i].about, evs[i].previous}}
    IN  {t \in Tags :
            IF about(t) = {} THEN t \in before
            ELSE LET e == evs[Max(about(t))] IN e.operation # "deleted" /\ e.about = t}

(* The events of a request that succeeds bring a subscriber from the graph      *)
(* before it to the graph after it: every node whose representation changed,    *)
(* embedded children included, and every tag is announced, and the last word on *)
(* each is current.                                                             *)
EventsCarryEveryChange ==
    [][reply' \in {200, 201} =>
        /\ CopyAfter(Representations, batch', Len(batch')) = CopyAfter(Representations', <<>>, 0)
        /\ KnownTags(tags, batch') = tags']_vars

(* A request that is refused, or that the server did not survive, leaves the    *)
(* graph as it was: "Failed requests do not consume the key", so that the retry *)
(* finds nothing of the first try.                                              *)
RefusalsChangeNothing ==
    [][reply' \notin {200, 201} => UNCHANGED graph]_vars

(* Deleting a node takes no other node with it: its children stay, as roots or  *)
(* under the orphan container.                                                  *)
DeletionKeepsTheRest ==
    [][\A n \in nodes \ nodes' : nodes \ {n} \subseteq nodes' /\ tags' = tags
            /\ \A m \in nodes' \cap nodes : tagged'[m] = tagged[m]
                   /\ (parent[m] # n => parent'[m] = parent[m])]_vars
=============================================================================
