--------------------------- MODULE InventoryProofs ---------------------------
(***************************************************************************)
(* What holds of Inventory for every set of ids, labels and tags, with or   *)
(* without ORPHAN_LOCATION, and whether or not a create commits early.      *)
(***************************************************************************)
EXTENDS Follower, OrderingProofs, SequenceTheorems, TLAPS

(* The inductive invariant: a parent is examined when the edge is written,   *)
(* a kind when it is changed, and each check is enough only if the other     *)
(* tables agree with each other already.                                     *)
IInv == TypeOK /\ NoDanglingRows /\ ParentsAreContainers

LEMMA Sentinels ==
    /\ NoNode \notin NodeIds
    /\ Keep \notin Kinds
    /\ OrphanLocation \in Labels \cup {NoLabel}
BY InventoryAssumption
-----------------------------------------------------------------------------
(* The five shapes in which a handler changes the tables.                    *)

LEMMA InsertKeepsIInv ==
    ASSUME IInv, NEW n \in NodeIds \ nodes, NEW l \in Labels, NEW c \in Kinds,
           WriteRow(n, l, c), UNCHANGED <<parent, tags, tagged>>,
           reply' \in {0, 200, 201, 400, 404, 409, 500}
    PROVE  IInv'
<1>1. TypeOK'
  BY DEF IInv, TypeOK, WriteRow, Kinds
<1>2. NoDanglingRows' /\ ParentsAreContainers'
  BY DEF IInv, TypeOK, NoDanglingRows, ParentsAreContainers, WriteRow
<1> QED BY <1>1, <1>2 DEF IInv

LEMMA WriteKeepsIInv ==
    ASSUME IInv, NEW n \in NodeIds, NEW l \in Labels \cup {NoLabel}, NEW c \in Kinds,
           NEW p \in containers \cup {NoNode}, NEW ts \in SUBSET Tags,
           c = "item" => ~HasChildren(n) /\ p # n,
           WriteRow(n, l, c), SetParent(n, p), ReplaceTags(n, ts),
           reply' \in {0, 200, 201, 400, 404, 409, 500}
    PROVE  IInv'
<1>1. TypeOK'
  BY DEF IInv, TypeOK, WriteRow, SetParent, ReplaceTags, Kinds
<1>2. NoDanglingRows'
  BY DEF IInv, TypeOK, NoDanglingRows, WriteRow, SetParent, ReplaceTags
<1>3. ParentsAreContainers'
  BY DEF IInv, TypeOK, ParentsAreContainers, WriteRow, SetParent, HasChildren, Children, Kinds
<1> QED BY <1>1, <1>2, <1>3 DEF IInv

LEMMA RemoveKeepsIInv ==
    ASSUME IInv, NEW n \in nodes, NEW home, NEW created,
           \/ home = NoNode /\ created = {}
           \/ home \in containers \ {n} /\ created = {}
           \/ home \in NodeIds \ nodes /\ created = {home} /\ OrphanLocation # NoLabel,
           RemoveNode(n, home, created)
    PROVE  IInv'
<1>1. /\ created \in SUBSET NodeIds
      /\ n \in NodeIds /\ n \notin created
      /\ home \in (containers \cup created \cup {NoNode}) \ {n} \/ home = NoNode
  BY DEF IInv, TypeOK
<1>2. /\ nodes' = (nodes \cup created) \ {n}
      /\ containers' = (containers \cup created) \ {n}
      /\ parent' = [m \in NodeIds |->
                       IF m = n THEN NoNode ELSE IF parent[m] = n THEN home ELSE parent[m]]
      /\ tagged' = [tagged EXCEPT ![n] = {}]
      /\ tags' = tags
      /\ reply' = 200
  BY DEF RemoveNode, EdgesWithout
<1>3. nodes' \subseteq NodeIds /\ containers' \subseteq nodes'
  BY <1>1, <1>2 DEF IInv, TypeOK
<1>4. label' \in [NodeIds -> Labels \cup {NoLabel}]
  BY <1>1, Sentinels DEF IInv, TypeOK, RemoveNode
<1>5. parent' \in [NodeIds -> NodeIds \cup {NoNode}]
  BY <1>1, <1>2 DEF IInv, TypeOK
<1>6. tagged' \in [NodeIds -> SUBSET Tags]
  BY <1>2 DEF IInv, TypeOK
<1>7. TypeOK'
  BY <1>2, <1>3, <1>4, <1>5, <1>6 DEF IInv, TypeOK
<1>8. ASSUME NEW m \in NodeIds, parent'[m] # NoNode
      PROVE  m \in nodes' /\ parent'[m] \in containers'
  <2>1. m # n /\ parent[m] # NoNode /\ m \in nodes /\ parent[m] \in containers
    BY <1>1, <1>2, <1>8, Sentinels DEF IInv, TypeOK, NoDanglingRows, ParentsAreContainers
  <2>2. CASE parent[m] = n
    BY <1>1, <1>2, <1>8, <2>1, <2>2
  <2>3. CASE parent[m] # n
    BY <1>2, <2>1, <2>3
  <2> QED BY <2>2, <2>3
<1>9. ASSUME NEW m \in NodeIds
      PROVE  tagged'[m] \subseteq tags' /\ (tagged'[m] # {} => m \in nodes')
  BY <1>1, <1>2 DEF IInv, TypeOK, NoDanglingRows
<1> QED BY <1>3, <1>7, <1>8, <1>9 DEF IInv, NoDanglingRows, ParentsAreContainers

LEMMA StandKeepsIInv ==
    ASSUME IInv, UNCHANGED graph, reply' \in {0, 200, 201, 400, 404, 409, 500}
    PROVE  IInv'
BY DEF IInv, TypeOK, NoDanglingRows, ParentsAreContainers, graph

LEMMA RetagKeepsIInv ==
    ASSUME IInv, UNCHANGED <<nodes, containers, label, parent>>,
           tags' \in SUBSET Tags,
           tagged' \in [NodeIds -> SUBSET tags'],
           \A m \in NodeIds : tagged'[m] # {} => tagged[m] # {},
           reply' \in {0, 200, 201, 400, 404, 409, 500}
    PROVE  IInv'
<1>1. tagged' \in [NodeIds -> SUBSET Tags]
  OBVIOUS
<1>2. TypeOK'
  BY <1>1 DEF IInv, TypeOK
<1>3. NoDanglingRows' /\ ParentsAreContainers'
  BY DEF IInv, TypeOK, NoDanglingRows, ParentsAreContainers
<1> QED BY <1>2, <1>3 DEF IInv

LEMMA TagHandlersKeepIInv ==
    ASSUME IInv, NEW t \in Tags,
           CreateTag(t) \/ CreateTagInterrupted(t) \/ DeleteTag(t)
              \/ \E u \in Tags : RenameTag(t, u)
    PROVE  IInv'
<1>0. tagged \in [NodeIds -> SUBSET tags] /\ tags \in SUBSET Tags
  BY DEF IInv, TypeOK, NoDanglingRows
<1>1. ASSUME NEW code \in {404, 409}, Refuse(code) PROVE IInv'
  BY <1>1, StandKeepsIInv DEF Refuse
<1>2. ASSUME tags' = tags \cup {t}, UNCHANGED <<nodes, containers, label, parent, tagged>>,
             reply' \in {0, 201}
      PROVE  IInv'
  <2>1. tagged' \in [NodeIds -> SUBSET tags'] /\ tags' \in SUBSET Tags
    BY <1>0, <1>2
  <2> QED BY <1>2, <2>1, RetagKeepsIInv
<1>3. ASSUME tags' = tags \ {t}, tagged' = [m \in NodeIds |-> tagged[m] \ {t}],
             UNCHANGED <<nodes, containers, label, parent>>, reply' = 200
      PROVE  IInv'
  <2>1. tagged' \in [NodeIds -> SUBSET tags'] /\ tags' \in SUBSET Tags
    BY <1>0, <1>3
  <2>2. \A m \in NodeIds : tagged'[m] # {} => tagged[m] # {}
    BY <1>3
  <2> QED BY <1>3, <2>1, <2>2, RetagKeepsIInv
<1>4. ASSUME NEW u \in Tags, t \in tags, tags' = (tags \ {t}) \cup {u},
             tagged' = [m \in NodeIds |->
                           IF t \in tagged[m] THEN (tagged[m] \ {t}) \cup {u} ELSE tagged[m]],
             UNCHANGED <<nodes, containers, label, parent>>, reply' = 200
      PROVE  IInv'
  <2>1. tagged' \in [NodeIds -> SUBSET tags'] /\ tags' \in SUBSET Tags
    BY <1>0, <1>4
  <2>2. \A m \in NodeIds : tagged'[m] # {} => tagged[m] # {}
    BY <1>4
  <2> QED BY <1>4, <2>1, <2>2, RetagKeepsIInv
<1>5. CASE CreateTag(t)
  BY <1>1, <1>2, <1>5 DEF CreateTag
<1>6. CASE CreateTagInterrupted(t)
  BY <1>2, <1>6 DEF CreateTagInterrupted
<1>7. CASE DeleteTag(t)
  BY <1>1, <1>3, <1>7 DEF DeleteTag
<1>8. CASE \E u \in Tags : RenameTag(t, u)
  BY <1>1, <1>4, <1>8 DEF RenameTag
<1> QED BY <1>5, <1>6, <1>7, <1>8

-----------------------------------------------------------------------------
(* Which shape each handler has.                                              *)

Created(n, l, c, p, ts) ==
    /\ p \in (containers \cup {NoNode}) \ {n}
    /\ WriteRow(n, l, c) /\ SetParent(n, p) /\ ReplaceTags(n, ts)
    /\ reply' = 201 /\ batch' = CreateEvents(n, p, ts, Representations')

Overwritten(n, l, c, p, ts) ==
    /\ c = "item" => ~HasChildren(n)
    /\ p = parent[n] \/ ParentAccepted(p, n)
    /\ WriteRow(n, l, c) /\ SetParent(n, p) /\ ReplaceTags(n, ts)
    /\ reply' = 200
    /\ batch' = TagsCreated(ts) \o NodeEvents("updated", <<n>>, Representations')
                  \o Updated({parent[n], p}, Representations')

LEMMA CreateShapes ==
    ASSUME IInv, NEW n \in NodeIds \ nodes, NEW l \in Labels, NEW c \in Kinds,
           NEW p \in Parents, NEW ts \in TagLists, CreateNode(n, l, c, p, ts)
    PROVE  \/ ts \in SUBSET Tags /\ Created(n, l, c, p, ts)
           \/ \E code \in {400, 500} : RefuseCreate(n, l, c, code)
<1>1. n \notin containers \cup {NoNode}
  BY Sentinels DEF IInv, TypeOK
<1> QED BY <1>1 DEF CreateNode, ValidNames, Created

LEMMA UpdateShapes ==
    ASSUME IInv, NEW n \in nodes, NEW l \in Labels \cup {Keep}, NEW c \in Kinds \cup {Keep},
           NEW p \in Parents \cup {Keep}, NEW ts \in TagLists \cup {Keep},
           UpdateNode(n, l, c, p, ts)
    PROVE  \/ Refuse(400)
           \/ \E l2 \in Labels \cup {NoLabel}, c2 \in Kinds, p2 \in Parents, ts2 \in SUBSET Tags :
                 Overwritten(n, l2, c2, p2, ts2)
<1>1. CASE ~(c = "item" /\ HasChildren(n)) /\ (p = Keep \/ ParentAccepted(p, n))
            /\ ValidNames(Or(ts, {}))
            /\ WriteRow(n, Or(l, label[n]), Or(c, IF n \in containers THEN "container" ELSE "item"))
            /\ SetParent(n, Or(p, parent[n])) /\ ReplaceTags(n, Or(ts, tagged[n]))
            /\ reply' = 200
            /\ batch' = TagsCreated(Or(ts, {})) \o NodeEvents("updated", <<n>>, Representations')
                          \o Updated({parent[n], Or(p, parent[n])}, Representations')
  <2>0. n \in NodeIds
    BY DEF IInv, TypeOK
  <2>1. Or(l, label[n]) \in Labels \cup {NoLabel}
    BY <2>0 DEF Or, IInv, TypeOK
  <2>2. /\ Or(c, IF n \in containers THEN "container" ELSE "item") \in Kinds
        /\ Or(c, IF n \in containers THEN "container" ELSE "item") = "item" => ~HasChildren(n)
    <3>1. n \notin containers => ~HasChildren(n)
      BY Sentinels, <2>0 DEF HasChildren, Children, IInv, ParentsAreContainers, TypeOK
    <3>2. CASE c = Keep
      BY <3>1, <3>2 DEF Or, Kinds
    <3>3. CASE c # Keep
      BY <1>1, <3>3 DEF Or
    <3> QED BY <3>2, <3>3
  <2>3. /\ Or(p, parent[n]) \in Parents
        /\ Or(p, parent[n]) = parent[n] \/ ParentAccepted(Or(p, parent[n]), n)
    BY <1>1, <2>0 DEF Or, Parents, IInv, TypeOK
  <2>4. Or(ts, tagged[n]) \in SUBSET Tags
    BY <1>1, <2>0 DEF Or, ValidNames, IInv, TypeOK
  <2>5. TagsCreated(Or(ts, {})) = TagsCreated(Or(ts, tagged[n]))
    <3>1. CASE ts = Keep
      <4>1. Or(ts, {}) \ tags = Or(ts, tagged[n]) \ tags
        BY <2>0, <3>1 DEF Or, IInv, NoDanglingRows
      <4> QED BY <4>1 DEF TagsCreated
    <3> QED BY <3>1 DEF Or
  <2>6. Overwritten(n, Or(l, label[n]), Or(c, IF n \in containers THEN "container" ELSE "item"),
                    Or(p, parent[n]), Or(ts, tagged[n]))
    BY <1>1, <2>2, <2>3, <2>5 DEF Overwritten
  <2> QED BY <2>1, <2>2, <2>3, <2>4, <2>6
<1> QED BY <1>1 DEF UpdateNode

LEMMA DeleteShapes ==
    ASSUME IInv, NEW n \in NodeIds, DeleteNode(n)
    PROVE  \/ \E code \in {404, 500} : Refuse(code)
           \/ /\ n \in nodes
              /\ \/ RemoveNode(n, NoNode, {})
                 \/ /\ OrphanLocation # NoLabel
                    /\ \E home \in FoundOrphanContainer \ {n} : RemoveNode(n, home, {})
                 \/ /\ OrphanLocation # NoLabel
                    /\ \E o \in NodeIds \ nodes : RemoveNode(n, o, {o})
BY DEF DeleteNode

-----------------------------------------------------------------------------
LEMMA StepKeepsIInv == IInv /\ [Next]_vars => IInv'
<1> SUFFICES ASSUME IInv, [Next]_vars PROVE IInv'
  OBVIOUS
<1>1. ASSUME NEW n \in NodeIds \ nodes, NEW l \in Labels, NEW c \in Kinds,
             NEW p \in Parents, NEW ts \in TagLists, CreateNode(n, l, c, p, ts)
      PROVE  IInv'
  <2>1. CASE \E code \in {400, 500} : RefuseCreate(n, l, c, code)
    BY <2>1, InsertKeepsIInv, StandKeepsIInv DEF RefuseCreate, graph
  <2>2. CASE ts \in SUBSET Tags /\ Created(n, l, c, p, ts)
    <3>1. ~HasChildren(n)
      BY Sentinels DEF HasChildren, Children, IInv, NoDanglingRows, TypeOK
    <3> QED BY <2>2, <3>1, WriteKeepsIInv DEF Created
  <2> QED BY <1>1, <2>1, <2>2, CreateShapes
<1>2. ASSUME NEW n \in nodes, NEW l \in Labels \cup {Keep}, NEW c \in Kinds \cup {Keep},
             NEW p \in Parents \cup {Keep}, NEW ts \in TagLists \cup {Keep},
             UpdateNode(n, l, c, p, ts)
      PROVE  IInv'
  <2>1. CASE Refuse(400)
    BY <2>1, StandKeepsIInv DEF Refuse
  <2>2. ASSUME NEW l2 \in Labels \cup {NoLabel}, NEW c2 \in Kinds, NEW p2 \in Parents,
               NEW ts2 \in SUBSET Tags, Overwritten(n, l2, c2, p2, ts2)
        PROVE  IInv'
    <3>1. n \in NodeIds
      BY DEF IInv, TypeOK
    <3>2. p2 \in containers \cup {NoNode}
      BY <2>2, <3>1 DEF Overwritten, ParentAccepted, IInv, ParentsAreContainers
    <3>3. c2 = "item" => ~HasChildren(n) /\ p2 # n
      BY <2>2, <3>1, Sentinels DEF Overwritten, ParentAccepted, HasChildren, Children
    <3> QED BY <2>2, <3>1, <3>2, <3>3, WriteKeepsIInv DEF Overwritten
  <2> QED BY <1>2, <2>1, <2>2, UpdateShapes
<1>3. ASSUME NEW n \in NodeIds, DeleteNode(n)
      PROVE  IInv'
  <2>1. ASSUME NEW code \in {404, 500}, Refuse(code) PROVE IInv'
    BY <2>1, StandKeepsIInv DEF Refuse
  <2>2. CASE n \in nodes /\ RemoveNode(n, NoNode, {})
    BY <2>2, RemoveKeepsIInv
  <2>3. ASSUME n \in nodes, NEW home \in FoundOrphanContainer \ {n}, RemoveNode(n, home, {})
        PROVE  IInv'
    BY <2>3, RemoveKeepsIInv DEF FoundOrphanContainer, OrphanContainers
  <2>4. ASSUME n \in nodes, OrphanLocation # NoLabel, NEW o \in NodeIds \ nodes,
               RemoveNode(n, o, {o})
        PROVE  IInv'
    BY <2>4, RemoveKeepsIInv
  <2>5. CASE \E code \in {404, 500} : Refuse(code)
    BY <2>1, <2>5
  <2>6. CASE n \in nodes /\ \E home \in FoundOrphanContainer \ {n} : RemoveNode(n, home, {})
    BY <2>3, <2>6
  <2>7. CASE n \in nodes /\ OrphanLocation # NoLabel /\ \E o \in NodeIds \ nodes : RemoveNode(n, o, {o})
    BY <2>4, <2>7
  <2> QED BY <1>3, <2>2, <2>5, <2>6, <2>7, DeleteShapes
<1>4. ASSUME NEW n \in NodeIds, NEW l \in Labels, NEW c \in Kinds, CreateInterrupted(n, l, c)
      PROVE  IInv'
  BY <1>4, InsertKeepsIInv DEF CreateInterrupted, RefuseCreate
<1>5. ASSUME NEW code \in {404}, Refuse(code) PROVE IInv'
  BY <1>5, StandKeepsIInv DEF Refuse
<1>6. CASE UNCHANGED vars
  BY <1>6, StandKeepsIInv DEF vars, graph, IInv, TypeOK
<1>7. ASSUME NEW n \in NodeIds, NEW l \in Labels, NEW c \in Kinds, NEW p \in Parents,
             NEW ts \in TagLists, PostNode(n, l, c, p, ts) \/ PutNode(n, l, c, p, ts)
      PROVE  IInv'
  BY <1>1, <1>2, <1>7 DEF PostNode, PutNode
<1>8. ASSUME NEW n \in NodeIds, NEW l \in Labels \cup {Keep}, NEW c \in Kinds \cup {Keep},
             NEW p \in Parents \cup {Keep}, NEW ts \in TagLists \cup {Keep},
             PatchNode(n, l, c, p, ts)
      PROVE  IInv'
  BY <1>2, <1>5, <1>8 DEF PatchNode
<1> QED
  BY <1>3, <1>4, <1>6, <1>7, <1>8, TagHandlersKeepIInv DEF Next

(* Every request leaves the three parts of the invariant to the next one.       *)
LEMMA InitEstablishesIInv == Init => IInv
BY DEF Init, IInv, TypeOK, NoDanglingRows, ParentsAreContainers

LEMMA InvariantHolds == Spec => []IInv
BY InitEstablishesIInv, StepKeepsIInv, PTL DEF Spec

(* The tables hold values of their columns, and nothing of a node that is gone. *)
THEOREM TypeCorrect == Spec => []TypeOK
BY InvariantHolds, PTL DEF IInv

(* No handler leaves an edges or tag_node row behind, or writes one, for a node *)
(* or tag that is not there, although SQLite does not enforce the foreign keys. *)
THEOREM ReferencesHold == Spec => []NoDanglingRows
BY InvariantHolds, PTL DEF IInv

(* No node sits under an item: neither a move nor a change of kind, in whatever *)
(* order they come, nor the handling of orphans puts one there.                 *)
THEOREM ParentsStayContainers == Spec => []ParentsAreContainers
BY InvariantHolds, PTL DEF IInv

-----------------------------------------------------------------------------
(* The forest.                                                                  *)

IsForest(f) == \A S \in SUBSET NodeIds : S # {} => \E n \in S : f[n] \notin S

(* Edges that are cut or redirected to h leave a forest a forest, if everything *)
(* on the way up from h (R and h) keeps its parent or loses it.                 *)
LEMMA Redirect ==
    ASSUME NEW f \in [NodeIds -> NodeIds \cup {NoNode}],
           NEW g \in [NodeIds -> NodeIds \cup {NoNode}],
           NEW h \in NodeIds \cup {NoNode}, NEW R \in SUBSET NodeIds,
           h # NoNode => f[h] \in R \cup {NoNode},
           \A r \in R : f[r] \in R \cup {NoNode},
           \A m \in NodeIds : g[m] \in {f[m], NoNode, h},
           \A m \in R \cup {h} : m # NoNode => g[m] \in {f[m], NoNode},
           IsForest(f)
    PROVE  IsForest(g)
<1> SUFFICES ASSUME NEW S \in SUBSET NodeIds, S # {}, \A n \in S : g[n] \in S
             PROVE  FALSE
  BY DEF IsForest
<1>0. NoNode \notin S
  BY Sentinels
<1>1. CASE h \notin S
  <2>1. \A n \in S : f[n] \in S
    BY <1>0, <1>1
  <2> QED BY <2>1 DEF IsForest
<1>2. CASE h \in S
  <2> DEFINE T == S \cap (R \cup {h})
  <2>1. T \in SUBSET NodeIds /\ h \in T
    BY <1>2
  <2>2. ASSUME NEW m \in T PROVE f[m] \in T
    <3>1. m # NoNode /\ g[m] \in S /\ g[m] = f[m]
      BY <1>0, <2>2
    <3>2. f[m] \in R \cup {NoNode}
      BY <1>0, <1>2, <2>2
    <3> QED BY <1>0, <3>1, <3>2
  <2> QED BY <2>1, <2>2 DEF IsForest
<1> QED BY <1>1, <1>2

(* If n is not an ancestor of p, some set closed under parents holds all that   *)
(* is above p and not n.                                                        *)
LEMMA AncestorsBound ==
    ASSUME NEW p, NEW n \in NodeIds, n \notin Ancestors(p)
    PROVE  \E R \in SUBSET NodeIds :
              /\ n \notin R
              /\ parent[p] \in R \cup {NoNode}
              /\ \A r \in R : parent[r] \in R \cup {NoNode}
BY DEF Ancestors, UpClosed

LEMMA MoveKeepsForest ==
    ASSUME TypeOK, Forest, NEW n \in NodeIds, NEW p \in NodeIds \cup {NoNode}, SetParent(n, p),
           p # NoNode => p = parent[n] \/ (p # n /\ n \notin Ancestors(p))
    PROVE  Forest'
<1>1. /\ parent \in [NodeIds -> NodeIds \cup {NoNode}] /\ IsForest(parent)
      /\ parent' = [parent EXCEPT ![n] = p]
  BY DEF TypeOK, Forest, IsForest, SetParent
<1>2. parent' \in [NodeIds -> NodeIds \cup {NoNode}]
  BY <1>1
<1>3. CASE p = parent[n]
  BY <1>1, <1>3 DEF Forest
<1>4. CASE p = NoNode
  <2>1. \A m \in NodeIds : parent'[m] \in {parent[m], NoNode}
    BY <1>1, <1>4
  <2>2. \A S \in SUBSET NodeIds : \A m \in S : parent'[m] \in S => parent[m] \in S
    BY <2>1, Sentinels
  <2> QED BY <2>2 DEF Forest
<1>5. CASE p # NoNode /\ p # n /\ n \notin Ancestors(p)
  <2>1. PICK R \in SUBSET NodeIds : /\ n \notin R
                                    /\ parent[p] \in R \cup {NoNode}
                                    /\ \A r \in R : parent[r] \in R \cup {NoNode}
    BY <1>5, AncestorsBound
  <2>2. \A m \in NodeIds : parent'[m] \in {parent[m], NoNode, p}
    BY <1>1
  <2>3. \A m \in R \cup {p} : m # NoNode => parent'[m] \in {parent[m], NoNode}
    BY <1>1, <1>5, <2>1
  <2>4. IsForest(parent')
    BY <1>1, <1>2, <2>1, <2>2, <2>3, Redirect
  <2> QED BY <2>4 DEF Forest, IsForest
<1> QED BY <1>3, <1>4, <1>5

LEMMA RemovalKeepsForest ==
    ASSUME TypeOK, Forest, NEW n \in NodeIds, NEW home \in NodeIds \cup {NoNode}, NEW created,
           RemoveNode(n, home, created),
           home # NoNode => home # n /\ n \notin Ancestors(home)
    PROVE  Forest'
<1>1. /\ parent \in [NodeIds -> NodeIds \cup {NoNode}] /\ IsForest(parent)
      /\ parent' = [m \in NodeIds |->
                       IF m = n THEN NoNode ELSE IF parent[m] = n THEN home ELSE parent[m]]
  BY DEF TypeOK, Forest, IsForest, RemoveNode, EdgesWithout
<1>2. parent' \in [NodeIds -> NodeIds \cup {NoNode}]
  BY <1>1
<1>3. PICK R \in SUBSET NodeIds : /\ n \notin R
                                  /\ home # NoNode => parent[home] \in R \cup {NoNode}
                                  /\ \A r \in R : parent[r] \in R \cup {NoNode}
  <2>1. CASE home = NoNode
    <3> WITNESS {} \in SUBSET NodeIds
    <3> QED BY <2>1
  <2>2. CASE home # NoNode
    BY <2>2, AncestorsBound
  <2> QED BY <2>1, <2>2
<1>4. \A m \in NodeIds : parent'[m] \in {parent[m], NoNode, home}
  BY <1>1
<1>5. \A m \in R \cup {home} : m # NoNode => parent'[m] \in {parent[m], NoNode}
  BY <1>1, <1>3, Sentinels
<1>6. IsForest(parent')
  BY <1>1, <1>2, <1>3, <1>4, <1>5, Redirect
<1> QED BY <1>6 DEF Forest, IsForest

(* A node without an edge of its own has no ancestors, and a node that is not   *)
(* in the table is nobody's ancestor.                                           *)
LEMMA FreshIsNoAncestor ==
    ASSUME IInv, NEW n \in NodeIds, NEW p \in NodeIds,
           (n \notin nodes /\ p \in nodes) \/ p \notin nodes
    PROVE  n \notin Ancestors(p)
<1>1. CASE n \notin nodes /\ p \in nodes
  <2>1. nodes \in UpClosed(p)
    BY <1>1 DEF UpClosed, IInv, TypeOK, NoDanglingRows
  <2> QED BY <1>1, <2>1 DEF Ancestors
<1>2. CASE p \notin nodes
  <2>1. {} \in UpClosed(p)
    BY <1>2 DEF UpClosed, IInv, TypeOK, NoDanglingRows
  <2> QED BY <2>1 DEF Ancestors
<1> QED BY <1>1, <1>2

LEMMA HandlerKeepsForest ==
    ASSUME IInv, Forest, [Next]_vars
    PROVE  \/ Forest'
           \/ /\ OrphanLocation # NoLabel
              /\ \E n \in nodes \ nodes', home \in FoundOrphanContainer : n \in Ancestors(home)
<1> DEFINE Buried == \E n \in nodes \ nodes', home \in FoundOrphanContainer : n \in Ancestors(home)
<1>0. TypeOK
  BY DEF IInv
<1>1. ASSUME UNCHANGED parent PROVE Forest'
  BY <1>1 DEF Forest
<1>2. ASSUME NEW n \in NodeIds \ nodes, NEW l \in Labels, NEW c \in Kinds, NEW p \in Parents,
             NEW ts \in TagLists, CreateNode(n, l, c, p, ts)
      PROVE  Forest'
  <2>1. CASE \E code \in {400, 500} : RefuseCreate(n, l, c, code)
    BY <1>1, <2>1 DEF RefuseCreate
  <2>2. CASE p \in (containers \cup {NoNode}) \ {n} /\ SetParent(n, p)
    <3>1. p # NoNode => p \in nodes
      BY <2>2 DEF IInv, TypeOK
    <3>2. p # NoNode => p # n /\ n \notin Ancestors(p)
      BY <2>2, <3>1, FreshIsNoAncestor DEF Parents
    <3> QED BY <1>0, <2>2, <3>2, MoveKeepsForest DEF Parents
  <2> QED BY <1>2, <2>1, <2>2, CreateShapes DEF Created
<1>3. ASSUME NEW n \in nodes, NEW l \in Labels \cup {Keep}, NEW c \in Kinds \cup {Keep},
             NEW p \in Parents \cup {Keep}, NEW ts \in TagLists \cup {Keep},
             UpdateNode(n, l, c, p, ts)
      PROVE  Forest'
  <2>0. n \in NodeIds
    BY <1>0 DEF TypeOK
  <2>1. ASSUME NEW p2 \in Parents, p2 = parent[n] \/ ParentAccepted(p2, n), SetParent(n, p2)
        PROVE  Forest'
    <3>1. p2 # NoNode => p2 = parent[n] \/ (p2 # n /\ n \notin Ancestors(p2))
      BY <2>1 DEF ParentAccepted, MakesCycle
    <3> QED BY <1>0, <2>0, <2>1, <3>1, MoveKeepsForest DEF Parents
  <2>2. CASE Refuse(400)
    BY <1>1, <2>2 DEF Refuse, graph
  <2>3. ASSUME NEW l2, NEW c2, NEW p2 \in Parents, NEW ts2, Overwritten(n, l2, c2, p2, ts2)
        PROVE  Forest'
    BY <2>1, <2>3 DEF Overwritten
  <2> QED BY <1>3, <2>2, <2>3, UpdateShapes
<1>4. ASSUME NEW n \in NodeIds, DeleteNode(n)
      PROVE  Forest' \/ (OrphanLocation # NoLabel /\ Buried)
  <2>1. CASE \E code \in {404, 500} : Refuse(code)
    BY <1>1, <2>1 DEF Refuse, graph
  <2>2. CASE n \in nodes /\ RemoveNode(n, NoNode, {})
    BY <1>0, <2>2, RemovalKeepsForest
  <2>3. ASSUME n \in nodes, OrphanLocation # NoLabel, NEW home \in FoundOrphanContainer \ {n},
               RemoveNode(n, home, {})
        PROVE  Forest' \/ Buried
    <3>1. home \in NodeIds
      BY <1>0 DEF FoundOrphanContainer, OrphanContainers, TypeOK
    <3>2. CASE n \in Ancestors(home)
      <4>1. n \in nodes \ nodes'
        BY <2>3 DEF RemoveNode
      <4> QED BY <3>2, <4>1
    <3>3. CASE n \notin Ancestors(home)
      BY <1>0, <2>3, <3>1, <3>3, RemovalKeepsForest
    <3> QED BY <3>2, <3>3
  <2>4. ASSUME n \in nodes, NEW o \in NodeIds \ nodes, RemoveNode(n, o, {o})
        PROVE  Forest'
    <3>1. o # n /\ n \notin Ancestors(o)
      BY <2>4, FreshIsNoAncestor
    <3> QED BY <1>0, <2>4, <3>1, RemovalKeepsForest
  <2>5. CASE n \in nodes /\ OrphanLocation # NoLabel
               /\ \E home \in FoundOrphanContainer \ {n} : RemoveNode(n, home, {})
    BY <2>3, <2>5
  <2>6. CASE n \in nodes /\ \E o \in NodeIds \ nodes : RemoveNode(n, o, {o})
    BY <2>4, <2>6
  <2> QED BY <1>4, <2>1, <2>2, <2>5, <2>6, DeleteShapes
<1>5. ASSUME NEW t \in Tags,
             CreateTag(t) \/ CreateTagInterrupted(t) \/ DeleteTag(t)
                \/ \E u \in Tags : RenameTag(t, u)
      PROVE  Forest'
  BY <1>1, <1>5 DEF CreateTag, CreateTagInterrupted, DeleteTag, RenameTag, Refuse, graph
<1>6. ASSUME NEW n \in NodeIds, NEW l \in Labels, NEW c \in Kinds, CreateInterrupted(n, l, c)
      PROVE  Forest'
  BY <1>1, <1>6 DEF CreateInterrupted, RefuseCreate
<1>7. CASE UNCHANGED vars
  BY <1>1, <1>7 DEF vars
<1>8. ASSUME NEW n \in NodeIds, NEW l \in Labels, NEW c \in Kinds, NEW p \in Parents,
             NEW ts \in TagLists, PostNode(n, l, c, p, ts) \/ PutNode(n, l, c, p, ts)
      PROVE  Forest'
  BY <1>2, <1>3, <1>8 DEF PostNode, PutNode
<1>9. ASSUME NEW n \in NodeIds, NEW l \in Labels \cup {Keep}, NEW c \in Kinds \cup {Keep},
             NEW p \in Parents \cup {Keep}, NEW ts \in TagLists \cup {Keep},
             PatchNode(n, l, c, p, ts)
      PROVE  Forest'
  BY <1>1, <1>3, <1>9 DEF PatchNode, Refuse, graph
<1> QED
  BY <1>4, <1>5, <1>6, <1>7, <1>8, <1>9 DEF Next

(* With ORPHAN_LOCATION unset the graph is a forest for good: no sequence of    *)
(* creates, moves, kind changes and deletions closes a cycle.                   *)
THEOREM StaysForest ==
    ASSUME OrphanLocation = NoLabel
    PROVE  Spec => []Forest
<1>1. Init => Forest
  BY Sentinels DEF Init, Forest
<1>2. IInv /\ Forest /\ [Next]_vars => Forest'
  BY HandlerKeepsForest
<1> QED
  BY <1>1, <1>2, InvariantHolds, PTL DEF Spec

(* With ORPHAN_LOCATION set the only request that closes a cycle is the         *)
(* deletion of a node above the container its children are sent to.             *)
THEOREM OnlyOrphaningClosesCycles == Spec => CyclesComeFromOrphaning
<1>1. IInv /\ [Next]_vars =>
        [Forest /\ ~Forest' =>
            \E n \in nodes \ nodes', home \in FoundOrphanContainer : n \in Ancestors(home)]_vars
  BY HandlerKeepsForest
<1> QED
  BY <1>1, InvariantHolds, PTL DEF Spec, CyclesComeFromOrphaning
-----------------------------------------------------------------------------
(* What one request may do to the rest.                                         *)

(* Only DELETE removes nodes.                                                    *)
LEMMA OnlyDeletionsRemove ==
    ASSUME IInv, Next
    PROVE  \/ nodes \subseteq nodes'
           \/ \E n \in NodeIds : DeleteNode(n)
<1>1. ASSUME NEW n, NEW l, NEW c, WriteRow(n, l, c) PROVE nodes \subseteq nodes'
  BY <1>1 DEF WriteRow
<1>2. ASSUME NEW n, NEW l, NEW c, NEW code, RefuseCreate(n, l, c, code) PROVE nodes \subseteq nodes'
  BY <1>2 DEF RefuseCreate, WriteRow
<1>3. ASSUME NEW code, Refuse(code) PROVE nodes \subseteq nodes'
  BY <1>3 DEF Refuse, graph
<1>4. ASSUME NEW n, NEW l, NEW c, NEW p, NEW ts, CreateNode(n, l, c, p, ts)
      PROVE  nodes \subseteq nodes'
  BY <1>1, <1>2, <1>4 DEF CreateNode
<1>5. ASSUME NEW n, NEW l, NEW c, NEW p, NEW ts, UpdateNode(n, l, c, p, ts)
      PROVE  nodes \subseteq nodes'
  BY <1>1, <1>3, <1>5 DEF UpdateNode
<1>6. ASSUME NEW t, \/ CreateTag(t) \/ CreateTagInterrupted(t) \/ DeleteTag(t)
                   \/ \E u \in Tags : RenameTag(t, u)
      PROVE  nodes \subseteq nodes'
  BY <1>3, <1>6 DEF CreateTag, CreateTagInterrupted, DeleteTag, RenameTag
<1> QED BY <1>2, <1>3, <1>4, <1>5, <1>6 DEF Next, PostNode, PutNode, PatchNode, CreateInterrupted

(* Orphaning included, a deletion moves nothing but the children of the node, and   *)
(* takes no tag from any other.                                                  *)
THEOREM DeletionIsLocal == Spec => DeletionKeepsTheRest
<1>1. ASSUME IInv, [Next]_vars
      PROVE  [\A n \in nodes \ nodes' : nodes \ {n} \subseteq nodes' /\ tags' = tags
                 /\ \A m \in nodes' \cap nodes : tagged'[m] = tagged[m]
                        /\ (parent[m] # n => parent'[m] = parent[m])]_vars
  <2> SUFFICES ASSUME Next, NEW n \in nodes \ nodes'
               PROVE  /\ nodes \ {n} \subseteq nodes' /\ tags' = tags
                      /\ \A m \in nodes' \cap nodes : tagged'[m] = tagged[m]
                            /\ (parent[m] # n => parent'[m] = parent[m])
    BY <1>1
  <2>1. PICK d \in NodeIds : DeleteNode(d)
    BY <1>1, OnlyDeletionsRemove
  <2>2. PICK home, created : RemoveNode(d, home, created)
    <3>1. \A code : ~Refuse(code)
      BY DEF Refuse, graph
    <3> QED BY <1>1, <2>1, <3>1, DeleteShapes
  <2>3. n = d
    BY <2>2 DEF RemoveNode
  <2> QED BY <1>1, <2>2, <2>3 DEF RemoveNode, EdgesWithout, IInv, TypeOK
<1> QED
  BY <1>1, InvariantHolds, PTL DEF Spec, DeletionKeepsTheRest

(* Where a SAVEPOINT does not commit, that is on every engine but SQLite, a request   *)
(* that is refused or that the server does not survive leaves nothing behind: the   *)
(* row of a create that outlives its refusal is all that ever does.                *)
THEOREM RefusalsAreHarmless ==
    ASSUME ~EarlyCommit
    PROVE  Spec => RefusalsChangeNothing
<1>1. ASSUME Next, reply' \notin {200, 201} PROVE UNCHANGED graph
  <2>1. ASSUME NEW code, Refuse(code) PROVE UNCHANGED graph
    BY <2>1 DEF Refuse
  <2>2. ASSUME NEW n, NEW l, NEW c, NEW code, RefuseCreate(n, l, c, code) PROVE UNCHANGED graph
    BY <2>2 DEF RefuseCreate, graph
  <2>3. ASSUME NEW n, NEW l, NEW c, NEW p, NEW ts, CreateNode(n, l, c, p, ts)
        PROVE  UNCHANGED graph
    BY <1>1, <2>2, <2>3 DEF CreateNode
  <2>4. ASSUME NEW n, NEW l, NEW c, NEW p, NEW ts, UpdateNode(n, l, c, p, ts)
        PROVE  UNCHANGED graph
    BY <1>1, <2>1, <2>4 DEF UpdateNode
  <2>5. ASSUME NEW n, DeleteNode(n) PROVE UNCHANGED graph
    BY <1>1, <2>1, <2>5 DEF DeleteNode, RemoveNode
  <2>6. ASSUME NEW t, \/ CreateTag(t) \/ CreateTagInterrupted(t) \/ DeleteTag(t)
                     \/ \E u \in Tags : RenameTag(t, u)
        PROVE  UNCHANGED graph
    BY <1>1, <2>1, <2>6 DEF CreateTag, CreateTagInterrupted, DeleteTag, RenameTag
  <2> QED BY <1>1, <2>1, <2>3, <2>4, <2>5, <2>6
          DEF Next, PostNode, PutNode, PatchNode, CreateInterrupted
<1>2. [Next]_vars => [reply' \notin {200, 201} => UNCHANGED graph]_vars
  BY <1>1
<1> QED
  BY <1>2, PTL DEF Spec, RefusalsChangeNothing
-----------------------------------------------------------------------------
(***************************************************************************)
(* What the events of a request tell a subscriber.  A batch is a sequence  *)
(* of words about nodes and tags; the last word on each is what is known   *)
(* of it.  Batches are taken apart into their parts with \o; Joins stands  *)
(* for \o where a lemma about a whole batch is cited for its parts.        *)
(***************************************************************************)

(* About node n, and about tag t.                                               *)
Speaks(e, n) == e.kind = "node" /\ e.about = n
Mentions(e, t) == e.kind = "tag" /\ t \in {e.about, e.previous}

Told(b) == {n \in NodeIds : \E i \in 1..Len(b) : Speaks(b[i], n)}

(* Every word on a node is the resource it has in the end.                        *)
Current(b, resources) ==
    \A i \in 1..Len(b) : b[i].kind = "node" =>
        /\ b[i].about \in NodeIds \cap DOMAIN resources
        /\ b[i].resource = resources[b[i].about]

Tagless(b) == \A i \in 1..Len(b) : b[i].kind # "tag"
Nodeless(b) == \A i \in 1..Len(b) : b[i].kind # "node"

Finally(resources, n) == IF n \in DOMAIN resources THEN resources[n] ELSE Absent
Joins(b, a, c) == b = a \o c
-----------------------------------------------------------------------------
(* Copies.                                                                     *)

LEMMA LastWord ==
    ASSUME NEW before, NEW b, NEW k \in Nat, NEW n \in NodeIds
    PROVE  \/ /\ \A i \in 1..k : ~Speaks(b[i], n)
              /\ CopyAfter(before, b, k)[n] = Finally(before, n)
           \/ \E i \in 1..k :
                 /\ Speaks(b[i], n)
                 /\ \A j \in 1..k : Speaks(b[j], n) => j <= i
                 /\ CopyAfter(before, b, k)[n] = b[i].resource
<1> DEFINE about == {i \in 1..k : b[i].kind = "node" /\ b[i].about = n}
<1>1. CopyAfter(before, b, k)[n] =
        IF about # {} THEN b[Max(about)].resource ELSE Finally(before, n)
  BY DEF CopyAfter, Finally
<1>2. about \in SUBSET Nat /\ IsFiniteSet(about)
  <2>1. IsFiniteSet(1..k)
    BY FS_Interval
  <2> QED BY <2>1, FS_Subset
<1>3. CASE about = {}
  BY <1>1, <1>3 DEF Speaks
<1>4. CASE about # {}
  <2>1. \E i \in about : \A j \in about : j <= i
    BY <1>2, <1>4, Greatest
  <2>2. \E i \in about : \A j \in about : i >= j
    BY <1>2, <2>1
  <2>3. Max(about) \in about /\ \A j \in about : Max(about) >= j
    <3> HIDE DEF about
    <3> QED BY <2>2 DEF Max
  <2> HIDE DEF about
  <2>4. PICK i \in about : i = Max(about) /\ \A j \in about : i >= j
    BY <2>3
  <2>5. CopyAfter(before, b, k)[n] = b[i].resource
    BY <1>1, <1>4, <2>4
  <2>6. i \in 1..k /\ Speaks(b[i], n) /\ \A j \in 1..k : Speaks(b[j], n) => j <= i
    BY <2>4 DEF about, Speaks
  <2> QED BY <2>5, <2>6
<1> QED BY <1>3, <1>4

(* Of two parts of a batch, the second has the last word.                         *)
LEMMA SecondPart ==
    ASSUME NEW S, NEW a \in Seq(S), NEW c \in Seq(S), NEW b, Joins(b, a, c),
           NEW before, NEW resources, NEW n \in NodeIds, Current(c, resources), n \in Told(c)
    PROVE  n \in DOMAIN resources /\ CopyAfter(before, b, Len(b))[n] = resources[n]
<1>1. PICK la \in Nat, lc \in Nat :
        /\ la = Len(a) /\ lc = Len(c) /\ Len(b) = la + lc
        /\ \A i \in 1..(la + lc) : b[i] = IF i <= la THEN a[i] ELSE c[i - la]
  <2>1. PICK la \in Nat, lc \in Nat : la = Len(a) /\ lc = Len(c)
    BY LenProperties
  <2>2. /\ Len(a \o c) = la + lc
        /\ \A i \in 1..(la + lc) : (a \o c)[i] = IF i <= la THEN a[i] ELSE c[i - la]
    BY <2>1, ConcatProperties
  <2> QED BY <2>1, <2>2 DEF Joins
<1>2. PICK k \in 1..lc : Speaks(c[k], n)
  BY <1>1 DEF Told
<1>3. PICK l \in Nat : l = la + lc
  OBVIOUS
<1>4. la + k \in 1..l /\ Speaks(b[la + k], n)
  BY <1>1, <1>2, <1>3
<1>5. PICK i \in 1..l :
        /\ Speaks(b[i], n)
        /\ \A j \in 1..l : Speaks(b[j], n) => j <= i
        /\ CopyAfter(before, b, l)[n] = b[i].resource
  BY <1>4, LastWord
<1>6. la + k <= i
  BY <1>4, <1>5
<1>7. i - la \in 1..lc /\ b[i] = c[i - la]
  BY <1>1, <1>2, <1>3, <1>6
<1> QED BY <1>1, <1>3, <1>5, <1>7 DEF Current, Speaks

LEMMA NoWord ==
    ASSUME NEW before, NEW b, Len(b) \in Nat, NEW n \in NodeIds, n \notin Told(b)
    PROVE  CopyAfter(before, b, Len(b))[n] = Finally(before, n)
<1>1. \A i \in 1..Len(b) : ~Speaks(b[i], n)
  BY DEF Told
<1> QED BY <1>1, LastWord

LEMMA Joined ==
    ASSUME NEW S, NEW a \in Seq(S), NEW c \in Seq(S), NEW resources
    PROVE  /\ a \o c \in Seq(S)
           /\ Told(a \o c) = Told(a) \cup Told(c)
           /\ Current(a, resources) /\ Current(c, resources) => Current(a \o c, resources)
           /\ Tagless(a) /\ Tagless(c) => Tagless(a \o c)
           /\ Nodeless(a) /\ Nodeless(c) => Nodeless(a \o c)
<1>1. PICK la \in Nat, lc \in Nat :
        /\ la = Len(a) /\ lc = Len(c) /\ Len(a \o c) = la + lc
        /\ \A i \in 1..(la + lc) : (a \o c)[i] = IF i <= la THEN a[i] ELSE c[i - la]
  BY ConcatProperties, LenProperties
<1>2. a \o c \in Seq(S)
  BY ConcatProperties
<1>3. \A i \in 1..(la + lc) : \/ (i \in 1..la /\ (a \o c)[i] = a[i])
                             \/ (i - la \in 1..lc /\ (a \o c)[i] = c[i - la])
  BY <1>1
<1>4. \A i \in 1..la : i \in 1..(la + lc) /\ (a \o c)[i] = a[i]
  BY <1>1
<1>5. \A i \in 1..lc : la + i \in 1..(la + lc) /\ (a \o c)[la + i] = c[i]
  BY <1>1
<1>6. Told(a \o c) \subseteq Told(a) \cup Told(c)
  BY <1>1, <1>3 DEF Told
<1>7. Told(a) \cup Told(c) \subseteq Told(a \o c)
  BY <1>1, <1>4, <1>5 DEF Told
<1> QED BY <1>1, <1>2, <1>3, <1>6, <1>7 DEF Current, Tagless, Nodeless
-----------------------------------------------------------------------------
(* The parts batches are made of.                                               *)

Words(resources) ==
    [kind : {"node"}, operation : {"created", "updated", "deleted"}, about : NodeIds,
     resource : {resources[n] : n \in NodeIds} \cup {OrphanCreated(n).resource : n \in NodeIds}
                   \cup {Absent}]
    \cup [kind : {"tag"}, operation : {"created", "updated", "deleted"},
          about : Tags, previous : Tags]

LEMMA FunctionIsSeq ==
    ASSUME NEW S, NEW n \in Nat, NEW f \in [1..n -> S]
    PROVE  f \in Seq(S) /\ Len(f) = n
OBVIOUS

LEMMA NoWords ==
    ASSUME NEW S
    PROVE  <<>> \in Seq(S) /\ Len(<<>>) = 0 /\ Tagless(<<>>)
BY DEF Tagless

LEMMA Regrouped ==
    ASSUME NEW S, NEW a \in Seq(S), NEW b \in Seq(S), NEW c \in Seq(S)
    PROVE  (a \o b) \o c = a \o (b \o c)
BY ConcatAssociative

LEMMA OneWord ==
    ASSUME NEW S, NEW e \in S
    PROVE  /\ <<e>> \in Seq(S) /\ Len(<<e>>) = 1 /\ <<e>>[1] = e
           /\ \A i \in 1..Len(<<e>>) : <<e>>[i] = e
OBVIOUS

LEMMA NodeEventsFacts ==
    ASSUME NEW operation \in {"created", "updated"}, NEW ids \in Seq(NodeIds), NEW resources,
           \A i \in 1..Len(ids) : ids[i] \in DOMAIN resources
    PROVE  /\ NodeEvents(operation, ids, resources) \in Seq(Words(resources))
           /\ Told(NodeEvents(operation, ids, resources)) = {ids[i] : i \in 1..Len(ids)}
           /\ Current(NodeEvents(operation, ids, resources), resources)
           /\ Tagless(NodeEvents(operation, ids, resources))
<1> DEFINE b == NodeEvents(operation, ids, resources)
           Word(n) == [kind |-> "node", operation |-> operation, about |-> n,
                       resource |-> resources[n]]
<1>1. PICK n \in Nat : n = Len(ids) /\ DOMAIN ids = 1..n /\ \A i \in 1..n : ids[i] \in NodeIds
  BY LenProperties, ElementOfSeq
<1>2. b = [i \in 1..n |-> Word(ids[i])]
  BY <1>1 DEF NodeEvents
<1>3. \A m \in NodeIds : Word(m) \in Words(resources)
  BY DEF Words
<1>4. \A m : Word(m).kind = "node" /\ Word(m).about = m /\ Word(m).resource = resources[m]
  OBVIOUS
<1> HIDE DEF Word, b
<1>5. b \in [1..n -> Words(resources)]
  BY <1>1, <1>2, <1>3
<1>6. b \in Seq(Words(resources)) /\ Len(b) = n
  BY <1>5, FunctionIsSeq
<1>7. \A i \in 1..n : /\ b[i].kind = "node" /\ b[i].about = ids[i]
                      /\ b[i].resource = resources[ids[i]]
  BY <1>2, <1>4
<1>8. Told(b) = {ids[i] : i \in 1..n}
  BY <1>1, <1>6, <1>7 DEF Told, Speaks
<1>9. Current(b, resources) /\ Tagless(b)
  BY <1>1, <1>6, <1>7 DEF Current, Tagless
<1> QED BY <1>1, <1>6, <1>8, <1>9 DEF b

LEMMA OneNodeEvent ==
    ASSUME NEW operation \in {"created", "updated"}, NEW n \in NodeIds, NEW resources,
           n \in DOMAIN resources
    PROVE  /\ NodeEvents(operation, <<n>>, resources) \in Seq(Words(resources))
           /\ Told(NodeEvents(operation, <<n>>, resources)) = {n}
           /\ Current(NodeEvents(operation, <<n>>, resources), resources)
           /\ Tagless(NodeEvents(operation, <<n>>, resources))
<1>1. PICK ids : ids = <<n>>
  OBVIOUS
<1>2. ids \in Seq(NodeIds) /\ Len(ids) = 1 /\ \A i \in 1..Len(ids) : ids[i] = n
  BY <1>1
<1>3. {ids[i] : i \in 1..Len(ids)} = {n}
  BY <1>2
<1> QED BY <1>1, <1>2, <1>3, NodeEventsFacts

LEMMA UpdatedFacts ==
    ASSUME NEW S, NEW resources, DOMAIN resources \subseteq NodeIds
    PROVE  /\ Updated(S, resources) \in Seq(Words(resources))
           /\ Told(Updated(S, resources)) = S \cap DOMAIN resources
           /\ Current(Updated(S, resources), resources)
           /\ Tagless(Updated(S, resources))
<1> DEFINE T == S \cap DOMAIN resources
           ids == Ascending(T)
<1>1. T \in SUBSET NodeIds /\ T \in SUBSET Nat /\ IsFiniteSet(T)
  BY InventoryAssumption, FinitenessAssumption, FS_Subset
<1>2. ids \in Seq(T) /\ \A n \in T : \E i \in 1..Len(ids) : ids[i] = n
  BY <1>1, AscendingFacts
<1>3. ids \in Seq(NodeIds)
  BY <1>1, <1>2, SeqMonotonic
<1>4. \A i \in 1..Len(ids) : ids[i] \in T
  BY <1>2, ElementOfSeq
<1>5. {ids[i] : i \in 1..Len(ids)} = T
  BY <1>2, <1>4
<1>6. Updated(S, resources) = NodeEvents("updated", ids, resources)
  BY DEF Updated
<1> HIDE DEF ids
<1> QED BY <1>3, <1>4, <1>5, <1>6, NodeEventsFacts

LEMMA TagEventFacts ==
    ASSUME NEW operation \in {"created", "updated", "deleted"}, NEW t \in Tags, NEW u \in Tags,
           NEW resources
    PROVE  /\ TagEvent(operation, t, u) \in Words(resources)
           /\ TagEvent(operation, t, u).kind = "tag"
           /\ TagEvent(operation, t, u).operation = operation
           /\ TagEvent(operation, t, u).about = t /\ TagEvent(operation, t, u).previous = u
BY DEF Words, TagEvent

LEMMA TagsCreatedFacts ==
    ASSUME NEW ts \in SUBSET Tags, NEW resources
    PROVE  /\ TagsCreated(ts) \in Seq(Words(resources)) /\ Nodeless(TagsCreated(ts))
           /\ \A i \in 1..Len(TagsCreated(ts)) :
                 /\ TagsCreated(ts)[i].kind = "tag"
                 /\ TagsCreated(ts)[i].operation = "created"
                 /\ TagsCreated(ts)[i].about \in ts \ tags
                 /\ TagsCreated(ts)[i].previous = TagsCreated(ts)[i].about
           /\ \A t \in ts \ tags : \E i \in 1..Len(TagsCreated(ts)) : TagsCreated(ts)[i].about = t
<1> DEFINE b == TagsCreated(ts)
           T == ts \ tags
           missing == SetToSeq(T)
           n == Cardinality(T)
<1>1. IsFiniteSet(T) /\ n \in Nat /\ T \in SUBSET Tags
  BY FinitenessAssumption, FS_Subset, FS_CardinalityType
<1>2. missing \in Injection(1..n, T)
  <2>1. Injection(1..n, T) # {}
    BY <1>1, FS_CardinalityType DEF ExistsBijection, Bijection
  <2> QED BY <2>1 DEF SetToSeq, Injection
<1>3. missing \in Surjection(1..n, T)
  <2>1. Cardinality(1..n) = n
    <3>1. PICK k \in Nat : k = n
      BY <1>1
    <3> QED BY <3>1, FS_Interval
  <2> HIDE DEF missing
  <2> QED BY <1>1, <1>2, <2>1, FS_Injection
<1>4. missing \in [1..n -> T] /\ \A t \in T : \E i \in 1..n : missing[i] = t
  BY <1>3 DEF Surjection
<1>5. b = [i \in 1..n |-> TagEvent("created", missing[i], missing[i])]
  BY <1>4 DEF TagsCreated
<1> HIDE DEF missing, b
<1>6. \A t \in T : /\ TagEvent("created", t, t) \in Words(resources)
                   /\ TagEvent("created", t, t).kind = "tag"
                   /\ TagEvent("created", t, t).operation = "created"
                   /\ TagEvent("created", t, t).about = t
                   /\ TagEvent("created", t, t).previous = t
  BY <1>1, TagEventFacts
<1>7. \A i \in 1..n : b[i] = TagEvent("created", missing[i], missing[i]) /\ missing[i] \in T
  BY <1>4, <1>5
<1>8. b \in [1..n -> Words(resources)]
  BY <1>5, <1>6, <1>7
<1>9. b \in Seq(Words(resources)) /\ Len(b) = n
  BY <1>1, <1>8, FunctionIsSeq
<1>10. \A i \in 1..n : /\ b[i].kind = "tag" /\ b[i].operation = "created"
                       /\ b[i].about = missing[i] /\ b[i].previous = missing[i]
                       /\ missing[i] \in T
  BY <1>6, <1>7
<1>11. Nodeless(b)
  BY <1>9, <1>10 DEF Nodeless
<1>12. \A t \in T : \E i \in 1..n : b[i].about = t
  BY <1>4, <1>10
<1> QED BY <1>9, <1>10, <1>11, <1>12 DEF b

LEMMA NodelessTellsNothing ==
    ASSUME NEW b, Nodeless(b)
    PROVE  Told(b) = {} /\ \A resources : Current(b, resources)
BY DEF Nodeless, Told, Speaks, Current
-----------------------------------------------------------------------------
(* Tags.                                                                       *)

LEMMA LastMention ==
    ASSUME NEW before, NEW S, NEW b \in Seq(S), NEW t \in Tags
    PROVE  \/ /\ \A i \in 1..Len(b) : ~Mentions(b[i], t)
              /\ t \in KnownTags(before, b) <=> t \in before
           \/ \E i \in 1..Len(b) :
                 /\ Mentions(b[i], t)
                 /\ t \in KnownTags(before, b) <=> b[i].operation # "deleted" /\ b[i].about = t
<1> DEFINE about == {i \in DOMAIN b : b[i].kind = "tag" /\ t \in {b[i].about, b[i].previous}}
<1>1. t \in KnownTags(before, b) <=>
        IF about = {} THEN t \in before
        ELSE b[Max(about)].operation # "deleted" /\ b[Max(about)].about = t
  BY DEF KnownTags
<1>2. PICK k \in Nat : k = Len(b) /\ DOMAIN b = 1..k
  BY LenProperties
<1>3. about \in SUBSET Nat /\ IsFiniteSet(about)
  <2>1. IsFiniteSet(1..k)
    BY FS_Interval
  <2> QED BY <1>2, <2>1, FS_Subset
<1>4. CASE about = {}
  BY <1>1, <1>2, <1>4 DEF Mentions
<1>5. CASE about # {}
  <2>1. \E i \in about : \A j \in about : i >= j
    BY <1>3, <1>5, Greatest
  <2>2. Max(about) \in about
    <3> HIDE DEF about
    <3> QED BY <2>1 DEF Max
  <2>3. Max(about) \in 1..Len(b) /\ Mentions(b[Max(about)], t)
    BY <1>2, <2>2 DEF Mentions
  <2> HIDE DEF about
  <2> QED BY <1>1, <1>5, <2>3
<1> QED BY <1>4, <1>5

LEMMA NoMention ==
    ASSUME NEW before \in SUBSET Tags, NEW S, NEW b \in Seq(S), Tagless(b)
    PROVE  KnownTags(before, b) = before
<1>1. \A t \in Tags : t \in KnownTags(before, b) <=> t \in before
  BY LastMention DEF Tagless, Mentions
<1> QED BY <1>1 DEF KnownTags

(* The words of b are those of a and those of c.                                    *)
SameWords(b, a, c) ==
    /\ \A i \in 1..Len(b) :
          (\E j \in 1..Len(a) : b[i] = a[j]) \/ (\E j \in 1..Len(c) : b[i] = c[j])
    /\ \A j \in 1..Len(a) : \E i \in 1..Len(b) : b[i] = a[j]
    /\ \A j \in 1..Len(c) : \E i \in 1..Len(b) : b[i] = c[j]

LEMMA Parts ==
    ASSUME NEW S, NEW a \in Seq(S), NEW c \in Seq(S), NEW b, Joins(b, a, c)
    PROVE  SameWords(b, a, c)
<1>1. PICK la \in Nat, lc \in Nat :
        /\ la = Len(a) /\ lc = Len(c) /\ Len(b) = la + lc
        /\ \A i \in 1..(la + lc) : b[i] = IF i <= la THEN a[i] ELSE c[i - la]
  <2>1. PICK la \in Nat, lc \in Nat : la = Len(a) /\ lc = Len(c)
    BY LenProperties
  <2>2. /\ Len(a \o c) = la + lc
        /\ \A i \in 1..(la + lc) : (a \o c)[i] = IF i <= la THEN a[i] ELSE c[i - la]
    BY <2>1, ConcatProperties
  <2> QED BY <2>1, <2>2 DEF Joins
<1>2. \A i \in 1..(la + lc) : (i \in 1..la /\ b[i] = a[i]) \/ (i - la \in 1..lc /\ b[i] = c[i - la])
  BY <1>1
<1>3. \A i \in 1..la : i \in 1..(la + lc) /\ b[i] = a[i]
  BY <1>1
<1>4. \A i \in 1..lc : la + i \in 1..(la + lc) /\ b[la + i] = c[i]
  <2>1. \A i \in 1..lc : la + i \in 1..(la + lc) /\ ~(la + i <= la) /\ (la + i) - la = i
    OBVIOUS
  <2> QED BY <1>1, <2>1
<1>5. \A j \in 1..Len(a) : \E i \in 1..Len(b) : b[i] = a[j]
  BY <1>1, <1>3
<1>6. \A j \in 1..Len(c) : \E i \in 1..Len(b) : b[i] = c[j]
  BY <1>1, <1>4
<1>7. \A i \in 1..Len(b) :
        (\E j \in 1..Len(a) : b[i] = a[j]) \/ (\E j \in 1..Len(c) : b[i] = c[j])
  BY <1>1, <1>2
<1> QED BY <1>5, <1>6, <1>7 DEF SameWords

(* The tags a request makes on its way to setting a node's.                        *)
LEMMA CreatedTagsAreKnown ==
    ASSUME tags \in SUBSET Tags, NEW ts \in SUBSET Tags, NEW resources,
           NEW c \in Seq(Words(resources)), Tagless(c)
    PROVE  KnownTags(tags, TagsCreated(ts) \o c) = tags \cup ts
<1> DEFINE a == TagsCreated(ts)
<1>1. /\ a \in Seq(Words(resources))
      /\ \A i \in 1..Len(a) : /\ a[i].kind = "tag" /\ a[i].operation = "created"
                              /\ a[i].about \in ts \ tags /\ a[i].previous = a[i].about
      /\ \A t \in ts \ tags : \E i \in 1..Len(a) : a[i].about = t
  BY TagsCreatedFacts
<1> HIDE DEF a
<1>2. PICK b \in Seq(Words(resources)) : b = a \o c /\ Joins(b, a, c)
  BY <1>1, Joined DEF Joins
<1>3. ASSUME NEW t \in Tags PROVE t \in KnownTags(tags, b) <=> t \in tags \cup ts
  <2>0. SameWords(b, a, c)
    BY <1>1, <1>2, Parts
  <2>1. \A i \in 1..Len(b) : Mentions(b[i], t) =>
          t \in ts \ tags /\ b[i].operation = "created" /\ b[i].about = t
    <3> SUFFICES ASSUME NEW i \in 1..Len(b), Mentions(b[i], t)
                 PROVE  t \in ts \ tags /\ b[i].operation = "created" /\ b[i].about = t
      OBVIOUS
    <3>1. \A j \in 1..Len(c) : b[i] # c[j]
      BY DEF Tagless, Mentions
    <3>2. PICK j \in 1..Len(a) : b[i] = a[j]
      BY <2>0, <3>1 DEF SameWords
    <3> QED BY <1>1, <3>2 DEF Mentions
  <2>2. t \in ts \ tags => \E i \in 1..Len(b) : Mentions(b[i], t)
    <3> SUFFICES ASSUME t \in ts \ tags PROVE \E i \in 1..Len(b) : Mentions(b[i], t)
      OBVIOUS
    <3>1. PICK j \in 1..Len(a) : a[j].kind = "tag" /\ a[j].about = t
      BY <1>1
    <3>2. PICK i \in 1..Len(b) : b[i] = a[j]
      BY <2>0 DEF SameWords
    <3> QED BY <3>1, <3>2 DEF Mentions
  <2> QED BY <2>1, <2>2, LastMention
<1>4. KnownTags(tags, b) \subseteq Tags /\ tags \cup ts \subseteq Tags
  BY DEF KnownTags
<1>5. KnownTags(tags, b) = tags \cup ts
  BY <1>3, <1>4
<1> QED BY <1>2, <1>5 DEF a

(* One word on tags is all that a batch says of them, wherever it stands.            *)
OneTagWord(b, e) ==
    /\ \E i \in 1..Len(b) : b[i] = e
    /\ \A i \in 1..Len(b) : b[i].kind = "tag" => b[i] = e

LEMMA TagWordJoined ==
    ASSUME NEW S, NEW a \in Seq(S), NEW c \in Seq(S), NEW b \in Seq(S), Joins(b, a, c), NEW e,
           (OneTagWord(a, e) /\ Tagless(c)) \/ (Tagless(a) /\ OneTagWord(c, e))
    PROVE  OneTagWord(b, e)
<1>1. SameWords(b, a, c)
  BY Parts
<1>4. CASE OneTagWord(a, e) /\ Tagless(c)
  <2>1. ASSUME NEW i \in 1..Len(b), b[i].kind = "tag" PROVE b[i] = e
    <3>1. \A j \in 1..Len(c) : b[i] # c[j]
      BY <1>4, <2>1 DEF Tagless
    <3>2. PICK j \in 1..Len(a) : b[i] = a[j]
      BY <1>1, <3>1 DEF SameWords
    <3> QED BY <1>4, <2>1, <3>2 DEF OneTagWord
  <2>2. \E i \in 1..Len(b) : b[i] = e
    BY <1>1, <1>4 DEF OneTagWord, SameWords
  <2> QED BY <2>1, <2>2 DEF OneTagWord
<1>5. CASE Tagless(a) /\ OneTagWord(c, e)
  <2>1. ASSUME NEW i \in 1..Len(b), b[i].kind = "tag" PROVE b[i] = e
    <3>1. \A j \in 1..Len(a) : b[i] # a[j]
      BY <1>5, <2>1 DEF Tagless
    <3>2. PICK j \in 1..Len(c) : b[i] = c[j]
      BY <1>1, <3>1 DEF SameWords
    <3> QED BY <1>5, <2>1, <3>2 DEF OneTagWord
  <2>2. \E i \in 1..Len(b) : b[i] = e
    BY <1>1, <1>5 DEF OneTagWord, SameWords
  <2> QED BY <2>1, <2>2 DEF OneTagWord
<1> QED BY <1>4, <1>5

LEMMA OneTagWordAlone ==
    ASSUME NEW S, NEW e \in S
    PROVE  \E one \in Seq(S) : one = <<e>> /\ OneTagWord(one, e)
<1>1. PICK one \in Seq(S) : /\ one = <<e>> /\ Len(one) = 1 /\ one[1] = e
                            /\ \A i \in 1..Len(one) : one[i] = e
  BY OneWord
<1>2. 1 \in 1..Len(one)
  BY <1>1
<1> QED BY <1>1, <1>2 DEF OneTagWord

LEMMA TagWordIsKnown ==
    ASSUME NEW before \in SUBSET Tags, NEW S, NEW b \in Seq(S), NEW e, OneTagWord(b, e),
           e.kind = "tag", e.about \in Tags, e.previous \in Tags
    PROVE  /\ e.operation = "deleted" =>
                 KnownTags(before, b) = before \ {e.about, e.previous}
           /\ e.operation # "deleted" =>
                 KnownTags(before, b) = (before \ {e.about, e.previous}) \cup {e.about}
<1>1. ASSUME NEW t \in Tags
      PROVE  t \in KnownTags(before, b) <=>
                IF t \in {e.about, e.previous} THEN e.operation # "deleted" /\ e.about = t
                ELSE t \in before
  BY LastMention DEF Mentions, OneTagWord
<1>2. KnownTags(before, b) \subseteq Tags
  BY DEF KnownTags
<1> QED BY <1>1, <1>2
-----------------------------------------------------------------------------
(* Batches that tell every change.                                              *)

Complete(b, N) ==
    \A n \in N : CopyAfter(Representations, b, Len(b))[n] = Finally(Representations', n)

LEMMA TellsAll ==
    ASSUME NEW S, NEW a \in Seq(S), NEW c \in Seq(S), NEW b, Joins(b, a, c),
           NEW N \in SUBSET NodeIds, Current(c, Representations'), Told(a) \subseteq Told(c),
           \A n \in N \ Told(c) : Finally(Representations', n) = Finally(Representations, n)
    PROVE  Complete(b, N)
<1>1. b \in Seq(S) /\ Told(b) = Told(a) \cup Told(c)
  BY Joined DEF Joins
<1>2. Len(b) \in Nat
  BY <1>1, LenProperties
<1>3. ASSUME NEW n \in N, n \in Told(c)
      PROVE  CopyAfter(Representations, b, Len(b))[n] = Finally(Representations', n)
  <2>1. PICK resources, before : resources = Representations' /\ before = Representations
    OBVIOUS
  <2>2. Current(c, resources)
    BY <2>1
  <2>3. n \in NodeIds
    OBVIOUS
  <2>4. n \in DOMAIN resources /\ CopyAfter(before, b, Len(b))[n] = resources[n]
    BY <1>3, <2>2, <2>3, SecondPart
  <2> QED BY <2>1, <2>4 DEF Finally
<1>4. ASSUME NEW n \in N, n \notin Told(c)
      PROVE  CopyAfter(Representations, b, Len(b))[n] = Finally(Representations', n)
  <2>1. n \notin Told(b)
    BY <1>1, <1>4
  <2>2. CopyAfter(Representations, b, Len(b))[n] = Finally(Representations, n)
    BY <1>2, <2>1, NoWord
  <2> QED BY <1>4, <2>2
<1> QED BY <1>3, <1>4 DEF Complete

LEMMA AllCurrentTellsAll ==
    ASSUME NEW S, NEW c \in Seq(S), NEW N \in SUBSET NodeIds, Current(c, Representations'),
           \A n \in N \ Told(c) : Finally(Representations', n) = Finally(Representations, n)
    PROVE  Complete(c, N)
<1>1. <<>> \in Seq(S) /\ Told(<<>>) = {} /\ Joins(c, <<>>, c)
  BY ConcatEmptySeq DEF Told, Joins
<1>2. PICK none \in Seq(S) : Told(none) = {} /\ Joins(c, none, c)
  BY <1>1
<1> QED BY <1>2, TellsAll

LEMMA OneMore ==
    ASSUME NEW S, NEW b \in Seq(S), NEW e \in S, NEW all, Joins(all, b, <<e>>),
           NEW before, NEW n \in NodeIds
    PROVE  CopyAfter(before, all, Len(all))[n] =
             IF Speaks(e, n) THEN e.resource ELSE CopyAfter(before, b, Len(b))[n]
<1>1. PICK one \in Seq(S) : one = <<e>> /\ Len(one) = 1 /\ one[1] = e
  BY OneWord
<1>2. PICK more \in Seq(S) : more = b \o one /\ all = more
  BY <1>1, ConcatProperties DEF Joins
<1>3. PICK k \in Nat : /\ k = Len(b) /\ Len(more) = k + 1
                       /\ \A i \in 1..(k + 1) : more[i] = IF i <= k THEN b[i] ELSE one[i - k]
  BY <1>1, <1>2, ConcatProperties, LenProperties
<1>4. PICK l \in Nat : l = k + 1
  OBVIOUS
<1>5. l \in 1..l /\ more[l] = e
  <2>1. k + 1 \in 1..(k + 1) /\ ~(k + 1 <= k) /\ (k + 1) - k = 1
    OBVIOUS
  <2> QED BY <1>1, <1>3, <1>4, <2>1
<1>6. \A i \in 1..k : i \in 1..l /\ i < l /\ more[i] = b[i]
  BY <1>3, <1>4
<1>7. \A i \in 1..l : i \in 1..k \/ i = l
  BY <1>4
<1>8. \/ /\ \A i \in 1..l : ~Speaks(more[i], n)
         /\ CopyAfter(before, more, l)[n] = Finally(before, n)
      \/ \E i \in 1..l :
            /\ Speaks(more[i], n)
            /\ \A j \in 1..l : Speaks(more[j], n) => j <= i
            /\ CopyAfter(before, more, l)[n] = more[i].resource
  BY LastWord
<1>9. \/ /\ \A i \in 1..k : ~Speaks(b[i], n)
         /\ CopyAfter(before, b, k)[n] = Finally(before, n)
      \/ \E i \in 1..k :
            /\ Speaks(b[i], n)
            /\ \A j \in 1..k : Speaks(b[j], n) => j <= i
            /\ CopyAfter(before, b, k)[n] = b[i].resource
  BY LastWord
<1>10. CASE Speaks(e, n)
  <2>1. PICK i \in 1..l : /\ \A j \in 1..l : Speaks(more[j], n) => j <= i
                          /\ CopyAfter(before, more, l)[n] = more[i].resource
    BY <1>5, <1>8, <1>10
  <2>2. i = l
    BY <1>5, <1>10, <2>1
  <2>3. CopyAfter(before, more, l)[n] = e.resource
    BY <1>5, <2>1, <2>2
  <2> QED BY <1>1, <1>2, <1>3, <1>4, <1>10, <2>3
<1>11. CASE ~Speaks(e, n)
  <2>1. CopyAfter(before, more, l)[n] = CopyAfter(before, b, k)[n]
    <3>1. CASE \A i \in 1..k : ~Speaks(b[i], n)
      <4>1. \A i \in 1..l : ~Speaks(more[i], n)
        BY <1>5, <1>6, <1>7, <1>11, <3>1
      <4> QED BY <1>8, <1>9, <3>1, <4>1
    <3>2. CASE \E i \in 1..k : Speaks(b[i], n)
      <4>1. PICK i \in 1..k : /\ Speaks(b[i], n)
                              /\ \A j \in 1..k : Speaks(b[j], n) => j <= i
                              /\ CopyAfter(before, b, k)[n] = b[i].resource
        BY <1>9, <3>2
      <4>2. PICK j \in 1..l : /\ Speaks(more[j], n)
                              /\ \A h \in 1..l : Speaks(more[h], n) => h <= j
                              /\ CopyAfter(before, more, l)[n] = more[j].resource
        BY <1>6, <1>8, <4>1
      <4>3. j \in 1..k
        BY <1>5, <1>7, <1>11, <4>2
      <4>4. j <= i /\ i <= j
        BY <1>6, <4>1, <4>2, <4>3
      <4>5. i = j
        BY <4>4
      <4> QED BY <1>6, <4>1, <4>2, <4>5
    <3> QED BY <3>1, <3>2
  <2> QED BY <1>1, <1>2, <1>3, <1>4, <1>11, <2>1
<1> QED BY <1>10, <1>11

(* What a representation is made of.                                              *)
LEMMA SameRepresentation ==
    ASSUME NEW n \in NodeIds, n \in nodes <=> n \in nodes',
           n \in nodes =>
              /\ label'[n] = label[n] /\ (n \in containers' <=> n \in containers)
              /\ parent'[n] = parent[n] /\ tagged'[n] = tagged[n]
              /\ Children(n)' = Children(n)
              /\ \A m \in Children(n) : /\ label'[m] = label[m] /\ tagged'[m] = tagged[m]
                                        /\ m \in containers' <=> m \in containers
    PROVE  Finally(Representations', n) = Finally(Representations, n)
<1>1. DOMAIN Representations = nodes /\ DOMAIN Representations' = nodes'
  BY DEF Representations
<1>2. CASE n \notin nodes
  BY <1>1, <1>2 DEF Finally
<1>3. CASE n \in nodes
  <2>1. [m \in Children(n)' |-> [label |-> label'[m], container |-> m \in containers', tags |-> tagged'[m]]]
         = [m \in Children(n) |-> [label |-> label[m], container |-> m \in containers, tags |-> tagged[m]]]
    BY <1>3
  <2>2. (n \in containers') = (n \in containers)
    BY <1>3
  <2>3. Representations'[n] = Representations[n]
    BY <1>3, <2>1, <2>2 DEF Representations
  <2> QED BY <1>1, <1>3, <2>3 DEF Finally
<1> QED BY <1>2, <1>3
-----------------------------------------------------------------------------
(* No event dangles.                                                              *)

(* A resource a subscriber can hold if it knows of K.                                *)
Settled(r, K) == r # Absent /\ r.parent \in K \cup {NoNode} /\ DOMAIN r.children \subseteq K

LEMMA ResourceFields ==
    ASSUME NEW l, NEW c, NEW p, NEW ts, NEW embedded, NEW r,
           r = [label |-> l, container |-> c, parent |-> p, tags |-> ts, children |-> embedded]
    PROVE  r # Absent /\ r.parent = p /\ r.children = embedded
<1>1. r.parent = p /\ r.children = embedded
  OBVIOUS
<1>2. "label" \in DOMAIN r /\ "label" \notin DOMAIN Absent
  BY DEF Absent
<1> QED BY <1>1, <1>2

LEMMA GraphIsSettled ==
    ASSUME IInv, NEW n \in nodes
    PROVE  Settled(Representations[n], nodes)
<1>1. PICK embedded :
        /\ DOMAIN embedded = Children(n)
        /\ Representations[n] = [label |-> label[n], container |-> n \in containers,
             parent |-> parent[n], tags |-> tagged[n], children |-> embedded]
  BY DEF Representations
<1>2. /\ Representations[n] # Absent /\ Representations[n].parent = parent[n]
      /\ Representations[n].children = embedded
  BY <1>1, ResourceFields
<1>3. parent[n] \in nodes \cup {NoNode} /\ Children(n) \subseteq nodes
  BY Sentinels DEF IInv, TypeOK, NoDanglingRows, Children
<1> QED BY <1>1, <1>2, <1>3 DEF Settled

LEMMA NextGraphIsSettled ==
    ASSUME IInv', NEW n \in nodes'
    PROVE  Settled(Representations'[n], nodes')
<1>1. PICK embedded :
        /\ DOMAIN embedded = Children(n)'
        /\ Representations'[n] = [label |-> label'[n], container |-> n \in containers',
             parent |-> parent'[n], tags |-> tagged'[n], children |-> embedded]
  BY DEF Representations
<1>2. /\ Representations'[n] # Absent /\ Representations'[n].parent = parent'[n]
      /\ Representations'[n].children = embedded
  BY <1>1, ResourceFields
<1>3. parent'[n] \in nodes' \cup {NoNode} /\ Children(n)' \subseteq nodes'
  BY Sentinels DEF IInv, TypeOK, NoDanglingRows, Children
<1> QED BY <1>1, <1>2, <1>3 DEF Settled

LEMMA OrphanIsSettled ==
    ASSUME NEW n, NEW K
    PROVE  Settled(OrphanCreated(n).resource, K)
<1>1. PICK none : none = <<>> /\ DOMAIN none = {}
  OBVIOUS
<1>2. OrphanCreated(n).resource = [label |-> OrphanLocation, container |-> TRUE, parent |-> NoNode,
                                   tags |-> {}, children |-> none]
  BY <1>1 DEF OrphanCreated
<1>3. /\ OrphanCreated(n).resource # Absent /\ OrphanCreated(n).resource.parent = NoNode
      /\ OrphanCreated(n).resource.children = none
  BY <1>2, ResourceFields
<1> QED BY <1>1, <1>3 DEF Settled

(* A word on a node says that it exists, and how.                                    *)
Announces(e, resources) ==
    e.kind = "node" =>
        /\ e.about \in NodeIds
        /\ \/ e.about \in DOMAIN resources /\ e.resource = resources[e.about]
           \/ e.resource = OrphanCreated(e.about).resource

Closed(copy) == NamesOnly(copy, Known(copy))

(* While nothing is deleted a subscriber knows of the old nodes; it knows of all the    *)
(* new ones, too, if they were announced before any other word.                       *)
LEMMA PrefixIsClosed ==
    ASSUME IInv, IInv', NEW b, NEW k \in Nat,
           \A i \in 1..k : Announces(b[i], Representations'),
           \A i \in 1..k : b[i].kind = "node" =>
              \A m \in nodes' \ nodes : \E j \in 1..k : Speaks(b[j], m)
    PROVE  Closed(CopyAfter(Representations, b, k))
<1>1. PICK before, copy : before = Representations /\ copy = CopyAfter(before, b, k)
  OBVIOUS
<1>2. DOMAIN before = nodes /\ DOMAIN Representations' = nodes'
  BY <1>1 DEF Representations
<1>3. ASSUME NEW n \in NodeIds
      PROVE  \/ /\ \A i \in 1..k : ~Speaks(b[i], n)
                /\ copy[n] = Finally(before, n)
             \/ \E i \in 1..k : Speaks(b[i], n) /\ copy[n] = b[i].resource
  BY <1>1, LastWord
<1> DEFINE known == {n \in NodeIds : copy[n] # Absent}
<1>4. nodes \subseteq NodeIds /\ nodes' \subseteq NodeIds
  BY DEF IInv, TypeOK
<1>5. ASSUME NEW n \in NodeIds, NEW i \in 1..k, Speaks(b[i], n), copy[n] = b[i].resource
      PROVE  Settled(copy[n], nodes')
  <2>1. \/ n \in nodes' /\ copy[n] = Representations'[n]
        \/ copy[n] = OrphanCreated(n).resource
    BY <1>2, <1>5 DEF Announces, Speaks
  <2> QED BY <2>1, NextGraphIsSettled, OrphanIsSettled
<1>6. ASSUME NEW n \in nodes, copy[n] = Finally(before, n)
      PROVE  Settled(copy[n], nodes)
  BY <1>1, <1>2, <1>6, GraphIsSettled DEF Finally
<1>7. nodes \subseteq known
  BY <1>3, <1>4, <1>5, <1>6 DEF Settled
<1>8. ASSUME NEW n \in NodeIds, NEW i \in 1..k, Speaks(b[i], n)
      PROVE  n \in known
  BY <1>3, <1>5, <1>8 DEF Settled
<1>9. ASSUME NEW n \in known
      PROVE  copy[n].parent \in known \cup {NoNode} /\ DOMAIN copy[n].children \subseteq known
  <2>1. CASE \E i \in 1..k : Speaks(b[i], n) /\ copy[n] = b[i].resource
    <3>1. PICK i \in 1..k : Speaks(b[i], n) /\ copy[n] = b[i].resource
      BY <2>1
    <3>2. \A m \in nodes' \ nodes : m \in known
      BY <1>4, <1>8, <3>1 DEF Speaks
    <3>3. nodes' \subseteq known
      BY <1>7, <3>2
    <3> QED BY <1>5, <3>1, <3>3 DEF Settled
  <2>2. CASE copy[n] = Finally(before, n)
    <3>1. n \in nodes
      BY <1>2, <2>2 DEF Finally
    <3> QED BY <1>6, <1>7, <2>2, <3>1 DEF Settled
  <2> QED BY <1>3, <2>1, <2>2
<1>10. Closed(copy)
  BY <1>9 DEF Closed, NamesOnly, Known
<1> QED BY <1>1, <1>10

AllAnnounce(b, resources) == \A i \in 1..Len(b) : Announces(b[i], resources)

(* The first word on a node is one on n.                                              *)
LeadsWith(b, n) == \A i \in 1..Len(b) : b[i].kind = "node" => \E j \in 1..i : Speaks(b[j], n)

IsBatch(b) == Len(b) \in Nat /\ DOMAIN b = 1..Len(b)

NoneDangles(b) == IsBatch(b) /\ \A k \in DOMAIN b : Closed(CopyAfter(Representations, b, k))

LEMMA AnnouncingIsClosed ==
    ASSUME IInv, IInv', NEW S, NEW b \in Seq(S), AllAnnounce(b, Representations'),
           \A m \in nodes' \ nodes : LeadsWith(b, m)
    PROVE  NoneDangles(b)
<1>1. PICK l \in Nat : l = Len(b) /\ DOMAIN b = 1..l
  BY LenProperties
<1>2. ASSUME NEW k \in 1..l PROVE Closed(CopyAfter(Representations, b, k))
  <2>1. k \in Nat /\ \A i \in 1..k : i \in 1..l /\ \A j \in 1..i : j \in 1..k
    OBVIOUS
  <2>2. \A i \in 1..k : Announces(b[i], Representations')
    BY <1>1, <2>1 DEF AllAnnounce
  <2>3. \A i \in 1..k : b[i].kind = "node" =>
           \A m \in nodes' \ nodes : \E j \in 1..k : Speaks(b[j], m)
    BY <1>1, <2>1 DEF LeadsWith
  <2> QED BY <2>1, <2>2, <2>3, PrefixIsClosed
<1> QED BY <1>1, <1>2 DEF NoneDangles, IsBatch

LEMMA CompleteIsClosed ==
    ASSUME IInv', NEW b, Complete(b, NodeIds)
    PROVE  Closed(CopyAfter(Representations, b, Len(b)))
<1>1. PICK copy : copy = CopyAfter(Representations, b, Len(b))
  OBVIOUS
<1>2. DOMAIN Representations' = nodes' /\ nodes' \in SUBSET NodeIds
  BY DEF Representations, IInv, TypeOK
<1>3. \A n \in NodeIds : IF n \in nodes' THEN Settled(copy[n], nodes') ELSE copy[n] = Absent
  BY <1>1, <1>2, NextGraphIsSettled DEF Complete, Finally
<1>4. {n \in NodeIds : copy[n] # Absent} = nodes'
  BY <1>2, <1>3 DEF Settled
<1>5. Closed(copy)
  BY <1>3, <1>4 DEF Closed, NamesOnly, Known, Settled
<1> QED BY <1>1, <1>5

(* A batch whose last word is a deletion.                                            *)
LEMMA DeletingIsClosed ==
    ASSUME IInv, IInv', NEW S, NEW front \in Seq(S), NEW e \in S, NEW b \in Seq(S),
           Joins(b, front, <<e>>), Complete(b, NodeIds), AllAnnounce(front, Representations'),
           \A m \in nodes' \ nodes : LeadsWith(front, m)
    PROVE  NoneDangles(b)
<1>1. PICK l \in Nat : /\ l = Len(front) /\ Len(b) = l + 1
                       /\ \A i \in 1..l : b[i] = front[i]
  <2>1. PICK one \in Seq(S) : one = <<e>> /\ Len(one) = 1
    BY OneWord
  <2>2. PICK l \in Nat : l = Len(front)
    BY LenProperties
  <2>3. /\ Len(front \o one) = l + 1
        /\ \A i \in 1..(l + 1) : (front \o one)[i] = IF i <= l THEN front[i] ELSE one[i - l]
    BY <2>1, <2>2, ConcatProperties
  <2>4. \A i \in 1..l : (front \o one)[i] = front[i]
    BY <2>3
  <2> QED BY <2>1, <2>2, <2>3, <2>4 DEF Joins
<1>2. ASSUME NEW k \in 1..l PROVE Closed(CopyAfter(Representations, b, k))
  <2>1. k \in Nat /\ \A i \in 1..k : i \in 1..l /\ \A j \in 1..i : j \in 1..k
    OBVIOUS
  <2>2. \A i \in 1..k : Announces(b[i], Representations')
    BY <1>1, <2>1 DEF AllAnnounce
  <2>3. \A i \in 1..k : b[i].kind = "node" =>
           \A m \in nodes' \ nodes : \E j \in 1..k : Speaks(b[j], m)
    BY <1>1, <2>1 DEF LeadsWith
  <2> QED BY <2>1, <2>2, <2>3, PrefixIsClosed
<1>3. \A k \in 1..(l + 1) : k \in 1..l \/ k = l + 1
  OBVIOUS
<1>4. Closed(CopyAfter(Representations, b, l + 1))
  BY <1>1, CompleteIsClosed
<1>5. DOMAIN b = 1..(l + 1)
  BY <1>1, LenProperties
<1> QED BY <1>1, <1>2, <1>3, <1>4, <1>5 DEF NoneDangles, IsBatch

LEMMA AnnouncementsJoined ==
    ASSUME NEW S, NEW a \in Seq(S), NEW c \in Seq(S), NEW b, Joins(b, a, c), NEW resources,
           AllAnnounce(a, resources), AllAnnounce(c, resources)
    PROVE  AllAnnounce(b, resources)
<1>1. SameWords(b, a, c)
  BY Parts
<1> QED BY <1>1 DEF SameWords, AllAnnounce

LEMMA CurrentAnnounces ==
    ASSUME NEW b, NEW resources, Current(b, resources)
    PROVE  AllAnnounce(b, resources)
BY DEF Current, AllAnnounce, Announces

LEMMA NodelessAnnounces ==
    ASSUME NEW b, NEW resources, Nodeless(b)
    PROVE  AllAnnounce(b, resources)
BY DEF Nodeless, AllAnnounce, Announces

LEMMA AboutOneLeads ==
    ASSUME NEW b, NEW n, NEW resources, Len(b) \in Nat, AllAnnounce(b, resources), Told(b) \subseteq {n}
    PROVE  LeadsWith(b, n)
<1>1. ASSUME NEW i \in 1..Len(b), b[i].kind = "node" PROVE i \in 1..i /\ Speaks(b[i], n)
  <2>1. Speaks(b[i], b[i].about) /\ b[i].about \in NodeIds
    BY <1>1 DEF Speaks, AllAnnounce, Announces
  <2>2. b[i].about = n
    BY <2>1 DEF Told
  <2> QED BY <2>1, <2>2
<1> QED BY <1>1 DEF LeadsWith

LEMMA LeadJoined ==
    ASSUME NEW S, NEW a \in Seq(S), NEW c \in Seq(S), NEW b, Joins(b, a, c), NEW n,
           (LeadsWith(a, n) /\ n \in Told(a)) \/ (Nodeless(a) /\ LeadsWith(c, n))
    PROVE  LeadsWith(b, n)
<1>1. PICK la \in Nat, lc \in Nat :
        /\ la = Len(a) /\ lc = Len(c) /\ Len(b) = la + lc
        /\ \A i \in 1..(la + lc) : b[i] = IF i <= la THEN a[i] ELSE c[i - la]
  <2>1. PICK la \in Nat, lc \in Nat : la = Len(a) /\ lc = Len(c)
    BY LenProperties
  <2>2. /\ Len(a \o c) = la + lc
        /\ \A i \in 1..(la + lc) : (a \o c)[i] = IF i <= la THEN a[i] ELSE c[i - la]
    BY <2>1, ConcatProperties
  <2> QED BY <2>1, <2>2 DEF Joins
<1>2. \A i \in 1..la : b[i] = a[i]
  BY <1>1
<1>3. \A i \in 1..lc : b[la + i] = c[i]
  <2>1. \A i \in 1..lc : la + i \in 1..(la + lc) /\ ~(la + i <= la) /\ (la + i) - la = i
    OBVIOUS
  <2> QED BY <1>1, <2>1
<1>4. ASSUME NEW i \in 1..(la + lc), b[i].kind = "node" PROVE \E j \in 1..i : Speaks(b[j], n)
  <2>1. CASE LeadsWith(a, n) /\ n \in Told(a)
    <3>1. CASE i \in 1..la
      <4>1. PICK j \in 1..i : Speaks(a[j], n)
        BY <1>1, <1>2, <1>4, <2>1, <3>1 DEF LeadsWith
      <4>2. j \in 1..la
        BY <3>1
      <4> QED BY <1>2, <4>1, <4>2
    <3>2. CASE ~(i \in 1..la)
      <4>1. PICK j \in 1..la : Speaks(a[j], n)
        BY <1>1, <2>1 DEF Told
      <4>2. j \in 1..i
        BY <3>2
      <4> QED BY <1>2, <4>1, <4>2
    <3> QED BY <3>1, <3>2
  <2>2. CASE Nodeless(a) /\ LeadsWith(c, n)
    <3>1. ~(i \in 1..la)
      BY <1>1, <1>2, <1>4, <2>2 DEF Nodeless
    <3>2. PICK h \in 1..lc : i = la + h
      <4>1. i - la \in 1..lc /\ i = la + (i - la)
        BY <3>1
      <4> QED BY <4>1
    <3>3. PICK j \in 1..h : Speaks(c[j], n)
      BY <1>1, <1>3, <1>4, <2>2, <3>2 DEF LeadsWith
    <3>4. la + j \in 1..i /\ j \in 1..lc
      BY <3>2
    <3> QED BY <1>3, <3>3, <3>4
  <2> QED BY <2>1, <2>2
<1> QED BY <1>1, <1>4 DEF LeadsWith

-----------------------------------------------------------------------------
(* What each shape of a request tells.                                            *)

AllTold ==
    /\ Complete(batch', NodeIds)
    /\ KnownTags(tags, batch') = tags'
    /\ NoneDangles(batch')

LEMMA WrittenIsTold ==
    ASSUME IInv, IInv', NEW n \in NodeIds, NEW p \in Parents, NEW ts \in SUBSET Tags,
           NEW l, NEW c, WriteRow(n, l, c), SetParent(n, p), ReplaceTags(n, ts),
           NEW operation \in {"created", "updated"},
           batch' = TagsCreated(ts) \o NodeEvents(operation, <<n>>, Representations')
                      \o Updated({parent[n], p}, Representations')
    PROVE  AllTold
<1>1. PICK resources : resources = Representations'
  OBVIOUS
<1>2. DOMAIN resources = nodes' /\ nodes' \in SUBSET NodeIds /\ n \in nodes'
  BY <1>1 DEF Representations, IInv, TypeOK, WriteRow
<1>3. PICK T \in Seq(Words(resources)) : T = TagsCreated(ts) /\ Nodeless(T)
  BY TagsCreatedFacts
<1>4. PICK N \in Seq(Words(resources)) :
        /\ N = NodeEvents(operation, <<n>>, resources)
        /\ Told(N) = {n} /\ Current(N, resources) /\ Tagless(N)
  BY <1>2, OneNodeEvent
<1>5. PICK U \in Seq(Words(resources)) :
        /\ U = Updated({parent[n], p}, resources)
        /\ Told(U) = {parent[n], p} \cap nodes' /\ Current(U, resources) /\ Tagless(U)
  BY <1>2, UpdatedFacts
<1>6. batch' = T \o (N \o U)
  <2>1. (T \o N) \o U = T \o (N \o U)
    BY <1>3, <1>4, <1>5, ConcatAssociative
  <2> QED BY <1>1, <1>3, <1>4, <1>5, <2>1
<1>7. PICK d \in Seq(Words(resources)) :
        /\ d = N \o U /\ Told(d) = {n} \cup ({parent[n], p} \cap nodes')
        /\ Current(d, resources) /\ Tagless(d)
  BY <1>4, <1>5, Joined
<1>8. Joins(batch', T, d) /\ Told(T) = {}
  BY <1>3, <1>6, <1>7, NodelessTellsNothing DEF Joins
<1>9. ASSUME NEW m \in NodeIds \ Told(d)
      PROVE  Finally(Representations', m) = Finally(Representations, m)
  <2>1. m # n /\ (m \in nodes <=> m \in nodes')
    BY <1>7 DEF WriteRow
  <2>2. m \in nodes =>
           /\ label'[m] = label[m] /\ (m \in containers' <=> m \in containers)
           /\ parent'[m] = parent[m] /\ tagged'[m] = tagged[m]
    BY <2>1 DEF WriteRow, SetParent, ReplaceTags, IInv, TypeOK
  <2>3. m \in nodes => parent[n] # m /\ parent'[n] = p /\ p # m
    BY <1>7, <2>1 DEF SetParent, IInv, TypeOK
  <2>4. m \in nodes => Children(m)' = Children(m)
    <3>1. \A k \in NodeIds : k # n => parent'[k] = parent[k]
      BY DEF SetParent, IInv, TypeOK
    <3> QED BY <2>3, <3>1 DEF Children
  <2>5. m \in nodes => \A k \in Children(m) :
           /\ label'[k] = label[k] /\ tagged'[k] = tagged[k]
           /\ k \in containers' <=> k \in containers
    BY <2>3 DEF Children, WriteRow, ReplaceTags, IInv, TypeOK
  <2> QED BY <2>1, <2>2, <2>4, <2>5, SameRepresentation
<1>10. Complete(batch', NodeIds)
  <2>1. Current(d, Representations')
    BY <1>1, <1>7
  <2> QED BY <1>3, <1>7, <1>8, <1>9, <2>1, TellsAll
<1>11. KnownTags(tags, batch') = tags'
  <2>1. tags \in SUBSET Tags /\ tags' = tags \cup ts
    BY DEF IInv, TypeOK, ReplaceTags
  <2>2. KnownTags(tags, TagsCreated(ts) \o d) = tags \cup ts
    BY <1>7, <2>1, CreatedTagsAreKnown
  <2> QED BY <1>3, <1>6, <1>7, <2>1, <2>2
<1>12. NoneDangles(batch')
  <2>1. Joins(d, N, U) /\ Len(N) \in Nat
    BY <1>7, LenProperties DEF Joins
  <2>2. AllAnnounce(T, resources) /\ AllAnnounce(N, resources) /\ AllAnnounce(d, resources)
    BY <1>3, <1>4, <1>7, NodelessAnnounces, CurrentAnnounces
  <2>3. PICK all \in Seq(Words(resources)) : all = batch' /\ Joins(all, T, d)
    <3>1. T \o d \in Seq(Words(resources))
      BY Joined
    <3>2. batch' = T \o d
      BY <1>6, <1>7
    <3> QED BY <3>1, <3>2 DEF Joins
  <2>4. AllAnnounce(all, resources)
    BY <2>2, <2>3, AnnouncementsJoined
  <2>5. LeadsWith(N, n) /\ n \in Told(N)
    BY <1>4, <2>1, <2>2, AboutOneLeads
  <2>6. LeadsWith(d, n)
    BY <2>1, <2>5, LeadJoined
  <2>7. LeadsWith(all, n)
    BY <1>3, <2>3, <2>6, LeadJoined
  <2>8. \A m \in nodes' \ nodes : LeadsWith(all, m)
    BY <2>7 DEF WriteRow
  <2>9. NoneDangles(all)
    BY <1>1, <2>4, <2>8, AnnouncingIsClosed
  <2> QED BY <2>3, <2>9
<1> QED BY <1>10, <1>11, <1>12 DEF AllTold

Deleted(n) == [kind |-> "node", operation |-> "deleted", about |-> n, resource |-> Absent]

LEMMA RemovedIsTold ==
    ASSUME IInv, IInv', NEW n \in nodes, NEW home \in Parents \ {n}, NEW created,
           \/ created = {} /\ home \in nodes \cup {NoNode}
           \/ created = {home} /\ home \in NodeIds \ nodes,
           RemoveNode(n, home, created)
    PROVE  AllTold
<1>1. PICK resources : resources = Representations'
  OBVIOUS
<1>2. /\ DOMAIN resources = nodes' /\ nodes' \in SUBSET NodeIds
      /\ n \in NodeIds /\ n \notin nodes' /\ created \subseteq nodes'
  BY <1>1 DEF Representations, IInv, TypeOK, RemoveNode
<1>3. PICK O \in Seq(Words(resources)) :
        /\ O = (IF created = {} THEN <<>> ELSE <<OrphanCreated(home)>>)
        /\ Told(O) \subseteq created /\ Tagless(O) /\ AllAnnounce(O, resources)
        /\ \A m \in created : LeadsWith(O, m) /\ m \in Told(O)
  <2>1. CASE created = {}
    <3>1. PICK O \in Seq(Words(resources)) : O = <<>> /\ Len(O) = 0
      BY NoWords
    <3>2. Told(O) \subseteq created /\ Tagless(O) /\ AllAnnounce(O, resources)
      BY <3>1 DEF Told, Tagless, AllAnnounce
    <3> QED BY <2>1, <3>1, <3>2
  <2>2. CASE created = {home} /\ home \in NodeIds
    <3>1. OrphanCreated(home) \in Words(resources)
      BY <2>2 DEF OrphanCreated, Words
    <3>2. PICK O \in Seq(Words(resources)) :
            /\ O = <<OrphanCreated(home)>>
            /\ Len(O) = 1 /\ \A i \in 1..Len(O) : O[i] = OrphanCreated(home)
      BY <3>1, OneWord
    <3>3. OrphanCreated(home).kind = "node" /\ OrphanCreated(home).about = home
      BY DEF OrphanCreated
    <3>4. Told(O) \subseteq created /\ Tagless(O) /\ AllAnnounce(O, resources)
      BY <2>2, <3>2, <3>3 DEF Told, Speaks, Tagless, AllAnnounce, Announces
    <3>5. 1 \in 1..Len(O) /\ Len(O) \in Nat
      BY <3>2
    <3>6. home \in Told(O)
      BY <2>2, <3>2, <3>3, <3>5 DEF Told, Speaks
    <3>7. LeadsWith(O, home)
      BY <2>2, <3>4, <3>5, AboutOneLeads
    <3> QED BY <2>2, <3>2, <3>4, <3>6, <3>7
  <2> QED BY <2>1, <2>2
<1>4. PICK U \in Seq(Words(resources)) :
        /\ U = Updated(Children(n), resources)
        /\ Told(U) = Children(n) \cap nodes' /\ Current(U, resources) /\ Tagless(U)
  BY <1>2, UpdatedFacts
<1>5. PICK V \in Seq(Words(resources)) :
        /\ V = Updated(ParentsChanged(n, home), resources)
        /\ Told(V) = {parent[n], home} \cap nodes' /\ Current(V, resources) /\ Tagless(V)
  BY <1>2, UpdatedFacts DEF ParentsChanged
<1>6. PICK d \in Seq(Words(resources)) :
        /\ d = U \o V /\ Told(d) = (Children(n) \cup {parent[n], home}) \cap nodes'
        /\ Current(d, resources) /\ Tagless(d)
  BY <1>4, <1>5, Joined
<1>7. PICK front \in Seq(Words(resources)) : front = O \o d /\ Tagless(front)
  BY <1>3, <1>6, Joined
<1>8. PICK e \in Words(resources) : /\ e = Deleted(n) /\ e.kind = "node"
                                   /\ e.about = n /\ e.resource = Absent
  <2>1. Deleted(n) \in Words(resources)
    BY <1>2 DEF Deleted, Words
  <2>2. Deleted(n).kind = "node" /\ Deleted(n).about = n /\ Deleted(n).resource = Absent
    BY DEF Deleted
  <2> QED BY <2>1, <2>2
<1>9. batch' = front \o <<e>>
  <2>1. (O \o U) \o V = O \o (U \o V)
    BY Regrouped
  <2>2. batch' = ((O \o U) \o V) \o <<Deleted(n)>>
    BY <1>1, <1>3, <1>4, <1>5 DEF RemoveNode, DeleteEvents, Deleted
  <2> QED BY <1>6, <1>7, <1>8, <2>1, <2>2
<1>10. /\ nodes' = (nodes \cup created) \ {n}
       /\ containers' = (containers \cup created) \ {n}
       /\ parent' = [m \in NodeIds |->
                        IF m = n THEN NoNode ELSE IF parent[m] = n THEN home ELSE parent[m]]
       /\ \A m \in NodeIds : m # n /\ m \notin created =>
             label'[m] = label[m] /\ tagged'[m] = tagged[m]
  BY DEF RemoveNode, EdgesWithout, IInv, TypeOK
<1>11. ASSUME NEW m \in NodeIds \ {n}, m \notin Told(d)
       PROVE  Finally(Representations', m) = Finally(Representations, m)
  <2>1. m \notin created /\ (m \in nodes <=> m \in nodes')
    BY <1>2, <1>6, <1>10, <1>11
  <2>2. ASSUME m \in nodes
        PROVE  /\ parent[m] # n /\ parent[n] # m /\ home # m /\ m # NoNode
    BY <1>2, <1>6, <1>11, <2>1, <2>2, Sentinels DEF Children
  <2>3. m \in nodes =>
           /\ label'[m] = label[m] /\ (m \in containers' <=> m \in containers)
           /\ parent'[m] = parent[m] /\ tagged'[m] = tagged[m]
    BY <1>10, <2>1, <2>2
  <2>4. m \in nodes => Children(m)' = Children(m)
    BY <1>10, <2>2 DEF Children
  <2>5. m \in nodes => \A k \in Children(m) :
           /\ label'[k] = label[k] /\ tagged'[k] = tagged[k]
           /\ k \in containers' <=> k \in containers
    <3>1. ASSUME m \in nodes, NEW k \in Children(m)
          PROVE  k \in NodeIds /\ k # n /\ k \in nodes
      BY <2>2, <3>1 DEF Children, IInv, NoDanglingRows
    <3>2. ASSUME m \in nodes, NEW k \in Children(m) PROVE k \notin created
      BY <3>1, <3>2
    <3> QED BY <1>10, <3>1, <3>2
  <2> QED BY <2>1, <2>3, <2>4, <2>5, SameRepresentation
<1>12. Complete(front, NodeIds \ {n})
  <2>1. Joins(front, O, d) /\ Told(O) \subseteq Told(d)
    BY <1>2, <1>3, <1>6, <1>7 DEF Joins
  <2>2. Current(d, Representations')
    BY <1>1, <1>6
  <2>3. NodeIds \ {n} \in SUBSET NodeIds
    OBVIOUS
  <2> QED BY <1>3, <1>6, <1>11, <2>1, <2>2, <2>3, TellsAll
<1>13. ASSUME NEW m \in NodeIds
       PROVE  CopyAfter(Representations, batch', Len(batch'))[m] = Finally(Representations', m)
  <2>1. CopyAfter(Representations, batch', Len(batch'))[m] =
          IF m = n THEN Absent ELSE CopyAfter(Representations, front, Len(front))[m]
    <3>1. PICK before : before = Representations
      OBVIOUS
    <3>2. PICK all : all = batch' /\ Joins(all, front, <<e>>)
      BY <1>9 DEF Joins
    <3>3. CopyAfter(before, all, Len(all))[m] =
             IF Speaks(e, m) THEN e.resource ELSE CopyAfter(before, front, Len(front))[m]
      BY <3>2, OneMore
    <3> QED BY <1>8, <3>1, <3>2, <3>3 DEF Speaks
  <2>2. m = n => Finally(Representations', m) = Absent
    BY <1>1, <1>2 DEF Finally
  <2> QED BY <1>12, <2>1, <2>2 DEF Complete
<1>14. KnownTags(tags, batch') = tags'
  <2>1. PICK one \in Seq(Words(resources)) :
          one = <<e>> /\ \A i \in 1..Len(one) : one[i] = e
    BY OneWord
  <2>2. Tagless(one)
    BY <1>8, <2>1 DEF Tagless
  <2>3. batch' \in Seq(Words(resources)) /\ Tagless(batch')
    BY <1>7, <1>9, <2>1, <2>2, Joined
  <2>4. tags \in SUBSET Tags /\ tags' = tags
    BY DEF IInv, TypeOK, RemoveNode
  <2> QED BY <2>3, <2>4, NoMention
<1>15. NoneDangles(batch')
  <2>1. Joins(front, O, d)
    BY <1>7 DEF Joins
  <2>2. AllAnnounce(O, resources) /\ AllAnnounce(d, resources)
    BY <1>3, <1>6, CurrentAnnounces
  <2>3. AllAnnounce(front, resources)
    BY <2>1, <2>2, AnnouncementsJoined
  <2>4. ASSUME NEW m \in nodes' \ nodes PROVE LeadsWith(front, m)
    <3>1. LeadsWith(O, m) /\ m \in Told(O)
      BY <1>3, <1>10
    <3> QED BY <2>1, <3>1, LeadJoined
  <2>5. PICK all \in Seq(Words(resources)) : all = batch' /\ Joins(all, front, <<e>>)
    BY <1>9, OneWord, Joined DEF Joins
  <2>6. Complete(all, NodeIds)
    BY <1>13, <2>5 DEF Complete
  <2>7. NoneDangles(all)
    BY <1>1, <2>3, <2>4, <2>5, <2>6, DeletingIsClosed
  <2> QED BY <2>5, <2>7
<1> QED BY <1>13, <1>14, <1>15 DEF AllTold, Complete

(* Of the nodes, a change to tags touches those that bear it and those that embed them. *)
LEMMA RetaggedIsTold ==
    ASSUME IInv, NEW t \in Tags, UNCHANGED <<nodes, containers, label, parent>>,
           tagged' \in [NodeIds -> SUBSET Tags],
           \A m \in NodeIds : t \notin tagged[m] => tagged'[m] = tagged[m]
    PROVE  \E d \in Seq(Words(Representations')) :
              /\ d = Updated(Bearers(t), Representations')
                       \o Updated(ParentsOf(Bearers(t)), Representations')
              /\ Current(d, Representations') /\ Tagless(d)
              /\ \A m \in NodeIds \ Told(d) :
                    Finally(Representations', m) = Finally(Representations, m)
<1>1. PICK resources : resources = Representations'
  OBVIOUS
<1>2. DOMAIN resources = nodes /\ nodes \in SUBSET NodeIds
  BY <1>1 DEF Representations, IInv, TypeOK
<1>3. PICK U \in Seq(Words(resources)) :
        /\ U = Updated(Bearers(t), resources)
        /\ Told(U) = Bearers(t) \cap nodes /\ Current(U, resources) /\ Tagless(U)
  BY <1>2, UpdatedFacts
<1>4. PICK V \in Seq(Words(resources)) :
        /\ V = Updated(ParentsOf(Bearers(t)), resources)
        /\ Told(V) = ParentsOf(Bearers(t)) \cap nodes /\ Current(V, resources) /\ Tagless(V)
  BY <1>2, UpdatedFacts
<1>5. PICK d \in Seq(Words(resources)) :
        /\ d = U \o V /\ Told(d) = (Bearers(t) \cup ParentsOf(Bearers(t))) \cap nodes
        /\ Current(d, resources) /\ Tagless(d)
  BY <1>3, <1>4, Joined
<1>6. ASSUME NEW m \in NodeIds \ Told(d)
      PROVE  Finally(Representations', m) = Finally(Representations, m)
  <2>1. m \in nodes => tagged'[m] = tagged[m]
    BY <1>5 DEF Bearers
  <2>2. m \in nodes => \A k \in Children(m) : k \in NodeIds /\ tagged'[k] = tagged[k]
    BY <1>5 DEF Children, ParentsOf, Bearers
  <2>3. Children(m)' = Children(m)
    BY DEF Children
  <2> QED BY <2>1, <2>2, <2>3, SameRepresentation
<1>7. Current(d, Representations')
  BY <1>1, <1>5
<1>8. d = Updated(Bearers(t), Representations') \o Updated(ParentsOf(Bearers(t)), Representations')
  BY <1>1, <1>3, <1>4, <1>5
<1> QED BY <1>1, <1>5, <1>6, <1>7, <1>8

LEMMA TagCreatedIsTold ==
    ASSUME IInv, IInv', NEW t \in Tags, UNCHANGED <<nodes, containers, label, parent, tagged>>,
           tags' = tags \cup {t}, batch' = TagsCreated({t})
    PROVE  AllTold
<1>1. PICK resources : resources = Representations'
  OBVIOUS
<1>2. PICK T \in Seq(Words(resources)) : T = TagsCreated({t}) /\ Nodeless(T)
  BY TagsCreatedFacts
<1>3. Told(T) = {} /\ Current(T, Representations')
  BY <1>2, NodelessTellsNothing
<1>4. Representations' = Representations
  BY DEF Representations, Children
<1>5. Complete(batch', NodeIds)
  <2>1. \A n \in NodeIds : Finally(Representations', n) = Finally(Representations, n)
    BY <1>4
  <2> QED BY <1>2, <1>3, <2>1, AllCurrentTellsAll
<1>6. KnownTags(tags, batch') = tags'
  <2>1. PICK none \in Seq(Words(resources)) : none = <<>> /\ Tagless(none)
    BY NoWords
  <2>2. tags \in SUBSET Tags
    BY DEF IInv, TypeOK
  <2>3. KnownTags(tags, TagsCreated({t}) \o none) = tags \cup {t}
    BY <2>1, <2>2, CreatedTagsAreKnown
  <2>4. TagsCreated({t}) \o none = TagsCreated({t})
    BY <1>2, <2>1, ConcatEmptySeq
  <2> QED BY <2>3, <2>4
<1>7. NoneDangles(batch')
  <2>1. AllAnnounce(T, Representations')
    BY <1>2, NodelessAnnounces
  <2>2. NoneDangles(T)
    BY <2>1, AnnouncingIsClosed
  <2> QED BY <1>2, <2>2
<1> QED BY <1>5, <1>6, <1>7 DEF AllTold

LEMMA TagRenamedIsTold ==
    ASSUME IInv, IInv', NEW t \in tags, NEW u \in Tags, u \notin tags \ {t}, RenameTag(t, u), reply' = 200
    PROVE  AllTold
<1>1. /\ tags' = (tags \ {t}) \cup {u}
      /\ tagged' = [m \in NodeIds |->
                       IF t \in tagged[m] THEN (tagged[m] \ {t}) \cup {u} ELSE tagged[m]]
      /\ UNCHANGED <<nodes, containers, label, parent>>
      /\ batch' = <<TagEvent("updated", u, t)>> \o Updated(Bearers(t), Representations')
                       \o Updated(ParentsOf(Bearers(t)), Representations')
  BY DEF RenameTag, Refuse
<1>2. t \in Tags /\ tags \in SUBSET Tags /\ tagged' \in [NodeIds -> SUBSET Tags]
  BY <1>1 DEF IInv, TypeOK
<1>3. \A m \in NodeIds : t \notin tagged[m] => tagged'[m] = tagged[m]
  BY <1>1
<1>0. PICK resources : resources = Representations'
  OBVIOUS
<1>4. PICK d \in Seq(Words(resources)) :
        /\ d = Updated(Bearers(t), Representations')
                 \o Updated(ParentsOf(Bearers(t)), Representations')
        /\ Current(d, Representations') /\ Tagless(d)
        /\ \A m \in NodeIds \ Told(d) :
              Finally(Representations', m) = Finally(Representations, m)
  BY <1>0, <1>1, <1>2, <1>3, RetaggedIsTold
<1>5. PICK e \in Words(resources) :
        /\ e = TagEvent("updated", u, t) /\ e.kind = "tag" /\ e.operation = "updated"
        /\ e.about = u /\ e.previous = t
  BY <1>2, TagEventFacts
<1>6. PICK one \in Seq(Words(resources)) : one = <<e>> /\ \A i \in 1..Len(one) : one[i] = e
  BY OneWord
<1>7. batch' = one \o d
  <2>1. DOMAIN resources = nodes /\ nodes \in SUBSET NodeIds
    BY <1>0, <1>1 DEF Representations, IInv, TypeOK
  <2>2. PICK U \in Seq(Words(resources)) : U = Updated(Bearers(t), resources)
    BY <2>1, UpdatedFacts
  <2>3. PICK V \in Seq(Words(resources)) : V = Updated(ParentsOf(Bearers(t)), resources)
    BY <2>1, UpdatedFacts
  <2>4. (one \o U) \o V = one \o (U \o V)
    BY Regrouped
  <2>5. batch' = (one \o U) \o V /\ d = U \o V
    BY <1>0, <1>1, <1>4, <1>5, <1>6, <2>2, <2>3
  <2> QED BY <2>4, <2>5
<1>8. Complete(batch', NodeIds)
  <2>1. Nodeless(one)
    BY <1>5, <1>6 DEF Nodeless
  <2>2. Told(one) = {} /\ Joins(batch', one, d)
    BY <1>7, <2>1, NodelessTellsNothing DEF Joins
  <2> QED BY <1>4, <2>2, TellsAll
<1>9. KnownTags(tags, batch') = tags'
  <2>1. OneTagWord(one, e)
    BY <1>6, OneTagWordAlone
  <2>2. PICK all \in Seq(Words(resources)) : all = batch' /\ Joins(all, one, d)
    BY <1>7, Joined DEF Joins
  <2>3. OneTagWord(all, e)
    <3>1. Tagless(d)
      BY <1>4
    <3> QED BY <2>1, <2>2, <3>1, TagWordJoined
  <2>4. tags \in SUBSET Tags /\ e.kind = "tag" /\ e.about \in Tags /\ e.previous \in Tags
    BY <1>2, <1>5
  <2>5. e.operation # "deleted" =>
          KnownTags(tags, all) = (tags \ {e.about, e.previous}) \cup {e.about}
    BY <2>3, <2>4, TagWordIsKnown
  <2> QED BY <1>1, <1>5, <2>2, <2>5
<1>10. NoneDangles(batch')
  <2>1. Nodeless(one)
    BY <1>5, <1>6 DEF Nodeless
  <2>2. AllAnnounce(one, resources) /\ AllAnnounce(d, resources)
    BY <1>0, <1>4, <2>1, NodelessAnnounces, CurrentAnnounces
  <2>3. PICK all \in Seq(Words(resources)) : all = batch' /\ Joins(all, one, d)
    BY <1>7, Joined DEF Joins
  <2>4. AllAnnounce(all, resources)
    BY <2>2, <2>3, AnnouncementsJoined
  <2>5. NoneDangles(all)
    BY <1>0, <1>1, <2>4, AnnouncingIsClosed
  <2> QED BY <2>3, <2>5
<1> QED BY <1>8, <1>9, <1>10 DEF AllTold

LEMMA TagDeletedIsTold ==
    ASSUME IInv, IInv', NEW t \in tags, DeleteTag(t), reply' = 200
    PROVE  AllTold
<1>1. /\ tags' = tags \ {t}
      /\ tagged' = [m \in NodeIds |-> tagged[m] \ {t}]
      /\ UNCHANGED <<nodes, containers, label, parent>>
      /\ batch' = Updated(Bearers(t), Representations')
                       \o Updated(ParentsOf(Bearers(t)), Representations')
                       \o <<TagEvent("deleted", t, t)>>
  BY DEF DeleteTag, Refuse
<1>2. t \in Tags /\ tags \in SUBSET Tags /\ tagged' \in [NodeIds -> SUBSET Tags]
  BY <1>1 DEF IInv, TypeOK
<1>3. \A m \in NodeIds : t \notin tagged[m] => tagged'[m] = tagged[m]
  BY <1>1
<1>0. PICK resources : resources = Representations'
  OBVIOUS
<1>4. PICK d \in Seq(Words(resources)) :
        /\ d = Updated(Bearers(t), Representations')
                 \o Updated(ParentsOf(Bearers(t)), Representations')
        /\ Current(d, Representations') /\ Tagless(d)
        /\ \A m \in NodeIds \ Told(d) :
              Finally(Representations', m) = Finally(Representations, m)
  BY <1>0, <1>1, <1>2, <1>3, RetaggedIsTold
<1>5. PICK e \in Words(resources) :
        /\ e = TagEvent("deleted", t, t) /\ e.kind = "tag" /\ e.operation = "deleted"
        /\ e.about = t /\ e.previous = t
  BY <1>2, TagEventFacts
<1>6. batch' = d \o <<e>>
  BY <1>1, <1>4, <1>5
<1>7. Complete(batch', NodeIds)
  <2>1. Complete(d, NodeIds)
    BY <1>4, AllCurrentTellsAll
  <2>2. ASSUME NEW m \in NodeIds
        PROVE  CopyAfter(Representations, batch', Len(batch'))[m]
                 = CopyAfter(Representations, d, Len(d))[m]
    <3>1. PICK before : before = Representations
      OBVIOUS
    <3>2. PICK all : all = batch' /\ Joins(all, d, <<e>>)
      BY <1>6 DEF Joins
    <3>3. CopyAfter(before, all, Len(all))[m] =
             IF Speaks(e, m) THEN e.resource ELSE CopyAfter(before, d, Len(d))[m]
      BY <3>2, OneMore
    <3> QED BY <1>5, <3>1, <3>2, <3>3 DEF Speaks
  <2> QED BY <2>1, <2>2 DEF Complete
<1>8. KnownTags(tags, batch') = tags'
  <2>1. PICK one \in Seq(Words(resources)) : one = <<e>> /\ OneTagWord(one, e)
    BY OneTagWordAlone
  <2>2. PICK all \in Seq(Words(resources)) : all = batch' /\ Joins(all, d, one)
    BY <1>6, <2>1, Joined DEF Joins
  <2>3. OneTagWord(all, e)
    <3>1. Tagless(d)
      BY <1>4
    <3> QED BY <2>1, <2>2, <3>1, TagWordJoined
  <2>4. tags \in SUBSET Tags /\ e.kind = "tag" /\ e.about \in Tags /\ e.previous \in Tags
    BY <1>2, <1>5
  <2>5. e.operation = "deleted" => KnownTags(tags, all) = tags \ {e.about, e.previous}
    BY <2>3, <2>4, TagWordIsKnown
  <2> QED BY <1>1, <1>5, <2>2, <2>5
<1>9. NoneDangles(batch')
  <2>1. PICK one \in Seq(Words(resources)) : one = <<e>> /\ \A i \in 1..Len(one) : one[i] = e
    BY OneWord
  <2>2. Nodeless(one)
    BY <1>5, <2>1 DEF Nodeless
  <2>3. AllAnnounce(one, resources) /\ AllAnnounce(d, resources)
    BY <1>0, <1>4, <2>2, NodelessAnnounces, CurrentAnnounces
  <2>4. PICK all \in Seq(Words(resources)) : all = batch' /\ Joins(all, d, one)
    BY <1>6, <2>1, Joined DEF Joins
  <2>5. AllAnnounce(all, resources)
    BY <2>3, <2>4, AnnouncementsJoined
  <2>6. NoneDangles(all)
    BY <1>0, <1>1, <2>5, AnnouncingIsClosed
  <2> QED BY <2>4, <2>6
<1> QED BY <1>7, <1>8, <1>9 DEF AllTold
-----------------------------------------------------------------------------
LEMMA SuccessIsTold ==
    ASSUME IInv, Next, reply' \in {200, 201}
    PROVE  AllTold
<1>0. IInv' /\ nodes \in SUBSET NodeIds /\ containers \in SUBSET nodes
  BY StepKeepsIInv DEF IInv, TypeOK
<1>1. \A code \in {400, 404, 409, 500} : ~Refuse(code)
  BY DEF Refuse
<1>2. ASSUME NEW n \in NodeIds \ nodes, NEW l \in Labels, NEW c \in Kinds,
             NEW p \in Parents, NEW ts \in TagLists, CreateNode(n, l, c, p, ts)
      PROVE  AllTold
  <2>1. ts \in SUBSET Tags /\ Created(n, l, c, p, ts)
    BY <1>2, CreateShapes DEF RefuseCreate
  <2>2. parent[n] = NoNode /\ NoNode \notin DOMAIN Representations'
    BY <1>0, Sentinels DEF IInv, TypeOK, NoDanglingRows, Representations
  <2>3. Updated({p}, Representations') = Updated({parent[n], p}, Representations')
    <3>1. {p} \cap DOMAIN Representations' = {parent[n], p} \cap DOMAIN Representations'
      BY <2>2
    <3> QED BY <3>1 DEF Updated
  <2>4. batch' = TagsCreated(ts) \o NodeEvents("created", <<n>>, Representations')
                   \o Updated({parent[n], p}, Representations')
    BY <2>1, <2>3 DEF Created, CreateEvents
  <2> QED BY <1>0, <2>1, <2>4, WrittenIsTold DEF Created
<1>3. ASSUME NEW n \in nodes, NEW l \in Labels \cup {Keep}, NEW c \in Kinds \cup {Keep},
             NEW p \in Parents \cup {Keep}, NEW ts \in TagLists \cup {Keep},
             UpdateNode(n, l, c, p, ts)
      PROVE  AllTold
  <2>1. PICK l2 \in Labels \cup {NoLabel}, c2 \in Kinds, p2 \in Parents, ts2 \in SUBSET Tags :
          Overwritten(n, l2, c2, p2, ts2)
    <3>1. ~Refuse(400)
      BY <1>1
    <3> QED BY <1>3, <3>1, UpdateShapes
  <2>2. n \in NodeIds
    BY <1>0
  <2> QED BY <1>0, <2>1, <2>2, WrittenIsTold DEF Overwritten
<1>4. ASSUME NEW n \in NodeIds, DeleteNode(n)
      PROVE  AllTold
  <2>1. /\ n \in nodes
        /\ \/ RemoveNode(n, NoNode, {})
           \/ \E home \in FoundOrphanContainer \ {n} : RemoveNode(n, home, {})
           \/ \E o \in NodeIds \ nodes : RemoveNode(n, o, {o})
    <3>1. ~\E code \in {404, 500} : Refuse(code)
      BY <1>1
    <3>2. \/ \E code \in {404, 500} : Refuse(code)
          \/ /\ n \in nodes
             /\ \/ RemoveNode(n, NoNode, {})
                \/ /\ OrphanLocation # NoLabel
                   /\ \E home \in FoundOrphanContainer \ {n} : RemoveNode(n, home, {})
                \/ /\ OrphanLocation # NoLabel
                   /\ \E o \in NodeIds \ nodes : RemoveNode(n, o, {o})
      BY ONLY IInv, n \in NodeIds, <1>4, DeleteShapes
    <3> QED BY ONLY <3>1, <3>2
  <2>2. FoundOrphanContainer \subseteq nodes
    BY <1>0 DEF FoundOrphanContainer, OrphanContainers
  <2>3. PICK home, created :
          /\ RemoveNode(n, home, created)
          /\ home \in Parents \ {n}
          /\ \/ created = {} /\ home \in nodes \cup {NoNode}
             \/ created = {home} /\ home \in NodeIds \ nodes
    BY <1>0, <2>1, <2>2, Sentinels DEF Parents
  <2> QED BY <1>0, <2>1, <2>3, RemovedIsTold
<1>5. ASSUME NEW t \in Tags, \/ CreateTag(t) \/ CreateTagInterrupted(t) \/ DeleteTag(t)
                             \/ \E u \in Tags : RenameTag(t, u)
      PROVE  AllTold
  <2>1. ~CreateTagInterrupted(t)
    BY DEF CreateTagInterrupted
  <2>2. CASE CreateTag(t)
    BY <1>0, <1>1, <2>2, TagCreatedIsTold DEF CreateTag
  <2>3. CASE DeleteTag(t)
    <3>1. t \in tags /\ reply' = 200
      BY <1>1, <2>3 DEF DeleteTag
    <3> QED BY <1>0, <2>3, <3>1, TagDeletedIsTold
  <2>4. ASSUME NEW u \in Tags, RenameTag(t, u) PROVE AllTold
    <3>1. t \in tags /\ u \notin tags \ {t} /\ reply' = 200
      BY <1>1, <2>4 DEF RenameTag
    <3> QED BY <1>0, <2>4, <3>1, TagRenamedIsTold
  <2> QED BY <1>5, <2>1, <2>2, <2>3, <2>4
<1>6. ASSUME NEW n \in NodeIds, NEW l \in Labels, NEW c \in Kinds, CreateInterrupted(n, l, c)
      PROVE  FALSE
  BY <1>6 DEF CreateInterrupted, RefuseCreate
<1>7. ASSUME NEW n \in NodeIds, NEW l \in Labels, NEW c \in Kinds, NEW p \in Parents,
             NEW ts \in TagLists, PostNode(n, l, c, p, ts) \/ PutNode(n, l, c, p, ts)
      PROVE  AllTold
  BY <1>2, <1>3, <1>7 DEF PostNode, PutNode
<1>8. ASSUME NEW n \in NodeIds, NEW l \in Labels \cup {Keep}, NEW c \in Kinds \cup {Keep},
             NEW p \in Parents \cup {Keep}, NEW ts \in TagLists \cup {Keep},
             PatchNode(n, l, c, p, ts)
      PROVE  AllTold
  BY <1>1, <1>3, <1>8 DEF PatchNode
<1> QED BY <1>4, <1>5, <1>6, <1>7, <1>8 DEF Next

LEMMA FailureIsSilent ==
    ASSUME Next, reply' \notin {200, 201}
    PROVE  batch' = <<>>
<1>1. ASSUME NEW code, Refuse(code) PROVE batch' = <<>>
  BY <1>1 DEF Refuse
<1>2. ASSUME NEW n, NEW l, NEW c, NEW code, RefuseCreate(n, l, c, code) PROVE batch' = <<>>
  BY <1>2 DEF RefuseCreate
<1>3. ASSUME NEW n, NEW l, NEW c, NEW p, NEW ts, CreateNode(n, l, c, p, ts)
      PROVE  batch' = <<>>
  BY <1>2, <1>3 DEF CreateNode
<1>4. ASSUME NEW n, NEW l, NEW c, NEW p, NEW ts, UpdateNode(n, l, c, p, ts)
      PROVE  batch' = <<>>
  BY <1>1, <1>4 DEF UpdateNode
<1>5. ASSUME NEW n, DeleteNode(n) PROVE batch' = <<>>
  BY <1>1, <1>5 DEF DeleteNode, RemoveNode
<1>6. ASSUME NEW t, \/ CreateTag(t) \/ CreateTagInterrupted(t) \/ DeleteTag(t)
                   \/ \E u \in Tags : RenameTag(t, u)
      PROVE  batch' = <<>>
  BY <1>1, <1>6 DEF CreateTag, CreateTagInterrupted, DeleteTag, RenameTag
<1> QED BY <1>1, <1>2, <1>3, <1>4, <1>5, <1>6
        DEF Next, PostNode, PutNode, PatchNode, CreateInterrupted

(* The events of every request that succeeds, one after the other, turn what a        *)
(* subscriber knew of the graph into what the graph now is, tags, embedded children   *)
(* and the orphan container included.                                               *)
THEOREM EventsTellEverything == Spec => EventsCarryEveryChange
<1>1. ASSUME IInv, Next, reply' \in {200, 201}
      PROVE  /\ CopyAfter(Representations, batch', Len(batch')) = CopyAfter(Representations', <<>>, 0)
             /\ KnownTags(tags, batch') = tags'
  <2>1. AllTold
    BY <1>1, SuccessIsTold
  <2>2. ASSUME NEW n \in NodeIds
        PROVE  CopyAfter(Representations', <<>>, 0)[n] = Finally(Representations', n)
    <3>1. PICK resources, none : resources = Representations' /\ none = <<>>
      OBVIOUS
    <3>2. CopyAfter(resources, none, 0)[n] = Finally(resources, n)
      BY LastWord
    <3> QED BY <3>1, <3>2
  <2>3. \A n \in NodeIds : CopyAfter(Representations, batch', Len(batch'))[n]
                             = CopyAfter(Representations', <<>>, 0)[n]
    BY <2>1, <2>2 DEF AllTold, Complete
  <2>4. CopyAfter(Representations, batch', Len(batch')) = CopyAfter(Representations', <<>>, 0)
    BY <2>3 DEF CopyAfter
  <2> QED BY <2>1, <2>4 DEF AllTold
<1>2. IInv /\ [Next]_vars =>
        [reply' \in {200, 201} =>
            /\ CopyAfter(Representations, batch', Len(batch')) = CopyAfter(Representations', <<>>, 0)
            /\ KnownTags(tags, batch') = tags']_vars
  BY <1>1
<1> QED
  BY <1>2, InvariantHolds, PTL DEF Spec, EventsCarryEveryChange

-----------------------------------------------------------------------------
(* A subscriber that goes on from request to request.                          *)

(* One that held the whole graph knows all that an event names.                      *)
LEMMA WholeGraphHangsTogether ==
    ASSUME IInv, Next
    PROVE  NoneDangles(batch')
<1>1. CASE reply' \in {200, 201}
  BY <1>1, SuccessIsTold DEF AllTold
<1>2. CASE reply' \notin {200, 201}
  <2>1. PICK none : none = <<>> /\ batch' = none
    BY <1>2, FailureIsSilent
  <2>2. Len(none) = 0 /\ DOMAIN none = 1..0 /\ 1..0 = {}
    BY <2>1
  <2> QED BY <2>1, <2>2 DEF NoneDangles, IsBatch
<1> QED BY <1>1, <1>2

(* What is held is true of the graph, and what is not is bare.                       *)
Follows ==
    /\ DOMAIN held = NodeIds
    /\ \A n \in NodeIds : held[n] # Absent => held[n] = Finally(Representations, n)
    /\ \A n \in Unannounced : EarlyCommit /\ parent[n] = NoNode /\ Children(n) = {} /\ tagged[n] = {}

LEMMA SnapshotIsGraph ==
    ASSUME NEW n \in NodeIds
    PROVE  Snapshot[n] = Finally(Representations, n) /\ DOMAIN Snapshot = NodeIds
<1>1. PICK resources, none : resources = Representations /\ none = <<>>
  OBVIOUS
<1>2. CopyAfter(resources, none, 0)[n] = Finally(resources, n)
  BY LastWord
<1> QED BY <1>1, <1>2 DEF Snapshot, CopyAfter

(* A failed create adds a row at most, and nothing that refers to it.                *)
LEMMA FailureShapes ==
    ASSUME Next, reply' \notin {200, 201}
    PROVE  \/ UNCHANGED graph
           \/ EarlyCommit /\ UNCHANGED <<nodes, containers, label, parent, tagged>>
           \/ /\ EarlyCommit /\ UNCHANGED <<parent, tagged>>
              /\ \E n \in NodeIds \ nodes : \E l, c : WriteRow(n, l, c)
<1> DEFINE Shapes == \/ UNCHANGED graph
                     \/ EarlyCommit /\ UNCHANGED <<nodes, containers, label, parent, tagged>>
                     \/ /\ EarlyCommit /\ UNCHANGED <<parent, tagged>>
                        /\ \E n \in NodeIds \ nodes : \E l, c : WriteRow(n, l, c)
<1>1. ASSUME NEW code, Refuse(code) PROVE Shapes
  BY <1>1 DEF Refuse
<1>2. ASSUME NEW n \in NodeIds \ nodes, NEW l, NEW c, NEW code, RefuseCreate(n, l, c, code)
      PROVE  Shapes
  BY <1>2 DEF RefuseCreate, graph
<1>3. ASSUME NEW n \in NodeIds \ nodes, NEW l, NEW c, NEW p, NEW ts, CreateNode(n, l, c, p, ts)
      PROVE  Shapes
  <2>1. \E code : RefuseCreate(n, l, c, code)
    BY <1>3 DEF CreateNode
  <2> QED BY <1>2, <2>1
<1>4. ASSUME NEW n, NEW l, NEW c, NEW p, NEW ts, UpdateNode(n, l, c, p, ts) PROVE Shapes
  <2>1. Refuse(400)
    BY <1>4 DEF UpdateNode
  <2> QED BY <1>1, <2>1
<1>5. ASSUME NEW n, DeleteNode(n) PROVE Shapes
  <2>1. \E code : Refuse(code)
    BY <1>5 DEF DeleteNode, RemoveNode
  <2> QED BY <1>1, <2>1
<1>6. ASSUME NEW t, \/ CreateTag(t) \/ CreateTagInterrupted(t) \/ DeleteTag(t)
                   \/ \E u \in Tags : RenameTag(t, u)
      PROVE  Shapes
  <2>1. (\E code : Refuse(code)) \/ CreateTagInterrupted(t)
    BY <1>6 DEF CreateTag, DeleteTag, RenameTag
  <2> QED BY <1>1, <2>1 DEF CreateTagInterrupted
<1> HIDE DEF Shapes
<1>7. Shapes
  BY <1>1, <1>2, <1>3, <1>4, <1>5, <1>6 DEF Next, PostNode, PutNode, PatchNode, CreateInterrupted
<1> QED BY <1>7 DEF Shapes

LEMMA FailureKeepsResources ==
    ASSUME IInv, Next, reply' \notin {200, 201}, NEW m \in NodeIds, m \in nodes \/ m \notin nodes'
    PROVE  Finally(Representations', m) = Finally(Representations, m)
<1>1. CASE UNCHANGED graph
  BY <1>1, SameRepresentation DEF graph, Children
<1>2. CASE UNCHANGED <<nodes, containers, label, parent, tagged>>
  BY <1>2, SameRepresentation DEF Children
<1>3. ASSUME UNCHANGED <<parent, tagged>>, NEW n \in NodeIds \ nodes, NEW l, NEW c, WriteRow(n, l, c)
      PROVE  Finally(Representations', m) = Finally(Representations, m)
  <2>1. m # n /\ n \notin Children(m)
    BY <1>3, Sentinels DEF WriteRow, IInv, NoDanglingRows, TypeOK, Children
  <2>2. \A q \in NodeIds \ {n} :
           (q \in nodes' <=> q \in nodes) /\ label'[q] = label[q] /\ (q \in containers' <=> q \in containers)
    BY <1>3 DEF WriteRow, IInv, TypeOK
  <2>3. Children(m)' = Children(m) /\ Children(m) \in SUBSET NodeIds
    BY <1>3 DEF Children
  <2>4. parent' = parent /\ tagged' = tagged
    BY <1>3
  <2>5. (m \in nodes' <=> m \in nodes) /\ label'[m] = label[m] /\ (m \in containers' <=> m \in containers)
    BY <2>1, <2>2
  <2>6. \A q \in Children(m) :
           label'[q] = label[q] /\ tagged'[q] = tagged[q] /\ (q \in containers' <=> q \in containers)
    BY <2>1, <2>2, <2>3, <2>4
  <2> QED BY <2>3, <2>4, <2>5, <2>6, SameRepresentation
<1> QED BY <1>1, <1>2, <1>3, FailureShapes

(* The fields of a representation.                                                *)
LEMMA Fields ==
    ASSUME NEW n \in nodes
    PROVE  LET r == Representations[n]
           IN  /\ r # Absent /\ Finally(Representations, n) = r
               /\ r.parent = parent[n] /\ r.tags = tagged[n] /\ DOMAIN r.children = Children(n)
<1>1. PICK embedded :
        /\ DOMAIN embedded = Children(n)
        /\ Representations[n] = [label |-> label[n], container |-> n \in containers,
             parent |-> parent[n], tags |-> tagged[n], children |-> embedded]
  BY DEF Representations
<1>2. Representations[n] # Absent /\ Representations[n].parent = parent[n]
        /\ Representations[n].children = embedded
  BY <1>1, ResourceFields
<1>3. Representations[n].tags = tagged[n]
  BY <1>1
<1>4. n \in DOMAIN Representations
  BY DEF Representations
<1> QED BY <1>1, <1>2, <1>3, <1>4 DEF Finally

LEMMA NextFields ==
    ASSUME NEW n \in nodes'
    PROVE  LET r == Representations'[n]
           IN  /\ r # Absent /\ Finally(Representations', n) = r
               /\ r.parent = parent'[n] /\ r.tags = tagged'[n] /\ DOMAIN r.children = Children(n)'
<1>1. PICK embedded :
        /\ DOMAIN embedded = Children(n)'
        /\ Representations'[n] = [label |-> label'[n], container |-> n \in containers',
             parent |-> parent'[n], tags |-> tagged'[n], children |-> embedded]
  BY DEF Representations
<1>2. Representations'[n] # Absent /\ Representations'[n].parent = parent'[n]
        /\ Representations'[n].children = embedded
  BY <1>1, ResourceFields
<1>3. Representations'[n].tags = tagged'[n]
  BY <1>1
<1>4. n \in DOMAIN Representations'
  BY DEF Representations
<1> QED BY <1>1, <1>2, <1>3, <1>4 DEF Finally

LEMMA SameCopy ==
    ASSUME NEW b, NEW k \in Nat, NEW n \in NodeIds, NEW known, DOMAIN known = NodeIds
    PROVE  \/ CopyAfter(known, b, k)[n] = CopyAfter(Representations, b, k)[n]
           \/ /\ CopyAfter(known, b, k)[n] = known[n]
              /\ CopyAfter(Representations, b, k)[n] = Finally(Representations, n)
<1>1. PICK before : before = Representations
  OBVIOUS
<1>2. \/ /\ \A i \in 1..k : ~Speaks(b[i], n)
         /\ CopyAfter(before, b, k)[n] = Finally(before, n)
      \/ \E i \in 1..k :
            /\ Speaks(b[i], n)
            /\ \A j \in 1..k : Speaks(b[j], n) => j <= i
            /\ CopyAfter(before, b, k)[n] = b[i].resource
  BY LastWord
<1>3. \/ /\ \A i \in 1..k : ~Speaks(b[i], n)
         /\ CopyAfter(known, b, k)[n] = Finally(known, n)
      \/ \E i \in 1..k :
            /\ Speaks(b[i], n)
            /\ \A j \in 1..k : Speaks(b[j], n) => j <= i
            /\ CopyAfter(known, b, k)[n] = b[i].resource
  BY LastWord
<1>4. CASE \A i \in 1..k : ~Speaks(b[i], n)
  BY <1>1, <1>2, <1>3, <1>4 DEF Finally
<1>5. CASE \E i \in 1..k : Speaks(b[i], n)
  <2>1. PICK i \in 1..k : /\ Speaks(b[i], n)
                          /\ \A j \in 1..k : Speaks(b[j], n) => j <= i
                          /\ CopyAfter(before, b, k)[n] = b[i].resource
    BY <1>2, <1>5
  <2>2. PICK j \in 1..k : /\ Speaks(b[j], n)
                          /\ \A h \in 1..k : Speaks(b[h], n) => h <= j
                          /\ CopyAfter(known, b, k)[n] = b[j].resource
    BY <1>3, <1>5
  <2>3. i <= j /\ j <= i /\ i \in Nat /\ j \in Nat
    BY <2>1, <2>2
  <2>4. i = j
    BY <2>3
  <2> QED BY <1>1, <2>1, <2>2, <2>4
<1> QED BY <1>4, <1>5

LEMMA StepFollows ==
    ASSUME IInv, Follows, Next, Receive
    PROVE  Follows'
<1>1. DOMAIN held' = NodeIds /\ DOMAIN held = NodeIds
  BY DEF Receive, CopyAfter, Follows
<1>2. IInv'
  BY StepKeepsIInv
<1>3. nodes \in SUBSET NodeIds /\ nodes' \in SUBSET NodeIds
  BY <1>2 DEF IInv, TypeOK
<1>4. CASE reply' \in {200, 201}
  <2>1. AllTold
    BY <1>4, SuccessIsTold
  <2>2. PICK l : l = Len(batch')
    OBVIOUS
  <2>3. CASE l \in Nat
    <3>1. ASSUME NEW n \in NodeIds
          PROVE  \/ held'[n] = Finally(Representations', n)
                 \/ held'[n] = held[n] /\ Finally(Representations', n) = Finally(Representations, n)
      <4>1. CopyAfter(Representations, batch', l)[n] = Finally(Representations', n)
        BY <2>1, <2>2 DEF AllTold, Complete
      <4>2. held' = CopyAfter(held, batch', l)
        BY <2>2 DEF Receive
      <4> QED BY <1>1, <2>3, <4>1, <4>2, SameCopy
    <3>2. ASSUME NEW n \in NodeIds, held'[n] # Absent PROVE held'[n] = Finally(Representations', n)
      BY <3>1, <3>2 DEF Follows
    <3>3. ASSUME NEW n \in nodes', held'[n] = Absent
          PROVE  EarlyCommit /\ parent'[n] = NoNode /\ Children(n)' = {} /\ tagged'[n] = {}
      <4>1. n \in NodeIds
        BY <1>3
      <4>2. held[n] = Absent /\ Finally(Representations', n) = Finally(Representations, n)
        BY <3>1, <3>3, <4>1, NextFields
      <4>3. n \in nodes
        <5>1. Finally(Representations, n) # Absent
          BY <4>2, NextFields
        <5> QED BY <5>1 DEF Finally, Representations
      <4>4. n \in Unannounced
        BY <4>2, <4>3 DEF Unannounced
      <4>5. EarlyCommit /\ parent[n] = NoNode /\ Children(n) = {} /\ tagged[n] = {}
        BY <4>4 DEF Follows
      <4> QED BY <4>2, <4>3, <4>5, Fields, NextFields
    <3> QED BY <1>1, <3>2, <3>3 DEF Follows, Unannounced
  <2>4. l \in Nat
    BY <2>2, WholeGraphHangsTogether DEF NoneDangles, IsBatch
  <2> QED BY <2>3, <2>4
<1>5. CASE reply' \notin {200, 201}
  <2>1. ASSUME NEW n \in NodeIds PROVE held'[n] = held[n]
    <3>1. PICK none : none = <<>> /\ batch' = none
      BY <1>5, FailureIsSilent
    <3>2. Len(none) = 0
      BY <3>1
    <3>3. CopyAfter(held, none, 0)[n] = Finally(held, n)
      BY LastWord
    <3> QED BY <1>1, <3>1, <3>2, <3>3 DEF Receive, Finally
  <2>2. ASSUME NEW n \in NodeIds, held'[n] # Absent PROVE held'[n] = Finally(Representations', n)
    <3>1. held[n] # Absent /\ held[n] = Finally(Representations, n)
      BY <2>1, <2>2 DEF Follows
    <3>2. n \in nodes
      BY <3>1 DEF Finally, Representations
    <3> QED BY <1>5, <2>1, <3>1, <3>2, FailureKeepsResources
  <2>3. ASSUME NEW n \in nodes', held'[n] = Absent
        PROVE  EarlyCommit /\ parent'[n] = NoNode /\ Children(n)' = {} /\ tagged'[n] = {}
    <3>1. n \in NodeIds
      BY <1>3
    <3>2. CASE n \in nodes
      <4>1. n \in Unannounced
        BY <2>1, <2>3, <3>1, <3>2 DEF Unannounced
      <4>2. EarlyCommit /\ parent[n] = NoNode /\ Children(n) = {} /\ tagged[n] = {}
        BY <4>1 DEF Follows
      <4>3. Finally(Representations', n) = Finally(Representations, n)
        BY <1>5, <3>1, <3>2, FailureKeepsResources
      <4> QED BY <3>2, <4>2, <4>3, Fields, NextFields
    <3>3. CASE n \notin nodes
      <4>1. EarlyCommit /\ parent' = parent /\ tagged' = tagged
        BY <1>5, <3>3, FailureShapes DEF graph
      <4>2. parent[n] = NoNode /\ Children(n) = {} /\ tagged[n] = {}
        BY <3>1, <3>3, Sentinels DEF IInv, NoDanglingRows, Children
      <4> QED BY <4>1, <4>2 DEF Children
    <3> QED BY <3>2, <3>3
  <2> QED BY <1>1, <2>2, <2>3 DEF Follows, Unannounced
<1> QED BY <1>4, <1>5

(* Nobody names a bare row.                                                            *)
LEMMA NextHeldIsClosed ==
    ASSUME IInv', Follows'
    PROVE  Closed(held')
<1>1. ASSUME NEW n \in NodeIds, held'[n] # Absent
      PROVE  /\ n \in nodes' /\ held'[n] = Representations'[n]
             /\ held'[n].parent = parent'[n] /\ DOMAIN held'[n].children = Children(n)'
  <2>1. held'[n] = Finally(Representations', n)
    BY <1>1 DEF Follows
  <2>2. n \in nodes'
    BY <1>1, <2>1 DEF Finally, Representations
  <2> QED BY <2>1, <2>2, NextFields
<1>2. \A m \in nodes' : held'[m] = Absent => parent'[m] = NoNode /\ Children(m)' = {}
  BY DEF Follows, Unannounced
<1>3. ASSUME NEW n \in NodeIds, held'[n] # Absent
      PROVE  /\ held'[n].parent \in Known(held') \cup {NoNode}
             /\ DOMAIN held'[n].children \subseteq Known(held')
  <2>1. parent'[n] # NoNode => parent'[n] \in NodeIds /\ parent'[n] \in nodes'
    BY DEF IInv, TypeOK, NoDanglingRows
  <2>2. parent'[n] # NoNode => held'[parent'[n]] # Absent
    BY <1>2, <2>1 DEF Children
  <2>3. ASSUME NEW m \in Children(n)' PROVE m \in NodeIds /\ held'[m] # Absent
    <3>1. m \in NodeIds /\ parent'[m] = n /\ n # NoNode
      BY Sentinels DEF Children
    <3>2. m \in nodes'
      BY <3>1 DEF IInv, NoDanglingRows
    <3> QED BY <1>2, <3>1, <3>2
  <2> QED BY <1>1, <1>3, <2>1, <2>2, <2>3 DEF Known
<1> QED BY <1>3 DEF Closed, NamesOnly, Known

LEMMA StepDanglesNothing ==
    ASSUME IInv, Follows, Next, Receive, NEW k \in DOMAIN batch'
    PROVE  LET copy == CopyAfter(held, batch', k)
               left == IF EarlyCommit /\ k < Len(batch') THEN Unannounced ELSE {}
           IN  NamesOnly(copy, Known(copy) \cup left)
<1> DEFINE copy == CopyAfter(held, batch', k)
           full == CopyAfter(Representations, batch', k)
<1>1. k \in 1..Len(batch') /\ Len(batch') \in Nat /\ k \in Nat
  BY WholeGraphHangsTogether DEF NoneDangles, IsBatch
<1>2. Closed(full)
  BY WholeGraphHangsTogether DEF NoneDangles
<1>3. ASSUME NEW n \in NodeIds
      PROVE  /\ copy[n] # Absent => copy[n] = full[n]
             /\ full[n] # Absent => copy[n] # Absent \/ n \in Unannounced
  <2>1. \/ copy[n] = full[n]
        \/ copy[n] = held[n] /\ full[n] = Finally(Representations, n)
    BY <1>1, SameCopy DEF Follows
  <2>2. held[n] # Absent => held[n] = Finally(Representations, n)
    BY DEF Follows
  <2>3. held[n] = Absent /\ Finally(Representations, n) # Absent => n \in Unannounced
    BY DEF Finally, Representations, Unannounced
  <2> HIDE DEF copy, full
  <2> QED BY <2>1, <2>2, <2>3
<1>4. NamesOnly(copy, Known(copy) \cup Unannounced)
  <2> HIDE DEF copy, full
  <2>1. Known(copy) \subseteq Known(full) /\ Known(full) \subseteq Known(copy) \cup Unannounced
    BY <1>3 DEF Known
  <2> QED BY <1>2, <1>3, <2>1 DEF Closed, NamesOnly, Known
<1>5. CASE EarlyCommit /\ k < Len(batch')
  BY <1>4, <1>5
<1>6. CASE ~EarlyCommit
  <2>1. Unannounced = {}
    BY <1>6 DEF Follows
  <2> QED BY <1>4, <1>6, <2>1
<1>7. CASE EarlyCommit /\ ~(k < Len(batch'))
  <2>1. copy = held'
    BY <1>1, <1>7 DEF Receive
  <2>2. Closed(held')
    BY StepFollows, StepKeepsIInv, NextHeldIsClosed
  <2> QED BY <1>7, <2>1, <2>2 DEF Closed
<1> QED BY <1>5, <1>6, <1>7

LEMMA FollowerInvariant == FollowerSpec => [](IInv /\ Follows)
<1>1. FollowerInit => IInv /\ Follows
  <2> SUFFICES ASSUME FollowerInit PROVE IInv /\ Follows
    OBVIOUS
  <2>1. IInv
    BY InitEstablishesIInv DEF FollowerInit
  <2>2. \A n \in NodeIds : held[n] = Finally(Representations, n)
    BY SnapshotIsGraph DEF FollowerInit
  <2>3. DOMAIN held = NodeIds
    BY DEF FollowerInit, Snapshot, CopyAfter
  <2>4. nodes = {}
    BY DEF FollowerInit, Init
  <2> QED BY <2>1, <2>2, <2>3, <2>4 DEF Follows, Unannounced
<1>2. IInv /\ Follows /\ [FollowerNext]_<<vars, held>> => (IInv /\ Follows)'
  <2> SUFFICES ASSUME IInv, Follows, [FollowerNext]_<<vars, held>> PROVE IInv' /\ Follows'
    OBVIOUS
  <2>1. CASE Next /\ Receive
    BY <2>1, StepFollows, StepKeepsIInv
  <2>2. CASE Reload
    <3>1. UNCHANGED vars /\ IInv'
      BY <2>2, StepKeepsIInv DEF Reload
    <3>2. \A n \in NodeIds : held'[n] = Finally(Representations, n)
      BY <2>2, SnapshotIsGraph DEF Reload
    <3>3. DOMAIN held' = NodeIds
      BY <2>2 DEF Reload, Snapshot, CopyAfter
    <3>4. Representations' = Representations /\ nodes' = nodes
      BY <3>1 DEF vars, Representations, Children
    <3>5. nodes \in SUBSET NodeIds
      BY DEF IInv, TypeOK
    <3>6. \A n \in nodes : held'[n] # Absent
      BY <3>2, <3>5, Fields
    <3> QED BY <3>1, <3>2, <3>3, <3>4, <3>5, <3>6 DEF Follows, Unannounced
  <2>3. CASE UNCHANGED <<vars, held>>
    <3>1. UNCHANGED vars /\ UNCHANGED held /\ IInv'
      BY <2>3, StepKeepsIInv
    <3>2. Representations' = Representations
      BY <3>1 DEF vars, Representations, Children
    <3> QED BY <3>1, <3>2 DEF Follows, Unannounced, vars, Children
  <2> QED BY <2>1, <2>2, <2>3 DEF FollowerNext
<1> QED
  BY <1>1, <1>2, PTL DEF FollowerSpec

(* For every engine and every history of requests, failures and reloads: what a         *)
(* subscriber that is told every event holds is the graph, but for bare rows that a     *)
(* failed create of SQLite left.                                                      *)
THEOREM SubscribersKeepUp == FollowerSpec => []OnlyBareRowsAreUnknown
<1>1. IInv /\ Follows => OnlyBareRowsAreUnknown
  <2> SUFFICES ASSUME IInv, Follows, NEW n \in NodeIds
               PROVE  \/ held[n] = Snapshot[n]
                      \/ /\ EarlyCommit /\ held[n] = Absent
                         /\ parent[n] = NoNode /\ Children(n) = {} /\ tagged[n] = {}
    BY DEF OnlyBareRowsAreUnknown
  <2>1. Snapshot[n] = Finally(Representations, n)
    BY SnapshotIsGraph
  <2>2. CASE n \in Unannounced
    BY <2>2 DEF Follows, Unannounced
  <2>3. CASE n \notin nodes
    BY <2>1, <2>3 DEF Follows, Finally, Representations
  <2> QED BY <2>1, <2>2, <2>3 DEF Follows, Unannounced
<1> QED
  BY <1>1, FollowerInvariant, PTL

(* And the events of every request reach it in an order in which none refers to a node  *)
(* that it has not heard of, or no longer has; with early commits a row that no event  *)
(* ever announced may be referred to, and is announced by the end of the batch.         *)
THEOREM EventsHangTogether == FollowerSpec => EventsNeverDangle
<1>1. IInv /\ Follows /\ [FollowerNext]_<<vars, held>> =>
        [\A k \in DOMAIN batch' :
            LET copy == CopyAfter(held, batch', k)
                left == IF EarlyCommit /\ k < Len(batch') THEN Unannounced ELSE {}
            IN  NamesOnly(copy, Known(copy) \cup left)]_vars
  <2> SUFFICES ASSUME IInv, Follows, [FollowerNext]_<<vars, held>>, vars' # vars,
                      NEW k \in DOMAIN batch'
               PROVE  LET copy == CopyAfter(held, batch', k)
                          left == IF EarlyCommit /\ k < Len(batch') THEN Unannounced ELSE {}
                      IN  NamesOnly(copy, Known(copy) \cup left)
    OBVIOUS
  <2>1. Next /\ Receive
    BY DEF FollowerNext, Reload
  <2> QED BY <2>1, StepDanglesNothing
<1> QED
  BY <1>1, FollowerInvariant, PTL DEF FollowerSpec, EventsNeverDangle
=============================================================================
