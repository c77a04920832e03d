------------------------ MODULE TransactionsRaceProofs ------------------------
(***************************************************************************)
(* What a handler has checked still holds when it writes, unless another     *)
(* request commits in between: for every set of threads, nodes and tags, what  *)
(* races can do to the inventory, and that nothing else can.                  *)
(*                                                                         *)
(* The first half shows, of both engines, that only a race gives an item        *)
(* children, and only a race between two moves closes a circle of edges; the    *)
(* second that the tags of a node become the list it is given, unless another  *)
(* list for the node is committed meanwhile, and, from what that takes, that    *)
(* requests that keep to the order of the handlers' locks never wait in a circle. *)
(***************************************************************************)
EXTENDS TransactionsProofs
-----------------------------------------------------------------------------
(* What a handler has checked is still so when it writes, or others have come in     *)
(* between.  A promise is kept while the check would succeed again in what the        *)
(* request sees, or once somebody has committed what excuses it; the promises that     *)
(* last are those that no statement of the request itself breaks.                     *)

Apart(v, n, p) ==
    \E X \in SUBSET NodeIds : p \in X /\ n \notin X /\ \A m \in X : v[Edge(m)] \in X \cup {NoNode}

(* What is the matter with a node that its own request does not write any more: a cycle   *)
(* through it may be there already, on SQLite.                                        *)
LeftOut(t) == LeavesNodeOut(t) /\ \A i \in 1..Len(todo[t]) : Lowest(todo[t][i]) > 1

Attached(t) == \E o \in overtook[t] : Attaches(request[o])
MadeItem(t, n) == \E o \in overtook[t] : MakesItem(request[o], n)
Freed(t) == Attached(t) \/ LeftOut(t)
ItsNode(r, n) == Bodies(r) /\ r.node = n

Attaching == <<"attaches">>
Homing == <<"homes">>
Itemizing(n) == <<"makes", n>>
Container(p) == <<"container", p>>
Childless(n) == <<"childless", n>>
Unlinked(n, p) == <<"apart", n, p>>

Kept(t) ==
    LET r == request[t]
        v == View(t)
    IN  {x \in {Attaching} : Attaches(r)}
        \cup {x \in {Homing} : setting.homes # {} => Attaches(r)}
        \cup {Itemizing(n) : n \in {m \in NodeIds : MakesItem(r, m)}}
        \cup {Container(p) : p \in {q \in NodeIds : ~MakesItem(r, q) /\ (v[Node(q)] # "item" \/ MadeItem(t, q))}}
        \cup {Childless(n) : n \in {m \in NodeIds : ItsNode(r, m) /\ (ChildrenIn(v, m) = {} \/ Attached(t))}}
        \cup UNION {{Unlinked(n, p) : p \in {q \in NodeIds : Apart(v, n, q) \/ Freed(t)}} :
                       n \in {m \in NodeIds : ItsNode(r, m)}}

(* What a statement relies on, and what it makes sure of.                            *)
EdgeWants(c, p, w) ==
    {Attaching} \cup (IF c = p THEN {} ELSE {Container(p)} \cup (IF w THEN {Unlinked(c, p)} ELSE {}))
Wants(s, w, home) ==
    CASE s[1] = "insert_edge" -> EdgeWants(s[2], s[3], w)
      [] s[1] = "reassign" -> {Attaching, Container(s[3])}
      [] s[1] = "reassign_children" -> IF home = NoNode THEN {} ELSE {Attaching, Container(home)}
      [] s[1] = "find_home" -> {Homing}
      [] s[1] = "find_orphan_container" -> {Attaching}
      [] s[1] = "insert_node" -> IF s[3] = "item" THEN {Itemizing(s[2])} ELSE {}
      [] s[1] = "update_node" -> IF s[3] = "item" THEN {Itemizing(s[2]), Childless(s[2])} ELSE {}
      [] OTHER -> {}
Proves(s, r, w) ==
    CASE s[1] = "ensure_container" -> IF MakesItem(r, s[2]) THEN {} ELSE {Container(s[2])}
      [] s[1] = "ensure_childless" -> IF ItsNode(r, s[2]) THEN {Childless(s[2])} ELSE {}
      [] s[1] = "ensure_acyclic" -> IF ItsNode(r, s[2]) THEN {Unlinked(s[2], s[3])} ELSE {}
      [] s[1] = "insert_node" ->
            (IF s[3] = "container" /\ ~MakesItem(r, s[2]) THEN {Container(s[2])} ELSE {})
                \cup (IF w /\ ItsNode(r, s[2]) /\ r.op # "PATCH"
                      THEN {Unlinked(s[2], p) : p \in NodeIds \ {s[2]}} ELSE {})
      [] OTHER -> {}
ProvedBy(a, r, w) == UNION {Proves(a[i], r, w) : i \in 1..Len(a)}

Backed(a, r, w, home, H) ==
    \A i \in 1..Len(a) : \A x \in Wants(a[i], w, home) :
        x \in H \/ \E j \in 1..Len(a) : j < i /\ x \in Proves(a[j], r, w)

EdgesBacked(t) == \A c \in NodeIds : Edge(c) \in DOMAIN writes[t] /\ writes[t][Edge(c)] # NoNode =>
    /\ writes[t][Edge(c)] # c
    /\ EdgeWants(c, writes[t][Edge(c)], Bodies(request[t])) \subseteq Kept(t)
NewOnSQLite(n) == engine = "sqlite" /\ db[Node(n)] = "absent"
ItemsBacked(t) == \A n \in NodeIds : Node(n) \in DOMAIN writes[t] /\ writes[t][Node(n)] = "item" =>
    \/ db[Node(n)] = "item"
    \/ Itemizing(n) \in Kept(t) /\ (Childless(n) \in Kept(t) \/ NewOnSQLite(n))
Reliable(t) ==
    /\ Backed(todo[t], request[t], Bodies(request[t]), seen[t].home, Kept(t))
    /\ EdgesBacked(t)
    /\ ItemsBacked(t)
    /\ request[t] = NoRequest => seen[t].home = NoNode
PromisesAreKept == \A t \in Threads : Reliable(t)
-----------------------------------------------------------------------------
(* What statements need, and what those before them give.                           *)

Gathered(a, give) == UNION {give[a[i]] : i \in 1..Len(a)}
Supplied(a, need, give, H) ==
    \A i \in 1..Len(a) : \A x \in need[a[i]] : x \in H \/ \E j \in 1..Len(a) : j < i /\ x \in give[a[j]]

LEMMA JoinSupplied ==
    ASSUME NEW S, NEW a \in Seq(S), NEW b \in Seq(S), NEW need, NEW give, NEW H,
           Supplied(a, need, give, H), Supplied(b, need, give, H \cup Gathered(a, give))
    PROVE  /\ a \o b \in Seq(S) /\ Supplied(a \o b, need, give, H)
           /\ Gathered(a \o b, give) = Gathered(a, give) \cup Gathered(b, give)
<1> DEFINE c == a \o b
<1>1. /\ c \in Seq(S) /\ Len(a) \in Nat /\ Len(b) \in Nat /\ Len(c) = Len(a) + Len(b)
      /\ \A i \in 1..Len(c) : c[i] = IF i <= Len(a) THEN a[i] ELSE b[i - Len(a)]
  BY JoinedSeqs
<1> HIDE DEF c
<1>2. \A i \in 1..Len(a) : i \in 1..Len(c) /\ c[i] = a[i]
  BY <1>1
<1>3. ASSUME NEW i \in 1..Len(b) PROVE i + Len(a) \in 1..Len(c) /\ c[i + Len(a)] = b[i]
  <2>1. i + Len(a) \in 1..Len(c) /\ ~(i + Len(a) <= Len(a)) /\ (i + Len(a)) - Len(a) = i
    BY <1>1
  <2> QED BY <1>1, <2>1
<1>4. \A i \in 1..Len(c) : i \in 1..Len(a) \/ \E j \in 1..Len(b) : i = j + Len(a)
  <2> SUFFICES ASSUME NEW i \in 1..Len(c), ~(i \in 1..Len(a)) PROVE \E j \in 1..Len(b) : i = j + Len(a)
    OBVIOUS
  <2>1. i - Len(a) \in 1..Len(b) /\ i = (i - Len(a)) + Len(a)
    BY <1>1
  <2> QED BY <2>1
<1>5. Gathered(c, give) = Gathered(a, give) \cup Gathered(b, give)
  <2>1. ASSUME NEW x \in Gathered(c, give) PROVE x \in Gathered(a, give) \cup Gathered(b, give)
    <3>1. PICK i \in 1..Len(c) : x \in give[c[i]]
      BY <2>1 DEF Gathered
    <3>2. CASE i \in 1..Len(a)
      BY <1>2, <3>1, <3>2 DEF Gathered
    <3>3. ASSUME NEW j \in 1..Len(b), i = j + Len(a) PROVE x \in Gathered(b, give)
      BY <1>3, <3>1, <3>3 DEF Gathered
    <3> QED BY <1>4, <3>2, <3>3
  <2>2. Gathered(a, give) \subseteq Gathered(c, give) /\ Gathered(b, give) \subseteq Gathered(c, give)
    BY <1>2, <1>3 DEF Gathered
  <2> QED BY <2>1, <2>2
<1>6. ASSUME NEW i \in 1..Len(c), NEW x \in need[c[i]], x \notin H
      PROVE  \E j \in 1..Len(c) : j < i /\ x \in give[c[j]]
  <2>1. CASE i \in 1..Len(a)
    <3>1. \E j \in 1..Len(a) : j < i /\ x \in give[a[j]]
      BY <1>2, <1>6, <2>1 DEF Supplied
    <3> QED BY <1>2, <3>1
  <2>2. ASSUME NEW k \in 1..Len(b), i = k + Len(a)
        PROVE  \E j \in 1..Len(c) : j < i /\ x \in give[c[j]]
    <3>1. x \in Gathered(a, give) \/ \E j \in 1..Len(b) : j < k /\ x \in give[b[j]]
      BY <1>3, <1>6, <2>2 DEF Supplied
    <3>2. CASE x \in Gathered(a, give)
      <4>1. PICK j \in 1..Len(a) : x \in give[a[j]]
        BY <3>2 DEF Gathered
      <4>2. j < i
        BY <1>1, <2>2
      <4> QED BY <1>2, <4>1, <4>2
    <3>3. CASE \E j \in 1..Len(b) : j < k /\ x \in give[b[j]]
      <4>1. PICK j \in 1..Len(b) : j < k /\ x \in give[b[j]]
        BY <3>3
      <4>2. j + Len(a) < i
        BY <1>1, <2>2, <4>1
      <4> QED BY <1>3, <4>1, <4>2
    <3> QED BY <3>1, <3>2, <3>3
  <2> QED BY <1>4, <2>1, <2>2
<1> QED BY <1>1, <1>5, <1>6 DEF c, Supplied

(* What is left after a step.                                                 *)
LEMMA SuppliedContinues ==
    ASSUME NEW S, NEW s \in Seq(S), NEW a \in Seq(S), s # <<>>,
           NEW need, NEW next, NEW give, NEW H, NEW J,
           Supplied(s, need, give, H), Supplied(a, next, give, J), H \subseteq J \cup Gathered(a, give),
           give[s[1]] \subseteq J \cup Gathered(a, give),
           \A x \in S : next[x] \subseteq need[x] \cup J \cup Gathered(a, give)
    PROVE  Supplied(a \o Tail(s), next, give, J)
<1> DEFINE r == a \o Tail(s)
<1>1. /\ Len(s) \in Nat /\ Len(a) \in Nat /\ 1 \in 1..Len(s)
      /\ \A i \in 1..Len(a) : i \in 1..Len(r) /\ r[i] = a[i]
      /\ \A i \in 2..Len(s) : i + Len(a) - 1 \in 1..Len(r) /\ r[i + Len(a) - 1] = s[i]
      /\ \A i \in 1..Len(r) : i \in 1..Len(a) \/ \E j \in 2..Len(s) : i = j + Len(a) - 1
  BY LaterStatements
<1> HIDE DEF r
<1>6. ASSUME NEW i \in 1..Len(r), NEW x \in next[r[i]], x \notin J
      PROVE  \E j \in 1..Len(r) : j < i /\ x \in give[r[j]]
  <2>1. CASE i \in 1..Len(a)
    <3>1. \E j \in 1..Len(a) : j < i /\ x \in give[a[j]]
      BY <1>1, <1>6, <2>1 DEF Supplied
    <3> QED BY <1>1, <3>1
  <2>2. ASSUME NEW k \in 2..Len(s), i = k + Len(a) - 1
        PROVE  \E j \in 1..Len(r) : j < i /\ x \in give[r[j]]
    <3>1. CASE x \in Gathered(a, give)
      <4>1. PICK j \in 1..Len(a) : x \in give[a[j]]
        BY <3>1 DEF Gathered
      <4>2. j < i
        BY <1>1, <2>2
      <4> QED BY <1>1, <4>1, <4>2
    <3>2. CASE x \notin Gathered(a, give)
      <4>0. k \in 1..Len(s) /\ s[k] \in S /\ r[i] = s[k]
        BY <1>1, <2>2
      <4>1. x \in need[s[k]] /\ x \notin H
        BY <1>6, <3>2, <4>0
      <4>2. PICK j \in 1..Len(s) : j < k /\ x \in give[s[j]]
        BY <4>0, <4>1 DEF Supplied
      <4>3. j # 1
        BY <1>6, <3>2, <4>2
      <4>4. j \in 2..Len(s) /\ j + Len(a) - 1 < i
        BY <1>1, <2>2, <4>2, <4>3
      <4> QED BY <1>1, <4>2, <4>4
    <3> QED BY <3>1, <3>2
  <2> QED BY <1>1, <2>1, <2>2
<1> QED BY <1>6 DEF r, Supplied
-----------------------------------------------------------------------------
(* Of promises.                                                               *)

WantsAll(w, home) == [s \in Statements \cup {Finish} |-> Wants(s, w, home)]
ProvesAll(r, w) == [s \in Statements \cup {Finish} |-> Proves(s, r, w)]

LEMMA BackedIsSupplied ==
    ASSUME NEW a \in Seq(Statements \cup {Finish}), NEW r, NEW w, NEW home, NEW H
    PROVE  /\ Backed(a, r, w, home, H) <=> Supplied(a, WantsAll(w, home), ProvesAll(r, w), H)
           /\ ProvedBy(a, r, w) = Gathered(a, ProvesAll(r, w))
<1>1. \A i \in 1..Len(a) : a[i] \in Statements \cup {Finish}
  OBVIOUS
<1>2. \A i \in 1..Len(a) : /\ WantsAll(w, home)[a[i]] = Wants(a[i], w, home)
                           /\ ProvesAll(r, w)[a[i]] = Proves(a[i], r, w)
  BY <1>1 DEF WantsAll, ProvesAll
<1> QED BY <1>2 DEF Backed, Supplied, ProvedBy, Gathered

LEMMA MoreBacked ==
    ASSUME NEW a, NEW r, NEW w, NEW home, NEW H, NEW J, H \subseteq J, Backed(a, r, w, home, H)
    PROVE  Backed(a, r, w, home, J)
BY DEF Backed

LEMMA BackedContinues ==
    ASSUME NEW s \in Seq(Statements \cup {Finish}), NEW a \in Seq(Statements \cup {Finish}), s # <<>>,
           NEW r, NEW w, NEW home, NEW next, NEW H, NEW J,
           Backed(s, r, w, home, H), Backed(a, r, w, next, J), H \subseteq J \cup ProvedBy(a, r, w),
           Proves(s[1], r, w) \subseteq J \cup ProvedBy(a, r, w),
           next \in {home, NoNode} \/ {Attaching, Container(next)} \subseteq J \cup ProvedBy(a, r, w)
    PROVE  Backed(a \o Tail(s), r, w, next, J)
<1> DEFINE S == Statements \cup {Finish}
<1>1. s[1] \in S /\ a \o Tail(s) \in Seq(S)
  <2>1. 1 \in 1..Len(s)
    OBVIOUS
  <2>2. s[1] \in S
    BY <2>1
  <2>3. s \in Seq(S) /\ a \in Seq(S)
    OBVIOUS
  <2> HIDE DEF S
  <2>4. a \o Tail(s) \in Seq(S)
    BY <2>3, LaterStatements
  <2> QED BY <2>2, <2>4
<1>2. ProvesAll(r, w)[s[1]] = Proves(s[1], r, w)
  BY <1>1 DEF ProvesAll
<1>3. ASSUME NEW x \in S
      PROVE  WantsAll(w, next)[x] \subseteq WantsAll(w, home)[x] \cup J \cup ProvedBy(a, r, w)
  <2>1. WantsAll(w, next)[x] = Wants(x, w, next) /\ WantsAll(w, home)[x] = Wants(x, w, home)
    BY <1>3 DEF WantsAll
  <2>2. CASE x[1] = "reassign_children"
    <3>1. \A h : Wants(x, w, h) = IF h = NoNode THEN {} ELSE {Attaching, Container(h)}
      BY <2>2 DEF Wants
    <3> QED BY <2>1, <3>1
  <2>3. CASE x[1] # "reassign_children"
    <3>1. Wants(x, w, next) = Wants(x, w, home)
      BY <2>3 DEF Wants
    <3> QED BY <2>1, <3>1
  <2> QED BY <2>2, <2>3
<1>4. /\ Supplied(s, WantsAll(w, home), ProvesAll(r, w), H)
      /\ Supplied(a, WantsAll(w, next), ProvesAll(r, w), J)
      /\ ProvedBy(a, r, w) = Gathered(a, ProvesAll(r, w))
  BY BackedIsSupplied
<1> HIDE DEF S
<1>5. Supplied(a \o Tail(s), WantsAll(w, next), ProvesAll(r, w), J)
  BY <1>2, <1>3, <1>4, SuppliedContinues DEF S
<1> QED BY <1>1, <1>5, BackedIsSupplied DEF S
-----------------------------------------------------------------------------
(* Programs: what they want they make sure of first.  After a, begun with H, there is G. *)

Sure(a, r, w, home, H, G) ==
    a \in Seq(Statements) /\ Backed(a, r, w, home, H) /\ G \subseteq H \cup ProvedBy(a, r, w)

LEMMA ModestSure ==
    ASSUME NEW a \in Seq(Statements), NEW r, NEW w, NEW home, NEW H, NEW G, G \subseteq H,
           \A i \in 1..Len(a) : Wants(a[i], w, home) = {}
    PROVE  Sure(a, r, w, home, H, G)
BY DEF Sure, Backed

LEMMA SureNothing ==
    ASSUME NEW r, NEW w, NEW home, NEW H, NEW G, G \subseteq H
    PROVE  Sure(<<>>, r, w, home, H, G)
<1>1. <<>> \in Seq(Statements) /\ Len(<<>>) = 0 /\ 1..0 = {}
  OBVIOUS
<1> QED BY <1>1, ModestSure

LEMMA SureSingle ==
    ASSUME NEW s \in Statements, NEW r, NEW w, NEW home, NEW H, Wants(s, w, home) \subseteq H,
           NEW G, G \subseteq H \cup Proves(s, r, w)
    PROVE  Sure(<<s>>, r, w, home, H, G)
<1>1. <<s>> \in Seq(Statements) /\ Len(<<s>>) = 1 /\ 1..1 = {1} /\ <<s>>[1] = s
  OBVIOUS
<1>2. Backed(<<s>>, r, w, home, H) /\ ProvedBy(<<s>>, r, w) = Proves(s, r, w)
  BY <1>1 DEF Backed, ProvedBy
<1> QED BY <1>1, <1>2, Zenon DEF Sure

LEMMA SureJoin ==
    ASSUME NEW a, NEW b, NEW r, NEW w, NEW home, NEW H, NEW G, NEW K,
           Sure(a, r, w, home, H, G), Sure(b, r, w, home, G, K)
    PROVE  Sure(a \o b, r, w, home, H, K)
<1>1. /\ a \in Seq(Statements) /\ Backed(a, r, w, home, H) /\ G \subseteq H \cup ProvedBy(a, r, w)
      /\ b \in Seq(Statements) /\ Backed(b, r, w, home, G) /\ K \subseteq G \cup ProvedBy(b, r, w)
  BY DEF Sure
<1>2. Backed(b, r, w, home, H \cup ProvedBy(a, r, w))
  BY <1>1, MoreBacked
<1>3. a \o b \in Seq(Statements) /\ \A x : x \in Seq(Statements) => x \in Seq(Statements \cup {Finish})
  BY <1>1, JoinedSeqs, StatementsAreMore
<1>4. /\ Supplied(a, WantsAll(w, home), ProvesAll(r, w), H)
      /\ Supplied(b, WantsAll(w, home), ProvesAll(r, w), H \cup Gathered(a, ProvesAll(r, w)))
  BY <1>1, <1>2, <1>3, BackedIsSupplied
<1>5. /\ Supplied(a \o b, WantsAll(w, home), ProvesAll(r, w), H)
      /\ Gathered(a \o b, ProvesAll(r, w)) = Gathered(a, ProvesAll(r, w)) \cup Gathered(b, ProvesAll(r, w))
  BY <1>1, <1>4, JoinSupplied
<1>6. Backed(a \o b, r, w, home, H) /\ ProvedBy(a \o b, r, w) = ProvedBy(a, r, w) \cup ProvedBy(b, r, w)
  BY <1>1, <1>3, <1>5, BackedIsSupplied
<1> QED BY <1>1, <1>3, <1>6 DEF Sure

LEMMA SureWhen ==
    ASSUME NEW c \in BOOLEAN, NEW a, NEW r, NEW w, NEW home, NEW H, NEW G, G \subseteq H,
           c => Sure(a, r, w, home, H, G)
    PROVE  Sure(When(c, a), r, w, home, H, G)
<1>1. CASE c
  BY <1>1 DEF When
<1>2. CASE ~c
  BY <1>2, SureNothing DEF When
<1> QED BY <1>1, <1>2

LEMMA NarrowSure ==
    ASSUME NEW a, NEW r, NEW w, NEW home, NEW H, NEW G, NEW J, NEW K,
           Sure(a, r, w, home, H, G), H \subseteq J, K \subseteq G \cup J
    PROVE  Sure(a, r, w, home, J, K)
BY MoreBacked DEF Sure

(* Only statements about nodes and edges want anything.                          *)
LEMMA WantsOf ==
    ASSUME NEW s, NEW w, NEW home
    PROVE  /\ s[1] = "insert_edge" => Wants(s, w, home) = EdgeWants(s[2], s[3], w)
           /\ s[1] = "reassign" => Wants(s, w, home) = {Attaching, Container(s[3])}
           /\ s[1] = "reassign_children" =>
                 Wants(s, w, home) = IF home = NoNode THEN {} ELSE {Attaching, Container(home)}
           /\ s[1] = "find_home" => Wants(s, w, home) = {Homing}
           /\ s[1] = "find_orphan_container" => Wants(s, w, home) = {Attaching}
           /\ s[1] = "insert_node" => Wants(s, w, home) = IF s[3] = "item" THEN {Itemizing(s[2])} ELSE {}
           /\ s[1] = "update_node" =>
                 Wants(s, w, home) = IF s[3] = "item" THEN {Itemizing(s[2]), Childless(s[2])} ELSE {}
           /\ s[1] \notin {"insert_edge", "reassign", "reassign_children", "find_home",
                           "find_orphan_container", "insert_node", "update_node"} =>
                 Wants(s, w, home) = {}
BY DEF Wants

LEMMA LaterWantNothing ==
    ASSUME NEW s, Lowest(s) >= 3, NEW w, NEW home
    PROVE  Wants(s, w, home) = {}
<1>1. s[1] \notin {"insert_edge", "reassign", "reassign_children", "find_home", "find_orphan_container",
                   "insert_node", "update_node"}
  BY DEF Lowest, Stage, Wide
<1> QED BY <1>1, WantsOf

LEMMA LaterSure ==
    ASSUME NEW a, NEW R, NEW d, NEW lo \in {3, 4}, NEW hi, Part(a, lo, hi, R, d),
           NEW r, NEW w, NEW home, NEW H, NEW G, G \subseteq H
    PROVE  Sure(a, r, w, home, H, G)
<1>1. a \in Seq(Statements) /\ \A i \in 1..Len(a) : lo <= Lowest(a[i])
  BY DEF Part
<1>2. \A i \in 1..Len(a) : Wants(a[i], w, home) = {}
  <2> SUFFICES ASSUME NEW i \in 1..Len(a) PROVE Lowest(a[i]) >= 3
    BY LaterWantNothing
  <2> QED BY <1>1, LowestIsNat
<1> QED BY <1>1, <1>2, ModestSure

(* A statement that wants nothing, or what is there.                             *)
LEMMA PlainSure ==
    ASSUME NEW s \in Statements, NEW r, NEW w, NEW home, NEW H, Wants(s, w, home) = {}
    PROVE  Sure(<<s>>, r, w, home, H, H \cup Proves(s, r, w))
BY SureSingle

LEMMA SetParentSure ==
    ASSUME NEW n \in NodeIds, NEW p \in NodeIds \cup {NoNode}, NEW r, NEW w, NEW home, NEW H,
           p = NoNode \/ EdgeWants(n, p, w) \subseteq H
    PROVE  Sure(SetParent(n, p), r, w, home, H, H)
<1> DEFINE x == <<"delete_edge", n>>
           y == <<"insert_edge", n, p>>
<1>1. Wants(x, w, home) = {} /\ Wants(y, w, home) = EdgeWants(n, p, w)
  BY WantsOf
<1>2. x \in Statements /\ (p # NoNode => y \in Statements)
  BY DEF Statements
<1> HIDE DEF x, y
<1>3. Sure(<<x>>, r, w, home, H, H)
  BY <1>1, <1>2, SureSingle
<1>4. Sure(When(p # NoNode, <<y>>), r, w, home, H, H)
  <2>1. p # NoNode => Sure(<<y>>, r, w, home, H, H)
    BY <1>1, <1>2, SureSingle
  <2> QED BY <2>1, SureWhen
<1>5. Sure(<<x>> \o When(p # NoNode, <<y>>), r, w, home, H, H)
  BY <1>3, <1>4, SureJoin
<1> QED BY <1>5 DEF SetParent, x, y

LEMMA ReplaceNodeTagsSure ==
    ASSUME NEW n \in NodeIds, NEW names \in Seq(Tags), NEW r, NEW w, NEW home, NEW H
    PROVE  Sure(ReplaceNodeTags(n, names), r, w, home, H, H)
<1>1. Part(ReplaceNodeTags(n, names), 3, 3, MarksOf(n), FALSE)
  BY ReplaceNodeTagsPart
<1> QED BY <1>1, LaterSure

(* What a statement in front of insert_edge proves of the parent.                  *)
LEMMA ContainerSure ==
    ASSUME NEW n \in NodeIds, NEW p \in NodeIds, NEW r, ItsNode(r, n), NEW w, NEW home, NEW H
    PROVE  /\ Sure(<< <<"ensure_container", p>> >>, r, w, home, H,
                   H \cup (IF n = p THEN {} ELSE {Container(p)}))
           /\ Sure(<< <<"ensure_acyclic", n, p>> >>, r, w, home, H, H \cup {Unlinked(n, p)})
<1> DEFINE y == <<"ensure_container", p>>
           z == <<"ensure_acyclic", n, p>>
<1>1. y \in Statements /\ z \in Statements
  BY DEF Statements
<1>2. Wants(y, w, home) = {} /\ Wants(z, w, home) = {}
  BY WantsOf
<1>3. n # p => Container(p) \in Proves(y, r, w)
  BY DEF Proves, ItsNode, MakesItem
<1>4. Unlinked(n, p) \in Proves(z, r, w)
  BY DEF Proves
<1> HIDE DEF y, z
<1>5. Sure(<<y>>, r, w, home, H, H \cup (IF n = p THEN {} ELSE {Container(p)}))
  BY <1>1, <1>2, <1>3, SureSingle
<1>6. Sure(<<z>>, r, w, home, H, H \cup {Unlinked(n, p)})
  BY <1>1, <1>2, <1>4, SureSingle
<1> QED BY <1>5, <1>6 DEF y, z

LEMMA EnsureParentSure ==
    ASSUME NEW n \in NodeIds, NEW p \in NodeIds, NEW r, ItsNode(r, n), NEW w, NEW home, NEW H
    PROVE  Sure(EnsureParentIsValid(n, p), r, w, home, H,
                H \cup (IF n = p THEN {} ELSE {Container(p)}) \cup {Unlinked(n, p)})
<1> DEFINE y == << <<"ensure_container", p>> >>
           z == << <<"ensure_acyclic", n, p>> >>
           G == H \cup (IF n = p THEN {} ELSE {Container(p)})
<1>1. Sure(y, r, w, home, H, G) /\ Sure(z, r, w, home, G, G \cup {Unlinked(n, p)})
  BY ContainerSure
<1>2. EnsureParentIsValid(n, p) = y \o z
  BY DEF EnsureParentIsValid
<1> HIDE DEF y, z, G
<1>3. Sure(y \o z, r, w, home, H, G \cup {Unlinked(n, p)})
  BY <1>1, SureJoin
<1> QED BY <1>2, <1>3 DEF G

(* The node goes in front of its edge.  A new home (p = NoNode) is somebody else's.  *)
LEMMA CreateNodeSure ==
    ASSUME NEW n \in NodeIds, NEW kind \in Kinds, NEW p \in NodeIds \cup {NoNode}, NEW names \in Seq(Tags),
           NEW r, NEW w, NEW home, NEW H, kind = "item" => Itemizing(n) \in H,
           p \in NodeIds => ItsNode(r, n) /\ r.op # "PATCH" /\ Attaching \in H
    PROVE  Sure(CreateNode(n, kind, p, names), r, w, home, H, Proves(<<"insert_node", n, kind>>, r, w))
<1> DEFINE x == <<"insert_node", n, kind>>
           y == << <<"ensure_container", p>> >>
           b == When(p # NoNode, y \o SetParent(n, p))
           c == When(names # <<>>, ReplaceNodeTags(n, names))
           e == << <<"announce", n>> >>
           f == Announcements({p})
           G == H \cup Proves(x, r, w)
<1>1. x \in Statements /\ Wants(x, w, home) = IF kind = "item" THEN {Itemizing(n)} ELSE {}
  <2>1. x \in Statements
    BY DEF Statements
  <2>2. x[1] = "insert_node" /\ x[2] = n /\ x[3] = kind
    OBVIOUS
  <2> HIDE DEF x
  <2> QED BY <2>1, <2>2, WantsOf
<1>2. ASSUME w, ItsNode(r, n), r.op # "PATCH", p \in NodeIds \ {n}
      PROVE  Unlinked(n, p) \in G
  BY <1>2 DEF Proves
<1> HIDE DEF x
<1>3. Sure(<<x>>, r, w, home, H, G)
  BY <1>1, SureSingle
<1>4. Sure(b, r, w, home, G, G)
  <2>1. ASSUME p # NoNode PROVE Sure(y \o SetParent(n, p), r, w, home, G, G)
    <3> DEFINE K == G \cup (IF n = p THEN {} ELSE {Container(p)})
    <3>1. p \in NodeIds /\ ItsNode(r, n) /\ r.op # "PATCH" /\ Attaching \in H
      BY <2>1
    <3>2. Sure(y, r, w, home, G, K)
      BY <3>1, ContainerSure
    <3>3. EdgeWants(n, p, w) \subseteq K
      BY <1>2, <3>1 DEF EdgeWants
    <3> HIDE DEF y
    <3>4. Sure(SetParent(n, p), r, w, home, K, K)
      <4> HIDE DEF K
      <4> QED BY <3>1, <3>3, SetParentSure
    <3>5. Sure(SetParent(n, p), r, w, home, K, G)
      <4>1. G \subseteq K
        OBVIOUS
      <4> HIDE DEF K, G
      <4> QED BY <3>4, <4>1, NarrowSure
    <3> HIDE DEF K, G
    <3> QED BY <3>2, <3>5, SureJoin
  <2> HIDE DEF G, y
  <2> QED BY <2>1, SureWhen
<1> HIDE DEF G
<1>5. Sure(c, r, w, home, G, G)
  BY ReplaceNodeTagsSure, SureWhen
<1>6. Sure(e, r, w, home, G, G)
  BY EventPart, LaterSure
<1>7. Sure(f, r, w, home, G, G)
  BY AnnouncementsPart, LaterSure
<1> HIDE DEF b, c, e, f
<1>8. Sure(<<x>> \o b, r, w, home, H, G)
  BY <1>3, <1>4, SureJoin
<1>9. Sure((<<x>> \o b) \o c, r, w, home, H, G)
  BY <1>5, <1>8, SureJoin
<1>10. Sure(((<<x>> \o b) \o c) \o e, r, w, home, H, G)
  BY <1>6, <1>9, SureJoin
<1>11. Sure((((<<x>> \o b) \o c) \o e) \o f, r, w, home, H, G)
  BY <1>7, <1>10, SureJoin
<1>12. Sure(CreateNode(n, kind, p, names), r, w, home, H, G)
  BY <1>11 DEF CreateNode, x, b, c, e, f
<1>13. Proves(x, r, w) \subseteq G
  BY DEF G
<1> HIDE DEF x
<1> QED BY <1>12, <1>13, NarrowSure DEF x

LEMMA UpdateFieldsSure ==
    ASSUME NEW n \in NodeIds, NEW kind \in Kinds \cup {Relabel}, NEW r, NEW w, NEW home, NEW H,
           kind = "item" => {Itemizing(n), Childless(n)} \subseteq H
    PROVE  Sure(<< <<"update_node", n, kind>> >>, r, w, home, H, H)
<1> DEFINE x == <<"update_node", n, kind>>
<1>1. x \in Statements
  BY DEF Statements
<1>2. x[1] = "update_node" /\ x[2] = n /\ x[3] = kind
  OBVIOUS
<1> HIDE DEF x
<1>3. Wants(x, w, home) \subseteq H
  BY <1>2, WantsOf
<1> QED BY <1>1, <1>3, SureSingle DEF x

LEMMA ChildlessSure ==
    ASSUME NEW n \in NodeIds, NEW r, ItsNode(r, n), NEW w, NEW home, NEW H
    PROVE  Sure(<< <<"ensure_childless", n>> >>, r, w, home, H, H \cup {Childless(n)})
<1> DEFINE x == <<"ensure_childless", n>>
<1>1. x \in Statements
  BY DEF Statements
<1>2. Wants(x, w, home) = {} /\ Childless(n) \in Proves(x, r, w)
  BY WantsOf DEF Proves
<1> HIDE DEF x
<1>3. Sure(<<x>>, r, w, home, H, H \cup {Childless(n)})
  BY <1>1, <1>2, SureSingle
<1> QED BY <1>3 DEF x

LEMMA FetchSure ==
    ASSUME NEW n \in NodeIds, NEW p \in NodeIds \cup {NoNode}, NEW r, NEW w, NEW home, NEW H
    PROVE  /\ Sure(<< <<"fetch_node", n>> >>, r, w, home, H, H)
           /\ Sure(<< <<"fetch_parent", n>> >>, r, w, home, H, H)
           /\ Sure(<< <<"announce_update", n>> >>, r, w, home, H, H)
           /\ Sure(<< <<"announce_replacement", n, p>> >>, r, w, home, H, H)
<1> DEFINE S == {<<"fetch_node", n>>, <<"fetch_parent", n>>, <<"announce_update", n>>,
                 <<"announce_replacement", n, p>>}
<1>1. \A s \in S : s \in Statements
  BY DEF Statements
<1>2. \A s \in S : Wants(s, w, home) = {}
  BY WantsOf
<1>3. \A s \in S : Sure(<<s>>, r, w, home, H, H)
  <2> HIDE DEF S
  <2> QED BY <1>1, <1>2, SureSingle
<1> QED BY <1>3

(* From the checks to the edge, the part that update_node and put_node share.         *)
LEMMA CheckedSure ==
    ASSUME NEW n \in NodeIds, NEW p \in NodeIds, NEW r, ItsNode(r, n), NEW w, NEW home, NEW H, Attaching \in H
    PROVE  /\ Sure(EnsureParentIsValid(n, p), r, w, home, H, H \cup EdgeWants(n, p, w))
           /\ Sure(SetParent(n, p), r, w, home, H \cup EdgeWants(n, p, w), H \cup EdgeWants(n, p, w))
<1> DEFINE K == H \cup EdgeWants(n, p, w)
<1>1. K \subseteq H \cup (IF n = p THEN {} ELSE {Container(p)}) \cup {Unlinked(n, p)}
  BY DEF EdgeWants
<1>2. Sure(EnsureParentIsValid(n, p), r, w, home, H, K)
  <2> HIDE DEF K
  <2>1. Sure(EnsureParentIsValid(n, p), r, w, home, H,
             H \cup (IF n = p THEN {} ELSE {Container(p)}) \cup {Unlinked(n, p)})
    BY EnsureParentSure
  <2> QED BY <1>1, <2>1 DEF Sure
<1>3. Sure(SetParent(n, p), r, w, home, K, K)
  <2>1. EdgeWants(n, p, w) \subseteq K
    OBVIOUS
  <2> HIDE DEF K
  <2> QED BY <2>1, SetParentSure
<1> QED BY <1>2, <1>3

LEMMA UpdateNodeSure ==
    ASSUME NEW n \in NodeIds, NEW kind \in Kinds \cup {Keep, Relabel}, NEW p \in NodeIds \cup {NoNode, Keep},
           NEW names \in Seq(Tags) \cup {Keep}, NEW r, ItsNode(r, n), NEW w, NEW home, NEW H,
           kind = "item" => Itemizing(n) \in H, p \in NodeIds => Attaching \in H
    PROVE  Sure(UpdateNode(n, kind, p, names), r, w, home, H, {})
<1> DEFINE x == << <<"fetch_node", n>> >>
           y == << <<"fetch_parent", n>> >>
           b == When(kind = "item", << <<"ensure_childless", n>> >>)
           c == When(p \notin {Keep, NoNode}, EnsureParentIsValid(n, p))
           e == When(kind # Keep, << <<"update_node", n, kind>> >>)
           f == When(p # Keep, SetParent(n, p))
           g == When(names # Keep, ReplaceNodeTags(n, names))
           h == << <<"announce_update", n>> >>
           G == IF kind = "item" THEN H \cup {Childless(n)} ELSE H
           K == IF p \in NodeIds THEN G \cup EdgeWants(n, p, w) ELSE G
<1>0. Keep \notin NodeIds /\ NoNode \notin NodeIds /\ Keep \notin Kinds
  BY TransactionsAssumption
<1>1. Sure(x, r, w, home, H, H) /\ Sure(y, r, w, home, H, H) /\ Sure(h, r, w, home, K, {})
  <2> HIDE DEF K
  <2>1. Sure(h, r, w, home, K, K) /\ Sure(x, r, w, home, H, H) /\ Sure(y, r, w, home, H, H)
    BY FetchSure
  <2> QED BY <2>1, NarrowSure
<1>2. << <<"fetch_node", n>>, <<"fetch_parent", n>> >> = x \o y
  BY FetchesJoin
<1>3. Sure(b, r, w, home, H, G)
  <2>1. CASE kind = "item"
    BY <2>1, ChildlessSure DEF When
  <2>2. CASE kind # "item"
    BY <2>2, SureNothing DEF When
  <2> QED BY <2>1, <2>2
<1>4. Sure(c, r, w, home, G, K)
  <2>1. CASE p \in NodeIds
    <3>1. Attaching \in G /\ p \notin {Keep, NoNode}
      BY <1>0, <2>1
    <3> HIDE DEF G
    <3>2. Sure(EnsureParentIsValid(n, p), r, w, home, G, G \cup EdgeWants(n, p, w))
      BY <2>1, <3>1, CheckedSure
    <3> QED BY <2>1, <3>1, <3>2 DEF When
  <2>2. CASE p \notin NodeIds
    <3>1. c = <<>> /\ K = G
      BY <2>2 DEF When
    <3> HIDE DEF c, K, G
    <3> QED BY <3>1, SureNothing
  <2> QED BY <2>1, <2>2
<1>5. Sure(e, r, w, home, K, K)
  <2>1. kind = "item" => {Itemizing(n), Childless(n)} \subseteq K
    OBVIOUS
  <2> HIDE DEF K
  <2>2. kind # Keep => Sure(<< <<"update_node", n, kind>> >>, r, w, home, K, K)
    BY <2>1, UpdateFieldsSure
  <2> QED BY <2>2, SureWhen
<1>6. Sure(f, r, w, home, K, K)
  <2>1. p # Keep => Sure(SetParent(n, p), r, w, home, K, K)
    <3>1. p = NoNode \/ p \in NodeIds => p = NoNode \/ EdgeWants(n, p, w) \subseteq K
      OBVIOUS
    <3> HIDE DEF K
    <3> QED BY <3>1, SetParentSure
  <2> HIDE DEF K
  <2> QED BY <2>1, SureWhen
<1>7. Sure(g, r, w, home, K, K)
  <2> HIDE DEF K
  <2>1. names # Keep => Sure(ReplaceNodeTags(n, names), r, w, home, K, K)
    BY ReplaceNodeTagsSure
  <2> QED BY <2>1, SureWhen
<1> HIDE DEF x, y, b, c, e, f, g, h, G, K
<1>8. Sure(x \o y, r, w, home, H, H)
  BY <1>1, SureJoin
<1>9. Sure((x \o y) \o b, r, w, home, H, G)
  BY <1>3, <1>8, SureJoin
<1>10. Sure(((x \o y) \o b) \o c, r, w, home, H, K)
  BY <1>4, <1>9, SureJoin
<1>11. Sure((((x \o y) \o b) \o c) \o e, r, w, home, H, K)
  BY <1>5, <1>10, SureJoin
<1>12. Sure(((((x \o y) \o b) \o c) \o e) \o f, r, w, home, H, K)
  BY <1>6, <1>11, SureJoin
<1>13. Sure((((((x \o y) \o b) \o c) \o e) \o f) \o g, r, w, home, H, K)
  BY <1>7, <1>12, SureJoin
<1>14. Sure(((((((x \o y) \o b) \o c) \o e) \o f) \o g) \o h, r, w, home, H, {})
  BY <1>1, <1>13, SureJoin
<1> QED BY <1>2, <1>14 DEF UpdateNode, b, c, e, f, g, h

LEMMA ReplaceNodeSure ==
    ASSUME NEW n \in NodeIds, NEW kind \in Kinds, NEW p \in NodeIds \cup {NoNode}, NEW names \in Seq(Tags),
           NEW r, ItsNode(r, n), NEW w, NEW home, NEW H,
           kind = "item" => Itemizing(n) \in H, p \in NodeIds => Attaching \in H
    PROVE  Sure(ReplaceNode(n, kind, p, names), r, w, home, H, {})
<1> DEFINE b == When(kind = "item", << <<"ensure_childless", n>> >>)
           y == << <<"fetch_parent", n>> >>
           c == When(p # NoNode, EnsureParentIsValid(n, p))
           e == << <<"update_node", n, kind>> >>
           f == SetParent(n, p)
           g == ReplaceNodeTags(n, names)
           h == << <<"announce_replacement", n, p>> >>
           G == IF kind = "item" THEN H \cup {Childless(n)} ELSE H
           K == IF p \in NodeIds THEN G \cup EdgeWants(n, p, w) ELSE G
<1>0. NoNode \notin NodeIds
  BY TransactionsAssumption
<1>1. Sure(y, r, w, home, G, G) /\ Sure(h, r, w, home, K, {})
  <2> HIDE DEF K, G
  <2>1. Sure(h, r, w, home, K, K) /\ Sure(y, r, w, home, G, G)
    BY FetchSure
  <2> QED BY <2>1, NarrowSure
<1>3. Sure(b, r, w, home, H, G)
  <2>1. CASE kind = "item"
    BY <2>1, ChildlessSure DEF When
  <2>2. CASE kind # "item"
    BY <2>2, SureNothing DEF When
  <2> QED BY <2>1, <2>2
<1>4. Sure(c, r, w, home, G, K)
  <2>1. CASE p \in NodeIds
    <3>1. Attaching \in G /\ p # NoNode
      BY <1>0, <2>1
    <3> HIDE DEF G
    <3>2. Sure(EnsureParentIsValid(n, p), r, w, home, G, G \cup EdgeWants(n, p, w))
      BY <2>1, <3>1, CheckedSure
    <3> QED BY <2>1, <3>1, <3>2 DEF When
  <2>2. CASE p \notin NodeIds
    <3>1. c = <<>> /\ K = G
      BY <2>2 DEF When
    <3> HIDE DEF c, K, G
    <3> QED BY <3>1, SureNothing
  <2> QED BY <2>1, <2>2
<1>5. Sure(e, r, w, home, K, K)
  <2>1. kind = "item" => {Itemizing(n), Childless(n)} \subseteq K
    OBVIOUS
  <2> HIDE DEF K
  <2> QED BY <2>1, UpdateFieldsSure
<1>6. Sure(f, r, w, home, K, K)
  <2>1. p = NoNode \/ EdgeWants(n, p, w) \subseteq K
    OBVIOUS
  <2> HIDE DEF K
  <2> QED BY <2>1, SetParentSure
<1>7. Sure(g, r, w, home, K, K)
  <2> HIDE DEF K
  <2> QED BY ReplaceNodeTagsSure
<1> HIDE DEF y, b, c, e, f, g, h, G, K
<1>8. Sure(b \o y, r, w, home, H, G)
  BY <1>1, <1>3, SureJoin
<1>9. Sure((b \o y) \o c, r, w, home, H, K)
  BY <1>4, <1>8, SureJoin
<1>10. Sure(((b \o y) \o c) \o e, r, w, home, H, K)
  BY <1>5, <1>9, SureJoin
<1>11. Sure((((b \o y) \o c) \o e) \o f, r, w, home, H, K)
  BY <1>6, <1>10, SureJoin
<1>12. Sure(((((b \o y) \o c) \o e) \o f) \o g, r, w, home, H, K)
  BY <1>7, <1>11, SureJoin
<1>13. Sure((((((b \o y) \o c) \o e) \o f) \o g) \o h, r, w, home, H, {})
  BY <1>1, <1>12, SureJoin
<1> QED BY <1>13 DEF ReplaceNode, b, y, c, e, f, g, h

LEMMA DeletionsSure ==
    ASSUME NEW r, NEW w, NEW H
    PROVE  /\ \A n \in NodeIds : Homing \in H => Sure(DeleteNode(n), r, w, NoNode, H, {})
           /\ \A u \in Tags : Sure(DeleteTag(u), r, w, NoNode, H, {})
           /\ \A u \in Tags : Sure(CreateTag(u), r, w, NoNode, H, {})
<1>1. ASSUME NEW n \in NodeIds, Homing \in H PROVE Sure(DeleteNode(n), r, w, NoNode, H, {})
  <2> DEFINE a == DeleteNode(n)
             Plain == {"fetch_node", "fetch_parent", "fetch_children", "delete_child_edges", "delete_edge",
                       "delete_marks", "delete_node", "announce_deletion"}
  <2>1. /\ Len(a) = 10 /\ a[3] = <<"find_home", n>> /\ a[5] = <<"reassign_children", n>>
        /\ a[1][1] \in Plain /\ a[2][1] \in Plain /\ a[4][1] \in Plain /\ a[6][1] \in Plain
        /\ a[7][1] \in Plain /\ a[8][1] \in Plain /\ a[9][1] \in Plain /\ a[10][1] \in Plain
    BY DEF DeleteNode
  <2>2. a \in Seq(Statements)
    BY DeleteNodePart, Zenon DEF Part
  <2> HIDE DEF a
  <2>3. ASSUME NEW i \in 1..Len(a) PROVE Wants(a[i], w, NoNode) \subseteq {Homing}
    <3>1. a[i][1] \in Plain \cup {"find_home", "reassign_children"}
      <4>1. i \in {1, 2, 3, 4, 5, 6, 7, 8, 9, 10}
        BY <2>1
      <4> HIDE DEF Plain
      <4> QED BY <2>1, <4>1
    <3> QED BY <3>1, WantsOf
  <2>4. Backed(a, r, w, NoNode, H)
    BY <1>1, <2>3 DEF Backed
  <2> QED BY <2>2, <2>4 DEF Sure, a
<1>2. ASSUME NEW u \in Tags PROVE Sure(DeleteTag(u), r, w, NoNode, H, {})
  <2> DEFINE a == DeleteTag(u)
             Plain == {"fetch_tag", "fetch_bearers", "delete_tag_marks", "delete_tag", "announce_bearers"}
  <2>1. /\ Len(a) = 5 /\ a[1][1] \in Plain /\ a[2][1] \in Plain /\ a[3][1] \in Plain
        /\ a[4][1] \in Plain /\ a[5][1] \in Plain
    BY DEF DeleteTag
  <2>2. a \in Seq(Statements)
    BY DeleteTagPart, Zenon DEF Part
  <2> HIDE DEF a
  <2>3. ASSUME NEW i \in 1..Len(a) PROVE Wants(a[i], w, NoNode) = {}
    <3>1. i \in {1, 2, 3, 4, 5}
      BY <2>1
    <3>2. a[i][1] \in Plain
      <4> HIDE DEF Plain
      <4> QED BY <2>1, <3>1
    <3> QED BY <3>2, WantsOf
  <2> QED BY <2>2, <2>3, ModestSure DEF a
<1>3. ASSUME NEW u \in Tags PROVE Sure(CreateTag(u), r, w, NoNode, H, {})
  <2> DEFINE a == CreateTag(u)
  <2>1. Len(a) = 2 /\ a[1][1] = "ensure_new_tag" /\ a[2][1] = "ensure_tag"
    BY DEF CreateTag
  <2>2. a \in Seq(Statements)
    BY CreateTagPart, Zenon DEF Part
  <2> HIDE DEF a
  <2>3. ASSUME NEW i \in 1..Len(a) PROVE Wants(a[i], w, NoNode) = {}
    <3>1. a[i][1] \in {"ensure_new_tag", "ensure_tag"}
      BY <2>1
    <3> QED BY <3>1, WantsOf
  <2> QED BY <2>2, <2>3, ModestSure DEF a
<1> QED BY <1>1, <1>2, <1>3

(* A request's own promises, of which the statements never make sure.               *)
Vows(r) ==
    {x \in {Attaching} : Attaches(r)}
    \cup {x \in {Homing} : setting.homes # {} => Attaches(r)}
    \cup {Itemizing(n) : n \in {m \in NodeIds : MakesItem(r, m)}}

LEMMA ProgramSure ==
    ASSUME NEW r \in Requests, NEW w, NEW H, Vows(r) \subseteq H
    PROVE  Sure(Program(r), r, w, NoNode, H, {})
<1>0. NoNode \notin NodeIds /\ Keep \notin NodeIds /\ Keep \notin Kinds
  BY TransactionsAssumption
<1>1. CASE Bodies(r) /\ r.op # "PUT"
  <2>1. /\ r.node \in NodeIds /\ ItsNode(r, r.node)
        /\ r.parent \in NodeIds => Attaching \in H
        /\ r.kind = "item" => Itemizing(r.node) \in H
    <3>1. r.node \in NodeIds /\ ItsNode(r, r.node)
      BY <1>1, NodeOfRequest DEF ItsNode
    <3>2. r.parent \in NodeIds => Attaches(r)
      BY <1>0, <1>1 DEF Attaches, Bodies
    <3>3. r.kind = "item" => MakesItem(r, r.node)
      BY <1>1 DEF MakesItem, Bodies
    <3> QED BY <3>1, <3>2, <3>3 DEF Vows
  <2>2. CASE r.op = "POST"
    <3> DEFINE G == Proves(<<"insert_node", r.node, r.kind>>, r, w)
    <3>1. r.kind \in Kinds /\ r.parent \in NodeIds \cup {NoNode} /\ r.tags \in Seq(Tags) /\ r.op # "PATCH"
      BY <2>2 DEF Requests, Creations, Changes, Deletions, TagRequests
    <3>2. Sure(CreateNode(r.node, r.kind, r.parent, r.tags), r, w, NoNode, H, G)
      BY <2>1, <3>1, CreateNodeSure
    <3> HIDE DEF G
    <3>3. Sure(CreateNode(r.node, r.kind, r.parent, r.tags), r, w, NoNode, H, {})
      BY <3>2, NarrowSure
    <3> QED BY <2>2, <3>3 DEF Program
  <2>3. CASE r.op = "PATCH"
    <3>1. /\ r.kind \in Kinds \cup {Keep, Relabel} /\ r.parent \in NodeIds \cup {NoNode, Keep}
          /\ r.tags \in Seq(Tags) \cup {Keep}
      BY <2>3 DEF Requests, Creations, Changes, Deletions, TagRequests
    <3>2. Sure(UpdateNode(r.node, r.kind, r.parent, r.tags), r, w, NoNode, H, {})
      BY <2>1, <3>1, UpdateNodeSure
    <3> QED BY <2>3, <3>2 DEF Program
  <2> QED BY <1>1, <2>2, <2>3 DEF Bodies
<1>2. CASE r.op = "PUT"
  <2> DEFINE s == <<"create_or_replace", r.node>>
  <2>1. r.node \in NodeIds
    BY <1>2, NodeOfRequest DEF Bodies
  <2>2. s \in Statements /\ Wants(s, w, NoNode) = {}
    <3>1. s \in Statements
      BY <2>1 DEF Statements
    <3> QED BY <3>1, WantsOf
  <2>3. Program(r) = <<s>>
    BY <1>2 DEF Program
  <2> HIDE DEF s
  <2>4. Sure(<<s>>, r, w, NoNode, H, {})
    BY <2>2, SureSingle
  <2> QED BY <2>3, <2>4
<1>3. CASE r.op = "DELETE"
  <2>1. r.node \in NodeIds
    BY <1>3 DEF Requests, Creations, Changes, Deletions, TagRequests
  <2>2. Homing \in H
    BY <1>3 DEF Vows, Attaches
  <2> QED BY <1>3, <2>1, <2>2, DeletionsSure DEF Program
<1>4. CASE r.op \in {"POST tag", "DELETE tag"}
  <2>1. r.tag \in Tags
    BY <1>4 DEF Requests, Creations, Changes, Deletions, TagRequests
  <2> QED BY <1>4, <2>1, DeletionsSure DEF Program
<1> QED BY <1>1, <1>2, <1>3, <1>4 DEF Requests, Creations, Changes, Deletions, TagRequests, Bodies
-----------------------------------------------------------------------------
(* Which promises are kept.                                                     *)

LEMMA PromisesDiffer ==
    /\ Attaching[1] = "attaches" /\ Homing[1] = "homes"
    /\ \A n : Itemizing(n)[1] = "makes" /\ Itemizing(n)[2] = n
    /\ \A n : Container(n)[1] = "container" /\ Container(n)[2] = n
    /\ \A n : Childless(n)[1] = "childless" /\ Childless(n)[2] = n
    /\ \A n, p : Unlinked(n, p)[1] = "apart" /\ Unlinked(n, p)[2] = n /\ Unlinked(n, p)[3] = p
BY DEF Attaching, Homing, Itemizing, Container, Childless, Unlinked

KeptFacts == \A t \in Threads :
    /\ Attaching \in Kept(t) <=> Attaches(request[t])
    /\ Homing \in Kept(t) <=> (setting.homes # {} => Attaches(request[t]))
    /\ \A n \in NodeIds :
          /\ Itemizing(n) \in Kept(t) <=> MakesItem(request[t], n)
          /\ Container(n) \in Kept(t) <=>
                ~MakesItem(request[t], n) /\ (View(t)[Node(n)] # "item" \/ MadeItem(t, n))
          /\ Childless(n) \in Kept(t) <=>
                ItsNode(request[t], n) /\ (ChildrenIn(View(t), n) = {} \/ Attached(t))
          /\ \A p \in NodeIds : Unlinked(n, p) \in Kept(t) <=>
                ItsNode(request[t], n) /\ (Apart(View(t), n, p) \/ Freed(t))
    /\ Kept(t) \subseteq {Attaching, Homing} \cup {Itemizing(n) : n \in NodeIds}
          \cup {Container(n) : n \in NodeIds} \cup {Childless(n) : n \in NodeIds}
          \cup {Unlinked(n, p) : n \in NodeIds, p \in NodeIds}

LEMMA KeptMeans == KeptFacts
<1> SUFFICES ASSUME NEW t \in Threads
             PROVE  /\ Attaching \in Kept(t) <=> Attaches(request[t])
                    /\ Homing \in Kept(t) <=> (setting.homes # {} => Attaches(request[t]))
                    /\ \A n \in NodeIds :
                          /\ Itemizing(n) \in Kept(t) <=> MakesItem(request[t], n)
                          /\ Container(n) \in Kept(t) <=>
                                ~MakesItem(request[t], n) /\ (View(t)[Node(n)] # "item" \/ MadeItem(t, n))
                          /\ Childless(n) \in Kept(t) <=>
                                ItsNode(request[t], n) /\ (ChildrenIn(View(t), n) = {} \/ Attached(t))
                          /\ \A p \in NodeIds : Unlinked(n, p) \in Kept(t) <=>
                                ItsNode(request[t], n) /\ (Apart(View(t), n, p) \/ Freed(t))
                    /\ Kept(t) \subseteq {Attaching, Homing} \cup {Itemizing(n) : n \in NodeIds}
                          \cup {Container(n) : n \in NodeIds} \cup {Childless(n) : n \in NodeIds}
                          \cup {Unlinked(n, p) : n \in NodeIds, p \in NodeIds}
  BY DEF KeptFacts
<1> DEFINE Makes(n) == MakesItem(request[t], n)
           Admits(n) == ~MakesItem(request[t], n) /\ (View(t)[Node(n)] # "item" \/ MadeItem(t, n))
           Clear(n) == ItsNode(request[t], n) /\ (ChildrenIn(View(t), n) = {} \/ Attached(t))
           Its(n) == ItsNode(request[t], n)
           Free(n, p) == Apart(View(t), n, p) \/ Freed(t)
           Attach == Attaches(request[t])
           Home == setting.homes # {} => Attaches(request[t])
<1>1. Kept(t) = {x \in {Attaching} : Attach} \cup {x \in {Homing} : Home}
                    \cup {Itemizing(n) : n \in {m \in NodeIds : Makes(m)}}
                    \cup {Container(p) : p \in {q \in NodeIds : Admits(q)}}
                    \cup {Childless(n) : n \in {m \in NodeIds : Clear(m)}}
                    \cup UNION {{Unlinked(n, p) : p \in {q \in NodeIds : Free(n, q)}} :
                                   n \in {m \in NodeIds : Its(m)}}
  BY DEF Kept
<1> HIDE DEF Makes, Admits, Clear, Its, Free, Attach, Home
<1>2. \A x : x \in Kept(t) <=>
         \/ x = Attaching /\ Attach
         \/ x = Homing /\ Home
         \/ \E n \in NodeIds : x = Itemizing(n) /\ Makes(n)
         \/ \E n \in NodeIds : x = Container(n) /\ Admits(n)
         \/ \E n \in NodeIds : x = Childless(n) /\ Clear(n)
         \/ \E n, p \in NodeIds : x = Unlinked(n, p) /\ Its(n) /\ Free(n, p)
  BY <1>1
<1>3. Attaching \in Kept(t) <=> Attach
  BY <1>2, PromisesDiffer
<1>4. Homing \in Kept(t) <=> Home
  BY <1>2, PromisesDiffer
<1>5. ASSUME NEW n \in NodeIds
      PROVE  /\ Itemizing(n) \in Kept(t) <=> Makes(n)
             /\ Container(n) \in Kept(t) <=> Admits(n)
             /\ Childless(n) \in Kept(t) <=> Clear(n)
             /\ \A p \in NodeIds : Unlinked(n, p) \in Kept(t) <=> Its(n) /\ Free(n, p)
  <2>1. Itemizing(n) \in Kept(t) <=> Makes(n)
    BY <1>2, PromisesDiffer
  <2>2. Container(n) \in Kept(t) <=> Admits(n)
    BY <1>2, PromisesDiffer
  <2>3. Childless(n) \in Kept(t) <=> Clear(n)
    BY <1>2, PromisesDiffer
  <2>4. ASSUME NEW p \in NodeIds PROVE Unlinked(n, p) \in Kept(t) <=> Its(n) /\ Free(n, p)
    BY <1>2, PromisesDiffer
  <2> QED BY <2>1, <2>2, <2>3, <2>4
<1>6. Kept(t) \subseteq {Attaching, Homing} \cup {Itemizing(n) : n \in NodeIds}
          \cup {Container(n) : n \in NodeIds} \cup {Childless(n) : n \in NodeIds}
          \cup {Unlinked(n, p) : n \in NodeIds, p \in NodeIds}
  BY <1>2
<1> QED BY <1>3, <1>4, <1>5, <1>6 DEF Makes, Admits, Clear, Its, Free, Attach, Home

(* Sets of nodes without a way in or out of them.                                  *)
LEMMA StaysApart ==
    ASSUME NEW v, NEW w, NEW n, NEW p, Apart(v, n, p),
           \A c \in NodeIds : w[Edge(c)] \in {v[Edge(c)], NoNode} \/ c = n
    PROVE  Apart(w, n, p)
BY DEF Apart

(* A promise of o is kept on, whoever steps.                                       *)
LEMMA KeptOn ==
    ASSUME NEW o \in Threads, UNCHANGED setting, request'[o] = request[o],
           \A n : MadeItem(o, n) => MadeItem(o, n)', Attached(o) => Attached(o)', LeftOut(o) => LeftOut(o)',
           \A p \in NodeIds : View(o)'[Node(p)] = "item" =>
               View(o)[Node(p)] = "item" \/ MakesItem(request[o], p) \/ MadeItem(o, p)',
           Attached(o)' \/ \A c \in NodeIds :
               \/ View(o)'[Edge(c)] \in {View(o)[Edge(c)], NoNode}
               \/ View(o)'[Edge(c)] # c /\ (Bodies(request[o]) => c = request[o].node)
    PROVE  Kept(o) \subseteq Kept(o)'
<1> DEFINE r == request[o]
           v == View(o)
           w == View(o)'
<1>1. KeptFacts /\ KeptFacts'
  BY KeptMeans, PTL
<1>2. /\ Attaches(request[o])' = Attaches(r) /\ request'[o] = r
      /\ \A n : MakesItem(request[o], n)' = MakesItem(r, n) /\ ItsNode(request[o], n)' = ItsNode(r, n)
  BY DEF Attaches, MakesItem, ItsNode, Bodies
<1>3. /\ Attaching \in Kept(o)' <=> Attaches(r)
      /\ Homing \in Kept(o)' <=> (setting.homes # {} => Attaches(r))
      /\ \A n \in NodeIds :
            /\ Itemizing(n) \in Kept(o)' <=> MakesItem(r, n)
            /\ Container(n) \in Kept(o)' <=> ~MakesItem(r, n) /\ (w[Node(n)] # "item" \/ MadeItem(o, n)')
            /\ Childless(n) \in Kept(o)' <=> ItsNode(r, n) /\ (ChildrenIn(w, n) = {} \/ Attached(o)')
            /\ \A p \in NodeIds : Unlinked(n, p) \in Kept(o)' <=> ItsNode(r, n) /\ (Apart(w, n, p) \/ Freed(o)')
  BY <1>1, <1>2 DEF KeptFacts
<1>4. /\ Attaching \in Kept(o) <=> Attaches(r)
      /\ Homing \in Kept(o) <=> (setting.homes # {} => Attaches(r))
      /\ \A n \in NodeIds :
            /\ Itemizing(n) \in Kept(o) <=> MakesItem(r, n)
            /\ Container(n) \in Kept(o) <=> ~MakesItem(r, n) /\ (v[Node(n)] # "item" \/ MadeItem(o, n))
            /\ Childless(n) \in Kept(o) <=> ItsNode(r, n) /\ (ChildrenIn(v, n) = {} \/ Attached(o))
            /\ \A p \in NodeIds : Unlinked(n, p) \in Kept(o) <=> ItsNode(r, n) /\ (Apart(v, n, p) \/ Freed(o))
      /\ Kept(o) \subseteq {Attaching, Homing} \cup {Itemizing(n) : n \in NodeIds}
          \cup {Container(n) : n \in NodeIds} \cup {Childless(n) : n \in NodeIds}
          \cup {Unlinked(n, p) : n \in NodeIds, p \in NodeIds}
  BY <1>1 DEF KeptFacts
<1>5. ASSUME NEW n \in NodeIds, ItsNode(r, n)
      PROVE  Attached(o)' \/ \A c \in NodeIds : w[Edge(c)] \in {v[Edge(c)], NoNode} \/ (c = n /\ w[Edge(c)] # c)
  BY <1>5 DEF ItsNode
<1> HIDE DEF r, v, w
<1>6. NoNode \notin NodeIds
  BY TransactionsAssumption
<1>7. ASSUME NEW n \in NodeIds, Childless(n) \in Kept(o) PROVE Childless(n) \in Kept(o)'
  <2>1. ItsNode(r, n) /\ (ChildrenIn(v, n) = {} \/ Attached(o))
    BY <1>4, <1>7
  <2>2. ASSUME ChildrenIn(v, n) = {}, ~(Attached(o)') PROVE ChildrenIn(w, n) = {}
    <3>1. \A c \in NodeIds : w[Edge(c)] \in {v[Edge(c)], NoNode} \/ (c = n /\ w[Edge(c)] # c)
      BY <1>5, <2>1, <2>2
    <3>2. \A c \in NodeIds : v[Edge(c)] # n
      BY <2>2 DEF ChildrenIn
    <3> QED BY <1>6, <3>1, <3>2 DEF ChildrenIn
  <2> QED BY <1>3, <2>1, <2>2
<1>8. ASSUME NEW n \in NodeIds, NEW p \in NodeIds, Unlinked(n, p) \in Kept(o) PROVE Unlinked(n, p) \in Kept(o)'
  <2>1. ItsNode(r, n) /\ (Apart(v, n, p) \/ Freed(o))
    BY <1>4, <1>8
  <2>2. ASSUME Apart(v, n, p), ~(Attached(o)') PROVE Apart(w, n, p)
    BY <1>5, <2>1, <2>2, StaysApart
  <2>3. Freed(o)' <=> Attached(o)' \/ LeftOut(o)'
    BY DEF Freed
  <2>4. Freed(o) => Freed(o)'
    BY <2>3 DEF Freed
  <2> QED BY <1>3, <2>1, <2>2, <2>3, <2>4
<1>9. ASSUME NEW n \in NodeIds, Container(n) \in Kept(o) PROVE Container(n) \in Kept(o)'
  <2>1. ~MakesItem(r, n) /\ (v[Node(n)] # "item" \/ MadeItem(o, n))
    BY <1>4, <1>9
  <2>2. w[Node(n)] # "item" \/ MadeItem(o, n)'
    BY <2>1 DEF r, v, w
  <2> QED BY <1>3, <2>1, <2>2
<1>10. ASSUME NEW x \in Kept(o) PROVE x \in Kept(o)'
  <2>1. CASE x = Attaching \/ x = Homing
    BY <1>3, <1>4, <1>10, <2>1
  <2>2. CASE \E n \in NodeIds : x = Itemizing(n)
    BY <1>3, <1>4, <1>10, <2>2
  <2>3. CASE \E n \in NodeIds : x \in {Container(n), Childless(n)}
    BY <1>7, <1>9, <1>10, <2>3
  <2>4. CASE \E n, p \in NodeIds : x = Unlinked(n, p)
    BY <1>8, <1>10, <2>4
  <2> QED BY <1>4, <1>10, <2>1, <2>2, <2>3, <2>4
<1> QED BY <1>10
-----------------------------------------------------------------------------
(* Who steps, and those who look on.                                              *)

(* Nothing changes for a request but what it can pass by and who has overtaken it.  *)
Looks(o) ==
    /\ Passes(todo[o], todo'[o]) /\ request'[o] = request[o] /\ seen'[o] = seen[o] /\ writes'[o] = writes[o]

LEMMA RestsReliable ==
    ASSUME NEW t \in Threads, todo[t] = <<>>, writes[t] = <<>>, request[t] = NoRequest => seen[t].home = NoNode
    PROVE  Reliable(t)
<1>1. Len(<<>>) = 0 /\ 1..0 = {} /\ DOMAIN <<>> = {}
  OBVIOUS
<1>2. Backed(todo[t], request[t], Bodies(request[t]), seen[t].home, Kept(t))
  BY <1>1 DEF Backed
<1>3. EdgesBacked(t) /\ ItemsBacked(t)
  BY <1>1 DEF EdgesBacked, ItemsBacked
<1> QED BY <1>2, <1>3 DEF Reliable

RestsRely == \A t \in Threads :
    todo[t] = <<>> /\ writes[t] = <<>> /\ (request[t] = NoRequest => seen[t].home = NoNode) => Reliable(t)
LEMMA AlwaysRests == RestsRely
BY RestsReliable DEF RestsRely

(* What the statements before a statement have given is given by the next ones, too.  *)
LEMMA PassesBacked ==
    ASSUME NEW s \in Seq(Statements \cup {Finish}), NEW next, Passes(s, next), NEW r, NEW w, NEW home, NEW H,
           Backed(s, r, w, home, H)
    PROVE  Backed(next, r, w, home, H)
<1>1. /\ Len(next) = Len(s)
      /\ \A i \in 1..Len(s) : next[i] = s[i] \/ (s[i][1] = "remove_row" /\ next[i] = <<"pass_by">>)
  BY DEF Passes
<1>2. Wants(<<"pass_by">>, w, home) = {}
  BY WantsOf
<1>3. \A x : x[1] = "remove_row" => Proves(x, r, w) = {}
  BY DEF Proves
<1>4. \A i \in 1..Len(s) : Wants(next[i], w, home) \subseteq Wants(s[i], w, home)
                           /\ Proves(s[i], r, w) \subseteq Proves(next[i], r, w)
  BY <1>1, <1>2, <1>3
<1> QED BY <1>1, <1>4 DEF Backed

LEMMA LeftOutPasses ==
    ASSUME NEW o, UNCHANGED engine, request'[o] = request[o], writes'[o] = writes[o],
           Passes(todo[o], todo'[o]), LeftOut(o)
    PROVE  LeftOut(o)'
<1>1. /\ LeavesNodeOut(o) /\ \A i \in 1..Len(todo[o]) : Lowest(todo[o][i]) > 1
      /\ Len(todo'[o]) = Len(todo[o])
      /\ \A i \in 1..Len(todo[o]) : todo'[o][i] = todo[o][i] \/ todo'[o][i] = <<"pass_by">>
  BY DEF LeftOut, Passes
<1>2. Lowest(<<"pass_by">>) = 9
  BY DEF Lowest, Stage, Wide
<1>3. \A i \in 1..Len(todo'[o]) : Lowest(todo'[o][i]) > 1
  BY <1>1, <1>2
<1>4. LeavesNodeOut(o)'
  BY <1>1 DEF LeavesNodeOut, Node
<1> QED BY <1>3, <1>4 DEF LeftOut

(* A request that has come to its edges and tags does not go back to its node.        *)
Onward(t, rows, a) == Bodies(request[t]) /\ Lowest(First(t)) > 1 =>
    /\ \A i \in 1..Len(a) : Lowest(a[i]) > 1
    /\ \A n : Node(n) \notin rows
LEMMA NoWayBack ==
    ASSUME NEW t, First(t)[1] \in {"create_or_replace", "find_home", "find_orphan_container", "delete_node",
                                    "delete_tag", "insert_node", "update_node"},
           NEW rows, NEW a
    PROVE  Onward(t, rows, a)
<1>1. Lowest(First(t)) = 1
  BY DEF Lowest, Stage, Wide
<1> QED BY <1>1 DEF Onward

LEMMA LeftOutOn ==
    ASSUME IInv, NEW t \in Threads, Running(t), UNCHANGED <<engine, request>>,
           NEW a \in Seq(Statements), todo'[t] = a \o Tail(todo[t]), NEW rows, Onward(t, rows, a),
           \A row \in DOMAIN writes'[t] : row # Database => row \in rows \cup DOMAIN writes[t],
           LeftOut(t)
    PROVE  LeftOut(t)'
<1> DEFINE s == todo[t]
           r == todo'[t]
<1>1. /\ s \in Seq(Statements \cup {Finish}) /\ a \in Seq(Statements \cup {Finish}) /\ s # <<>>
      /\ LeavesNodeOut(t) /\ \A i \in 1..Len(s) : Lowest(s[i]) > 1
  BY StatementsAreMore DEF IInv, Typed, ThreadOK, Rest, Running, LeftOut
<1>2. /\ Len(s) \in Nat /\ 1 \in 1..Len(s)
      /\ \A i \in 1..Len(a) : r[i] = a[i]
      /\ \A i \in 2..Len(s) : r[i + Len(a) - 1] = s[i]
      /\ \A i \in 1..Len(r) : i \in 1..Len(a) \/ \E j \in 2..Len(s) : i = j + Len(a) - 1
  <2> DEFINE S == Statements \cup {Finish}
  <2>1. s \in Seq(S) /\ a \in Seq(S) /\ s # <<>> /\ r = a \o Tail(s)
    BY <1>1
  <2> HIDE DEF s, r, S
  <2> DEFINE q == a \o Tail(s)
  <2>2. /\ Len(s) \in Nat /\ 1 \in 1..Len(s)
        /\ \A i \in 1..Len(a) : q[i] = a[i]
        /\ \A i \in 2..Len(s) : q[i + Len(a) - 1] = s[i]
        /\ \A i \in 1..Len(q) : i \in 1..Len(a) \/ \E j \in 2..Len(s) : i = j + Len(a) - 1
    <3>1. /\ q \in Seq(S) /\ Len(s) \in Nat /\ Len(a) \in Nat /\ 1 \in 1..Len(s)
          /\ \A i \in 1..Len(a) : i \in 1..Len(q) /\ q[i] = a[i]
          /\ \A j \in 2..Len(s) : j + Len(a) - 1 \in 1..Len(q) /\ q[j + Len(a) - 1] = s[j]
          /\ \A i \in 1..Len(q) : i \in 1..Len(a) \/ \E j \in 2..Len(s) : i = j + Len(a) - 1
      BY <2>1, LaterStatements
    <3> QED BY <3>1
  <2>3. r = q
    BY <2>1
  <2> HIDE DEF q
  <2> QED BY <2>2, <2>3
<1>3. (\A i \in 1..Len(a) : Lowest(a[i]) > 1) /\ \A n : Node(n) \notin rows
  BY <1>1, <1>2 DEF Onward, First, LeavesNodeOut, Bodies
<1>4. \A i \in 1..Len(r) : Lowest(r[i]) > 1
  <2> HIDE DEF s, r
  <2> SUFFICES ASSUME NEW i \in 1..Len(r) PROVE Lowest(r[i]) > 1
    OBVIOUS
  <2>1. CASE i \in 1..Len(a)
    BY <1>2, <1>3, <2>1
  <2>2. ASSUME NEW j \in 2..Len(s), i = j + Len(a) - 1 PROVE Lowest(r[i]) > 1
    BY <1>1, <1>2, <2>2
  <2> QED BY <1>2, <2>1, <2>2
<1>5. LeavesNodeOut(t)'
  <2>1. Node(request[t].node) # Database
    BY DEF Node, Database
  <2> QED BY <1>1, <1>3, <2>1 DEF LeavesNodeOut, Node
<1> QED BY <1>4, <1>5 DEF LeftOut

LEMMA OthersRely ==
    ASSUME IInv, IInv', NEW o \in Threads, Reliable(o), Looks(o), UNCHANGED <<engine, setting>>,
           \A n : MadeItem(o, n) => MadeItem(o, n)', Attached(o) => Attached(o)',
           Running(o) => \A p \in NodeIds : db'[Node(p)] = "item" => db[Node(p)] = "item" \/ MadeItem(o, p)',
           Running(o) => Attached(o)' \/ \A c \in NodeIds : db'[Edge(c)] \in {db[Edge(c)], NoNode},
           \A row \in DOMAIN writes[o] : db'[row] = db[row]
    PROVE  Reliable(o)'
<1> DEFINE r == request[o]
           w == Bodies(request[o])
<1>1. /\ todo[o] \in Seq(Statements \cup {Finish}) /\ request'[o] = r /\ seen'[o] = seen[o]
      /\ writes'[o] = writes[o] /\ Passes(todo[o], todo'[o])
  BY DEF IInv, Typed, ThreadOK, Rest, Looks
<1>2. CASE ~Running(o)
  <2>1. todo[o] = <<>> /\ writes[o] = <<>>
    BY <1>2 DEF Running, IInv, Typed, ThreadOK
  <2>2. todo'[o] = <<>>
    <3>1. Len(todo'[o]) = 0 /\ todo'[o] \in Seq(Statements \cup {Finish})
      BY <1>1, <2>1 DEF Passes
    <3> QED BY <3>1
  <2>3. RestsRely'
    BY AlwaysRests, PTL
  <2> QED BY <1>1, <2>1, <2>2, <2>3 DEF RestsRely, Reliable
<1>3. CASE Running(o)
  <2>1. ViewsFit /\ ViewsFit'
    BY Always, PTL
  <2>2. /\ \A row \in Rows : View(o)[row] = IF row \in DOMAIN writes[o] THEN writes[o][row] ELSE db[row]
        /\ \A row \in Rows : View(o)'[row] = IF row \in DOMAIN writes'[o] THEN writes'[o][row] ELSE db'[row]
    BY <2>1 DEF ViewsFit
  <2>3. \A n \in NodeIds : Node(n) \in Rows /\ Edge(n) \in Rows
    BY RowFacts
  <2>4. \A p \in NodeIds : View(o)'[Node(p)] = "item" => View(o)[Node(p)] = "item" \/ MadeItem(o, p)'
    BY <1>1, <1>3, <2>2, <2>3
  <2>5. Attached(o)' \/ \A c \in NodeIds : View(o)'[Edge(c)] \in {View(o)[Edge(c)], NoNode}
    BY <1>1, <1>3, <2>2, <2>3
  <2>6. Kept(o) \subseteq Kept(o)'
    <3>1. LeftOut(o) => LeftOut(o)'
      BY <1>1, LeftOutPasses
    <3> QED BY <1>1, <2>4, <2>5, <3>1, KeptOn
  <2>7. Bodies(request[o])' = w
    BY <1>1 DEF Bodies
  <2>8. Backed(todo[o], request[o], Bodies(request[o]), seen[o].home, Kept(o))'
    <3>1. Backed(todo[o], r, w, seen[o].home, Kept(o))
      BY DEF Reliable
    <3> HIDE DEF r, w
    <3>2. Backed(todo'[o], r, w, seen[o].home, Kept(o))
      BY <1>1, <3>1, PassesBacked
    <3>3. Backed(todo'[o], r, w, seen[o].home, Kept(o)')
      BY <2>6, <3>2, MoreBacked
    <3> QED BY <1>1, <2>7, <3>3 DEF r, w
  <2>9. EdgesBacked(o)'
    <3>1. EdgesBacked(o)
      BY DEF Reliable
    <3>2. \A c, p : EdgeWants(c, p, Bodies(request[o]))' = EdgeWants(c, p, w)
      BY <2>7 DEF EdgeWants, Attaching, Container, Unlinked
    <3> QED BY <1>1, <2>6, <3>1, <3>2 DEF EdgesBacked, Edge
  <2>10. ItemsBacked(o)'
    <3>1. ItemsBacked(o)
      BY DEF Reliable
    <3>2. \A n : Node(n) \in DOMAIN writes[o] => /\ db'[Node(n)] = db[Node(n)]
                                               /\ (NewOnSQLite(n) => NewOnSQLite(n)')
      BY DEF NewOnSQLite, Node
    <3> QED BY <1>1, <2>6, <3>1, <3>2 DEF ItemsBacked, Node, Itemizing, Childless
  <2> QED BY <1>1, <2>8, <2>9, <2>10 DEF Reliable
<1> QED BY <1>2, <1>3

(* The request that steps goes on with a and what it has left.                      *)
LEMMA ReliesOn ==
    ASSUME IInv, NEW t \in Threads, Running(t), Reliable(t), UNCHANGED engine, request'[t] = request[t],
           NEW a \in Seq(Statements), todo'[t] = a \o Tail(todo[t]), Kept(t) \subseteq Kept(t)',
           NEW K, K = Kept(t)' \cup ProvedBy(a, request[t], Bodies(request[t])),
           Backed(a, request[t], Bodies(request[t]), seen'[t].home, Kept(t)'),
           Proves(First(t), request[t], Bodies(request[t])) \subseteq K,
           seen'[t].home \in {seen[t].home, NoNode} \/ {Attaching, Container(seen'[t].home)} \subseteq K,
           EdgesBacked(t)', ItemsBacked(t)'
    PROVE  Reliable(t)'
<1> DEFINE r == request[t]
           w == Bodies(request[t])
           s == todo[t]
           H == Kept(t)
           J == Kept(t)'
           next == seen'[t].home
<1>1. /\ s \in Seq(Statements \cup {Finish}) /\ a \in Seq(Statements \cup {Finish}) /\ s # <<>>
      /\ r \in Requests
  BY StatementsAreMore DEF IInv, Typed, ThreadOK, Rest, Running
<1>2. Backed(s, r, w, seen[t].home, H)
  BY DEF Reliable
<1>3. /\ Backed(a, r, w, next, J) /\ H \subseteq J \cup ProvedBy(a, r, w)
      /\ Proves(s[1], r, w) \subseteq J \cup ProvedBy(a, r, w)
      /\ next \in {seen[t].home, NoNode} \/ {Attaching, Container(next)} \subseteq J \cup ProvedBy(a, r, w)
  BY DEF First
<1>4. Bodies(request[t])' = w
  BY DEF Bodies
<1>5. request'[t] # NoRequest
  <2>1. request'[t].op # "none"
    BY <1>1 DEF Requests, Creations, Changes, Deletions, TagRequests
  <2>2. NoRequest.op = "none"
    BY DEF NoRequest
  <2> QED BY <2>1, <2>2
<1>6. Backed(a \o Tail(s), r, w, next, J)
  <2> HIDE DEF r, w, s, H, J, next
  <2> QED BY <1>1, <1>2, <1>3, BackedContinues
<1>7. Backed(todo[t], request[t], Bodies(request[t]), seen[t].home, Kept(t))'
  BY <1>4, <1>6
<1> QED BY <1>5, <1>7 DEF Reliable

LEMMA SameOvertakers ==
    ASSUME UNCHANGED <<setting, overtook>>, NEW o,
           \A x \in overtook[o] : request[x] = NoRequest \/ request'[x] = request[x]
    PROVE  (\A n : MadeItem(o, n) => MadeItem(o, n)') /\ (Attached(o) => Attached(o)')
<1>1. ~Attaches(NoRequest) /\ \A n : ~MakesItem(NoRequest, n)
  BY DEF Attaches, MakesItem, NoRequest
<1>2. \A x \in overtook[o] : /\ Attaches(request[x]) => Attaches(request[x])'
                             /\ \A n : MakesItem(request[x], n) => MakesItem(request[x], n)'
  BY <1>1 DEF Attaches, MakesItem
<1> QED BY <1>2 DEF MadeItem, Attached

LEMMA MoreOvertakers ==
    ASSUME UNCHANGED <<setting, request>>, NEW o, overtook[o] \subseteq overtook'[o]
    PROVE  (\A n : MadeItem(o, n) => MadeItem(o, n)') /\ (Attached(o) => Attached(o)')
<1>1. \A x : Attaches(request[x])' = Attaches(request[x])
             /\ \A n : MakesItem(request[x], n)' = MakesItem(request[x], n)
  BY DEF Attaches, MakesItem
<1> QED BY <1>1 DEF MadeItem, Attached

(* As long as nothing is committed, those who look on see what they have seen.       *)
LEMMA NothingHappens ==
    ASSUME IInv, IInv', PromisesAreKept, NEW o \in Threads,
           UNCHANGED <<engine, setting, db, request, overtook>>,
           todo'[o] = todo[o], seen'[o] = seen[o], writes'[o] = writes[o]
    PROVE  Reliable(o)'
<1>1. Looks(o)
  BY SelfPasses DEF Looks
<1>2. (\A n : MadeItem(o, n) => MadeItem(o, n)') /\ (Attached(o) => Attached(o)')
  BY MoreOvertakers
<1> QED BY <1>1, <1>2, OthersRely DEF PromisesAreKept

LEMMA LearnRelies ==
    ASSUME IInv, IInv', PromisesAreKept, NEW t \in Threads, Running(t),
           NEW values, NEW a \in Seq(Statements), Learn(t, values, a), Onward(t, {}, a),
           Backed(a, request[t], Bodies(request[t]), values.home, Kept(t)),
           NEW K, K = Kept(t) \cup ProvedBy(a, request[t], Bodies(request[t])),
           Proves(First(t), request[t], Bodies(request[t])) \subseteq K,
           values.home \in {seen[t].home, NoNode} \/ {Attaching, Container(values.home)} \subseteq K
    PROVE  PromisesAreKept'
<1>1. /\ UNCHANGED <<engine, setting, db, request, writes, overtook>>
      /\ todo'[t] = a \o Tail(todo[t]) /\ seen'[t] = values
      /\ \A o \in Threads : o # t => todo'[o] = todo[o] /\ seen'[o] = seen[o]
  BY DEF Learn, Continue, IInv, Typed, Domains
<1>2. ASSUME NEW o \in Threads, o # t PROVE Reliable(o)'
  BY <1>1, <1>2, NothingHappens
<1>3. Kept(t) \subseteq Kept(t)'
  <2>1. View(t)' = View(t)
    BY <1>1 DEF View, Over
  <2>2. (\A n : MadeItem(t, n) => MadeItem(t, n)') /\ (Attached(t) => Attached(t)')
    BY <1>1, MoreOvertakers
  <2>3. LeftOut(t) => LeftOut(t)'
    BY <1>1, LeftOutOn
  <2>4. \A p : (View(t)'[Node(p)] = View(t)[Node(p)]) /\ (View(t)'[Edge(p)] = View(t)[Edge(p)])
    BY <2>1
  <2> QED BY <1>1, <2>2, <2>3, <2>4, KeptOn
<1>4. Bodies(request[t])' = Bodies(request[t])
  BY <1>1 DEF Bodies
<1>5. EdgesBacked(t)' /\ ItemsBacked(t)'
  <2>1. EdgesBacked(t) /\ ItemsBacked(t)
    BY DEF PromisesAreKept, Reliable
  <2>2. EdgesBacked(t)'
    <3>1. \A c, p : EdgeWants(c, p, Bodies(request[t]))' = EdgeWants(c, p, Bodies(request[t]))
      BY <1>4 DEF EdgeWants, Attaching, Container, Unlinked
    <3> QED BY <1>1, <1>3, <2>1, <3>1 DEF EdgesBacked, Edge
  <2>3. ItemsBacked(t)'
    BY <1>1, <1>3, <2>1 DEF ItemsBacked, NewOnSQLite, Node, Itemizing, Childless
  <2> QED BY <2>2, <2>3
<1>6. Reliable(t)'
  <2> DEFINE J == Kept(t)' \cup ProvedBy(a, request[t], Bodies(request[t]))
  <2>1. Reliable(t) /\ K \subseteq J
    BY <1>3 DEF PromisesAreKept
  <2>2. Backed(a, request[t], Bodies(request[t]), seen'[t].home, Kept(t)')
    BY <1>1, <1>3, MoreBacked
  <2>3. /\ Proves(First(t), request[t], Bodies(request[t])) \subseteq J
        /\ seen'[t].home \in {seen[t].home, NoNode} \/ {Attaching, Container(seen'[t].home)} \subseteq J
    BY <1>1, <2>1
  <2> QED BY <1>1, <1>3, <1>5, <2>1, <2>2, <2>3, ReliesOn
<1> QED BY <1>2, <1>6 DEF PromisesAreKept

LEMMA EndRelies ==
    ASSUME IInv, IInv', PromisesAreKept, NEW t \in Threads, NEW status, End(t, status)
    PROVE  PromisesAreKept'
<1>1. /\ UNCHANGED <<engine, setting, db, request, seen, overtook>> /\ todo'[t] = <<>> /\ writes'[t] = <<>>
      /\ \A o \in Threads : o # t => todo'[o] = todo[o] /\ writes'[o] = writes[o]
  BY DEF End, IInv, Typed, Domains
<1>2. ASSUME NEW o \in Threads, o # t PROVE Reliable(o)'
  BY <1>1, <1>2, NothingHappens
<1>3. Reliable(t)'
  <2>1. RestsRely'
    BY AlwaysRests, PTL
  <2>2. request[t] = NoRequest => seen[t].home = NoNode
    BY DEF PromisesAreKept, Reliable
  <2> QED BY <1>1, <2>1, <2>2 DEF RestsRely
<1> QED BY <1>2, <1>3 DEF PromisesAreKept
-----------------------------------------------------------------------------
(* The statements that write.                                                     *)

LEMMA PublishedRows ==
    ASSUME IInv, IInv', NEW t \in Threads, NEW rows, NEW references, NEW events, NEW a,
           Publish(t, rows, references, events, a), DOMAIN rows \subseteq Rows
    PROVE  /\ UNCHANGED <<engine, setting, db, request, seen, overtook>>
           /\ todo'[t] = a \o Tail(todo[t])
           /\ \A o \in Threads \ {t} : todo'[o] = todo[o] /\ writes'[o] = writes[o]
           /\ \A row \in Rows : View(t)[row] = IF row \in DOMAIN writes[t] THEN writes[t][row] ELSE db[row]
           /\ \A row \in DOMAIN rows : View(t)'[row] = rows[row]
           /\ \A row \in Rows \ DOMAIN rows : row # Database => View(t)'[row] = View(t)[row]
           /\ \A row \in DOMAIN writes'[t] : row # Database =>
                 \/ row \in DOMAIN rows /\ writes'[t][row] = rows[row]
                 \/ row \in DOMAIN writes[t] /\ writes'[t][row] = writes[t][row]
<1> DEFINE opened == IF engine = "sqlite" THEN Only(Database, TRUE) ELSE <<>>
<1>1. /\ UNCHANGED <<engine, setting, db, request, seen, overtook>>
      /\ writes' = [writes EXCEPT ![t] = Over(rows, Over(opened, @))]
      /\ todo' = [todo EXCEPT ![t] = a \o Tail(@)]
      /\ DOMAIN todo = Threads /\ DOMAIN writes = Threads
  BY DEF Publish, Continue, IInv, Typed, Domains
<1>2. DOMAIN opened \subseteq {Database}
  <2>1. DOMAIN Only(Database, TRUE) = {Database}
    BY OnlyFacts
  <2>2. DOMAIN <<>> = {}
    OBVIOUS
  <2> QED BY <2>1, <2>2
<1> HIDE DEF opened
<1>3. writes'[t] = Over(rows, Over(opened, writes[t]))
  BY <1>1
<1>4. /\ DOMAIN writes'[t] = DOMAIN rows \cup DOMAIN opened \cup DOMAIN writes[t]
      /\ \A row \in DOMAIN rows : writes'[t][row] = rows[row]
      /\ \A row \in DOMAIN writes[t] \ (DOMAIN rows \cup {Database}) : writes'[t][row] = writes[t][row]
  BY <1>2, <1>3 DEF Over
<1>5. ViewsFit /\ ViewsFit'
  BY Always, PTL
<1>6. /\ \A row \in Rows : View(t)[row] = IF row \in DOMAIN writes[t] THEN writes[t][row] ELSE db[row]
      /\ \A row \in Rows : View(t)'[row] = IF row \in DOMAIN writes'[t] THEN writes'[t][row] ELSE db'[row]
  BY <1>5 DEF ViewsFit
<1>7. /\ \A row \in DOMAIN rows : View(t)'[row] = rows[row]
      /\ \A row \in Rows \ DOMAIN rows : row # Database => View(t)'[row] = View(t)[row]
  BY <1>1, <1>2, <1>4, <1>6
<1>8. \A o \in Threads \ {t} : todo'[o] = todo[o] /\ writes'[o] = writes[o]
  BY <1>1
<1> QED BY <1>1, <1>2, <1>4, <1>6, <1>7, <1>8

(* Rows that t may write: what is an item already, or whose children it has looked for,   *)
(* or that is new on SQLite, and an edge that it has checked.                          *)
ItemMay(t, n) ==
    \/ View(t)[Node(n)] = "item"
    \/ /\ Itemizing(n) \in Kept(t)
       /\ Childless(n) \in Kept(t) \/ (engine = "sqlite" /\ db[Node(n)] = "absent")
EdgeMay(t, c, p) ==
    /\ p # c /\ (Bodies(request[t]) => c = request[t].node)
    /\ EdgeWants(c, p, Bodies(request[t])) \subseteq Kept(t)
MayWrite(t, rows) == \A n \in NodeIds :
    /\ Node(n) \in DOMAIN rows /\ rows[Node(n)] = "item" => ItemMay(t, n)
    /\ Edge(n) \in DOMAIN rows /\ rows[Edge(n)] # NoNode => EdgeMay(t, n, rows[Edge(n)])

(* Its own writes break no promise to itself.                                        *)
LEMMA KeptOnByItself ==
    ASSUME IInv, NEW t \in Threads, NEW rows, MayWrite(t, rows), UNCHANGED <<setting, request, overtook>>,
           LeftOut(t) => LeftOut(t)',
           \A row \in DOMAIN rows : View(t)'[row] = rows[row],
           \A row \in Rows \ DOMAIN rows : row # Database => View(t)'[row] = View(t)[row]
    PROVE  Kept(t) \subseteq Kept(t)'
<1>1. (\A n : MadeItem(t, n) => MadeItem(t, n)') /\ (Attached(t) => Attached(t)')
  BY MoreOvertakers
<1>2. \A n \in NodeIds : Node(n) \in Rows \ {Database} /\ Edge(n) \in Rows \ {Database}
  BY RowFacts DEF Node, Edge, Database
<1>3. ASSUME NEW p \in NodeIds, View(t)'[Node(p)] = "item"
      PROVE  View(t)[Node(p)] = "item" \/ MakesItem(request[t], p) \/ MadeItem(t, p)'
  <2>1. CASE Node(p) \in DOMAIN rows
    <3>1. View(t)[Node(p)] = "item" \/ Itemizing(p) \in Kept(t)
      BY <1>3, <2>1 DEF MayWrite, ItemMay
    <3> QED BY <3>1, KeptMeans DEF KeptFacts
  <2> QED BY <1>2, <1>3, <2>1
<1>4. ASSUME NEW c \in NodeIds
      PROVE  \/ View(t)'[Edge(c)] \in {View(t)[Edge(c)], NoNode}
             \/ View(t)'[Edge(c)] # c /\ (Bodies(request[t]) => c = request[t].node)
  BY <1>2 DEF MayWrite, EdgeMay
<1> QED BY <1>1, <1>3, <1>4, KeptOn

LEMMA PublishRelies ==
    ASSUME IInv, IInv', PromisesAreKept, NEW t \in Threads, Running(t),
           NEW rows, NEW references, NEW events, NEW a \in Seq(Statements),
           Publish(t, rows, references, events, a), DOMAIN rows \subseteq Rows, MayWrite(t, rows), Onward(t, DOMAIN rows, a),
           Backed(a, request[t], Bodies(request[t]), seen[t].home, Kept(t)),
           Proves(First(t), request[t], Bodies(request[t])) \subseteq Kept(t)'
    PROVE  PromisesAreKept'
<1>1. /\ UNCHANGED <<engine, setting, db, request, seen, overtook>>
      /\ todo'[t] = a \o Tail(todo[t])
      /\ \A o \in Threads \ {t} : todo'[o] = todo[o] /\ writes'[o] = writes[o]
      /\ \A row \in DOMAIN rows : View(t)'[row] = rows[row]
      /\ \A row \in Rows \ DOMAIN rows : row # Database => View(t)'[row] = View(t)[row]
      /\ \A row \in DOMAIN writes'[t] : row # Database =>
            \/ row \in DOMAIN rows /\ writes'[t][row] = rows[row]
            \/ row \in DOMAIN writes[t] /\ writes'[t][row] = writes[t][row]
  BY PublishedRows
<1>2. ASSUME NEW o \in Threads, o # t PROVE Reliable(o)'
  BY <1>1, <1>2, NothingHappens
<1>3. Kept(t) \subseteq Kept(t)'
  <2>1. LeftOut(t) => LeftOut(t)'
    BY <1>1, LeftOutOn
  <2> QED BY <1>1, <2>1, KeptOnByItself
<1>4. Bodies(request[t])' = Bodies(request[t])
  BY <1>1 DEF Bodies
<1>5. Reliable(t) /\ EdgesBacked(t) /\ ItemsBacked(t)
  BY DEF PromisesAreKept, Reliable
<1>6. \A n : Node(n) # Database /\ Edge(n) # Database
  BY DEF Node, Edge, Database
<1>7. EdgesBacked(t)'
  <2>1. \A c, p : EdgeWants(c, p, Bodies(request[t]))' = EdgeWants(c, p, Bodies(request[t]))
    BY <1>4 DEF EdgeWants, Attaching, Container, Unlinked
  <2>2. ASSUME NEW c \in NodeIds, Edge(c) \in DOMAIN writes'[t], writes'[t][Edge(c)] # NoNode
        PROVE  /\ writes'[t][Edge(c)] # c
               /\ EdgeWants(c, writes'[t][Edge(c)], Bodies(request[t])) \subseteq Kept(t)
    BY <1>1, <1>5, <1>6, <2>2 DEF EdgesBacked, MayWrite, EdgeMay
  <2> QED BY <1>3, <2>1, <2>2 DEF EdgesBacked, Edge
<1>8. ItemsBacked(t)'
  <2>1. ASSUME NEW n \in NodeIds, Node(n) \in DOMAIN writes'[t], writes'[t][Node(n)] = "item"
        PROVE  \/ db[Node(n)] = "item"
               \/ Itemizing(n) \in Kept(t)' /\ (Childless(n) \in Kept(t)' \/ NewOnSQLite(n))
    <3>1. Node(n) \in Rows /\ Node(n) # Database
      BY <1>6, RowFacts
    <3>2. CASE Node(n) \in DOMAIN rows
      <4>1. ViewsFit'
        BY Always, PTL
      <4>2. View(t)'[Node(n)] = "item"
        BY <2>1, <3>1, <4>1 DEF ViewsFit
      <4>3. rows[Node(n)] = "item"
        BY <1>1, <3>2, <4>2
      <4>4. ItemMay(t, n)
        BY <3>2, <4>3 DEF MayWrite
      <4>5. CASE View(t)[Node(n)] = "item"
        <5>1. (Node(n) \in DOMAIN writes[t] /\ writes[t][Node(n)] = "item") \/ db[Node(n)] = "item"
          BY <3>1, <4>5, Always DEF ViewsFit
        <5> QED BY <1>3, <1>5, <5>1 DEF ItemsBacked
      <4> QED BY <1>3, <4>4, <4>5 DEF ItemMay, NewOnSQLite
    <3>3. CASE Node(n) \notin DOMAIN rows
      BY <1>1, <1>3, <1>5, <1>6, <2>1, <3>3 DEF ItemsBacked
    <3> QED BY <3>2, <3>3
  <2>2. \A n : (NewOnSQLite(n)' = NewOnSQLite(n)) /\ (db'[Node(n)] = db[Node(n)])
    BY <1>1 DEF NewOnSQLite, Node
  <2> QED BY <2>1, <2>2 DEF ItemsBacked, Node, Itemizing, Childless
<1>9. Backed(a, request[t], Bodies(request[t]), seen'[t].home, Kept(t)')
  <2>1. seen'[t].home = seen[t].home
    BY <1>1
  <2> QED BY <1>3, <2>1, MoreBacked
<1>10. Reliable(t)'
  BY <1>1, <1>3, <1>5, <1>7, <1>8, <1>9, ReliesOn
<1> QED BY <1>2, <1>10 DEF PromisesAreKept
-----------------------------------------------------------------------------
(* The ancestors of a node: the least set with its parent, and the parents of its own.  *)

LEMMA LeastOf ==
    ASSUME NEW S \in SUBSET Nat, IsFiniteSet(S), S # {}
    PROVE  \E n \in S : \A m \in S : n <= m
<1>1. Cardinality(S) \in Nat /\ Cardinality(S) # 0
  BY FS_CardinalityType, FS_EmptySet
<1>2. PICK n \in S : Place(S, n) = 0
  BY <1>1, EachPlaceIsTaken
<1>3. ASSUME NEW m \in S PROVE n <= m
  <2>1. Place(S, m) \in Nat /\ (m < n => Place(S, m) < Place(S, n))
    BY PlaceIsNat, PlaceGrows
  <2> QED BY <1>2, <2>1
<1> QED BY <1>3

LEMMA CountUp ==
    ASSUME NEW N \in Nat, NEW S, 0 \in S, \A k \in 0..(N - 1) : k \in S => k + 1 \in S
    PROVE  0..N \subseteq S
<1> DEFINE B == (0..N) \ S
<1> SUFFICES ASSUME B # {} PROVE FALSE
  OBVIOUS
<1>1. IsFiniteSet(0..N)
  BY FS_Interval
<1>2. B \in SUBSET Nat /\ IsFiniteSet(B)
  BY <1>1, FS_Subset
<1>3. PICK n \in B : \A m \in B : n <= m
  BY <1>2, LeastOf
<1>4. n \in 0..N /\ n \notin S /\ n # 0
  OBVIOUS
<1>5. n - 1 \in 0..(N - 1) /\ n - 1 \in 0..N /\ ~(n <= n - 1) /\ (n - 1) + 1 = n
  BY <1>4
<1>6. n - 1 \in S
  BY <1>3, <1>5
<1> QED BY <1>4, <1>5, <1>6

EdgesFit(v) == \A m \in NodeIds : v[Edge(m)] \in NodeIds \cup {NoNode}
Closed(v, X) == \A m \in X : v[Edge(m)] \in X \cup {NoNode}
Above(v, A) == A \cup ({v[Edge(a)] : a \in A} \ {NoNode})

Climbs(v, p, f, n) ==
    /\ f \in [0..n -> SUBSET NodeIds] /\ f[0] = {v[Edge(p)]} \ {NoNode}
    /\ \A k \in 0..(n - 1) : f[k + 1] = Above(v, f[k])

LEMMA Climbing ==
    ASSUME NEW v, EdgesFit(v), NEW p \in NodeIds, NEW N \in Nat
    PROVE  \E f : Climbs(v, p, f, N)
<1> DEFINE B == {v[Edge(p)]} \ {NoNode}
           S == {n \in Nat : \E f : Climbs(v, p, f, n)}
<1>1. \A A \in SUBSET NodeIds : Above(v, A) \in SUBSET NodeIds
  BY DEF Above, EdgesFit
<1>2. 0 \in S
  <2>1. B \in SUBSET NodeIds
    BY DEF EdgesFit
  <2>2. Climbs(v, p, [k \in 0..0 |-> B], 0)
    <3> HIDE DEF B
    <3>1. [k \in 0..0 |-> B] \in [0..0 -> SUBSET NodeIds] /\ [k \in 0..0 |-> B][0] = B /\ 0..(0 - 1) = {}
      BY <2>1
    <3> QED BY <3>1 DEF Climbs, B
  <2> QED BY <2>2
<1>3. ASSUME NEW n \in 0..(N - 1), n \in S PROVE n + 1 \in S
  <2>1. PICK f : Climbs(v, p, f, n)
    BY <1>3
  <2>2. /\ f \in [0..n -> SUBSET NodeIds] /\ f[0] = B /\ n \in Nat
        /\ \A k \in 0..(n - 1) : f[k + 1] = Above(v, f[k])
    BY <2>1 DEF Climbs
  <2> HIDE DEF B
  <2> DEFINE g == [k \in 0..(n + 1) |-> IF k <= n THEN f[k] ELSE Above(v, f[n])]
  <2>3. /\ \A k \in 0..n : g[k] = f[k]
        /\ g[n + 1] = Above(v, f[n])
    BY <2>2
  <2>4. g \in [0..(n + 1) -> SUBSET NodeIds]
    <3>1. f[n] \in SUBSET NodeIds
      BY <2>2
    <3>2. Above(v, f[n]) \in SUBSET NodeIds
      BY <1>1, <3>1
    <3> QED BY <2>2, <3>2
  <2> HIDE DEF g
  <2>5. g[0] = B
    BY <2>2, <2>3
  <2>6. ASSUME NEW k \in 0..n PROVE g[k + 1] = Above(v, g[k])
    <3>1. CASE k = n
      BY <2>3, <3>1
    <3>2. CASE k # n
      <4>1. k \in 0..(n - 1) /\ k + 1 \in 0..n /\ k \in 0..n
        BY <2>2, <3>2
      <4> QED BY <2>2, <2>3, <4>1
    <3> QED BY <3>1, <3>2
  <2>7. n + 1 \in Nat /\ 0..((n + 1) - 1) = 0..n
    BY <2>2
  <2>8. Climbs(v, p, g, n + 1)
    BY <2>4, <2>5, <2>6, <2>7 DEF Climbs, B
  <2> QED BY <2>7, <2>8
<1> HIDE DEF S
<1>4. 0..N \subseteq S
  BY <1>2, <1>3, CountUp
<1>5. N \in S
  BY <1>4
<1> QED BY <1>5 DEF S

LEMMA AncestorsClimb ==
    ASSUME NEW v, EdgesFit(v), NEW p \in NodeIds
    PROVE  \E f : Climbs(v, p, f, Cardinality(NodeIds)) /\ Ancestors(v, p) = f[Cardinality(NodeIds)]
<1> DEFINE N == Cardinality(NodeIds)
           Body(g) == [k \in 0..N |-> IF k = 0 THEN {v[Edge(p)]} \ {NoNode}
                                      ELSE g[k - 1] \cup ({v[Edge(a)] : a \in g[k - 1]} \ {NoNode})]
           up == CHOOSE g : g = Body(g)
<1>1. N \in Nat
  BY TransactionsAssumption, FS_CardinalityType
<1>2. Ancestors(v, p) = up[N]
  BY Zenon DEF Ancestors
<1> HIDE DEF N
<1>3. PICK f : Climbs(v, p, f, N)
  BY <1>1, Climbing
<1>4. f = Body(f)
  <2>0. /\ f \in [0..N -> SUBSET NodeIds] /\ f[0] = {v[Edge(p)]} \ {NoNode}
        /\ \A k \in 0..(N - 1) : f[k + 1] = Above(v, f[k])
    BY <1>3 DEF Climbs
  <2>1. ASSUME NEW k \in 0..N PROVE f[k] = Body(f)[k]
    <3>1. CASE k = 0
      BY <2>0, <3>1
    <3>2. CASE k # 0
      <4>1. k - 1 \in 0..(N - 1) /\ (k - 1) + 1 = k
        BY <1>1, <3>2
      <4>2. f[k] = Above(v, f[k - 1])
        BY <2>0, <4>1
      <4> QED BY <3>2, <4>2 DEF Above
    <3> QED BY <3>1, <3>2
  <2> QED BY <2>0, <2>1
<1> HIDE DEF Body
<1>5. up = Body(up)
  BY <1>4
<1> HIDE DEF up
<1>6. \A k \in 0..N : up[k] = IF k = 0 THEN {v[Edge(p)]} \ {NoNode} ELSE Above(v, up[k - 1])
  BY <1>5 DEF Body, Above
<1>7. up[0] = {v[Edge(p)]} \ {NoNode} /\ \A k \in 0..(N - 1) : up[k + 1] = Above(v, up[k])
  <2>1. 0 \in 0..N
    BY <1>1
  <2>2. ASSUME NEW k \in 0..(N - 1) PROVE up[k + 1] = Above(v, up[k])
    <3>1. k + 1 \in 0..N /\ k + 1 # 0 /\ (k + 1) - 1 = k
      BY <1>1
    <3> QED BY <1>6, <3>1
  <2> QED BY <1>6, <2>1, <2>2
<1>8. up \in [0..N -> SUBSET NodeIds]
  <2>1. 0..N \subseteq {k \in Nat : up[k] \in SUBSET NodeIds}
    <3> DEFINE S == {k \in Nat : up[k] \in SUBSET NodeIds}
    <3>1. 0 \in S
      BY <1>7 DEF EdgesFit
    <3>2. ASSUME NEW k \in 0..(N - 1), k \in S PROVE k + 1 \in S
      BY <1>7, <3>2 DEF Above, EdgesFit
    <3> HIDE DEF S
    <3> QED BY <1>1, <3>1, <3>2, CountUp DEF S
  <2>2. up = [k \in 0..N |-> up[k]]
    BY <1>5 DEF Body
  <2> QED BY <2>1, <2>2
<1>9. Climbs(v, p, up, N)
  BY <1>7, <1>8 DEF Climbs
<1> QED BY <1>2, <1>9 DEF N

LEMMA AncestorsAreLeast ==
    ASSUME NEW v, EdgesFit(v), NEW p \in NodeIds
    PROVE  /\ Ancestors(v, p) \subseteq NodeIds /\ v[Edge(p)] \in Ancestors(v, p) \cup {NoNode}
           /\ Closed(v, Ancestors(v, p))
           /\ \A X \in SUBSET NodeIds : v[Edge(p)] \in X \cup {NoNode} /\ Closed(v, X) =>
                 Ancestors(v, p) \subseteq X
<1> DEFINE N == Cardinality(NodeIds)
<1>1. N \in Nat /\ IsFiniteSet(NodeIds)
  BY TransactionsAssumption, FS_CardinalityType
<1>3. \A A \in SUBSET NodeIds : IsFiniteSet(A) /\ Cardinality(A) \in Nat /\ Cardinality(A) <= N
  BY <1>1, FS_Subset, FS_CardinalityType
<1> HIDE DEF N
<1>0. PICK f : Climbs(v, p, f, N) /\ Ancestors(v, p) = f[N]
  BY AncestorsClimb DEF N
<1>2. /\ f \in [0..N -> SUBSET NodeIds] /\ Ancestors(v, p) = f[N] /\ f[0] = {v[Edge(p)]} \ {NoNode}
      /\ \A k \in 0..(N - 1) : f[k + 1] = Above(v, f[k])
  BY <1>0 DEF Climbs
<1>4. \A k \in 0..N : f[k] \in SUBSET NodeIds
  BY <1>2
<1>5. 0 \in 0..N /\ N \in 0..N /\ \A k \in 0..(N - 1) : k \in 0..N /\ k + 1 \in 0..N
  BY <1>1
<1>6. ASSUME NEW X \in SUBSET NodeIds, v[Edge(p)] \in X \cup {NoNode}, Closed(v, X)
      PROVE  Ancestors(v, p) \subseteq X
  <2> DEFINE S == {k \in 0..N : f[k] \subseteq X}
  <2>1. 0 \in S
    BY <1>2, <1>5, <1>6
  <2>2. ASSUME NEW k \in 0..(N - 1), k \in S PROVE k + 1 \in S
    <3>1. f[k] \subseteq X /\ f[k + 1] = Above(v, f[k]) /\ k + 1 \in 0..N
      BY <1>2, <1>5, <2>2
    <3> QED BY <1>6, <3>1 DEF Above, Closed
  <2> HIDE DEF S
  <2>3. 0..N \subseteq S
    BY <1>1, <2>1, <2>2, CountUp
  <2> QED BY <1>2, <1>5, <2>3 DEF S
<1>7. v[Edge(p)] \in Ancestors(v, p) \cup {NoNode}
  <2> DEFINE S == {k \in 0..N : v[Edge(p)] \in f[k] \cup {NoNode}}
  <2>1. 0 \in S
    BY <1>2, <1>5
  <2>2. ASSUME NEW k \in 0..(N - 1), k \in S PROVE k + 1 \in S
    BY <1>2, <1>5, <2>2 DEF Above
  <2> HIDE DEF S
  <2>3. 0..N \subseteq S
    BY <1>1, <2>1, <2>2, CountUp
  <2> QED BY <1>2, <1>5, <2>3 DEF S
<1>8. Closed(v, Ancestors(v, p))
  <2> DEFINE S == {k \in 0..N : Closed(v, f[k]) \/ Cardinality(f[k]) >= k + 1}
  <2>1. 0 \in S
    <3>1. CASE v[Edge(p)] = NoNode
      <4>1. f[0] = {}
        BY <1>2, <3>1
      <4> QED BY <1>5, <4>1 DEF Closed
    <3>2. CASE v[Edge(p)] # NoNode
      <4>1. f[0] = {v[Edge(p)]}
        BY <1>2, <3>2
      <4>2. Cardinality(f[0]) = 1
        BY <4>1, FS_Singleton
      <4> QED BY <1>5, <4>2
    <3> QED BY <3>1, <3>2
  <2>2. ASSUME NEW k \in 0..(N - 1), k \in S PROVE k + 1 \in S
    <3>1. f[k + 1] = Above(v, f[k]) /\ k + 1 \in 0..N /\ k \in 0..N
      BY <1>2, <1>5
    <3>2. CASE Closed(v, f[k])
      <4>1. f[k + 1] = f[k]
        BY <3>1, <3>2 DEF Closed, Above
      <4> QED BY <3>1, <3>2, <4>1
    <3>3. CASE ~Closed(v, f[k])
      <4>1. f[k] \subseteq f[k + 1] /\ f[k] # f[k + 1]
        <5>1. PICK m \in f[k] : v[Edge(m)] \notin f[k] \cup {NoNode}
          BY <3>3 DEF Closed
        <5> QED BY <3>1, <5>1 DEF Above
      <4>2. f[k] \in SUBSET NodeIds /\ f[k + 1] \in SUBSET NodeIds
        BY <1>4, <3>1
      <4>3. Cardinality(f[k]) \in Nat /\ Cardinality(f[k + 1]) \in Nat /\ IsFiniteSet(f[k + 1])
        BY <1>3, <4>2
      <4>4. Cardinality(f[k]) # Cardinality(f[k + 1]) /\ Cardinality(f[k]) <= Cardinality(f[k + 1])
        BY <4>1, <4>3, FS_Subset
      <4>5. Cardinality(f[k]) >= k + 1
        BY <2>2, <3>3
      <4>6. Cardinality(f[k + 1]) >= (k + 1) + 1
        BY <4>3, <4>4, <4>5
      <4> QED BY <3>1, <4>6
    <3> QED BY <3>2, <3>3
  <2>3. N \in S
    <3> HIDE DEF S
    <3>1. 0..N \subseteq S
      BY <1>1, <2>1, <2>2, CountUp
    <3> QED BY <1>5, <3>1
  <2>4. ~(Cardinality(f[N]) >= N + 1)
    <3>1. f[N] \in SUBSET NodeIds
      BY <1>4, <1>5
    <3>2. Cardinality(f[N]) \in Nat /\ Cardinality(f[N]) <= N
      BY <1>3, <3>1
    <3> QED BY <1>1, <3>2
  <2> QED BY <1>2, <2>3, <2>4
<1> QED BY <1>2, <1>4, <1>5, <1>6, <1>7, <1>8

LEMMA CheckedIsApart ==
    ASSUME NEW v, EdgesFit(v), NEW n, NEW p \in NodeIds,
           n \notin Ancestors(v, p) \cup {p}
    PROVE  Apart(v, n, p)
<1> DEFINE X == Ancestors(v, p) \cup {p}
<1>1. X \in SUBSET NodeIds /\ p \in X /\ n \notin X /\ \A m \in X : v[Edge(m)] \in X \cup {NoNode}
  BY AncestorsAreLeast DEF Closed
<1> HIDE DEF X
<1> QED BY <1>1 DEF Apart
-----------------------------------------------------------------------------
(* The statements that read.                                                     *)

LEMMA ProvesOf ==
    ASSUME NEW s, NEW r, NEW w
    PROVE  /\ s[1] = "ensure_container" =>
                 Proves(s, r, w) = IF MakesItem(r, s[2]) THEN {} ELSE {Container(s[2])}
           /\ s[1] = "ensure_childless" => Proves(s, r, w) = IF ItsNode(r, s[2]) THEN {Childless(s[2])} ELSE {}
           /\ s[1] = "ensure_acyclic" =>
                 Proves(s, r, w) = IF ItsNode(r, s[2]) THEN {Unlinked(s[2], s[3])} ELSE {}
           /\ s[1] \notin {"ensure_container", "ensure_childless", "ensure_acyclic", "insert_node"} =>
                 Proves(s, r, w) = {}
BY DEF Proves

LEMMA FirstWants ==
    ASSUME IInv, NEW t \in Threads, Running(t), Reliable(t)
    PROVE  Wants(First(t), Bodies(request[t]), seen[t].home) \subseteq Kept(t)
<1>1. /\ 1 \in 1..Len(todo[t]) /\ Len(todo[t]) \in Nat
      /\ Backed(todo[t], request[t], Bodies(request[t]), seen[t].home, Kept(t))
  BY DEF IInv, Typed, ThreadOK, Rest, Running, Reliable
<1>2. \A j \in 1..Len(todo[t]) : ~(j < 1)
  BY <1>1
<1> QED BY <1>1, <1>2 DEF Backed, First

LEMMA LookRelies ==
    ASSUME IInv, IInv', PromisesAreKept, NEW t \in Threads, Running(t), NEW values, NEW a, NEW G,
           Onward(t, {}, a),
           Learn(t, values, a), Sure(a, request[t], Bodies(request[t]), values.home, Kept(t), G),
           Proves(First(t), request[t], Bodies(request[t])) \subseteq Kept(t) \cup G,
           values.home \in {seen[t].home, NoNode} \/ {Attaching, Container(values.home)} \subseteq Kept(t) \cup G
    PROVE  PromisesAreKept'
<1> DEFINE w == Bodies(request[t])
           K == Kept(t) \cup ProvedBy(a, request[t], w)
<1>1. a \in Seq(Statements) /\ Backed(a, request[t], w, values.home, Kept(t)) /\ G \subseteq K
  BY DEF Sure
<1>2. Proves(First(t), request[t], w) \subseteq K
  BY <1>1
<1>3. values.home \in {seen[t].home, NoNode} \/ {Attaching, Container(values.home)} \subseteq K
  BY <1>1
<1> QED BY <1>1, <1>2, <1>3, LearnRelies

LEMMA GlanceRelies ==
    ASSUME IInv, IInv', PromisesAreKept, NEW t \in Threads, Running(t), NEW values, Learn(t, values, <<>>),
           Proves(First(t), request[t], Bodies(request[t])) \subseteq Kept(t),
           values.home \in {seen[t].home, NoNode} \/ {Attaching, Container(values.home)} \subseteq Kept(t)
    PROVE  PromisesAreKept'
<1>1. Sure(<<>>, request[t], Bodies(request[t]), values.home, Kept(t), Kept(t))
  BY SureNothing
<1>2. Onward(t, {}, <<>>)
  BY DEF Onward
<1> QED BY <1>1, <1>2, LookRelies

LEMMA ChecksRely ==
    ASSUME IInv, IInv', PromisesAreKept, NEW t \in Threads,
           \/ FetchNode(t) \/ EnsureChildless(t) \/ EnsureContainer(t) \/ EnsureAcyclic(t)
           \/ EnsureNewTag(t) \/ FetchTag(t)
    PROVE  PromisesAreKept'
<1> DEFINE r == request[t]
           w == Bodies(request[t])
<1>1. ASSUME NEW s, Doing(t, s), NEW holds, NEW status, Check(t, holds, status),
             holds => Proves(s, r, w) \subseteq Kept(t)
      PROVE  PromisesAreKept'
  <2>1. Running(t) /\ First(t) = s
    BY <1>1 DEF Doing, First
  <2>2. CASE holds
    <3>1. Learn(t, seen[t], <<>>)
      BY <1>1, <2>2 DEF Check, Read
    <3> QED BY <1>1, <2>1, <2>2, <3>1, GlanceRelies
  <2>3. CASE ~holds
    BY <1>1, <2>3, EndRelies DEF Check
  <2> QED BY <2>2, <2>3
<1>2. KeptFacts
  BY KeptMeans
<1>3. CASE FetchNode(t)
  <2>1. PICK n \in NodeIds : Doing(t, <<"fetch_node", n>>) /\ Check(t, View(t)[Node(n)] # "absent", 404)
    BY <1>3 DEF FetchNode
  <2>2. Proves(<<"fetch_node", n>>, r, w) = {}
    BY ProvesOf
  <2> QED BY <1>1, <2>1, <2>2
<1>4. CASE EnsureChildless(t)
  <2>1. PICK n \in NodeIds :
           Doing(t, <<"ensure_childless", n>>) /\ Check(t, ChildrenIn(View(t), n) = {}, 400)
    BY <1>4 DEF EnsureChildless
  <2> DEFINE s == <<"ensure_childless", n>>
             holds == ChildrenIn(View(t), n) = {}
  <2>2. Proves(s, r, w) = IF ItsNode(r, n) THEN {Childless(n)} ELSE {}
    BY ProvesOf
  <2>3. holds => Proves(s, r, w) \subseteq Kept(t)
    BY <1>2, <2>2 DEF KeptFacts
  <2>4. Doing(t, s) /\ Check(t, holds, 400)
    BY <2>1
  <2> HIDE DEF s, holds
  <2> QED BY <1>1, <2>3, <2>4
<1>5. CASE EnsureContainer(t)
  <2>1. PICK p \in NodeIds :
           Doing(t, <<"ensure_container", p>>) /\ Check(t, View(t)[Node(p)] = "container", 400)
    BY <1>5 DEF EnsureContainer
  <2> DEFINE s == <<"ensure_container", p>>
             holds == View(t)[Node(p)] = "container"
  <2>2. Proves(s, r, w) = IF MakesItem(r, p) THEN {} ELSE {Container(p)}
    BY ProvesOf
  <2>3. holds => Proves(s, r, w) \subseteq Kept(t)
    BY <1>2, <2>2 DEF KeptFacts
  <2>4. Doing(t, s) /\ Check(t, holds, 400)
    BY <2>1
  <2> HIDE DEF s, holds
  <2> QED BY <1>1, <2>3, <2>4
<1>6. CASE EnsureAcyclic(t)
  <2>1. PICK n \in NodeIds, p \in NodeIds :
           /\ Doing(t, <<"ensure_acyclic", n, p>>)
           /\ Check(t, n \notin Ancestors(View(t), p) \cup {p}, 400)
    BY <1>6 DEF EnsureAcyclic
  <2> DEFINE s == <<"ensure_acyclic", n, p>>
             holds == n \notin Ancestors(View(t), p) \cup {p}
  <2>2. Proves(s, r, w) = IF ItsNode(r, n) THEN {Unlinked(n, p)} ELSE {}
    BY ProvesOf
  <2>3. EdgesFit(View(t))
    <3>1. ViewsFit
      BY Always
    <3>2. Table(View(t))
      BY <3>1 DEF ViewsFit
    <3> QED BY <3>2, RowFacts DEF Table, Fits, EdgesFit, Edge
  <2>4. holds => Apart(View(t), n, p)
    BY <2>3, CheckedIsApart
  <2>5. holds => Proves(s, r, w) \subseteq Kept(t)
    BY <1>2, <2>2, <2>4 DEF KeptFacts
  <2>6. Doing(t, s) /\ Check(t, holds, 400)
    BY <2>1
  <2> HIDE DEF s, holds
  <2> QED BY <1>1, <2>5, <2>6
<1>7. CASE EnsureNewTag(t)
  <2>1. PICK u \in Tags : Doing(t, <<"ensure_new_tag", u>>) /\ Check(t, ~View(t)[Tag(u)], 409)
    BY <1>7 DEF EnsureNewTag
  <2>2. Proves(<<"ensure_new_tag", u>>, r, w) = {}
    BY ProvesOf
  <2> QED BY <1>1, <2>1, <2>2
<1>8. CASE FetchTag(t)
  <2>1. PICK u \in Tags :
           \/ Doing(t, <<"fetch_tag", u>>) /\ Check(t, View(t)[Tag(u)], 404)
           \/ Doing(t, <<"assert_tag", u>>) /\ Check(t, View(t)[Tag(u)], 500)
    BY <1>8 DEF FetchTag
  <2>2. Proves(<<"fetch_tag", u>>, r, w) = {} /\ Proves(<<"assert_tag", u>>, r, w) = {}
    BY ProvesOf
  <2> QED BY <1>1, <2>1, <2>2
<1> QED BY <1>3, <1>4, <1>5, <1>6, <1>7, <1>8

LEMMA EventReadsRely ==
    ASSUME IInv, IInv', PromisesAreKept, NEW t \in Threads,
           \/ AnnounceUpdate(t) \/ AnnounceReplacement(t) \/ AnnounceDeletion(t)
           \/ AnnounceBearers(t) \/ AnnounceParents(t)
    PROVE  PromisesAreKept'
<1>1. PICK s, a : /\ Doing(t, s) /\ s # Finish /\ ~AnnouncesTag(s) /\ s[1] # "assert_tag"
                  /\ Lowest(s) = 4 /\ Highest(s) = 4 /\ Reach(s) = {}
                  /\ Part(a, 4, 4, {}, DeletesSomething(s)) /\ Learn(t, seen[t], a)
  BY EventReads
<1>2. Running(t) /\ First(t) = s
  BY <1>1, FirstFacts
<1>3. Proves(s, request[t], Bodies(request[t])) = {}
  BY <1>1, ProvesOf DEF Lowest, Stage, Wide
<1>4. Sure(a, request[t], Bodies(request[t]), seen[t].home, Kept(t), Kept(t))
  BY <1>1, LaterSure
<1>5. Onward(t, {}, a)
  BY <1>1, LowestIsNat DEF Part, Onward
<1> QED BY <1>1, <1>2, <1>3, <1>4, <1>5, LookRelies

(* What is read of a resource, piece by piece.                                     *)
LEMMA PiecesRely ==
    ASSUME IInv, IInv', PromisesAreKept, NEW t \in Threads, NEW s, Doing(t, s), Lowest(s) = 4,
           NEW n \in NodeIds, NEW a, Reading(a, n), NEW value, Learn(t, [seen[t] EXCEPT !.resource = value], a)
    PROVE  PromisesAreKept'
<1> DEFINE values == [seen[t] EXCEPT !.resource = value]
<1>1. Running(t) /\ First(t) = s
  BY DEF Doing, First
<1>2. values.home = seen[t].home
  BY DEF IInv, Typed, ThreadOK, Memory
<1>3. Proves(s, request[t], Bodies(request[t])) = {}
  BY ProvesOf DEF Lowest, Stage, Wide
<1>4. a \in Seq(Statements) /\ \A i \in 1..Len(a) : Lowest(a[i]) = 4
  <2>1. n \notin Tags
    BY TransactionsAssumption
  <2> QED BY <2>1 DEF Reading, Pieced, Lowest, Stage, Wide, AnnouncesTag
<1> HIDE DEF values
<1>5. Sure(a, request[t], Bodies(request[t]), values.home, Kept(t), Kept(t))
  <2>1. \A i \in 1..Len(a) : Wants(a[i], Bodies(request[t]), values.home) = {}
    BY <1>4, LaterWantNothing
  <2> QED BY <1>4, <2>1, ModestSure
<1>6. Onward(t, {}, a)
  BY <1>4 DEF Onward
<1>7. Learn(t, values, a)
  BY DEF values
<1> QED BY <1>1, <1>2, <1>3, <1>5, <1>6, <1>7, LookRelies

LEMMA PieceReadsRely ==
    ASSUME IInv, IInv', PromisesAreKept, NEW t \in Threads,
           Begins(t) \/ ReadParent(t) \/ ReadChildren(t) \/ ReadChildTags(t) \/ ReadTags(t)
    PROVE  PromisesAreKept'
<1>1. PICK s, a : \E n \in NodeIds, value \in Representations :
         /\ Doing(t, s) /\ s \in (Pieced \cup {"announce"}) \X NodeIds
         /\ Reading(a, n) /\ Learn(t, [seen[t] EXCEPT !.resource = value], a)
  BY PieceReads
<1>2. Lowest(s) = 4
  BY <1>1 DEF Pieced, Lowest, Stage, Wide
<1> QED BY <1>1, <1>2, PiecesRely

LEMMA GlancesRely ==
    ASSUME IInv, IInv', PromisesAreKept, NEW t \in Threads,
           FetchParent(t) \/ FetchChildren(t) \/ FetchBearers(t) \/ PassBy(t)
    PROVE  PromisesAreKept'
<1>0. \A x : [seen[t] EXCEPT !.nodes = x].home = seen[t].home /\ [seen[t] EXCEPT !.parent = x].home = seen[t].home
  BY DEF IInv, Typed, ThreadOK, Memory
<1>1. ASSUME NEW x \in {"fetch_parent", "fetch_children", "fetch_bearers", "pass_by"}, NEW s, s[1] = x,
             Doing(t, s), NEW values, Learn(t, values, <<>>), values.home = seen[t].home
      PROVE  PromisesAreKept'
  <2>1. Running(t) /\ First(t) = s
    BY <1>1 DEF Doing, First
  <2>2. Proves(s, request[t], Bodies(request[t])) = {}
    BY <1>1, ProvesOf
  <2> QED BY <1>1, <2>1, <2>2, GlanceRelies
<1>2. CASE FetchParent(t)
  <2>1. PICK n \in NodeIds : /\ Doing(t, <<"fetch_parent", n>>)
                             /\ Learn(t, [seen[t] EXCEPT !.parent = View(t)[Edge(n)]], <<>>)
    BY <1>2 DEF FetchParent
  <2> DEFINE s == <<"fetch_parent", n>>
             values == [seen[t] EXCEPT !.parent = View(t)[Edge(n)]]
  <2>2. s[1] = "fetch_parent" /\ Doing(t, s) /\ Learn(t, values, <<>>) /\ values.home = seen[t].home
    BY <1>0, <2>1
  <2> HIDE DEF s, values
  <2> QED BY <1>1, <2>2
<1>3. CASE FetchChildren(t)
  <2>1. PICK n \in NodeIds : /\ Doing(t, <<"fetch_children", n>>)
                             /\ Learn(t, [seen[t] EXCEPT !.nodes = ChildrenIn(View(t), n)], <<>>)
    BY <1>3 DEF FetchChildren
  <2> DEFINE s == <<"fetch_children", n>>
             values == [seen[t] EXCEPT !.nodes = ChildrenIn(View(t), n)]
  <2>2. s[1] = "fetch_children" /\ Doing(t, s) /\ Learn(t, values, <<>>) /\ values.home = seen[t].home
    BY <1>0, <2>1
  <2> HIDE DEF s, values
  <2> QED BY <1>1, <2>2
<1>4. CASE FetchBearers(t)
  <2>1. PICK u \in Tags : /\ Doing(t, <<"fetch_bearers", u>>)
                          /\ Learn(t, [seen[t] EXCEPT !.nodes = BearersIn(View(t), u)], <<>>)
    BY <1>4 DEF FetchBearers
  <2> DEFINE s == <<"fetch_bearers", u>>
             values == [seen[t] EXCEPT !.nodes = BearersIn(View(t), u)]
  <2>2. s[1] = "fetch_bearers" /\ Doing(t, s) /\ Learn(t, values, <<>>) /\ values.home = seen[t].home
    BY <1>0, <2>1
  <2> HIDE DEF s, values
  <2> QED BY <1>1, <2>2
<1>5. CASE PassBy(t)
  BY <1>1, <1>5 DEF PassBy, Read
<1> QED BY <1>2, <1>3, <1>4, <1>5

LEMMA CreateOrReplaceRelies ==
    ASSUME IInv, IInv', PromisesAreKept, NEW t \in Threads, CreateOrReplace(t)
    PROVE  PromisesAreKept'
<1> DEFINE r == request[t]
           w == Bodies(request[t])
<1>1. PICK n \in NodeIds :
         /\ Doing(t, <<"create_or_replace", n>>)
         /\ \/ Learn(t, seen[t], CreateNode(n, r.kind, r.parent, r.tags))
            \/ Learn(t, seen[t], ReplaceNode(n, r.kind, r.parent, r.tags))
  BY DEF CreateOrReplace, Read
<1> DEFINE s == <<"create_or_replace", n>>
<1>2. s # Finish /\ Reach(s) = {Whole(n), Node(n), Edge(n)} \cup MarksOf(n)
  BY DEF Finish, Reach
<1>3. Running(t) /\ First(t) = s /\ Whole(n) \in Scope(r) /\ r \in Requests
  BY <1>1, <1>2, FirstFacts
<1>4. r.op = "PUT" /\ n = r.node
  BY <1>3 DEF Scope, Rows, MarksOf, Whole, Node, Edge, Mark, Tag, Sequence, Database
<1>5. r.kind \in Kinds /\ r.parent \in NodeIds \cup {NoNode} /\ r.tags \in Seq(Tags)
  BY <1>3, <1>4 DEF Requests, Creations, Changes, Deletions, TagRequests
<1>6. Proves(s, r, w) = {}
  BY ProvesOf
<1>7. /\ r.kind = "item" => Itemizing(n) \in Kept(t)
      /\ r.parent \in NodeIds => Attaching \in Kept(t)
      /\ ItsNode(r, n) /\ r.op # "PATCH"
  <2>1. ItsNode(r, n) /\ r.op # "PATCH"
    BY <1>4 DEF ItsNode, Bodies
  <2>2. (r.kind = "item" => MakesItem(r, n)) /\ (r.parent \in NodeIds => Attaches(r))
    BY <1>4, TransactionsAssumption DEF MakesItem, Attaches
  <2> QED BY <2>1, <2>2, KeptMeans DEF KeptFacts
<1> HIDE DEF r, w, s
<1>8. ASSUME NEW a, NEW G, Sure(a, r, w, seen[t].home, Kept(t), G), Learn(t, seen[t], a)
      PROVE  PromisesAreKept'
  <2>1. Onward(t, {}, a)
    BY <1>3 DEF Onward, s, Lowest, Wide
  <2> QED BY <1>3, <1>6, <1>8, <2>1, LookRelies DEF r, w
<1>9. CASE Learn(t, seen[t], CreateNode(n, r.kind, r.parent, r.tags))
  <2> DEFINE a == CreateNode(n, r.kind, r.parent, r.tags)
  <2>1. Sure(a, r, w, seen[t].home, Kept(t), Proves(<<"insert_node", n, r.kind>>, r, w))
    BY <1>5, <1>7, CreateNodeSure
  <2> QED BY <1>8, <1>9, <2>1
<1>10. CASE Learn(t, seen[t], ReplaceNode(n, r.kind, r.parent, r.tags))
  <2> DEFINE a == ReplaceNode(n, r.kind, r.parent, r.tags)
  <2>1. Sure(a, r, w, seen[t].home, Kept(t), {})
    BY <1>5, <1>7, ReplaceNodeSure
  <2> QED BY <1>8, <1>10, <2>1
<1> QED BY <1>1, <1>9, <1>10 DEF r

(* A deletion neither makes an item nor looks for cycles.                            *)
LEMMA DeletingMakesNothing ==
    ASSUME NEW r, Deleting(r)
    PROVE  ~Bodies(r) /\ Bodies(r) = FALSE /\ \A n : ~MakesItem(r, n) /\ ~ItsNode(r, n)
<1>1. ~Bodies(r)
  BY DEF Deleting, Bodies
<1>2. Bodies(r) = FALSE
  BY <1>1 DEF Bodies
<1> QED BY <1>1, <1>2 DEF MakesItem, ItsNode, Bodies

LEMMA HomeReadsRely ==
    ASSUME IInv, IInv', PromisesAreKept, NEW t \in Threads, FindHome(t) \/ FindOrphanContainer(t)
    PROVE  PromisesAreKept'
<1> DEFINE r == request[t]
           w == Bodies(request[t])
<1>0. /\ setting.homes \subseteq NodeIds
      /\ \A x : [seen[t] EXCEPT !.home = x].home = x
  BY TransactionsAssumption DEF IInv, Typed, ThreadOK, Memory
<1>1. /\ \A n : \A x \in {"find_home", "find_orphan_container"} : Proves(<<x, n>>, r, w) = {}
      /\ KeptFacts
  BY KeptMeans, ProvesOf
<1>2. CASE FindHome(t)
  <2>1. PICK n \in NodeIds :
           /\ Doing(t, <<"find_home", n>>)
           /\ \/ Learn(t, seen[t], <<>>)
              \/ setting.homes # {} /\ Learn(t, seen[t], << <<"find_orphan_container", n>> >>)
    BY <1>2 DEF FindHome, Read, When
  <2>2. Running(t) /\ First(t) = <<"find_home", n>>
    BY <2>1 DEF Doing, First
  <2>3. CASE Learn(t, seen[t], <<>>)
    BY <1>1, <2>2, <2>3, GlanceRelies
  <2>4. CASE setting.homes # {} /\ Learn(t, seen[t], << <<"find_orphan_container", n>> >>)
    <3> DEFINE x == <<"find_orphan_container", n>>
               y == <<"find_home", n>>
    <3>1. Wants(y, w, seen[t].home) = {Homing} /\ Wants(x, w, seen[t].home) = {Attaching}
      BY WantsOf
    <3>2. Homing \in Kept(t)
      <4>1. Wants(First(t), w, seen[t].home) \subseteq Kept(t)
        BY <2>2, FirstWants DEF PromisesAreKept
      <4> QED BY <2>2, <3>1, <4>1
    <3>3. Attaching \in Kept(t)
      BY <1>1, <2>4, <3>2 DEF KeptFacts
    <3>4. x \in Statements /\ Proves(x, r, w) = {}
      BY <1>1 DEF Statements
    <3>5. Proves(y, r, w) = {} /\ Onward(t, {}, <<x>>)
      <4>1. Lowest(y) = 1
        BY DEF Lowest, Wide
      <4> QED BY <1>1, <2>2, <4>1 DEF Onward
    <3> HIDE DEF x, y
    <3>6. Sure(<<x>>, r, w, seen[t].home, Kept(t), Kept(t))
      BY <3>1, <3>3, <3>4, SureSingle
    <3> QED BY <2>2, <2>4, <3>5, <3>6, LookRelies DEF x, y
  <2> QED BY <2>1, <2>3, <2>4
<1>3. CASE FindOrphanContainer(t)
  <2>1. PICK n \in NodeIds :
           /\ Doing(t, <<"find_orphan_container", n>>)
           /\ \/ \E h \in NodeIds \cup {NoNode} :
                    /\ h = NoNode \/ View(t)[Node(h)] = "container"
                    /\ Learn(t, [seen[t] EXCEPT !.home = h], <<>>)
              \/ \E h \in NodeIds :
                    Learn(t, [seen[t] EXCEPT !.home = h], CreateNode(h, "container", NoNode, <<>>))
    <3> DEFINE found == {h \in setting.homes : View(t)[Node(h)] = "container"}
    <3>1. found # {} => Min(found) \in NodeIds /\ View(t)[Node(Min(found))] = "container"
      <4>1. found \in SUBSET NodeIds /\ \A h \in found : View(t)[Node(h)] = "container"
        BY <1>0
      <4> HIDE DEF found
      <4>2. found # {} => Min(found) \in found
        BY <4>1, Least
      <4> QED BY <4>1, <4>2
    <3> QED BY <1>0, <1>3, <3>1 DEF FindOrphanContainer
  <2> DEFINE s == <<"find_orphan_container", n>>
  <2>2. s # Finish /\ DeletesSomething(s) /\ Wants(s, w, seen[t].home) = {Attaching} /\ Proves(s, r, w) = {}
    <3>1. s[1] = "find_orphan_container" /\ Finish[1] = "commit"
      BY DEF Finish
    <3> HIDE DEF s
    <3>2. Wants(s, w, seen[t].home) = {Attaching}
      BY <3>1, WantsOf
    <3>3. Proves(s, r, w) = {}
      BY <3>1, ProvesOf
    <3>4. s # Finish /\ DeletesSomething(s)
      BY <3>1 DEF DeletesSomething
    <3> QED BY <3>2, <3>3, <3>4
  <2>3. Doing(t, s)
    BY <2>1
  <2> HIDE DEF s
  <2>4. Running(t) /\ First(t) = s /\ Deleting(r)
    BY <2>2, <2>3, FirstFacts
  <2>5. Attaching \in Kept(t)
    <3>1. Wants(First(t), w, seen[t].home) \subseteq Kept(t)
      BY <2>4, FirstWants DEF PromisesAreKept
    <3> QED BY <2>2, <2>4, <3>1
  <2>6. \A n_1 : ~MakesItem(r, n_1)
    BY <2>4, DeletingMakesNothing
  <2>7. CASE \E h \in NodeIds \cup {NoNode} :
                /\ h = NoNode \/ View(t)[Node(h)] = "container"
                /\ Learn(t, [seen[t] EXCEPT !.home = h], <<>>)
    <3>1. PICK h \in NodeIds \cup {NoNode} :
             /\ h = NoNode \/ View(t)[Node(h)] = "container"
             /\ Learn(t, [seen[t] EXCEPT !.home = h], <<>>)
      BY <2>7
    <3>2. h = NoNode \/ {Attaching, Container(h)} \subseteq Kept(t)
      BY <1>1, <2>5, <2>6, <3>1 DEF KeptFacts
    <3> DEFINE values == [seen[t] EXCEPT !.home = h]
    <3>3. values.home = h
      BY <1>0
    <3> HIDE DEF values
    <3> QED BY <2>2, <2>4, <3>1, <3>2, <3>3, GlanceRelies DEF values
  <2>8. CASE \E h \in NodeIds :
                Learn(t, [seen[t] EXCEPT !.home = h], CreateNode(h, "container", NoNode, <<>>))
    <3>1. PICK h \in NodeIds :
             Learn(t, [seen[t] EXCEPT !.home = h], CreateNode(h, "container", NoNode, <<>>))
      BY <2>8
    <3> DEFINE a == CreateNode(h, "container", NoNode, <<>>)
               values == [seen[t] EXCEPT !.home = h]
               x == <<"insert_node", h, "container">>
    <3>2. Sure(a, r, w, h, Kept(t), Proves(x, r, w))
      <4>1. <<>> \in Seq(Tags) /\ "container" \in Kinds /\ NoNode \in NodeIds \cup {NoNode} /\ NoNode \notin NodeIds
        BY TransactionsAssumption DEF Kinds
      <4> DEFINE kind == "container"
                 none == <<>>
      <4>2. kind # "item"
        OBVIOUS
      <4> HIDE DEF kind, none
      <4>3. kind \in Kinds /\ none \in Seq(Tags)
        BY <4>1 DEF kind, none
      <4>4. Sure(CreateNode(h, kind, NoNode, none), r, w, h, Kept(t), Proves(<<"insert_node", h, kind>>, r, w))
        BY <4>1, <4>2, <4>3, CreateNodeSure
      <4> QED BY <4>4 DEF kind, none
    <3>3. Container(h) \in Proves(x, r, w)
      <4>1. x[1] = "insert_node" /\ x[2] = h /\ x[3] = "container"
        OBVIOUS
      <4> HIDE DEF x
      <4> QED BY <2>6, <4>1 DEF Proves
    <3>4. values.home = h
      BY <1>0
    <3>5. Learn(t, values, a)
      BY <3>1
    <3> HIDE DEF a, values, x
    <3>6. {Attaching, Container(values.home)} \subseteq Kept(t) \cup Proves(x, r, w)
      BY <2>5, <3>3, <3>4
    <3>7. Sure(a, r, w, values.home, Kept(t), Proves(x, r, w))
      BY <3>2, <3>4
    <3>8. Onward(t, {}, a)
      BY <2>4, DeletingMakesNothing DEF Onward
    <3> QED BY <2>2, <2>4, <3>5, <3>6, <3>7, <3>8, LookRelies
  <2> QED BY <2>1, <2>7, <2>8
<1> QED BY <1>2, <1>3

LEMMA ReassignsRely ==
    ASSUME IInv, IInv', PromisesAreKept, NEW t \in Threads, ReassignChildren(t) \/ Reassign(t)
    PROVE  PromisesAreKept'
<1> DEFINE r == request[t]
           w == Bodies(request[t])
           home == seen[t].home
<1>0. ASSUME Running(t) PROVE Wants(First(t), w, home) \subseteq Kept(t)
  BY <1>0, FirstWants DEF PromisesAreKept
<1>1. CASE ReassignChildren(t)
  <2>1. PICK n \in NodeIds :
           LET children == Ascending(ChildrenIn(View(t), n))
           IN  /\ Doing(t, <<"reassign_children", n>>)
               /\ Learn(t, seen[t], When(home # NoNode,
                                         [i \in DOMAIN children |-> <<"reassign", children[i], home>>]))
    BY <1>1 DEF ReassignChildren, Read
  <2> DEFINE s == <<"reassign_children", n>>
             S == ChildrenIn(View(t), n)
             children == Ascending(S)
             a == [i \in DOMAIN children |-> <<"reassign", children[i], home>>]
  <2>2. PICK k \in Nat : DOMAIN children = 1..k /\ \A i \in 1..k : children[i] \in S
    <3>1. S \in SUBSET Nat /\ IsFiniteSet(S)
      BY Sights, TransactionsAssumption, FS_Subset
    <3> HIDE DEF S
    <3>2. Ascending(S) \in Seq(S)
      BY <3>1, AscendingFacts
    <3> QED BY <3>2
  <2>3. Doing(t, s) /\ Learn(t, seen[t], When(home # NoNode, a))
    BY <2>1
  <2>4. Proves(s, r, w) = {} /\ Wants(s, w, home) = IF home = NoNode THEN {} ELSE {Attaching, Container(home)}
    <3>1. Proves(s, r, w) = {}
      BY ProvesOf
    <3>2. \A x : Wants(s, w, x) = IF x = NoNode THEN {} ELSE {Attaching, Container(x)}
      BY WantsOf
    <3> QED BY <3>1, <3>2
  <2> HIDE DEF children, s
  <2>5. Running(t) /\ First(t) = s
    BY <2>3 DEF Doing, First
  <2>6. CASE home # NoNode
    <3>1. home \in NodeIds /\ S \subseteq NodeIds
      BY <2>6, Sights DEF Memory
    <3>2. \A c \in NodeIds : <<"reassign", c, home>> \in Statements
      BY <3>1 DEF Statements
    <3>3. \A c : \A x : Wants(<<"reassign", c, home>>, w, x) = {Attaching, Container(home)}
      BY WantsOf
    <3>4. a \in Seq(Statements) /\ Len(a) = k
      <4>1. a \in [1..k -> Statements]
        BY <2>2, <3>1, <3>2
      <4> QED BY <4>1
    <3>5. \A i \in 1..Len(a) : \E c \in S : a[i] = <<"reassign", c, home>>
      BY <2>2, <3>4
    <3>6. Learn(t, seen[t], a)
      BY <2>3, <2>6 DEF When
    <3>7. {Attaching, Container(home)} \subseteq Kept(t)
      BY <1>0, <2>4, <2>5, <2>6
    <3>8. \A i \in 1..Len(a) : Wants(a[i], w, home) \subseteq Kept(t)
      BY <3>3, <3>5, <3>7
    <3>10. Onward(t, {}, a)
      <4>1. \A c : Lowest(<<"reassign", c, home>>) = 2
        BY DEF Lowest, Stage, Wide
      <4> QED BY <3>5, <4>1 DEF Onward
    <3> HIDE DEF a
    <3>9. Sure(a, r, w, home, Kept(t), Kept(t))
      BY <3>4, <3>8 DEF Sure, Backed
    <3> QED BY <2>4, <2>5, <3>6, <3>9, <3>10, LookRelies
  <2>7. CASE home = NoNode
    <3>1. Learn(t, seen[t], <<>>)
      BY <2>3, <2>7 DEF When
    <3> QED BY <2>4, <2>5, <3>1, GlanceRelies
  <2> QED BY <2>6, <2>7
<1>2. CASE Reassign(t)
  <2>1. PICK c \in NodeIds, p \in NodeIds :
           Doing(t, <<"reassign", c, p>>) /\ Learn(t, seen[t], SetParent(c, p))
    BY <1>2 DEF Reassign, Read
  <2> DEFINE s == <<"reassign", c, p>>
             a == SetParent(c, p)
  <2>2. /\ Proves(s, r, w) = {} /\ Wants(s, w, home) = {Attaching, Container(p)}
        /\ s # Finish /\ DeletesSomething(s)
    <3>1. Proves(s, r, w) = {}
      BY ProvesOf
    <3>2. \A x : Wants(s, w, x) = {Attaching, Container(p)}
      BY WantsOf
    <3> QED BY <3>1, <3>2 DEF Finish, DeletesSomething
  <2>3. Doing(t, s) /\ Learn(t, seen[t], a)
    BY <2>1
  <2> HIDE DEF s
  <2>4. Running(t) /\ First(t) = s /\ Deleting(r)
    BY <2>2, <2>3, FirstFacts
  <2>5. w = FALSE
    BY <2>4, DeletingMakesNothing
  <2>6. {Attaching, Container(p)} \subseteq Kept(t)
    BY <1>0, <2>2, <2>4
  <2>7. EdgeWants(c, p, w) \subseteq Kept(t)
    BY <2>5, <2>6 DEF EdgeWants
  <2>8. Sure(a, r, w, home, Kept(t), Kept(t))
    BY <2>7, SetParentSure
  <2>9. Onward(t, {}, a)
    BY <2>4, DeletingMakesNothing DEF Onward
  <2> HIDE DEF a
  <2> QED BY <2>2, <2>3, <2>4, <2>8, <2>9, LookRelies
<1> QED BY <1>1, <1>2

LEMMA TagReadsRely ==
    ASSUME IInv, IInv', PromisesAreKept, NEW t \in Threads, EnsureTag(t) \/ InsertMarks(t)
    PROVE  PromisesAreKept'
<1> DEFINE r == request[t]
           w == Bodies(request[t])
           home == seen[t].home
<1>1. CASE EnsureTag(t)
  <2>1. PICK u \in Tags : /\ Doing(t, <<"ensure_tag", u>>)
                          /\ \/ Learn(t, seen[t], <<>>)
                             \/ Learn(t, seen[t], << <<"insert_tag", u>> >>)
    BY <1>1 DEF EnsureTag, Read, When
  <2> DEFINE s == <<"ensure_tag", u>>
             x == <<"insert_tag", u>>
  <2>2. Proves(s, r, w) = {}
    BY ProvesOf
  <2>3. x \in Statements /\ Onward(t, {}, <<x>>)
    BY DEF Statements, Onward, Lowest, Stage, Wide
  <2>4. \A y : Wants(x, w, y) = {}
    BY WantsOf
  <2>5. Running(t) /\ First(t) = s
    BY <2>1 DEF Doing, First
  <2>6. CASE Learn(t, seen[t], <<>>)
    BY <2>2, <2>5, <2>6, GlanceRelies
  <2>7. CASE Learn(t, seen[t], <<x>>)
    <3> HIDE DEF s, x
    <3>1. Sure(<<x>>, r, w, home, Kept(t), Kept(t))
      BY <2>3, <2>4, SureSingle
    <3> QED BY <2>2, <2>3, <2>5, <2>7, <3>1, LookRelies
  <2> QED BY <2>1, <2>6, <2>7
<1>2. CASE InsertMarks(t)
  <2>1. PICK n \in NodeIds, S \in SUBSET Tags :
           /\ Doing(t, <<"insert_marks", n, S>>)
           /\ \E list \in SetToSeqs(S) :
                 Learn(t, seen[t], [i \in DOMAIN list |-> <<"insert_mark", n, list[i]>>])
    BY <1>2 DEF InsertMarks, Read
  <2>2. PICK list \in SetToSeqs(S) :
           Learn(t, seen[t], [i \in DOMAIN list |-> <<"insert_mark", n, list[i]>>])
    BY <2>1
  <2> DEFINE s == <<"insert_marks", n, S>>
             a == [i \in DOMAIN list |-> <<"insert_mark", n, list[i]>>]
  <2>3. Proves(s, r, w) = {}
    BY ProvesOf
  <2>4. PICK k \in Nat : DOMAIN list = 1..k /\ \A i \in 1..k : list[i] \in S
    BY <2>2, ListOfSet, TransactionsAssumption, FS_Subset
  <2>5. \A u \in S : <<"insert_mark", n, u>> \in Statements
    BY DEF Statements
  <2>6. \A u, x : Wants(<<"insert_mark", n, u>>, w, x) = {}
    BY WantsOf
  <2>7. a \in Seq(Statements) /\ Len(a) = k
    <3>1. a \in [1..k -> Statements]
      BY <2>4, <2>5
    <3> QED BY <3>1
  <2>8. \A i \in 1..Len(a) : a[i] = <<"insert_mark", n, list[i]>>
    BY <2>4, <2>7
  <2>9. Doing(t, s) /\ Learn(t, seen[t], a)
    BY <2>1, <2>2
  <2>10. \A i \in 1..Len(a) : Wants(a[i], w, home) = {}
    BY <2>6, <2>8
  <2>13. Onward(t, {}, a)
    <3>1. \A u : Lowest(<<"insert_mark", n, u>>) = 3
      BY DEF Lowest, Stage, Wide
    <3> QED BY <2>8, <3>1 DEF Onward
  <2> HIDE DEF s, a
  <2>11. Running(t) /\ First(t) = s
    BY <2>9 DEF Doing, First
  <2>12. Sure(a, r, w, home, Kept(t), Kept(t))
    BY <2>7, <2>10, ModestSure
  <2> QED BY <2>3, <2>9, <2>11, <2>12, <2>13, LookRelies
<1> QED BY <1>1, <1>2
-----------------------------------------------------------------------------
(* Each statement that writes.                                                     *)

LEMMA HarmlessRows ==
    ASSUME NEW t, NEW rows, \A row \in DOMAIN rows : /\ row[1] = "node" => rows[row] # "item"
                                                     /\ row[1] = "edge" => rows[row] = NoNode
    PROVE  MayWrite(t, rows)
<1>1. \A n : Node(n)[1] = "node" /\ Edge(n)[1] = "edge"
  BY DEF Node, Edge
<1> QED BY <1>1 DEF MayWrite

LEMMA WriteRelies ==
    ASSUME IInv, IInv', PromisesAreKept, NEW t \in Threads, NEW s, Doing(t, s),
           s[1] \notin {"ensure_container", "ensure_childless", "ensure_acyclic", "insert_node"},
           NEW rows, NEW references, NEW events, Publish(t, rows, references, events, <<>>),
           DOMAIN rows \subseteq Rows, MayWrite(t, rows), Onward(t, DOMAIN rows, <<>>)
    PROVE  PromisesAreKept'
<1> DEFINE a == <<>>
<1>1. Running(t) /\ First(t) = s
  BY DEF Doing, First
<1>2. Proves(s, request[t], Bodies(request[t])) = {}
  BY ProvesOf
<1>3. a \in Seq(Statements) /\ Backed(a, request[t], Bodies(request[t]), seen[t].home, Kept(t))
  <2>1. Len(a) = 0 /\ 1..0 = {} /\ a \in Seq(Statements)
    OBVIOUS
  <2> HIDE DEF a
  <2> QED BY <2>1 DEF Backed
<1>4. Publish(t, rows, references, events, a) /\ Onward(t, DOMAIN rows, a)
  OBVIOUS
<1> HIDE DEF a
<1> QED BY <1>1, <1>2, <1>3, <1>4, PublishRelies

LEMMA DeleteRowsRely ==
    ASSUME IInv, IInv', PromisesAreKept, NEW t \in Threads, NEW s,
           s[1] \in {"delete_edge", "delete_child_edges", "delete_marks", "delete_tag_marks"},
           NEW R, IsFiniteSet(R), \A row \in R : row \in Rows /\ row[1] \in {"edge", "mark"},
           DeleteRows(t, s, R)
    PROVE  PromisesAreKept'
<1>1. PICK found \in SetToSeqs(R) :
         /\ Doing(t, s) /\ Granted(t)
         /\ Publish(t, <<>>, {}, <<>>, [i \in DOMAIN found |-> <<"remove_row", found[i]>>])
  BY DEF DeleteRows, Write
<1> DEFINE a == [i \in DOMAIN found |-> <<"remove_row", found[i]>>]
           rows == <<>>
<1>2. PICK k \in Nat : DOMAIN found = 1..k /\ \A i \in 1..k : found[i] \in R
  BY ListHoldsAll
<1>3. \A row \in R : <<"remove_row", row>> \in Statements
  BY DEF Statements
<1>4. a \in [1..k -> Statements]
  BY <1>2, <1>3
<1>5. \A i \in 1..k : a[i][1] = "remove_row"
  BY <1>2
<1>6. Publish(t, rows, {}, <<>>, a) /\ DOMAIN rows = {}
  BY <1>1
<1> HIDE DEF a, rows
<1>7. a \in Seq(Statements) /\ Len(a) = k
  BY <1>4
<1>8. Backed(a, request[t], Bodies(request[t]), seen[t].home, Kept(t))
  <2>1. \A i \in 1..Len(a) : Wants(a[i], Bodies(request[t]), seen[t].home) = {}
    BY <1>5, <1>7, WantsOf
  <2> QED BY <2>1 DEF Backed
<1>9. Running(t) /\ First(t) = s
  BY <1>1 DEF Doing, First
<1>12. Onward(t, DOMAIN rows, a)
  <2>1. \A row \in R : Lowest(<<"remove_row", row>>) > 1
    BY DEF Lowest, Stage, Wide, Rank
  <2>2. \A i \in 1..Len(a) : a[i] = <<"remove_row", found[i]>>
    BY <1>2, <1>7 DEF a
  <2> QED BY <1>2, <1>6, <1>7, <2>1, <2>2 DEF Onward
<1>10. Proves(s, request[t], Bodies(request[t])) = {}
  BY ProvesOf
<1>11. MayWrite(t, rows)
  BY <1>6, HarmlessRows
<1> QED BY <1>6, <1>7, <1>8, <1>9, <1>10, <1>11, <1>12, PublishRelies

LEMMA DeletionsRely ==
    ASSUME IInv, IInv', PromisesAreKept, NEW t \in Threads,
           DeleteEdge(t) \/ DeleteChildEdges(t) \/ DeleteMarks(t) \/ DeleteTagMarks(t)
    PROVE  PromisesAreKept'
<1> DEFINE v == View(t)
<1>1. /\ \A n \in NodeIds : ChildrenIn(v, n) \in SUBSET NodeIds /\ MarksIn(v, n) \in SUBSET Tags
      /\ \A u \in Tags : BearersIn(v, u) \in SUBSET NodeIds
      /\ \A n \in NodeIds : Edge(n) \in Rows /\ \A u \in Tags : Mark(n, u) \in Rows
  BY DEF ChildrenIn, MarksIn, BearersIn, Rows
<1>2. (\A c : Edge(c)[1] = "edge") /\ \A c, u : Mark(c, u)[1] = "mark"
  BY DEF Edge, Mark
<1>3. CASE DeleteEdge(t)
  <2>1. PICK n \in NodeIds : DeleteRows(t, <<"delete_edge", n>>, {e \in {Edge(n)} : v[e] # NoNode})
    BY <1>3 DEF DeleteEdge
  <2> DEFINE R == {e \in {Edge(n)} : v[e] # NoNode}
  <2>2. IsFiniteSet(R)
    BY FS_Singleton, FS_Subset
  <2>3. \A row \in R : row \in Rows /\ row[1] \in {"edge", "mark"}
    BY <1>1, <1>2
  <2> HIDE DEF R
  <2> QED BY <2>1, <2>2, <2>3, DeleteRowsRely DEF R
<1>4. CASE DeleteChildEdges(t)
  <2>1. PICK n \in NodeIds : DeleteRows(t, <<"delete_child_edges", n>>, {Edge(c) : c \in ChildrenIn(v, n)})
    BY <1>4 DEF DeleteChildEdges
  <2> DEFINE R == {Edge(c) : c \in ChildrenIn(v, n)}
  <2>2. IsFiniteSet(R)
    BY <1>1, FiniteRows
  <2>3. \A row \in R : row \in Rows /\ row[1] \in {"edge", "mark"}
    BY <1>1, <1>2
  <2> HIDE DEF R
  <2> QED BY <2>1, <2>2, <2>3, DeleteRowsRely DEF R
<1>5. CASE DeleteMarks(t)
  <2>1. PICK n \in NodeIds : DeleteRows(t, <<"delete_marks", n>>, {Mark(n, u) : u \in MarksIn(v, n)})
    BY <1>5 DEF DeleteMarks
  <2> DEFINE R == {Mark(n, u) : u \in MarksIn(v, n)}
  <2>2. IsFiniteSet(R)
    BY <1>1, FiniteRows
  <2>3. \A row \in R : row \in Rows /\ row[1] \in {"edge", "mark"}
    BY <1>1, <1>2
  <2> HIDE DEF R
  <2> QED BY <2>1, <2>2, <2>3, DeleteRowsRely DEF R
<1>6. CASE DeleteTagMarks(t)
  <2>1. PICK u \in Tags : DeleteRows(t, <<"delete_tag_marks", u>>, {Mark(n, u) : n \in BearersIn(v, u)})
    BY <1>6 DEF DeleteTagMarks
  <2> DEFINE R == {Mark(n, u) : n \in BearersIn(v, u)}
  <2>2. IsFiniteSet(R)
    BY <1>1, FiniteRows
  <2>3. \A row \in R : row \in Rows /\ row[1] \in {"edge", "mark"}
    BY <1>1, <1>2
  <2> HIDE DEF R
  <2> QED BY <2>1, <2>2, <2>3, DeleteRowsRely DEF R
<1> QED BY <1>3, <1>4, <1>5, <1>6

LEMMA RemoveRowRelies ==
    ASSUME IInv, IInv', PromisesAreKept, NEW t \in Threads, RemoveRow(t)
    PROVE  PromisesAreKept'
<1>1. PICK row \in Rows : Doing(t, <<"remove_row", row>>) /\ Publish(t, Only(row, Gone(row)), {}, <<>>, <<>>)
  BY DEF RemoveRow, Write
<1> DEFINE s == <<"remove_row", row>>
           rows == Only(row, Gone(row))
<1>2. DOMAIN rows = {row} /\ rows[row] = Gone(row)
  BY OnlyFacts
<1> HIDE DEF rows
<1>3. MayWrite(t, rows)
  BY <1>2, HarmlessRows DEF Gone
<1>4. s[1] = "remove_row" /\ Doing(t, s)
  BY <1>1
<1>5. s[2] = row /\ s # Finish
  BY DEF Finish
<1> HIDE DEF s
<1>6. s[2][1] \in {"edge", "mark"}
  BY <1>4, <1>5, FirstFacts, Contents
<1>7. Onward(t, DOMAIN rows, <<>>)
  BY <1>2, <1>5, <1>6 DEF Onward, Node
<1> QED BY <1>1, <1>2, <1>3, <1>4, <1>7, WriteRelies DEF rows

(* The last statement of a deletion removes rows.                                    *)
LEMMA DeleteLastRelies ==
    ASSUME IInv, IInv', PromisesAreKept, NEW t \in Threads, NEW s, s[1] \in {"delete_node", "delete_tag"},
           NEW row \in Rows, Cascade(View(t), row) \subseteq Rows, DeleteLast(t, s, row)
    PROVE  PromisesAreKept'
<1> DEFINE D == {row} \cup (IF engine = "postgres" THEN Cascade(View(t), row) ELSE {})
           rows == [r \in D |-> Gone(r)]
<1>1. Doing(t, s) /\ (End(t, 404) \/ Publish(t, rows, {}, <<>>, <<>>))
  BY DEF DeleteLast, Write
<1>2. D \subseteq Rows /\ DOMAIN rows = D /\ \A r \in D : rows[r] = Gone(r)
  OBVIOUS
<1> HIDE DEF rows, D
<1>3. MayWrite(t, rows)
  BY <1>2, HarmlessRows DEF Gone
<1>4. Onward(t, DOMAIN rows, <<>>)
  BY <1>1, NoWayBack DEF Doing, First
<1> QED BY <1>1, <1>2, <1>3, <1>4, EndRelies, WriteRelies

LEMMA LastDeletionsRely ==
    ASSUME IInv, IInv', PromisesAreKept, NEW t \in Threads, DeleteNodeRow(t) \/ DeleteTagRow(t)
    PROVE  PromisesAreKept'
<1>1. ASSUME NEW n \in NodeIds, DeleteLast(t, <<"delete_node", n>>, Node(n))
      PROVE  PromisesAreKept'
  <2> DEFINE s == <<"delete_node", n>>
             row == Node(n)
  <2>1. s[1] = "delete_node" /\ DeleteLast(t, s, row)
    BY <1>1
  <2>2. row \in Rows /\ Cascade(View(t), row) \subseteq Rows
    BY CascadeFacts
  <2> HIDE DEF s, row
  <2> QED BY <2>1, <2>2, DeleteLastRelies
<1>2. ASSUME NEW u \in Tags, DeleteLast(t, <<"delete_tag", u>>, Tag(u))
      PROVE  PromisesAreKept'
  <2> DEFINE s == <<"delete_tag", u>>
             row == Tag(u)
  <2>1. s[1] = "delete_tag" /\ DeleteLast(t, s, row)
    BY <1>2
  <2>2. row \in Rows /\ Cascade(View(t), row) \subseteq Rows
    BY CascadeFacts
  <2> HIDE DEF s, row
  <2> QED BY <2>1, <2>2, DeleteLastRelies
<1> QED BY <1>1, <1>2 DEF DeleteNodeRow, DeleteTagRow

LEMMA EventsRely ==
    ASSUME IInv, IInv', PromisesAreKept, NEW t \in Threads, Announce(t) \/ AppendEvent(t)
    PROVE  PromisesAreKept'
<1>1. ASSUME NEW s, Doing(t, s), s[1] \in {"announce", "append"}, NEW about, NEW resource,
             PublishEvent(t, about, resource)
      PROVE  PromisesAreKept'
  <2> DEFINE rows == Only(Sequence, TRUE)
  <2>1. Publish(t, rows, {}, Only(about, resource), <<>>) /\ DOMAIN rows = {Sequence}
    BY <1>1, OnlyFacts DEF PublishEvent
  <2> HIDE DEF rows
  <2>2. Sequence \in Rows /\ Sequence[1] \notin {"node", "edge"}
    BY DEF Rows, Sequence
  <2>3. MayWrite(t, rows)
    BY <2>1, <2>2, HarmlessRows
  <2>4. Onward(t, DOMAIN rows, <<>>)
    BY <2>1 DEF Onward, Node, Sequence
  <2> QED BY <1>1, <2>1, <2>2, <2>3, <2>4, WriteRelies
<1>2. CASE Announce(t)
  <2>1. CASE Begins(t)
    BY <2>1, PieceReadsRely
  <2>2. ASSUME NEW n \in NodeIds, Doing(t, <<"announce", n>>), Read(t, <<>>)
        PROVE  PromisesAreKept'
    <3> DEFINE s == <<"announce", n>>
    <3>1. s[1] = "announce" /\ Doing(t, s) /\ Learn(t, seen[t], <<>>)
      BY <2>2 DEF Read
    <3> HIDE DEF s
    <3>2. Running(t) /\ First(t) = s /\ Proves(s, request[t], Bodies(request[t])) = {}
      BY <3>1, ProvesOf DEF Doing, First
    <3> QED BY <3>1, <3>2, GlanceRelies
  <2>3. ASSUME NEW n \in NodeIds, Doing(t, <<"announce", n>>), PublishEvent(t, n, Representation(View(t), n))
        PROVE  PromisesAreKept'
    <3> DEFINE s == <<"announce", n>>
               resource == Representation(View(t), n)
    <3>1. s[1] = "announce" /\ Doing(t, s) /\ PublishEvent(t, n, resource)
      BY <2>3
    <3> HIDE DEF s, resource
    <3> QED BY <1>1, <3>1
  <2> QED BY <1>2, <2>1, <2>2, <2>3, AnnounceCases
<1>3. CASE AppendEvent(t)
  <2>1. Doing(t, todo[t][1]) /\ todo[t][1][1] = "append" /\ PublishEvent(t, todo[t][1][2], todo[t][1][3])
    BY <1>3 DEF AppendEvent, Doing
  <2> QED BY <1>1, <2>1
<1> QED BY <1>2, <1>3

LEMMA UpdateFieldsRelies ==
    ASSUME IInv, IInv', PromisesAreKept, NEW t \in Threads, UpdateFields(t)
    PROVE  PromisesAreKept'
<1>1. PICK n \in NodeIds, kind \in Kinds \cup {Relabel} :
         /\ Doing(t, <<"update_node", n, kind>>)
         /\ \/ End(t, 404)
            \/ Publish(t, Only(Node(n), IF kind = Relabel THEN View(t)[Node(n)] ELSE kind), {}, <<>>, <<>>)
            \/ Publish(t, <<>>, {}, <<>>, <<>>)
  BY DEF UpdateFields, Write
<1> DEFINE s == <<"update_node", n, kind>>
           new == IF kind = Relabel THEN View(t)[Node(n)] ELSE kind
           rows == Only(Node(n), new)
           none == <<>>
<1>2. s[1] = "update_node" /\ s[2] = n /\ s[3] = kind /\ Doing(t, s) /\ DOMAIN none = {}
  BY <1>1
<1>3. Node(n) \in Rows /\ DOMAIN rows = {Node(n)} /\ rows[Node(n)] = new
  BY RowFacts, OnlyFacts
<1>0. new = "item" => View(t)[Node(n)] = "item" \/ kind = "item"
  OBVIOUS
<1> HIDE DEF s, new, rows, none
<1>4. MayWrite(t, none) /\ DOMAIN none \subseteq Rows
  BY <1>2, HarmlessRows
<1>9. First(t) = s /\ Running(t)
  BY <1>2 DEF Doing, First
<1>5. MayWrite(t, rows)
  <2>2. Wants(s, Bodies(request[t]), seen[t].home) \subseteq Kept(t)
    BY <1>9, FirstWants DEF PromisesAreKept
  <2>3. kind = "item" => Itemizing(n) \in Kept(t) /\ Childless(n) \in Kept(t)
    BY <1>2, <2>2, WantsOf
  <2>4. \A m : Edge(m) # Node(n) /\ (Node(m) = Node(n) => m = n)
    BY DEF Node, Edge
  <2>5. new = "item" => ItemMay(t, n)
    BY <1>0, <2>3 DEF ItemMay
  <2> QED BY <1>3, <2>4, <2>5 DEF MayWrite
<1>10. Onward(t, DOMAIN rows, <<>>) /\ Onward(t, DOMAIN none, <<>>)
  BY <1>2, <1>9, NoWayBack
<1>6. CASE End(t, 404)
  BY <1>6, EndRelies
<1>7. CASE Publish(t, rows, {}, <<>>, <<>>)
  BY <1>2, <1>3, <1>5, <1>7, <1>10, WriteRelies
<1>8. CASE Publish(t, none, {}, <<>>, <<>>)
  BY <1>2, <1>4, <1>8, <1>10, WriteRelies
<1> QED BY <1>1, <1>6, <1>7, <1>8 DEF rows, none, new

LEMMA InsertEdgeRelies ==
    ASSUME IInv, IInv', PromisesAreKept, NEW t \in Threads, InsertEdge(t)
    PROVE  PromisesAreKept'
<1>1. PICK n \in NodeIds, p \in NodeIds :
         /\ Doing(t, <<"insert_edge", n, p>>)
         /\ \/ End(t, 500)
            \/ n # p /\ Publish(t, Only(Edge(n), p), References(todo[t][1]), <<>>, <<>>)
  BY DEF InsertEdge, Insert
<1> DEFINE s == <<"insert_edge", n, p>>
           rows == Only(Edge(n), p)
           refs == References(todo[t][1])
<1>2. s # Finish /\ s[1] = "insert_edge" /\ s[2] = n /\ s[3] = p /\ Doing(t, s)
  BY <1>1 DEF Finish
<1>3. Edge(n) \in Rows /\ DOMAIN rows = {Edge(n)} /\ rows[Edge(n)] = p
  BY RowFacts, OnlyFacts
<1> HIDE DEF s, rows, refs
<1>4. CASE End(t, 500)
  BY <1>4, EndRelies
<1>5. CASE n # p /\ Publish(t, rows, refs, <<>>, <<>>)
  <2>1. Running(t) /\ First(t) = s /\ Reach(s) \subseteq Scope(request[t])
    BY <1>2, FirstFacts
  <2>2. EdgeWants(n, p, Bodies(request[t])) \subseteq Kept(t)
    <3>1. Wants(s, Bodies(request[t]), seen[t].home) \subseteq Kept(t)
      BY <2>1, FirstWants DEF PromisesAreKept
    <3> QED BY <1>2, <3>1, WantsOf
  <2>3. Bodies(request[t]) => n = request[t].node
    <3>1. Edge(n) \in Scope(request[t])
      BY <1>2, <2>1 DEF Reach
    <3>2. Bodies(request[t]) => ~Deleting(request[t])
      BY DEF Bodies, Deleting
    <3> QED BY <3>1, <3>2, ScopeFacts DEF Edge
  <2>4. \A m : Node(m) # Edge(n) /\ (Edge(m) = Edge(n) => m = n)
    BY DEF Node, Edge
  <2>5. MayWrite(t, rows)
    BY <1>3, <1>5, <2>2, <2>3, <2>4 DEF MayWrite, EdgeMay
  <2>6. Onward(t, DOMAIN rows, <<>>)
    BY <1>3, <2>4 DEF Onward
  <2> QED BY <1>2, <1>3, <1>5, <2>5, <2>6, WriteRelies
<1> QED BY <1>1, <1>4, <1>5 DEF rows, refs

LEMMA InsertMarkRelies ==
    ASSUME IInv, IInv', PromisesAreKept, NEW t \in Threads, InsertMark(t)
    PROVE  PromisesAreKept'
<1>1. PICK n \in NodeIds, u \in Tags :
         /\ Doing(t, <<"insert_mark", n, u>>)
         /\ End(t, 500) \/ Publish(t, Only(Mark(n, u), TRUE), References(todo[t][1]), <<>>, <<>>)
  BY DEF InsertMark, Insert
<1> DEFINE s == <<"insert_mark", n, u>>
           rows == Only(Mark(n, u), TRUE)
           refs == References(todo[t][1])
<1>2. s[1] = "insert_mark" /\ Doing(t, s)
  BY <1>1
<1>3. Mark(n, u) \in Rows /\ DOMAIN rows = {Mark(n, u)} /\ Mark(n, u)[1] = "mark"
  BY RowFacts, OnlyFacts DEF Mark
<1> HIDE DEF s, rows, refs
<1>4. MayWrite(t, rows)
  BY <1>3, HarmlessRows
<1>6. Onward(t, DOMAIN rows, <<>>)
  BY <1>3 DEF Onward, Node
<1>5. CASE Publish(t, rows, refs, <<>>, <<>>)
  BY <1>2, <1>3, <1>4, <1>5, <1>6, WriteRelies
<1> QED BY <1>1, <1>5, EndRelies DEF rows, refs

(* A row that is committed at once: the others see it, and who has made it.          *)
LEMMA ReleaseRelies ==
    ASSUME IInv, IInv', FilesAreKept, PromisesAreKept, engine = "sqlite", NEW t \in Threads, Running(t), Alone(t),
           ~Open(t), NEW row \in Rows, row[1] \in {"node", "tag"}, NEW value,
           \A p \in NodeIds : row = Node(p) /\ value = "item" => Itemizing(p) \in Kept(t),
           NEW a \in Seq(Statements), Backed(a, request[t], Bodies(request[t]), seen[t].home, Kept(t)),
           Proves(First(t), request[t], Bodies(request[t])) \subseteq Kept(t)',
           LeftOut(t) => LeftOut(t)',
           db' = [db EXCEPT ![row] = value], Overtake(t), Continue(t, a),
           UNCHANGED <<engine, setting, request, seen, writes>>
    PROVE  PromisesAreKept'
<1>1. \A o \in Threads : DOMAIN writes[o] = {} /\ writes'[o] = writes[o] /\ Reliable(o)
  BY DEF FilesAreKept, OneWriter, Alone, PromisesAreKept
<1>2. db'[row] = value /\ \A x \in Rows : x # row => db'[x] = db[x]
  BY DEF IInv, Typed, Table
<1>3. /\ \A n \in NodeIds : Node(n) \in Rows /\ Edge(n) \in Rows /\ Edge(n) # row
      /\ \A o \in Threads : overtook[o] \subseteq overtook'[o] /\ (o # t /\ Running(o) => t \in overtook'[o])
  BY RowFacts DEF Edge, Overtake
<1>4. ASSUME NEW p \in NodeIds, db'[Node(p)] = "item"
      PROVE  db[Node(p)] = "item" \/ MakesItem(request[t], p)
  <2>1. CASE row = Node(p)
    <3>1. Itemizing(p) \in Kept(t)
      BY <1>2, <1>4, <2>1
    <3> QED BY <3>1, KeptMeans DEF KeptFacts
  <2> QED BY <1>2, <1>3, <1>4, <2>1
<1>5. \A o \in Threads : (\A n : MadeItem(o, n) => MadeItem(o, n)') /\ (Attached(o) => Attached(o)')
  BY <1>3, MoreOvertakers
<1>6. ASSUME NEW o \in Threads, o # t PROVE Reliable(o)'
  <2>1. Looks(o)
    <3>1. todo'[o] = todo[o]
      BY <1>6 DEF Continue, IInv, Typed, Domains
    <3> QED BY <1>1, <3>1, SelfPasses DEF Looks
  <2>2. ASSUME Running(o), NEW p \in NodeIds, db'[Node(p)] = "item"
        PROVE  db[Node(p)] = "item" \/ MadeItem(o, p)'
    <3>1. MakesItem(request[t], p) => MadeItem(o, p)'
      BY <1>3, <1>6, <2>2 DEF MadeItem, MakesItem
    <3> QED BY <1>4, <2>2, <3>1
  <2> QED BY <1>1, <1>2, <1>3, <1>5, <2>1, <2>2, OthersRely
<1>7. Reliable(t)'
  <2>1. todo'[t] = a \o Tail(todo[t]) /\ request'[t] = request[t] /\ seen'[t] = seen[t]
    BY DEF Continue, IInv, Typed, Domains
  <2>2. \A x \in Rows : View(t)[x] = db[x] /\ View(t)'[x] = db'[x]
    <3>1. SeeTheDatabase /\ SeeTheDatabase'
      BY Always, PTL
    <3> QED BY <1>1, <3>1 DEF SeeTheDatabase
  <2>3. Kept(t) \subseteq Kept(t)'
    <3>1. ASSUME NEW p \in NodeIds, View(t)'[Node(p)] = "item"
          PROVE  View(t)[Node(p)] = "item" \/ MakesItem(request[t], p) \/ MadeItem(t, p)'
      BY <1>3, <1>4, <2>2, <3>1
    <3>2. \A c \in NodeIds : View(t)'[Edge(c)] = View(t)[Edge(c)]
      BY <1>2, <1>3, <2>2
    <3> QED BY <1>5, <2>1, <3>1, <3>2, KeptOn
  <2>4. EdgesBacked(t)' /\ ItemsBacked(t)'
    BY <1>1 DEF EdgesBacked, ItemsBacked
  <2>5. Backed(a, request[t], Bodies(request[t]), seen'[t].home, Kept(t)')
    BY <2>1, <2>3, MoreBacked
  <2> QED BY <1>1, <2>1, <2>3, <2>4, <2>5, ReliesOn
<1> QED BY <1>6, <1>7 DEF PromisesAreKept

LEMMA SavepointRelies ==
    ASSUME IInv, IInv', FilesAreKept, PromisesAreKept, NEW t \in Threads, NEW s, Doing(t, s), Granted(t),
           s[1] \in {"insert_node", "insert_tag"}, NEW row \in Rows, row[1] \in {"node", "tag"}, NEW value,
           MayWrite(t, Only(row, value)), row[1] = "node" => View(t)[row] = "absent",
           NEW a \in Seq(Statements), Onward(t, DOMAIN Only(row, value), a),
           Backed(a, request[t], Bodies(request[t]), seen[t].home, Kept(t)),
           Proves(First(t), request[t], Bodies(request[t])) \subseteq Kept(t)',
           InsertUnderSavepoint(t, row, value, a)
    PROVE  PromisesAreKept'
<1> DEFINE rows == Only(row, value)
<1>1. DOMAIN rows = {row} /\ rows[row] = value /\ Running(t) /\ MayWrite(t, rows)
  BY OnlyFacts DEF Doing
<1>2. CASE ReleaseCommits(t)
  <2>1. engine = "sqlite" /\ ~Open(t) /\ Alone(t)
    BY <1>2, GrantedAlone DEF ReleaseCommits, FirstWrites
  <2>2. /\ db' = [db EXCEPT ![row] = value] /\ Overtake(t) /\ Continue(t, a)
        /\ UNCHANGED <<engine, setting, request, seen, writes>>
    BY <1>2 DEF InsertUnderSavepoint
  <2> HIDE DEF rows
  <2>3. \A p \in NodeIds : row = Node(p) /\ value = "item" => Itemizing(p) \in Kept(t)
    BY <1>1 DEF MayWrite, ItemMay, Node
  <2>4. LeftOut(t) => LeftOut(t)'
    <3>1. todo'[t] = a \o Tail(todo[t])
      BY <2>2 DEF Continue, IInv, Typed, Domains
    <3> QED BY <1>1, <2>2, <3>1, LeftOutOn
  <2> QED BY <1>1, <2>1, <2>2, <2>3, <2>4, ReleaseRelies
<1>3. CASE ~ReleaseCommits(t)
  <2>1. Publish(t, rows, {}, <<>>, a)
    BY <1>3 DEF InsertUnderSavepoint, Write
  <2>2. Onward(t, DOMAIN rows, a)
    OBVIOUS
  <2> HIDE DEF rows
  <2> QED BY <1>1, <2>1, <2>2, PublishRelies
<1> QED BY <1>2, <1>3

LEMMA InsertTagRelies ==
    ASSUME IInv, IInv', FilesAreKept, PromisesAreKept, NEW t \in Threads, InsertTag(t)
    PROVE  PromisesAreKept'
<1>1. PICK u \in Tags :
         /\ Doing(t, <<"insert_tag", u>>) /\ Granted(t)
         /\ IF View(t)[Tag(u)] THEN Read(t, << <<"ensure_tag", u>> >>)
            ELSE InsertUnderSavepoint(t, Tag(u), TRUE, << <<"assert_tag", u>>, <<"append", u, TRUE>> >>)
  BY DEF InsertTag
<1> DEFINE s == <<"insert_tag", u>>
<1>2. s[1] = "insert_tag" /\ Doing(t, s)
  BY <1>1
<1> HIDE DEF s
<1>3. Running(t) /\ First(t) = s /\ Proves(s, request[t], Bodies(request[t])) = {}
  BY <1>2, ProvesOf DEF Doing, First
<1>4. CASE Read(t, << <<"ensure_tag", u>> >>)
  <2> DEFINE x == <<"ensure_tag", u>>
  <2>1. x \in Statements /\ x[1] = "ensure_tag" /\ Learn(t, seen[t], <<x>>)
    BY <1>4 DEF Read, Statements
  <2> HIDE DEF x
  <2>2. Wants(x, Bodies(request[t]), seen[t].home) = {}
    BY <2>1, WantsOf
  <2>3. Sure(<<x>>, request[t], Bodies(request[t]), seen[t].home, Kept(t), Kept(t))
    BY <2>1, <2>2, SureSingle
  <2>4. Onward(t, {}, <<x>>)
    BY <2>1 DEF Onward, Lowest, Stage, Wide
  <2> QED BY <1>3, <2>1, <2>3, <2>4, LookRelies
<1>5. CASE InsertUnderSavepoint(t, Tag(u), TRUE, << <<"assert_tag", u>>, <<"append", u, TRUE>> >>)
  <2> DEFINE x == <<"assert_tag", u>>
             y == <<"append", u, TRUE>>
             a == <<x, y>>
             rows == Only(Tag(u), TRUE)
  <2>1. x \in Statements /\ y \in Statements /\ x[1] = "assert_tag" /\ y[1] = "append"
    BY DEF Statements
  <2> HIDE DEF x, y
  <2>2. a \in Seq(Statements) /\ Len(a) = 2 /\ a[1] = x /\ a[2] = y
    BY <2>1
  <2> HIDE DEF a
  <2>3. Backed(a, request[t], Bodies(request[t]), seen[t].home, Kept(t))
    <3>1. \A z \in {x, y} : Wants(z, Bodies(request[t]), seen[t].home) = {}
      BY <2>1, WantsOf
    <3>2. \A i \in 1..Len(a) : a[i] \in {x, y}
      BY <2>2
    <3> QED BY <3>1, <3>2 DEF Backed
  <2>4. Tag(u) \in Rows /\ Tag(u)[1] = "tag" /\ DOMAIN rows = {Tag(u)}
    <3>1. Tag(u) \in Rows
      BY DEF Rows
    <3>2. Tag(u)[1] = "tag"
      BY DEF Tag
    <3> QED BY <3>1, <3>2, OnlyFacts, Zenon
  <2> HIDE DEF rows
  <2>5. MayWrite(t, rows)
    BY <2>4, HarmlessRows
  <2>7. Onward(t, DOMAIN rows, a)
    <3>1. Lowest(x) > 1 /\ Lowest(y) > 1
      BY <2>1 DEF Lowest, Stage, Wide
    <3> QED BY <2>2, <2>4, <3>1 DEF Onward, Node
  <2>6. InsertUnderSavepoint(t, Tag(u), TRUE, a)
    BY <1>5 DEF a, x, y
  <2> QED BY <1>1, <1>2, <1>3, <2>2, <2>3, <2>4, <2>5, <2>6, <2>7, SavepointRelies DEF rows
<1> QED BY <1>1, <1>4, <1>5

(* The node that has just been inserted, in what its request sees.                   *)
LEMMA InsertedView ==
    ASSUME IInv, IInv', FilesAreKept, NEW t \in Threads, Granted(t), NEW n \in NodeIds, NEW kind,
           Doing(t, <<"insert_node", n, kind>>), InsertUnderSavepoint(t, Node(n), kind, <<>>)
    PROVE  /\ UNCHANGED <<engine, setting, request>> /\ View(t)'[Node(n)] = kind
           /\ \A m \in NodeIds : View(t)'[Edge(m)] = View(t)[Edge(m)]
<1> DEFINE row == Node(n)
<1>1. row \in Rows /\ \A m \in NodeIds : Edge(m) \in Rows /\ Edge(m) # row /\ Edge(m) # Database
  BY RowFacts DEF Node, Edge, Database
<1>2. CASE ReleaseCommits(t)
  <2>1. engine = "sqlite" /\ ~Open(t)
    BY <1>2 DEF ReleaseCommits
  <2>2. DOMAIN writes[t] = {}
    BY <2>1 DEF FilesAreKept, OneWriter
  <2>3. db' = [db EXCEPT ![row] = kind] /\ UNCHANGED <<engine, setting, request, writes>>
    BY <1>2 DEF InsertUnderSavepoint
  <2>4. \A x \in Rows : View(t)[x] = db[x] /\ View(t)'[x] = db'[x]
    <3>1. SeeTheDatabase /\ SeeTheDatabase'
      BY Always, PTL
    <3> QED BY <2>2, <2>3, <3>1 DEF SeeTheDatabase
  <2>5. db'[row] = kind /\ \A x \in Rows : x # row => db'[x] = db[x]
    BY <1>1, <2>3 DEF IInv, Typed, Table
  <2> HIDE DEF row
  <2> QED BY <1>1, <2>3, <2>4, <2>5 DEF row
<1>3. CASE ~ReleaseCommits(t)
  <2> DEFINE rows == Only(row, kind)
             a == <<>>
  <2>1. Publish(t, rows, {}, <<>>, a) /\ DOMAIN rows = {row} /\ rows[row] = kind
    BY <1>3, OnlyFacts DEF InsertUnderSavepoint, Write
  <2> HIDE DEF rows, row, a
  <2>2. /\ UNCHANGED <<engine, setting, db, request, seen, overtook>>
        /\ \A x \in DOMAIN rows : View(t)'[x] = rows[x]
        /\ \A x \in Rows \ DOMAIN rows : x # Database => View(t)'[x] = View(t)[x]
    BY <1>1, <2>1, PublishedRows
  <2> QED BY <1>1, <2>1, <2>2 DEF row
<1> QED BY <1>2, <1>3

LEMMA NobodyRefersToAbsent ==
    ASSUME IInv, NothingDangles, engine = "postgres", NEW t \in Threads, NEW n \in NodeIds,
           View(t)[Node(n)] = "absent"
    PROVE  ChildrenIn(View(t), n) = {}
<1> SUFFICES ASSUME NEW m \in NodeIds, View(t)[Edge(m)] = n PROVE FALSE
  BY DEF ChildrenIn
<1>1. RefersToNothing(View(t), m)
  BY TransactionsAssumption DEF RefersToNothing
<1> QED BY <1>1 DEF NothingDangles

(* On SQLite the node of a request is committed before its transaction has begun.    *)
LEMMA NewNodeIsLeftOut ==
    ASSUME IInv, engine = "sqlite", NEW t \in Threads, NEW n, NEW kind, Doing(t, <<"insert_node", n, kind>>),
           InsertUnderSavepoint(t, Node(n), kind, <<>>), ItsNode(request[t], n), request[t].op # "PATCH"
    PROVE  LeftOut(t)'
<1> DEFINE s == todo[t]
           none == <<>>
<1>1. /\ s \in Seq(Statements \cup {Finish}) /\ s # <<>> /\ s[1] = <<"insert_node", n, kind>>
      /\ Bodies(request[t]) /\ ~Deleting(request[t]) /\ request[t].op \in {"POST", "PUT"}
      /\ \A i, j \in 1..Len(s) : i < j => Highest(s[i]) <= Lowest(s[j])
  <2>1. Bodies(request[t]) /\ ~Deleting(request[t]) /\ request[t].op \in {"POST", "PUT"}
    BY DEF ItsNode, Bodies, Deleting
  <2>2. ThreadOK(t) /\ Running(t) /\ todo[t][1] = <<"insert_node", n, kind>>
    BY DEF IInv, Typed, Doing
  <2> QED BY <2>1, <2>2 DEF ThreadOK, Rest, Running
<1>2. 1 \in 1..Len(s) /\ s[1][1] = "insert_node"
  BY <1>1
<1>3. writes[t] = <<>>
  BY <1>1, <1>2 DEF IInv, CreatesFirst, Creating
<1>4. ReleaseCommits(t) /\ Node(request[t].node) \notin DOMAIN writes[t]
  <2>1. DOMAIN writes[t] = {}
    BY <1>3
  <2> QED BY <2>1 DEF ReleaseCommits, Open
<1>5. UNCHANGED <<engine, request, writes>> /\ todo'[t] = none \o Tail(s)
  BY <1>4 DEF InsertUnderSavepoint, Continue, IInv, Typed, Domains
<1>6. Highest(s[1]) = 2
  BY <1>2 DEF Highest, Wide
<1>7. \A i \in 2..Len(s) : Lowest(s[i]) > 1
  <2> SUFFICES ASSUME NEW i \in 2..Len(s) PROVE Lowest(s[i]) > 1
    OBVIOUS
  <2>1. i \in 1..Len(s) /\ 1 < i
    BY <1>2
  <2>2. 2 <= Lowest(s[i])
    BY <1>1, <1>2, <1>6, <2>1
  <2> QED BY <2>2, LowestIsNat
<1>8. none \in Seq(Statements \cup {Finish}) /\ Len(none) = 0 /\ 1..0 = {}
  OBVIOUS
<1>9. \A i \in 1..Len(todo'[t]) : Lowest(todo'[t][i]) > 1
  <2> DEFINE S == Statements \cup {Finish}
             r == none \o Tail(s)
  <2>1. s \in Seq(S) /\ none \in Seq(S) /\ s # <<>>
    BY <1>1, <1>8
  <2> HIDE DEF S, s, none
  <2>2. /\ \A i \in 2..Len(s) : r[i + Len(none) - 1] = s[i]
        /\ \A i \in 1..Len(r) : i \in 1..Len(none) \/ \E j \in 2..Len(s) : i = j + Len(none) - 1
    BY <2>1, LaterStatements
  <2> HIDE DEF r
  <2>3. \A i \in 1..Len(r) : Lowest(r[i]) > 1
    BY <1>7, <1>8, <2>2
  <2> QED BY <1>5, <2>3 DEF r
<1>10. LeavesNodeOut(t)'
  BY <1>1, <1>4, <1>5 DEF LeavesNodeOut, Node
<1> QED BY <1>9, <1>10 DEF LeftOut

LEMMA InsertNodeRelies ==
    ASSUME IInv, IInv', FilesAreKept, NothingDangles, PromisesAreKept, NEW t \in Threads, InsertNode(t)
    PROVE  PromisesAreKept'
<1>1. PICK n \in NodeIds, kind \in Kinds :
         /\ Doing(t, <<"insert_node", n, kind>>) /\ Granted(t)
         /\ \/ \E status : End(t, status)
            \/ View(t)[Node(n)] = "absent" /\ InsertUnderSavepoint(t, Node(n), kind, <<>>)
  BY Zenon DEF InsertNode
<1> DEFINE s == <<"insert_node", n, kind>>
           rows == Only(Node(n), kind)
           a == <<>>
           r == request[t]
           w == Bodies(request[t])
<1>2. s[1] = "insert_node" /\ s[2] = n /\ s[3] = kind /\ Doing(t, s)
  BY <1>1
<1>3. Node(n) \in Rows /\ Node(n)[1] = "node" /\ DOMAIN rows = {Node(n)} /\ rows[Node(n)] = kind
  BY RowFacts, OnlyFacts DEF Node
<1>4. a \in Seq(Statements) /\ Len(a) = 0 /\ 1..0 = {}
  OBVIOUS
<1> HIDE DEF s, rows, a
<1>5. Backed(a, r, w, seen[t].home, Kept(t))
  BY <1>4 DEF Backed
<1>6. Running(t) /\ First(t) = s
  BY <1>2 DEF Doing, First
<1>7. CASE \E status : End(t, status)
  BY <1>7, EndRelies
<1>8. CASE View(t)[Node(n)] = "absent" /\ InsertUnderSavepoint(t, Node(n), kind, a)
  <2>1. kind = "item" => Itemizing(n) \in Kept(t) /\ MakesItem(r, n)
    <3>1. Wants(s, w, seen[t].home) \subseteq Kept(t)
      BY <1>6, FirstWants DEF PromisesAreKept
    <3>2. kind = "item" => Itemizing(n) \in Kept(t)
      BY <1>2, <3>1, WantsOf
    <3> QED BY <3>2, KeptMeans DEF KeptFacts
  <2>2. engine = "postgres" => ChildrenIn(View(t), n) = {}
    BY <1>8, NobodyRefersToAbsent
  <2>3. ItemMay(t, n) \/ kind # "item"
    <3> SUFFICES ASSUME kind = "item" PROVE ItemMay(t, n)
      OBVIOUS
    <3>1. Bodies(r) /\ ItsNode(r, n)
      BY <2>1 DEF MakesItem, ItsNode, Bodies
    <3>2. CASE engine = "postgres"
      <4>1. Childless(n) \in Kept(t)
        BY <2>2, <3>1, <3>2, KeptMeans DEF KeptFacts
      <4> QED BY <2>1, <4>1 DEF ItemMay
    <3>3. CASE engine = "sqlite"
      <4>1. ViewsFit
        BY Always
      <4>2. HoldsInOrder(t) /\ Gone(Node(n)) = "absent"
        BY DEF IInv, Gone, Node
      <4>3. ~Deleting(r)
        BY <3>1 DEF Bodies, Deleting
      <4>4. db[Node(n)] = "absent"
        BY <1>3, <1>8, <4>1, <4>2, <4>3 DEF ViewsFit, HoldsInOrder
      <4> QED BY <2>1, <3>3, <4>4 DEF ItemMay
    <3> QED BY <3>2, <3>3, TransactionsAssumption DEF IInv, Typed
  <2>4. MayWrite(t, rows)
    <3>1. \A m : Edge(m) # Node(n) /\ (Node(m) = Node(n) => m = n)
      BY DEF Node, Edge
    <3> QED BY <1>3, <2>3, <3>1 DEF MayWrite
  <2>5. /\ UNCHANGED <<engine, setting, request>> /\ View(t)'[Node(n)] = kind
        /\ \A m \in NodeIds : View(t)'[Edge(m)] = View(t)[Edge(m)]
    BY <1>1, <1>8, InsertedView DEF a
  <2>6. Proves(s, r, w) \subseteq Kept(t)'
    <3>1. KeptFacts'
      BY KeptMeans, PTL
    <3>2. /\ \A m : MakesItem(r, m) <=> MakesItem(r, m)'
          /\ \A m : ItsNode(r, m) <=> ItsNode(r, m)'
      BY <2>5 DEF MakesItem, ItsNode, Bodies
    <3>3. kind = "container" /\ ~MakesItem(r, n) => Container(n) \in Kept(t)'
      BY <2>5, <3>1, <3>2 DEF KeptFacts, Container, Node
    <3>4. ASSUME w, ItsNode(r, n), r.op # "PATCH", NEW p \in NodeIds \ {n}
          PROVE  Unlinked(n, p) \in Kept(t)'
      <4>0. CASE engine = "sqlite"
        <5>1. LeftOut(t)'
          BY <1>1, <1>8, <3>4, <4>0, NewNodeIsLeftOut DEF a
        <5> QED BY <3>1, <3>2, <3>4, <5>1 DEF KeptFacts, Unlinked, Freed
      <4>1. CASE engine = "postgres"
        <5> DEFINE X == NodeIds \ {n}
        <5>1. Table(View(t))
          BY ViewFits DEF IInv
        <5>2. \A m \in X : View(t)[Edge(m)] \in X \cup {NoNode}
          <6>1. \A m \in NodeIds : View(t)[Edge(m)] \in NodeIds \cup {NoNode}
            BY <5>1, RowFacts DEF Table, Fits, Edge
          <6> QED BY <2>2, <4>1, <6>1 DEF ChildrenIn
        <5>3. Apart(View(t), n, p)'
          BY <2>5, <5>2 DEF Apart, Edge
        <5> QED BY <3>1, <3>2, <3>4, <5>3 DEF KeptFacts, Unlinked, Freed
      <4> QED BY <4>0, <4>1, TransactionsAssumption DEF IInv, Typed
    <3>5. Proves(s, r, w) = (IF kind = "container" /\ ~MakesItem(r, n) THEN {Container(n)} ELSE {})
                              \cup (IF w /\ ItsNode(r, n) /\ r.op # "PATCH"
                                    THEN {Unlinked(n, p) : p \in NodeIds \ {n}} ELSE {})
      BY <1>2 DEF Proves
    <3> HIDE DEF r, w
    <3> QED BY <3>3, <3>4, <3>5
  <2>7. Onward(t, DOMAIN rows, a)
    BY <1>2, <1>6, NoWayBack
  <2>8. View(t)[Node(n)] = "absent" /\ InsertUnderSavepoint(t, Node(n), kind, a)
    BY <1>8
  <2>9. MayWrite(t, Only(Node(n), kind)) /\ Onward(t, DOMAIN Only(Node(n), kind), a)
    BY <2>4, <2>7 DEF rows
  <2>10. Proves(First(t), request[t], Bodies(request[t])) \subseteq Kept(t)'
    BY <1>6, <2>6
  <2> HIDE DEF r, w
  <2> QED BY <1>1, <1>2, <1>3, <1>4, <1>5, <1>6, <2>8, <2>9, <2>10, SavepointRelies DEF r, w
<1> QED BY <1>1, <1>7, <1>8 DEF a
-----------------------------------------------------------------------------
(* A commit, the start of a request, and every step.                                *)

LEMMA CommitRelies ==
    ASSUME IInv, IInv', FilesAreKept, PromisesAreKept, NEW t \in Threads, Commit(t)
    PROVE  PromisesAreKept'
<1> DEFINE passedBy(s) == s[1] = "remove_row" /\ s[2] \in DOMAIN writes[t]
<1>1. /\ UNCHANGED <<engine, setting, request, seen>> /\ Overtake(t) /\ db' = View(t)
      /\ todo' = [o \in Threads |->
                     IF o = t THEN <<>>
                     ELSE [i \in DOMAIN todo[o] |-> IF passedBy(todo[o][i]) THEN <<"pass_by">> ELSE todo[o][i]]]
      /\ writes' = [writes EXCEPT ![t] = <<>>]
      /\ DOMAIN writes = Threads
  BY DEF Commit, IInv, Typed, Domains
<1>2. todo'[t] = <<>> /\ writes'[t] = <<>> /\ \A o \in Threads \ {t} : writes'[o] = writes[o]
  BY <1>1
<1>3. \A o \in Threads : Reliable(o) /\ todo[o] \in Seq(Statements \cup {Finish})
  BY DEF PromisesAreKept, IInv, Typed, ThreadOK, Rest
<1>4. ASSUME NEW o \in Threads \ {t} PROVE Passes(todo[o], todo'[o])
  <2> DEFINE S == Statements \cup {Finish}
  <2>1. <<"pass_by">> \in S /\ todo[o] \in Seq(S)
    BY <1>3 DEF Statements
  <2>2. todo'[o] = [i \in DOMAIN todo[o] |-> IF passedBy(todo[o][i]) THEN <<"pass_by">> ELSE todo[o][i]]
    BY <1>1
  <2> HIDE DEF S
  <2>3. /\ todo'[o] \in Seq(S) /\ Len(todo'[o]) = Len(todo[o])
        /\ \A i \in 1..Len(todo[o]) : todo'[o][i] = todo[o][i]
                                      \/ (todo[o][i][1] = "remove_row" /\ todo'[o][i] = <<"pass_by">>)
    BY <2>1, <2>2
  <2> QED BY <2>3 DEF Passes, S
<1>5. /\ \A o \in Threads : overtook[o] \subseteq overtook'[o]
      /\ \A o \in Threads \ {t} : Running(o) => t \in overtook'[o]
  BY <1>1 DEF Overtake
<1>6. \A row \in Rows : db'[row] = IF row \in DOMAIN writes[t] THEN writes[t][row] ELSE db[row]
  <2>1. ViewsFit
    BY Always
  <2> QED BY <1>1, <2>1 DEF ViewsFit
<1>7. \A n \in NodeIds : Node(n) \in Rows /\ Edge(n) \in Rows
  BY RowFacts
<1>8. ASSUME NEW o \in Threads \ {t} PROVE Reliable(o)'
  <2>1. Looks(o)
    BY <1>1, <1>2, <1>4 DEF Looks
  <2>2. (\A n : MadeItem(o, n) => MadeItem(o, n)') /\ (Attached(o) => Attached(o)')
    BY <1>1, <1>5, MoreOvertakers
  <2>3. ASSUME Running(o), NEW p \in NodeIds, db'[Node(p)] = "item", db[Node(p)] # "item"
        PROVE  MadeItem(o, p)'
    <3>1. Itemizing(p) \in Kept(t)
      BY <1>3, <1>6, <1>7, <2>3 DEF Reliable, ItemsBacked
    <3>2. MakesItem(request[t], p)
      BY <3>1, KeptMeans DEF KeptFacts
    <3> QED BY <1>1, <1>5, <2>3, <3>2 DEF MadeItem, MakesItem
  <2>4. ASSUME Running(o), NEW c \in NodeIds, db'[Edge(c)] \notin {db[Edge(c)], NoNode}
        PROVE  Attached(o)'
    <3>1. Attaching \in Kept(t)
      BY <1>3, <1>6, <1>7, <2>4 DEF Reliable, EdgesBacked, EdgeWants
    <3>2. Attaches(request[t])
      BY <3>1, KeptMeans DEF KeptFacts
    <3> QED BY <1>1, <1>5, <2>4, <3>2 DEF Attached, Attaches
  <2>5. ASSUME NEW row \in DOMAIN writes[o] PROVE db'[row] = db[row]
    <3>1. row \in Rows
      BY DEF IInv, Typed, ThreadOK, WritesFit
    <3>2. row \notin DOMAIN writes[t]
      <4>1. engine \in {"sqlite", "postgres"}
        BY TransactionsAssumption DEF IInv, Typed
      <4>2. CASE engine = "sqlite"
        BY <4>2 DEF FilesAreKept, OneWriter
      <4>3. CASE engine = "postgres"
        BY <4>3 DEF IInv, LocksAreExclusive
      <4> QED BY <4>1, <4>2, <4>3
    <3> QED BY <1>6, <3>1, <3>2
  <2> QED BY <1>1, <1>3, <2>1, <2>2, <2>3, <2>4, <2>5, OthersRely
<1>9. Reliable(t)'
  <2>1. RestsRely'
    BY AlwaysRests, PTL
  <2>2. request[t] = NoRequest => seen[t].home = NoNode
    BY <1>3 DEF Reliable
  <2> QED BY <1>1, <1>2, <2>1, <2>2 DEF RestsRely
<1> QED BY <1>8, <1>9 DEF PromisesAreKept

LEMMA StartRelies ==
    ASSUME IInv, IInv', PromisesAreKept, NEW t \in Threads, Start(t)
    PROVE  PromisesAreKept'
<1>1. /\ UNCHANGED <<engine, setting, db, seen, writes, overtook>>
      /\ request[t] = NoRequest /\ setting \in Settings /\ request \in [Threads -> Requests \cup {NoRequest}]
      /\ DOMAIN todo = Threads /\ ThreadOK(t) /\ \A o \in Threads : Reliable(o)
  BY DEF Start, IInv, Typed, Domains, PromisesAreKept
<1>2. PICK r \in setting.requests :
         /\ request' = [request EXCEPT ![t] = r]
         /\ todo' = [todo EXCEPT ![t] = Program(r) \o <<Finish>>]
  BY DEF Start, Finish
<1>3. r \in Requests
  BY <1>1, TransactionsAssumption
<1>4. /\ todo'[t] = Program(r) \o <<Finish>> /\ request'[t] = r /\ seen'[t].home = NoNode
      /\ \A o \in Threads \ {t} : todo'[o] = todo[o] /\ request'[o] = request[o]
  BY <1>1, <1>2 DEF Reliable
<1>5. NoRequest.op = "none" /\ r.op # "none"
  BY <1>3 DEF NoRequest, Requests, Creations, Changes, Deletions, TagRequests
<1>6. DOMAIN writes'[t] = {}
  <2>1. request[t] \notin Requests
    BY <1>1, <1>5 DEF Requests, Creations, Changes, Deletions, TagRequests
  <2> QED BY <1>1, <2>1 DEF ThreadOK
<1>7. ASSUME NEW o \in Threads, o # t PROVE Reliable(o)'
  <2>1. Looks(o)
    BY <1>1, <1>4, <1>7, SelfPasses DEF Looks
  <2>2. \A x \in overtook[o] : request[x] = NoRequest \/ request'[x] = request[x]
    BY <1>1, <1>4 DEF IInv, Typed, ThreadOK
  <2>3. (\A n : MadeItem(o, n) => MadeItem(o, n)') /\ (Attached(o) => Attached(o)')
    BY <1>1, <2>2, SameOvertakers
  <2> QED BY <1>1, <2>1, <2>3, OthersRely
<1>8. Reliable(t)'
  <2> DEFINE a == Program(r)
             p == a \o <<Finish>>
             w == Bodies(r)
             H == Kept(t)'
  <2>1. Vows(r) \subseteq H
    <3>1. KeptFacts'
      BY KeptMeans, PTL
    <3>2. /\ Attaches(r) => Attaching \in H
          /\ (setting.homes # {} => Attaches(r)) => Homing \in H
          /\ \A n \in NodeIds : MakesItem(r, n) => Itemizing(n) \in H
      BY <1>1, <1>4, <3>1 DEF KeptFacts, Attaches, MakesItem, Attaching, Homing, Itemizing
    <3> HIDE DEF H
    <3> QED BY <3>2 DEF Vows
  <2> HIDE DEF H
  <2>2. Sure(a, r, w, NoNode, H, {})
    BY <1>3, <2>1, ProgramSure
  <2>3. a \in Seq(Statements) /\ Backed(a, r, w, NoNode, H)
    BY <2>2 DEF Sure
  <2>4. Wants(Finish, w, NoNode) = {}
    <3>1. Finish[1] = "commit"
      BY DEF Finish
    <3> QED BY <3>1, WantsOf
  <2>5. Backed(p, r, w, NoNode, H)
    <3>1. /\ \A i \in 1..Len(a) : i \in 1..Len(p) /\ p[i] = a[i]
          /\ \A i \in 1..Len(p) : (i \in 1..Len(a) /\ p[i] = a[i]) \/ p[i] = Finish
      <4> HIDE DEF a
      <4> QED BY <2>3, Appended
    <3> HIDE DEF a, p, w
    <3> QED BY <2>3, <2>4, <3>1 DEF Backed
  <2>6. Bodies(request[t])' = w
    BY <1>1, <1>4 DEF Bodies
  <2>7. Backed(todo[t], request[t], Bodies(request[t]), seen[t].home, Kept(t))'
    BY <1>4, <2>5, <2>6 DEF H
  <2>8. EdgesBacked(t)' /\ ItemsBacked(t)'
    BY <1>6 DEF EdgesBacked, ItemsBacked
  <2> QED BY <1>4, <2>7, <2>8 DEF Reliable
<1> QED BY <1>7, <1>8 DEF PromisesAreKept

LEMMA StepRelies ==
    ASSUME IInv, IInv', FilesAreKept, NothingDangles, PromisesAreKept, NEW t \in Threads, Step(t)
    PROVE  PromisesAreKept'
<1>1. CASE \/ FetchNode(t) \/ EnsureChildless(t) \/ EnsureContainer(t) \/ EnsureAcyclic(t)
           \/ EnsureNewTag(t) \/ FetchTag(t)
  BY <1>1, ChecksRely
<1>2. CASE FetchParent(t) \/ FetchChildren(t) \/ FetchBearers(t) \/ PassBy(t)
  BY <1>2, GlancesRely
<1>3. CASE FindHome(t) \/ FindOrphanContainer(t)
  BY <1>3, HomeReadsRely
<1>4. CASE ReassignChildren(t) \/ Reassign(t)
  BY <1>4, ReassignsRely
<1>5. CASE EnsureTag(t) \/ InsertMarks(t)
  BY <1>5, TagReadsRely
<1>6. CASE \/ AnnounceUpdate(t) \/ AnnounceReplacement(t) \/ AnnounceDeletion(t)
           \/ AnnounceBearers(t) \/ AnnounceParents(t)
  BY <1>6, EventReadsRely
<1>7. CASE DeleteEdge(t) \/ DeleteChildEdges(t) \/ DeleteMarks(t) \/ DeleteTagMarks(t)
  BY <1>7, DeletionsRely
<1>8. CASE DeleteNodeRow(t) \/ DeleteTagRow(t)
  BY <1>8, LastDeletionsRely
<1>9. CASE Announce(t) \/ AppendEvent(t)
  BY <1>9, EventsRely
<1>10. CASE CreateOrReplace(t) \/ UpdateFields(t) \/ RemoveRow(t) \/ InsertEdge(t) \/ InsertMark(t)
  BY <1>10, CreateOrReplaceRelies, UpdateFieldsRelies, RemoveRowRelies, InsertEdgeRelies, InsertMarkRelies
<1>11. CASE InsertNode(t) \/ InsertTag(t) \/ Commit(t)
  BY <1>11, InsertNodeRelies, InsertTagRelies, CommitRelies
<1>12. CASE ReadParent(t) \/ ReadChildren(t) \/ ReadChildTags(t) \/ ReadTags(t)
  BY <1>12, PieceReadsRely
<1> QED BY <1>1, <1>2, <1>3, <1>4, <1>5, <1>6, <1>7, <1>8, <1>9, <1>10, <1>11, <1>12 DEF Step

LEMMA NextRelies ==
    ASSUME IInv, IInv', FilesAreKept, NothingDangles, PromisesAreKept, [Next]_vars
    PROVE  PromisesAreKept'
<1>1. ASSUME NEW t \in Threads, Start(t) \/ Proceed(t)
      PROVE  PromisesAreKept'
  <2>1. CASE Respond(t)
    <3>1. UNCHANGED <<engine, setting, db, request, overtook, todo, seen, writes>>
      BY <2>1 DEF Respond
    <3> QED BY <3>1, NothingHappens DEF PromisesAreKept
  <2> QED BY <1>1, <2>1, StartRelies, StepRelies, EndRelies DEF Proceed, Victim, Timeout
<1>2. CASE UNCHANGED vars
  BY <1>2, NothingHappens DEF vars, PromisesAreKept
<1> QED BY <1>1, <1>2 DEF Next

LEMMA InitRelies ==
    ASSUME Init
    PROVE  PromisesAreKept
<1>1. /\ todo = [t \in Threads |-> <<>>] /\ writes = [t \in Threads |-> <<>>]
      /\ seen = [t \in Threads |-> [parent |-> NoNode, nodes |-> {}, home |-> NoNode,
                                     resource |-> Absent]]
  BY DEF Init
<1>2. \A t \in Threads : todo[t] = <<>> /\ writes[t] = <<>> /\ seen[t].home = NoNode
  BY <1>1
<1> QED BY <1>2, AlwaysRests DEF RestsRely, PromisesAreKept

LEMMA PromisesStayKept == Spec => []PromisesAreKept
BY InitRelies, NextRelies, Invariant, FilesStayKept, NothingDanglesOnPostgres, PTL DEF Spec
-----------------------------------------------------------------------------
(* The steps after which an item has children, or the edges close a circle.          *)

LEMMA ReleasedNode ==
    ASSUME IInv, FilesAreKept, NEW row \in Rows, Releases(row), NEW n \in NodeIds, db'[Node(n)] # db[Node(n)]
    PROVE  engine = "sqlite" /\ db[Node(n)] = "absent"
<1>1. PICK t \in Threads : ~Open(t) /\ (row[1] = "node" => View(t)[row] = "absent")
  BY DEF Releases
<1>2. engine = "sqlite" /\ \A x \in Rows : x # row => db'[x] = db[x]
  BY DEF Releases, IInv, Typed, Table
<1>3. row = Node(n) /\ row[1] = "node"
  BY <1>2, RowFacts DEF Node
<1>4. DOMAIN writes[t] = {}
  BY <1>1, <1>2 DEF FilesAreKept, OneWriter
<1>5. View(t)[row] = db[row]
  BY <1>4, Always DEF SeeTheDatabase
<1> QED BY <1>1, <1>2, <1>3, <1>5

LEMMA ReleasedEdges ==
    ASSUME IInv, NEW row \in Rows, Releases(row), NEW n \in NodeIds
    PROVE  db'[Edge(n)] = db[Edge(n)]
<1>1. \A x \in Rows : x # row => db'[x] = db[x]
  BY DEF Releases, IInv, Typed, Table
<1>2. Edge(n) \in Rows /\ Edge(n) # row
  BY RowFacts DEF Releases, Edge
<1> QED BY <1>1, <1>2

LEMMA CommitsItsView ==
    ASSUME IInv, NEW t \in Threads, Commit(t)
    PROVE  /\ Committing(t)
           /\ \A row \in Rows : db'[row] = IF row \in DOMAIN writes[t] THEN writes[t][row] ELSE db[row]
<1>1. todo'[t] = <<>>
  BY DEF Commit, IInv, Typed, Domains
<1>2. Doing(t, <<"commit">>) /\ db' = View(t)
  BY DEF Commit
<1>3. ViewsFit
  BY Always
<1> QED BY <1>1, <1>2, <1>3 DEF Committing, Running, ViewsFit

LEMMA ItemStep ==
    ASSUME IInv, IInv', FilesAreKept, PromisesAreKept, [Next]_vars,
           NEW n \in NodeIds, ItemWithChildren(db', n), ~ItemWithChildren(db, n)
    PROVE  \/ engine = "sqlite" /\ db[Node(n)] = "absent"
           \/ \E t \in Threads : Committing(t) /\ \E o \in overtook[t] :
                 \/ MakesItem(request[t], n) /\ Attaches(request[o])
                 \/ MakesItem(request[o], n) /\ Attaches(request[t])
<1>1. db' # db
  OBVIOUS
<1>2. PICK t \in Threads : Start(t) \/ Proceed(t)
  BY <1>1 DEF Next, vars
<1>3. Commit(t) \/ \E row \in Rows : Releases(row)
  BY <1>1, <1>2, CommittedRows
<1>4. CASE \E row \in Rows : Releases(row)
  <2>1. PICK row \in Rows : Releases(row)
    BY <1>4
  <2>2. ChildrenIn(db', n) = ChildrenIn(db, n)
    BY <2>1, ReleasedEdges DEF ChildrenIn
  <2>3. db'[Node(n)] # db[Node(n)]
    BY <2>2 DEF ItemWithChildren
  <2> QED BY <2>1, <2>3, ReleasedNode
<1>5. CASE Commit(t)
  <2>1. /\ Committing(t) /\ db' = View(t)
        /\ \A row \in Rows : db'[row] = IF row \in DOMAIN writes[t] THEN writes[t][row] ELSE db[row]
    BY <1>5, CommitsItsView DEF Committing
  <2>2. PICK m \in NodeIds : db'[Edge(m)] = n
    BY DEF ItemWithChildren, ChildrenIn
  <2>3. View(t)[Node(n)] = "item" /\ ChildrenIn(View(t), n) # {}
    BY <2>1 DEF ItemWithChildren
  <2>4. EdgesBacked(t) /\ ItemsBacked(t) /\ KeptFacts
    BY KeptMeans DEF PromisesAreKept, Reliable
  <2>5. Node(n) \in Rows /\ Edge(m) \in Rows /\ n # NoNode
    BY RowFacts, TransactionsAssumption
  <2>6. CASE db[Node(n)] # "item"
    <3>1. Node(n) \in DOMAIN writes[t] /\ writes[t][Node(n)] = "item"
      BY <2>1, <2>3, <2>5, <2>6
    <3>2. /\ Itemizing(n) \in Kept(t)
          /\ Childless(n) \in Kept(t) \/ (engine = "sqlite" /\ db[Node(n)] = "absent")
      BY <2>4, <2>6, <3>1 DEF ItemsBacked, NewOnSQLite
    <3>3. MakesItem(request[t], n)
      BY <2>4, <3>2 DEF KeptFacts
    <3>4. Childless(n) \in Kept(t) => Attached(t)
      BY <2>3, <2>4 DEF KeptFacts
    <3> QED BY <2>1, <3>2, <3>3, <3>4 DEF Attached
  <2>7. CASE db[Node(n)] = "item"
    <3>1. db[Edge(m)] # n
      BY <2>7 DEF ItemWithChildren, ChildrenIn
    <3>2. Edge(m) \in DOMAIN writes[t] /\ writes[t][Edge(m)] = n
      BY <2>1, <2>2, <2>5, <3>1
    <3>3. m # n /\ EdgeWants(m, n, Bodies(request[t])) \subseteq Kept(t)
      BY <2>4, <2>5, <3>2 DEF EdgesBacked
    <3>4. Attaching \in Kept(t) /\ Container(n) \in Kept(t)
      BY <3>3 DEF EdgeWants
    <3>5. Attaches(request[t]) /\ MadeItem(t, n)
      BY <2>3, <2>4, <3>4 DEF KeptFacts
    <3> QED BY <2>1, <3>5 DEF MadeItem
  <2> QED BY <2>6, <2>7
<1> QED BY <1>3, <1>4, <1>5

(* Edges that only go close no circle.                                             *)
LEMMA CutsKeepAcyclic ==
    ASSUME NEW v, NEW w, EdgesFit(v), EdgesFit(w), Acyclic(v),
           \A c \in NodeIds : w[Edge(c)] \in {v[Edge(c)], NoNode}
    PROVE  Acyclic(w)
<1> SUFFICES ASSUME NEW n \in NodeIds PROVE n \notin Ancestors(w, n)
  BY DEF Acyclic
<1> DEFINE A == Ancestors(v, n)
<1>1. A \subseteq NodeIds /\ v[Edge(n)] \in A \cup {NoNode} /\ Closed(v, A)
  BY AncestorsAreLeast
<1>2. n \notin A
  BY DEF Acyclic
<1> HIDE DEF A
<1>3. A \in SUBSET NodeIds /\ w[Edge(n)] \in A \cup {NoNode} /\ Closed(w, A)
  BY <1>1 DEF Closed
<1>4. Ancestors(w, n) \subseteq A
  BY <1>3, AncestorsAreLeast
<1> QED BY <1>2, <1>4

(* Nor does one edge to a node from which the child is not reached.                   *)
LEMMA MoveKeepsAcyclic ==
    ASSUME NEW v, NEW w, EdgesFit(v), EdgesFit(w), Acyclic(v), NEW c \in NodeIds, Apart(w, c, w[Edge(c)]),
           \A m \in NodeIds \ {c} : w[Edge(m)] \in {v[Edge(m)], NoNode}
    PROVE  Acyclic(w)
<1> SUFFICES ASSUME NEW n \in NodeIds PROVE n \notin Ancestors(w, n)
  BY DEF Acyclic
<1> DEFINE A == Ancestors(v, n)
<1>1. A \subseteq NodeIds /\ v[Edge(n)] \in A \cup {NoNode} /\ Closed(v, A)
  BY AncestorsAreLeast
<1>2. n \notin A
  BY DEF Acyclic
<1> HIDE DEF A
<1>3. PICK X \in SUBSET NodeIds : w[Edge(c)] \in X /\ c \notin X /\ Closed(w, X)
  BY DEF Apart, Closed
<1>4. \A m \in A : m # c => w[Edge(m)] \in A \cup {NoNode}
  BY <1>1 DEF Closed
<1>5. \A Y \in SUBSET NodeIds : w[Edge(n)] \in Y \cup {NoNode} /\ Closed(w, Y) => Ancestors(w, n) \subseteq Y
  BY AncestorsAreLeast
<1>6. CASE n = c
  BY <1>3, <1>5, <1>6
<1>7. CASE n # c
  <2>1. w[Edge(n)] \in A \cup {NoNode}
    BY <1>1, <1>7
  <2>2. CASE n \in X
    <3> DEFINE Y == A \cap X
    <3>1. Y \in SUBSET NodeIds /\ w[Edge(n)] \in Y \cup {NoNode} /\ Closed(w, Y) /\ n \notin Y
      BY <1>1, <1>2, <1>3, <1>4, <2>1, <2>2 DEF Closed
    <3> HIDE DEF Y
    <3> QED BY <1>5, <3>1
  <2>3. CASE n \notin X
    <3> DEFINE Y == A \cup X
    <3>1. Y \in SUBSET NodeIds /\ w[Edge(n)] \in Y \cup {NoNode} /\ Closed(w, Y) /\ n \notin Y
      BY <1>1, <1>2, <1>3, <1>4, <2>1, <2>3 DEF Closed
    <3> HIDE DEF Y
    <3> QED BY <1>5, <3>1
  <2> QED BY <2>2, <2>3
<1> QED BY <1>6, <1>7

LEMMA CycleStep ==
    ASSUME IInv, IInv', PromisesAreKept, [Next]_vars, Acyclic(db), ~Acyclic(db')
    PROVE  \E t \in Threads : /\ Committing(t) /\ Attaches(request[t])
                              /\ \/ request[t].op = "DELETE"
                                 \/ LeavesNodeOut(t)
                                 \/ \E o \in overtook[t] : Attaches(request[o])
<1>1. db' # db
  OBVIOUS
<1>2. PICK t \in Threads : Start(t) \/ Proceed(t)
  BY <1>1 DEF Next, vars
<1>3. Commit(t) \/ \E row \in Rows : Releases(row)
  BY <1>1, <1>2, CommittedRows
<1>4. EdgesFit(db) /\ EdgesFit(db')
  BY RowFacts DEF IInv, Typed, Table, Fits, EdgesFit, Edge
<1>5. PICK c \in NodeIds : db'[Edge(c)] \notin {db[Edge(c)], NoNode}
  BY <1>4, CutsKeepAcyclic
<1>6. Commit(t)
  BY <1>3, <1>5, ReleasedEdges
<1>7. /\ Committing(t) /\ db' = View(t)
      /\ \A row \in Rows : db'[row] = IF row \in DOMAIN writes[t] THEN writes[t][row] ELSE db[row]
  BY <1>6, CommitsItsView DEF Committing
<1> DEFINE r == request[t]
           p == db'[Edge(c)]
<1>8. EdgesBacked(t) /\ KeptFacts /\ \A m \in NodeIds : Edge(m) \in Rows
  BY KeptMeans, RowFacts DEF PromisesAreKept, Reliable
<1>9. Edge(c) \in DOMAIN writes[t] /\ p = writes[t][Edge(c)] /\ p # NoNode /\ p \in NodeIds
  BY <1>4, <1>5, <1>7, <1>8 DEF EdgesFit
<1> HIDE DEF p
<1>10. p # c /\ EdgeWants(c, p, Bodies(r)) \subseteq Kept(t)
  BY <1>8, <1>9 DEF EdgesBacked
<1>11. Attaches(r)
  <2>1. Attaching \in Kept(t)
    BY <1>10 DEF EdgeWants
  <2> QED BY <1>8, <2>1 DEF KeptFacts
<1>12. CASE r.op = "DELETE"
  BY <1>7, <1>11, <1>12
<1>13. CASE r.op # "DELETE"
  <2>1. Bodies(r) /\ ~Deleting(r)
    BY <1>11, <1>13 DEF Attaches, Bodies, Deleting
  <2>2. \A m \in NodeIds : Edge(m) \in DOMAIN writes[t] => m = r.node
    <3>1. \A m \in NodeIds : Edge(m) \in DOMAIN writes[t] => Edge(m) \in Scope(r)
      BY <2>1 DEF IInv, HoldsInOrder, Edge
    <3> QED BY <2>1, <3>1, ScopeFacts DEF Edge
  <2>3. \A m \in NodeIds \ {c} : db'[Edge(m)] = db[Edge(m)]
    BY <1>7, <1>8, <1>9, <2>2
  <2>4. ~Apart(db', c, p)
    BY <1>4, <2>3, MoveKeepsAcyclic DEF p
  <2>5. Unlinked(c, p) \in Kept(t)
    BY <1>10, <2>1 DEF EdgeWants
  <2>6. Attached(t) \/ LeavesNodeOut(t)
    BY <1>7, <1>8, <1>9, <2>4, <2>5 DEF KeptFacts, Freed, LeftOut
  <2> QED BY <1>7, <1>11, <2>6 DEF Attached
<1> QED BY <1>12, <1>13

(* An item gets children only if the request that makes it an item and the one that     *)
(* puts a child under it overlap, on both engines and however many requests there are,   *)
(* or if it is created on SQLite with the id of a deleted node that left children: the    *)
(* checks of ensure_container and of update_node, which another request's commit can       *)
(* overtake, are enough whenever nothing overtakes them.                                   *)
THEOREM ItemsNeedARace == Spec => ItemsGetChildrenInRaces
<1>1. IInv /\ IInv' /\ FilesAreKept /\ PromisesAreKept /\ [Next]_vars =>
         [\A n \in NodeIds : ItemWithChildren(db', n) /\ ~ItemWithChildren(db, n) =>
            \/ engine = "sqlite" /\ db[Node(n)] = "absent"
            \/ \E t \in Threads : Committing(t) /\ \E o \in overtook[t] :
                  \/ MakesItem(request[t], n) /\ Attaches(request[o])
                  \/ MakesItem(request[o], n) /\ Attaches(request[t])]_vars
  BY ItemStep
<1> QED BY <1>1, Invariant, FilesStayKept, PromisesStayKept, PTL DEF Spec, ItemsGetChildrenInRaces

(* The edges stay a forest unless two requests that attach something overlap, on both     *)
(* engines and however many requests there are, or a DELETE gives children a home, or, on    *)
(* SQLite, a request attaches a node that its own transaction does not write (one that is      *)
(* created with an id that was an ancestor's, or replaced when it has gone): the recursive     *)
(* query of ensure_parent_is_valid, which another request's commit can overtake, is enough      *)
(* whenever nothing overtakes it.                                                            *)
THEOREM CyclesNeedARace == Spec => CyclesNeedTwoMoves
<1>1. IInv /\ IInv' /\ PromisesAreKept /\ [Next]_vars =>
         [Acyclic(db) /\ ~Acyclic(db') =>
            \E t \in Threads : /\ Committing(t) /\ Attaches(request[t])
                               /\ \/ request[t].op = "DELETE"
                                  \/ LeavesNodeOut(t)
                                  \/ \E o \in overtook[t] : Attaches(request[o])]_vars
  BY CycleStep
<1> QED BY <1>1, Invariant, PromisesStayKept, PTL DEF Spec, CyclesNeedTwoMoves
-----------------------------------------------------------------------------
(* The tags of a list.  A request that gives its node a list of tags removes the marks  *)
(* it finds, sees to the tags, and inserts their marks, in this order; it leaves the      *)
(* list, unless somebody else commits marks of the node once it has looked for them.      *)

Clears(s) == s[1] = "delete_marks" \/ (s[1] = "remove_row" /\ s[2][1] = "mark")
Fills(s) == s[1] \in {"ensure_tag", "insert_tag", "insert_marks", "insert_mark"}
Tagging(s) == Clears(s) \/ Fills(s) \/ s[1] = "create_or_replace"
Sows(s, n, u) ==
    \/ s[1] = "insert_mark" /\ s[2] = n /\ s[3] = u
    \/ s[1] = "insert_marks" /\ s[2] = n /\ u \in s[3]
Weeds(s, n, u) == s = <<"delete_marks", n>> \/ s = <<"remove_row", Mark(n, u)>>
Names(s, u) == s = <<"ensure_tag", u>> \/ s = <<"insert_tag", u>>

(* What is still to come in a program a, for the list L of node n.                       *)
InTurn(a) == \A i, j \in 1..Len(a) : i < j /\ Fills(a[i]) => ~Clears(a[j])
KeepsToList(a, n, L) ==
    /\ InTurn(a)
    /\ \A s \in ToSet(a) : s[1] # "create_or_replace" /\ \A u \in Tags \ L : ~Sows(s, n, u)
Clearing(a, n) == <<"delete_marks", n>> \in ToSet(a)
Sowing(a, n, u) == \E s \in ToSet(a) : Sows(s, n, u)
Weeding(a, n, u) == \E s \in ToSet(a) : Weeds(s, n, u)
Naming(a, u) == \E s \in ToSet(a) : Names(s, u)

(* Somebody has committed a list of tags for the same node meanwhile.                    *)
Met(t) == engine = "postgres" /\ \E o \in overtook[t] : ListsMeet(t, o)

(* A request that has a list is in one of four phases: a PUT that has not looked for its *)
(* node; a creation without tags; before and after the DELETE of the old marks.          *)
Undecided(t, n) == todo[t] = << <<"create_or_replace", n>>, Finish >>
Bare(t, n) ==
    /\ request[t].op \in {"POST", "PUT"} /\ request[t].tags = <<>>
    /\ \A s \in ToSet(todo[t]) : ~Tagging(s)
    /\ \A u \in Tags : Mark(n, u) \notin DOMAIN writes[t]
    /\ engine = "postgres" => \/ \E s \in ToSet(todo[t]) : s[1] = "insert_node"
                              \/ Node(n) \in DOMAIN writes[t] /\ db[Node(n)] = "absent"
    /\ engine = "sqlite" =>
          Node(n) \notin DOMAIN writes[t] /\ \A s \in ToSet(todo[t]) : s[1] # "update_node"
Gathering(t, n, L) ==
    /\ KeepsToList(todo[t], n, L) /\ Clearing(todo[t], n)
    /\ \A u \in L : Sowing(todo[t], n, u) /\ Naming(todo[t], u)
Planted(t, n, u) == Mark(n, u) \in DOMAIN writes[t] /\ writes[t][Mark(n, u)] = TRUE
Laying(t, n, L) ==
    /\ KeepsToList(todo[t], n, L)
    /\ \A s \in ToSet(todo[t]) : Lowest(s) # 1
    /\ engine = "sqlite" => Open(t)
    /\ \A u \in L : Sowing(todo[t], n, u) \/ (Planted(t, n, u) /\ ~Weeding(todo[t], n, u))
    /\ engine = "sqlite" => \A u \in L : Naming(todo[t], u) \/ View(t)[Tag(u)]
    /\ \A u \in Tags \ L : Weeding(todo[t], n, u) \/ ~View(t)[Mark(n, u)] \/ Met(t)
TagsInHand(t) == Running(t) /\ Lists(request[t]) =>
    LET n == request[t].node
        L == ToSet(request[t].tags)
    IN  Undecided(t, n) \/ Bare(t, n) \/ Gathering(t, n, L) \/ Laying(t, n, L)

(* On PostgreSQL the row of the node keeps two such requests apart, unless it has gone.   *)
HoldsNode(t) == engine = "postgres" /\ Running(t) /\ Lists(request[t]) /\ LocksNode(request[t]) =>
    \/ NodeWent(t) \/ Node(request[t].node) \in DOMAIN writes[t]
    \/ \E s \in ToSet(todo[t]) : Lowest(s) = 1
FindsNode(t) == engine = "postgres" /\ request[t].op \in {"POST", "PUT"} =>
    \/ NodeWent(t) \/ View(t)[Node(request[t].node)] # "absent"
    \/ \A s \in ToSet(todo[t]) : s[1] # "update_node"

(* A deletion inserts no marks, and deletes no node but its own.                          *)
DeletesItsOwn(t) == Deleting(request[t]) =>
    /\ \A s \in ToSet(todo[t]) :
          /\ s[1] \notin {"insert_marks", "insert_mark"}
          /\ s[1] = "delete_node" => request[t] = [op |-> "DELETE", node |-> s[2]]
    /\ \A row \in DOMAIN writes[t] :
          /\ row[1] = "mark" => writes[t][row] = FALSE
          /\ row[1] = "node" /\ writes[t][row] = "absent" => request[t] = [op |-> "DELETE", node |-> row[2]]
InHand(t) == TagsInHand(t) /\ HoldsNode(t) /\ FindsNode(t) /\ DeletesItsOwn(t)
TagsAreInHand == \A t \in Threads : InHand(t)
-----------------------------------------------------------------------------
(* Programs with a list of tags, and parts of programs that leave tags alone.          *)

LEMMA Items ==
    ASSUME NEW S, NEW s \in Seq(S)
    PROVE  /\ \A i \in 1..Len(s) : s[i] \in ToSet(s)
           /\ \A x \in ToSet(s) : \E i \in 1..Len(s) : x = s[i]
           /\ ToSet(s) \subseteq S
BY DEF ToSet

LEMMA JoinedItems ==
    ASSUME NEW S, NEW a \in Seq(S), NEW b \in Seq(S)
    PROVE  a \o b \in Seq(S) /\ ToSet(a \o b) = ToSet(a) \cup ToSet(b)
<1> DEFINE c == a \o b
<1>1. /\ c \in Seq(S) /\ Len(c) = Len(a) + Len(b) /\ Len(a) \in Nat /\ Len(b) \in Nat
      /\ \A i \in 1..Len(c) : c[i] = IF i <= Len(a) THEN a[i] ELSE b[i - Len(a)]
  BY JoinedSeqs
<1> HIDE DEF c
<1>2. ASSUME NEW x \in ToSet(c) PROVE x \in ToSet(a) \cup ToSet(b)
  <2>1. PICK i \in 1..Len(c) : x = c[i]
    BY <1>1, <1>2, Items
  <2>2. CASE i <= Len(a)
    <3>1. i \in 1..Len(a) /\ x = a[i]
      BY <1>1, <2>1, <2>2
    <3> QED BY <3>1, Items
  <2>3. CASE ~(i <= Len(a))
    <3>1. i - Len(a) \in 1..Len(b) /\ x = b[i - Len(a)]
      BY <1>1, <2>1, <2>3
    <3> QED BY <3>1, Items
  <2> QED BY <2>2, <2>3
<1>3. ASSUME NEW x \in ToSet(a) PROVE x \in ToSet(c)
  <2>1. PICK i \in 1..Len(a) : x = a[i]
    BY <1>3, Items
  <2>2. i \in 1..Len(c) /\ c[i] = x
    BY <1>1, <2>1
  <2> QED BY <1>1, <2>2, Items
<1>4. ASSUME NEW x \in ToSet(b) PROVE x \in ToSet(c)
  <2>1. PICK i \in 1..Len(b) : x = b[i]
    BY <1>4, Items
  <2>2. i + Len(a) \in 1..Len(c) /\ c[i + Len(a)] = x
    <3>1. i + Len(a) \in 1..Len(c) /\ ~(i + Len(a) <= Len(a)) /\ i + Len(a) - Len(a) = i
      BY <1>1
    <3> QED BY <1>1, <2>1, <3>1
  <2> QED BY <1>1, <2>2, Items
<1>5. ToSet(c) = ToSet(a) \cup ToSet(b)
  BY <1>2, <1>3, <1>4
<1> QED BY <1>1, <1>5 DEF c

LEMMA SingleItem == \A x : ToSet(<<x>>) = {x}
BY DEF ToSet

Steps == Statements \cup {Finish}
Plain(a) == a \in Seq(Steps) /\ \A s \in ToSet(a) : ~Tagging(s)
Tagged(a, n, L) ==
    /\ a \in Seq(Steps) /\ KeepsToList(a, n, L) /\ Clearing(a, n)
    /\ \A u \in L : Sowing(a, n, u) /\ Naming(a, u)

LEMMA PlainJoin ==
    ASSUME NEW a, Plain(a), NEW b, Plain(b)
    PROVE  /\ Plain(a \o b) /\ ToSet(a \o b) = ToSet(a) \cup ToSet(b)
           /\ \A s \in ToSet(a) : s \in ToSet(a \o b)
BY JoinedItems DEF Plain

LEMMA TurnJoin ==
    ASSUME NEW S, NEW a \in Seq(S), NEW b \in Seq(S), InTurn(a), InTurn(b),
           (\A s \in ToSet(a) : ~Fills(s)) \/ (\A s \in ToSet(b) : ~Clears(s))
    PROVE  InTurn(a \o b)
<1> DEFINE c == a \o b
<1>1. /\ Len(c) = Len(a) + Len(b) /\ Len(a) \in Nat /\ Len(b) \in Nat
      /\ \A i \in 1..Len(c) : c[i] = IF i <= Len(a) THEN a[i] ELSE b[i - Len(a)]
  BY JoinedSeqs
<1>2. (\A i \in 1..Len(a) : ~Fills(a[i])) \/ (\A i \in 1..Len(b) : ~Clears(b[i]))
  BY Items
<1> HIDE DEF c
<1>3. ASSUME NEW i \in 1..Len(c), NEW j \in 1..Len(c), i < j, Fills(c[i]), Clears(c[j])
      PROVE  FALSE
  <2>1. CASE j <= Len(a)
    <3>1. i \in 1..Len(a) /\ j \in 1..Len(a) /\ c[i] = a[i] /\ c[j] = a[j]
      BY <1>1, <1>3, <2>1
    <3> QED BY <1>3, <3>1 DEF InTurn
  <2>2. CASE ~(i <= Len(a))
    <3>1. i - Len(a) \in 1..Len(b) /\ j - Len(a) \in 1..Len(b) /\ i - Len(a) < j - Len(a)
      BY <1>1, <1>3, <2>2
    <3>2. c[i] = b[i - Len(a)] /\ c[j] = b[j - Len(a)]
      BY <1>1, <1>3, <2>2
    <3> QED BY <1>3, <3>1, <3>2 DEF InTurn
  <2>3. CASE i <= Len(a) /\ ~(j <= Len(a))
    <3>1. i \in 1..Len(a) /\ j - Len(a) \in 1..Len(b) /\ c[i] = a[i] /\ c[j] = b[j - Len(a)]
      BY <1>1, <2>3
    <3> QED BY <1>2, <1>3, <3>1
  <2> QED BY <1>1, <1>3, <2>1, <2>2, <2>3
<1>4. InTurn(c)
  BY <1>3 DEF InTurn
<1> QED BY <1>4 DEF c

LEMMA PlainSteps ==
    ASSUME NEW a, Plain(a)
    PROVE  /\ InTurn(a)
           /\ \A s \in ToSet(a) : ~Clears(s) /\ ~Fills(s) /\ s[1] # "create_or_replace" /\ \A n, u : ~Sows(s, n, u)
<1>1. \A s \in ToSet(a) : ~Clears(s) /\ ~Fills(s) /\ s[1] # "create_or_replace"
  BY DEF Plain, Tagging
<1>2. \A s, n, u : Sows(s, n, u) => Fills(s)
  BY DEF Sows, Fills
<1>3. InTurn(a)
  BY <1>1, Items DEF Plain, InTurn
<1> QED BY <1>1, <1>2, <1>3

LEMMA PlainBefore ==
    ASSUME NEW a, Plain(a), NEW n, NEW L, NEW b, Tagged(b, n, L)
    PROVE  Tagged(a \o b, n, L) /\ ToSet(a \o b) = ToSet(a) \cup ToSet(b)
<1>1. a \in Seq(Steps) /\ b \in Seq(Steps) /\ InTurn(b)
  BY DEF Plain, Tagged, KeepsToList
<1>2. a \o b \in Seq(Steps) /\ ToSet(a \o b) = ToSet(a) \cup ToSet(b)
  BY <1>1, JoinedItems
<1>3. InTurn(a \o b)
  BY <1>1, PlainSteps, TurnJoin
<1>4. KeepsToList(a \o b, n, L)
  BY <1>2, <1>3, PlainSteps DEF Tagged, KeepsToList
<1> QED BY <1>2, <1>4 DEF Tagged, Clearing, Sowing, Naming

LEMMA PlainAfter ==
    ASSUME NEW a, NEW n, NEW L, Tagged(a, n, L), NEW b, Plain(b)
    PROVE  Tagged(a \o b, n, L) /\ ToSet(a \o b) = ToSet(a) \cup ToSet(b)
<1>1. a \in Seq(Steps) /\ b \in Seq(Steps) /\ InTurn(a)
  BY DEF Plain, Tagged, KeepsToList
<1>2. a \o b \in Seq(Steps) /\ ToSet(a \o b) = ToSet(a) \cup ToSet(b)
  BY <1>1, JoinedItems
<1>3. InTurn(a \o b)
  BY <1>1, PlainSteps, TurnJoin
<1>4. KeepsToList(a \o b, n, L)
  BY <1>2, <1>3, PlainSteps DEF Tagged, KeepsToList
<1> QED BY <1>2, <1>4 DEF Tagged, Clearing, Sowing, Naming

LEMMA PlainPart ==
    ASSUME NEW a \in Seq(Statements),
           (\A i \in 1..Len(a) : Highest(a[i]) <= 2) \/ (\A i \in 1..Len(a) : Lowest(a[i]) >= 4)
    PROVE  Plain(a)
<1>1. ASSUME NEW s, Tagging(s) PROVE Lowest(s) <= 3 /\ Highest(s) >= 3
  <2>1. CASE s[1] = "create_or_replace"
    BY <2>1 DEF Lowest, Highest, Wide
  <2>2. CASE s[1] = "remove_row"
    <3>1. Stage(s) = 3
      BY <1>1, <2>2 DEF Tagging, Clears, Fills, Stage, Rank
    <3> QED BY <2>2, <3>1 DEF Lowest, Highest, Wide
  <2>3. CASE s[1] = "delete_marks" \/ Fills(s)
    <3>1. Stage(s) = 3 /\ s[1] \notin Wide /\ s[1] # "insert_node"
      BY <2>3 DEF Fills, Stage, Wide
    <3> QED BY <3>1 DEF Lowest, Highest
  <2> QED BY <1>1, <2>1, <2>2, <2>3 DEF Tagging, Clears
<1>2. ASSUME NEW s \in ToSet(a) PROVE ~Tagging(s)
  <2>1. PICK i \in 1..Len(a) : s = a[i]
    BY <1>2, Items
  <2>2. Highest(s) <= 2 \/ Lowest(s) >= 4
    BY <2>1
  <2>3. Lowest(s) \in Nat /\ Highest(s) \in Nat
    BY DEF Lowest, Highest, Stage, Rank
  <2> QED BY <1>1, <2>2, <2>3
<1> QED BY <1>2, StatementsAreMore DEF Plain, Steps

LEMMA PlainWhen ==
    ASSUME NEW c \in BOOLEAN, NEW a, c => Plain(a)
    PROVE  Plain(When(c, a))
<1>1. Plain(<<>>)
  BY DEF Plain, ToSet
<1> QED BY <1>1 DEF When

LEMMA PlainPieces ==
    ASSUME NEW n \in NodeIds, NEW p \in NodeIds \cup {NoNode}, NEW kind \in Kinds \cup {Relabel}
    PROVE  /\ kind \in Kinds => Plain(<< <<"insert_node", n, kind>> >>)
           /\ Plain(<< <<"update_node", n, kind>> >>)
           /\ Plain(<< <<"fetch_node", n>> >>) /\ Plain(<< <<"fetch_parent", n>> >>)
           /\ Plain(<< <<"ensure_childless", n>> >>) /\ Plain(SetParent(n, p))
           /\ p # NoNode => Plain(<< <<"ensure_container", p>> >>) /\ Plain(EnsureParentIsValid(n, p))
           /\ Plain(<< <<"announce", n>> >>) /\ Plain(<< <<"announce_update", n>> >>)
           /\ Plain(<< <<"announce_replacement", n, p>> >>) /\ Plain(Announcements({p})) /\ Plain(<<Finish>>)
<1>1. {Node(n), Edge(n)} \subseteq Rows
  BY RowFacts
<1>2. ASSUME NEW a, NEW lo \in {1, 2, 4}, NEW hi \in {1, 2, 4}, NEW R, NEW d, Part(a, lo, hi, R, d), hi # 4 \/ lo = 4
      PROVE  Plain(a)
  <2>1. a \in Seq(Statements) /\ \A i \in 1..Len(a) : lo <= Lowest(a[i]) /\ Highest(a[i]) <= hi
    BY <1>2 DEF Part
  <2>2. \A s : Lowest(s) \in Nat /\ Highest(s) \in Nat
    BY DEF Lowest, Highest, Stage, Rank
  <2>3. (\A i \in 1..Len(a) : Highest(a[i]) <= 2) \/ (\A i \in 1..Len(a) : Lowest(a[i]) >= 4)
    BY <1>2, <2>1, <2>2
  <2> QED BY <2>1, <2>3, PlainPart
<1>3. /\ kind \in Kinds => Plain(<< <<"insert_node", n, kind>> >>)
      /\ Plain(<< <<"update_node", n, kind>> >>)
  <2>1. kind \in Kinds => Part(<< <<"insert_node", n, kind>> >>, 1, 2, Rows, TRUE)
    BY <1>1, NodePart
  <2>2. Part(<< <<"update_node", n, kind>> >>, 1, 1, Rows, TRUE)
    BY <1>1, NodePart
  <2>3. ASSUME NEW a, Part(a, 1, 1, Rows, TRUE) \/ Part(a, 1, 2, Rows, TRUE) PROVE Plain(a)
    <3>1. 1 \in {1, 2, 4} /\ 2 \in {1, 2, 4} /\ 1 # 4 /\ 2 # 4
      OBVIOUS
    <3>2. CASE Part(a, 1, 1, Rows, TRUE)
      BY <1>2, <3>1, <3>2
    <3>3. CASE Part(a, 1, 2, Rows, TRUE)
      BY <1>2, <3>1, <3>3
    <3> QED BY <2>3, <3>2, <3>3
  <2> DEFINE b == << <<"insert_node", n, kind>> >>
             c == << <<"update_node", n, kind>> >>
  <2>4. (kind \in Kinds => Part(b, 1, 2, Rows, TRUE)) /\ Part(c, 1, 1, Rows, TRUE)
    BY <2>1, <2>2
  <2> HIDE DEF b, c
  <2>5. (kind \in Kinds => Plain(b)) /\ Plain(c)
    BY <2>3, <2>4
  <2> QED BY <2>5 DEF b, c
<1>4. /\ Plain(<< <<"fetch_node", n>> >>) /\ Plain(<< <<"fetch_parent", n>> >>)
      /\ Plain(<< <<"ensure_childless", n>> >>)
  <2>1. /\ Part(<< <<"fetch_node", n>> >>, 1, 1, Rows, TRUE) /\ Part(<< <<"fetch_parent", n>> >>, 1, 1, Rows, TRUE)
        /\ Part(<< <<"ensure_childless", n>> >>, 1, 1, Rows, TRUE)
    BY ReadPart
  <2> QED BY <1>2, <2>1
<1>5. Plain(SetParent(n, p))
  <2>1. Part(SetParent(n, p), 2, 2, Rows, TRUE)
    BY <1>1, SetParentPart
  <2> QED BY <1>2, <2>1
<1>6. ASSUME p # NoNode
      PROVE  Plain(<< <<"ensure_container", p>> >>) /\ Plain(EnsureParentIsValid(n, p))
  <2>1. Part(EnsureParentIsValid(n, p), 1, 1, Rows, TRUE)
    BY <1>6, EnsureParentPart
  <2>2. Plain(<< <<"ensure_container", p>> >>)
    BY <1>6, SingleItem DEF Plain, Steps, Statements, Tagging, Clears, Fills
  <2>3. Plain(EnsureParentIsValid(n, p))
    BY <1>2, <2>1
  <2> QED BY <2>2, <2>3
<1>7. /\ Plain(<< <<"announce", n>> >>) /\ Plain(<< <<"announce_update", n>> >>)
      /\ Plain(<< <<"announce_replacement", n, p>> >>)
  <2>1. /\ Part(<< <<"announce", n>> >>, 4, 4, Rows, TRUE)
        /\ Part(<< <<"announce_update", n>> >>, 4, 4, Rows, TRUE)
        /\ Part(<< <<"announce_replacement", n, p>> >>, 4, 4, Rows, TRUE)
    BY EventPart
  <2> QED BY <1>2, <2>1
<1>8. Plain(Announcements({p}))
  <2>1. Part(Announcements({p}), 4, 4, {}, TRUE)
    BY AnnouncementsPart
  <2> QED BY <1>2, <2>1
<1>9. Plain(<<Finish>>)
  BY SingleItem DEF Plain, Steps, Finish, Tagging, Clears, Fills
<1> QED BY <1>3, <1>4, <1>5, <1>6, <1>7, <1>8, <1>9

(* No UPDATE of a node.                                                                    *)
Tame(a) == \A s \in ToSet(a) : s[1] # "update_node"

LEMMA LaterTame ==
    ASSUME NEW lo \in {2, 3, 4}, NEW hi, NEW R, NEW d, NEW a, Part(a, lo, hi, R, d)
    PROVE  Tame(a)
<1>1. a \in Seq(Statements) /\ \A i \in 1..Len(a) : lo <= Lowest(a[i])
  BY DEF Part
<1>2. ASSUME NEW s \in ToSet(a), s[1] = "update_node" PROVE FALSE
  <2>1. PICK i \in 1..Len(a) : s = a[i]
    BY <1>1, <1>2, Items
  <2>2. Lowest(s) = 1
    BY <1>2 DEF Lowest, Wide, Stage
  <2> QED BY <1>1, <2>1, <2>2
<1> QED BY <1>2 DEF Tame

LEMMA NothingTame == Tame(<<>>)
BY DEF Tame, ToSet

LEMMA TameWhen ==
    ASSUME NEW c \in BOOLEAN, NEW a, c => Tame(a)
    PROVE  Tame(When(c, a))
BY NothingTame DEF When

LEMMA ReplaceNodeTagsTagged ==
    ASSUME NEW n \in NodeIds, NEW names \in Seq(Tags)
    PROVE  Tagged(ReplaceNodeTags(n, names), n, ToSet(names))
<1> DEFINE a == << <<"delete_marks", n>> >>
           b == [i \in DOMAIN names |-> <<"ensure_tag", names[i]>>]
           c == When(names # <<>>, << <<"insert_marks", n, ToSet(names)>> >>)
           L == ToSet(names)
<1>1. L \subseteq Tags /\ \A u \in L : \E i \in 1..Len(names) : u = names[i]
  BY Items
<1>2. a \in Seq(Steps) /\ ToSet(a) = {<<"delete_marks", n>>}
  BY SingleItem DEF Steps, Statements
<1>3. b \in Seq(Steps) /\ ToSet(b) = {<<"ensure_tag", u>> : u \in L}
  <2>1. PICK k \in Nat : DOMAIN names = 1..k /\ \A i \in 1..k : names[i] \in Tags
    OBVIOUS
  <2>2. \A u \in Tags : <<"ensure_tag", u>> \in Steps
    BY DEF Steps, Statements
  <2>3. b \in [1..k -> Steps]
    BY <2>1, <2>2
  <2>4. b \in Seq(Steps)
    BY <2>3
  <2>5. ToSet(b) = {<<"ensure_tag", u>> : u \in L}
    BY DEF ToSet
  <2> QED BY <2>4, <2>5
<1>4. c \in Seq(Steps) /\ \A s \in ToSet(c) : s = <<"insert_marks", n, L>>
  <2>1. <<"insert_marks", n, L>> \in Steps
    BY <1>1 DEF Steps, Statements
  <2>2. ToSet(<<>>) = {}
    BY DEF ToSet
  <2> QED BY <2>1, <2>2, SingleItem DEF When
<1>5. names # <<>> => <<"insert_marks", n, L>> \in ToSet(c)
  BY SingleItem DEF When
<1>6. names = <<>> => L = {}
  BY DEF ToSet
<1>7. /\ \A s \in ToSet(a) : Clears(s) /\ ~Fills(s)
      /\ \A s \in ToSet(b) : ~Clears(s) /\ s[1] = "ensure_tag"
      /\ \A s \in ToSet(c) : ~Clears(s) /\ s[1] = "insert_marks"
  <2>1. \A s : s[1] = "delete_marks" => Clears(s) /\ ~Fills(s)
    BY DEF Clears, Fills
  <2>2. \A s : s[1] \in {"ensure_tag", "insert_marks"} => ~Clears(s)
    BY DEF Clears
  <2>3. \A s \in ToSet(a) : s[1] = "delete_marks"
    BY <1>2
  <2>4. \A s \in ToSet(b) : s[1] = "ensure_tag"
    BY <1>3
  <2>5. \A s \in ToSet(c) : s[1] = "insert_marks"
    BY <1>4
  <2> QED BY <2>1, <2>2, <2>3, <2>4, <2>5
<1> DEFINE r == ReplaceNodeTags(n, names)
<1>8. r = a \o b \o c
  BY DEF ReplaceNodeTags
<1> HIDE DEF a, b, c, L, r
<1>9. a \o b \in Seq(Steps) /\ ToSet(a \o b) = ToSet(a) \cup ToSet(b)
  BY <1>2, <1>3, JoinedItems
<1>10. a \o b \o c \in Seq(Steps) /\ ToSet(a \o b \o c) = ToSet(a) \cup ToSet(b) \cup ToSet(c)
  <2> DEFINE x == a \o b
  <2>1. x \in Seq(Steps) /\ c \in Seq(Steps) /\ ToSet(x) = ToSet(a) \cup ToSet(b)
    BY <1>4, <1>9
  <2> HIDE DEF x
  <2>2. x \o c \in Seq(Steps) /\ ToSet(x \o c) = ToSet(x) \cup ToSet(c)
    BY <2>1, JoinedItems
  <2> QED BY <2>1, <2>2 DEF x
<1>11. InTurn(a) /\ InTurn(b) /\ InTurn(c)
  <2>1. \A i \in 1..Len(a) : ~Fills(a[i])
    BY <1>2, <1>7, Items
  <2>2. \A i \in 1..Len(b) : ~Clears(b[i])
    BY <1>3, <1>7, Items
  <2>3. \A i \in 1..Len(c) : ~Clears(c[i])
    BY <1>4, <1>7, Items
  <2> QED BY <2>1, <2>2, <2>3 DEF InTurn
<1>12. InTurn(a \o b)
  BY <1>2, <1>3, <1>7, <1>11, TurnJoin
<1>13. InTurn(a \o b \o c)
  BY <1>4, <1>7, <1>9, <1>11, <1>12, TurnJoin
<1>14. \A s \in ToSet(r) : s[1] # "create_or_replace" /\ \A u \in Tags \ L : ~Sows(s, n, u)
  <2>1. \A s \in ToSet(r) : s = <<"delete_marks", n>> \/ s[1] = "ensure_tag" \/ s = <<"insert_marks", n, L>>
    BY <1>2, <1>4, <1>7, <1>8, <1>10
  <2> QED BY <2>1 DEF Sows
<1>15. ASSUME NEW u \in L PROVE Sowing(r, n, u) /\ Naming(r, u)
  <2>1. <<"ensure_tag", u>> \in ToSet(r) /\ <<"insert_marks", n, L>> \in ToSet(r)
    BY <1>3, <1>5, <1>6, <1>8, <1>10, <1>15
  <2>2. Sows(<<"insert_marks", n, L>>, n, u) /\ Names(<<"ensure_tag", u>>, u)
    BY <1>15 DEF Sows, Names
  <2> QED BY <2>1, <2>2 DEF Sowing, Naming
<1>16. Tagged(r, n, L)
  BY <1>2, <1>8, <1>10, <1>13, <1>14, <1>15 DEF Tagged, KeepsToList, Clearing
<1> QED BY <1>16 DEF r, L

LEMMA CreateNodeTagged ==
    ASSUME NEW n \in NodeIds, NEW kind \in Kinds, NEW p \in NodeIds \cup {NoNode}, NEW names \in Seq(Tags)
    PROVE  LET a == CreateNode(n, kind, p, names) \o <<Finish>>
           IN  /\ names # <<>> => Tagged(a, n, ToSet(names))
               /\ names = <<>> => Plain(a)
               /\ Tame(a) /\ <<"insert_node", n, kind>> \in ToSet(a)
<1> DEFINE a == << <<"insert_node", n, kind>> >>
           b == When(p # NoNode, << <<"ensure_container", p>> >> \o SetParent(n, p))
           c == When(names # <<>>, ReplaceNodeTags(n, names))
           e == << <<"announce", n>> >>
           f == Announcements({p})
           g == <<Finish>>
<1>1. Plain(a) /\ Plain(e) /\ Plain(f) /\ Plain(g)
  BY PlainPieces
<1>2. Plain(b)
  <2>1. p # NoNode => Plain(<< <<"ensure_container", p>> >> \o SetParent(n, p))
    BY PlainPieces, PlainJoin
  <2> QED BY <2>1, PlainWhen
<1>3. CreateNode(n, kind, p, names) = a \o b \o c \o e \o f
  BY DEF CreateNode
<1>4. names # <<>> => Tagged(c, n, ToSet(names))
  BY ReplaceNodeTagsTagged DEF When
<1>5. names = <<>> => c = <<>> /\ Plain(c)
  <2>1. Plain(<<>>)
    BY DEF Plain, ToSet
  <2> QED BY <2>1 DEF When
<1>6. <<"insert_node", n, kind>> \in ToSet(a)
  BY SingleItem
<1>10. Tame(a) /\ Tame(g)
  BY SingleItem DEF Tame, Finish
<1>11. Tame(b) /\ Tame(c) /\ Tame(e) /\ Tame(f)
  <2>1. {Edge(n)} \cup MarksOf(n) \subseteq Rows
    BY RowFacts
  <2>2. Tame(SetParent(n, p))
    BY <2>1, SetParentPart, LaterTame
  <2>3. p # NoNode => Tame(<< <<"ensure_container", p>> >> \o SetParent(n, p))
    <3>1. Tame(<< <<"ensure_container", p>> >>)
      BY SingleItem DEF Tame
    <3>2. p # NoNode => ToSet(<< <<"ensure_container", p>> >> \o SetParent(n, p)) =
                        ToSet(<< <<"ensure_container", p>> >>) \cup ToSet(SetParent(n, p))
      BY PlainPieces, PlainJoin
    <3> QED BY <2>2, <3>1, <3>2 DEF Tame
  <2>4. Tame(b)
    BY <2>3, TameWhen
  <2>5. Tame(c)
    BY <2>1, ReplaceNodeTagsPart, LaterTame, TameWhen
  <2>6. Tame(e) /\ Tame(f)
    BY EventPart, AnnouncementsPart, LaterTame
  <2> QED BY <2>4, <2>5, <2>6
<1> DEFINE all == CreateNode(n, kind, p, names) \o <<Finish>>
<1>12. all = a \o b \o c \o e \o f \o g
  BY <1>3
<1> HIDE DEF a, b, c, e, f, g, all
<1>7. Plain(a \o b) /\ ToSet(a \o b) = ToSet(a) \cup ToSet(b)
  BY <1>1, <1>2, PlainJoin
<1> DEFINE everything == ToSet(a) \cup ToSet(b) \cup ToSet(c) \cup ToSet(e) \cup ToSet(f) \cup ToSet(g)
<1> HIDE DEF everything
<1>8. ASSUME names # <<>> PROVE Tagged(all, n, ToSet(names)) /\ ToSet(all) = everything
  <2>1. Tagged(a \o b \o c, n, ToSet(names)) /\ ToSet(a \o b \o c) = ToSet(a \o b) \cup ToSet(c)
    BY <1>4, <1>7, <1>8, PlainBefore
  <2>2. Tagged(a \o b \o c \o e, n, ToSet(names)) /\ ToSet(a \o b \o c \o e) = ToSet(a \o b \o c) \cup ToSet(e)
    BY <1>1, <2>1, PlainAfter
  <2>3. /\ Tagged(a \o b \o c \o e \o f, n, ToSet(names))
        /\ ToSet(a \o b \o c \o e \o f) = ToSet(a \o b \o c \o e) \cup ToSet(f)
    BY <1>1, <2>2, PlainAfter
  <2>4. /\ Tagged(a \o b \o c \o e \o f \o g, n, ToSet(names))
        /\ ToSet(a \o b \o c \o e \o f \o g) = ToSet(a \o b \o c \o e \o f) \cup ToSet(g)
    BY <1>1, <2>3, PlainAfter
  <2>5. ToSet(a \o b \o c \o e \o f \o g) = everything
    BY <1>7, <2>1, <2>2, <2>3, <2>4 DEF everything
  <2> QED BY <1>8, <1>12, <2>4, <2>5
<1>9. ASSUME names = <<>> PROVE Plain(all) /\ ToSet(all) = everything
  <2>2. Plain(a \o b \o c) /\ ToSet(a \o b \o c) = ToSet(a \o b) \cup ToSet(c)
    BY <1>5, <1>7, <1>9, PlainJoin
  <2>3. Plain(a \o b \o c \o e) /\ ToSet(a \o b \o c \o e) = ToSet(a \o b \o c) \cup ToSet(e)
    BY <1>1, <2>2, PlainJoin
  <2>4. Plain(a \o b \o c \o e \o f) /\ ToSet(a \o b \o c \o e \o f) = ToSet(a \o b \o c \o e) \cup ToSet(f)
    BY <1>1, <2>3, PlainJoin
  <2>5. /\ Plain(a \o b \o c \o e \o f \o g)
        /\ ToSet(a \o b \o c \o e \o f \o g) = ToSet(a \o b \o c \o e \o f) \cup ToSet(g)
    BY <1>1, <2>4, PlainJoin
  <2>6. ToSet(a \o b \o c \o e \o f \o g) = everything
    BY <1>7, <2>2, <2>3, <2>4, <2>5 DEF everything
  <2> QED BY <1>9, <1>12, <2>5, <2>6
<1>13. /\ names # <<>> => Tagged(all, n, ToSet(names))
       /\ names = <<>> => Plain(all)
       /\ ToSet(all) = everything
  BY <1>8, <1>9
<1>14. Tame(all) /\ <<"insert_node", n, kind>> \in ToSet(all)
  BY <1>6, <1>10, <1>11, <1>13 DEF Tame, everything
<1> QED BY <1>13, <1>14 DEF all

LEMMA UpdateNodeTagged ==
    ASSUME NEW n \in NodeIds, NEW kind \in Kinds \cup {Keep, Relabel}, NEW p \in NodeIds \cup {NoNode, Keep},
           NEW names \in Seq(Tags), names # Keep
    PROVE  LET a == UpdateNode(n, kind, p, names) \o <<Finish>>
           IN  /\ Tagged(a, n, ToSet(names))
               /\ kind # Keep => <<"update_node", n, kind>> \in ToSet(a)
<1> DEFINE x == << <<"fetch_node", n>> >>
           y == << <<"fetch_parent", n>> >>
           b == When(kind = "item", << <<"ensure_childless", n>> >>)
           c == When(p \notin {Keep, NoNode}, EnsureParentIsValid(n, p))
           e == When(kind # Keep, << <<"update_node", n, kind>> >>)
           f == When(p # Keep, SetParent(n, p))
           g == ReplaceNodeTags(n, names)
           h == << <<"announce_update", n>> >>
           k == <<Finish>>
<1>1. UpdateNode(n, kind, p, names) = x \o y \o b \o c \o e \o f \o g \o h
  BY FetchesJoin DEF UpdateNode, When
<1>2. Kinds # {}
  BY DEF Kinds
<1>3. Plain(x) /\ Plain(y) /\ Plain(h) /\ Plain(k)
  BY <1>2, PlainPieces
<1>4. Plain(b)
  <2>1. Plain(<< <<"ensure_childless", n>> >>)
    BY <1>2, PlainPieces
  <2> QED BY <2>1, PlainWhen
<1>5. Plain(c)
  <2>1. p \notin {Keep, NoNode} => Plain(EnsureParentIsValid(n, p))
    BY <1>2, PlainPieces
  <2> QED BY <2>1, PlainWhen
<1>6. Plain(e)
  <2>1. kind # Keep => Plain(<< <<"update_node", n, kind>> >>)
    BY PlainPieces
  <2> QED BY <2>1, PlainWhen
<1>7. Plain(f)
  <2>1. p # Keep => Plain(SetParent(n, p))
    BY <1>2, PlainPieces
  <2> QED BY <2>1, PlainWhen
<1>8. Tagged(g, n, ToSet(names))
  BY ReplaceNodeTagsTagged
<1>14. kind # Keep => <<"update_node", n, kind>> \in ToSet(e)
  BY SingleItem DEF When
<1> DEFINE all == UpdateNode(n, kind, p, names) \o <<Finish>>
<1>15. all = x \o y \o b \o c \o e \o f \o g \o h \o k
  BY <1>1
<1> HIDE DEF x, y, b, c, e, f, g, h, k, all
<1>9. Plain(x \o y) /\ Plain(x \o y \o b) /\ Plain(x \o y \o b \o c)
  BY <1>3, <1>4, <1>5, PlainJoin
<1>10. /\ Plain(x \o y \o b \o c \o e) /\ Plain(x \o y \o b \o c \o e \o f)
       /\ ToSet(e) \subseteq ToSet(x \o y \o b \o c \o e \o f)
  <2>1. Plain(x \o y \o b \o c \o e) /\ ToSet(e) \subseteq ToSet(x \o y \o b \o c \o e)
    BY <1>6, <1>9, PlainJoin
  <2> QED BY <1>7, <2>1, PlainJoin
<1>11. /\ Tagged(x \o y \o b \o c \o e \o f \o g, n, ToSet(names))
       /\ ToSet(e) \subseteq ToSet(x \o y \o b \o c \o e \o f \o g)
  BY <1>8, <1>10, PlainBefore
<1>12. /\ Tagged(x \o y \o b \o c \o e \o f \o g \o h, n, ToSet(names))
       /\ ToSet(e) \subseteq ToSet(x \o y \o b \o c \o e \o f \o g \o h)
  BY <1>3, <1>11, PlainAfter
<1>13. /\ Tagged(x \o y \o b \o c \o e \o f \o g \o h \o k, n, ToSet(names))
       /\ ToSet(e) \subseteq ToSet(x \o y \o b \o c \o e \o f \o g \o h \o k)
  BY <1>3, <1>12, PlainAfter
<1>16. Tagged(all, n, ToSet(names)) /\ (kind # Keep => <<"update_node", n, kind>> \in ToSet(all))
  BY <1>13, <1>14, <1>15
<1> QED BY <1>16 DEF all

LEMMA ReplaceNodeTagged ==
    ASSUME NEW n \in NodeIds, NEW kind \in Kinds, NEW p \in NodeIds \cup {NoNode}, NEW names \in Seq(Tags)
    PROVE  LET a == ReplaceNode(n, kind, p, names) \o <<Finish>>
           IN  Tagged(a, n, ToSet(names)) /\ <<"update_node", n, kind>> \in ToSet(a)
<1> DEFINE x == When(kind = "item", << <<"ensure_childless", n>> >>)
           y == << <<"fetch_parent", n>> >>
           c == When(p # NoNode, EnsureParentIsValid(n, p))
           e == << <<"update_node", n, kind>> >>
           f == SetParent(n, p)
           g == ReplaceNodeTags(n, names)
           h == << <<"announce_replacement", n, p>> >>
           k == <<Finish>>
<1>1. ReplaceNode(n, kind, p, names) = x \o y \o c \o e \o f \o g \o h
  BY DEF ReplaceNode
<1>2. Plain(y) /\ Plain(e) /\ Plain(f) /\ Plain(h) /\ Plain(k)
  BY PlainPieces
<1>3. Plain(x)
  <2>1. Plain(<< <<"ensure_childless", n>> >>)
    BY PlainPieces
  <2> QED BY <2>1, PlainWhen
<1>4. Plain(c)
  <2>1. p # NoNode => Plain(EnsureParentIsValid(n, p))
    BY PlainPieces
  <2> QED BY <2>1, PlainWhen
<1>5. Tagged(g, n, ToSet(names))
  BY ReplaceNodeTagsTagged
<1>10. <<"update_node", n, kind>> \in ToSet(e)
  BY SingleItem
<1> DEFINE all == ReplaceNode(n, kind, p, names) \o <<Finish>>
<1>11. all = x \o y \o c \o e \o f \o g \o h \o k
  BY <1>1
<1> HIDE DEF x, y, c, e, f, g, h, k, all
<1>6. /\ Plain(x \o y \o c \o e) /\ Plain(x \o y \o c \o e \o f)
      /\ ToSet(e) \subseteq ToSet(x \o y \o c \o e \o f)
  <2>1. Plain(x \o y) /\ Plain(x \o y \o c)
    BY <1>2, <1>3, <1>4, PlainJoin
  <2>2. Plain(x \o y \o c \o e) /\ ToSet(e) \subseteq ToSet(x \o y \o c \o e)
    BY <1>2, <2>1, PlainJoin
  <2> QED BY <1>2, <2>2, PlainJoin
<1> DEFINE before == x \o y \o c \o e \o f
           after == before \o g
<1>13. Plain(before) /\ ToSet(e) \subseteq ToSet(before)
  BY <1>6
<1> HIDE DEF before
<1>14. before \in Seq(Steps) /\ g \in Seq(Steps)
  BY <1>5, <1>13 DEF Plain, Tagged
<1>15. ToSet(before \o g) = ToSet(before) \cup ToSet(g)
  BY <1>14, JoinedItems
<1>16. Tagged(after, n, ToSet(names))
  BY <1>5, <1>13, PlainBefore
<1>17. ToSet(e) \subseteq ToSet(after)
  BY <1>13, <1>15
<1> HIDE DEF after
<1>7. Tagged(after \o h, n, ToSet(names)) /\ ToSet(e) \subseteq ToSet(after \o h)
  BY <1>2, <1>16, <1>17, PlainAfter
<1>8. Tagged(after \o h \o k, n, ToSet(names)) /\ ToSet(e) \subseteq ToSet(after \o h \o k)
  BY <1>2, <1>7, PlainAfter
<1>9. all = after \o h \o k
  BY <1>11 DEF after, before
<1>12. Tagged(all, n, ToSet(names)) /\ <<"update_node", n, kind>> \in ToSet(all)
  BY <1>8, <1>9, <1>10
<1> QED BY <1>12 DEF all
-----------------------------------------------------------------------------
(* A step of a request that has a list.                                                  *)

LEMMA ClearsOrFills ==
    /\ \A s : ~(Clears(s) /\ Fills(s))
    /\ \A s, n, u : Sows(s, n, u) => Fills(s)
    /\ \A s, n, u : Weeds(s, n, u) => Clears(s)
    /\ \A s, u : Names(s, u) => Fills(s)
BY DEF Clears, Fills, Sows, Weeds, Names, Mark

LEMMA LaterItems ==
    ASSUME NEW S, NEW s \in Seq(S), NEW a \in Seq(S), s # <<>>
    PROVE  /\ a \o Tail(s) \in Seq(S) /\ s[1] \in ToSet(s)
           /\ \A x \in ToSet(a) : x \in ToSet(a \o Tail(s))
           /\ \A x \in ToSet(s) : x = s[1] \/ x \in ToSet(a \o Tail(s))
           /\ \A x \in ToSet(a \o Tail(s)) : x \in ToSet(a) \/ \E j \in 2..Len(s) : x = s[j]
<1> DEFINE b == a \o Tail(s)
<1>1. /\ b \in Seq(S) /\ Len(s) \in Nat /\ Len(a) \in Nat /\ 1 \in 1..Len(s)
      /\ \A i \in 1..Len(a) : i \in 1..Len(b) /\ b[i] = a[i]
      /\ \A j \in 2..Len(s) : j + Len(a) - 1 \in 1..Len(b) /\ b[j + Len(a) - 1] = s[j]
      /\ \A i \in 1..Len(b) : i \in 1..Len(a) \/ \E j \in 2..Len(s) : i = j + Len(a) - 1
  BY LaterStatements
<1> HIDE DEF b
<1>2. ASSUME NEW x \in ToSet(a) PROVE x \in ToSet(b)
  <2>1. PICK i \in 1..Len(a) : x = a[i]
    BY <1>2, Items
  <2>2. i \in 1..Len(b) /\ b[i] = x
    BY <1>1, <2>1
  <2> QED BY <1>1, <2>2, Items
<1>3. ASSUME NEW x \in ToSet(s) PROVE x = s[1] \/ x \in ToSet(b)
  <2>1. PICK j \in 1..Len(s) : x = s[j]
    BY <1>3, Items
  <2>2. CASE j = 1
    BY <2>1, <2>2
  <2>3. CASE j # 1
    <3>1. j \in 2..Len(s)
      BY <1>1, <2>3
    <3>2. j + Len(a) - 1 \in 1..Len(b) /\ b[j + Len(a) - 1] = x
      BY <1>1, <2>1, <3>1
    <3> QED BY <1>1, <3>2, Items
  <2> QED BY <2>2, <2>3
<1>4. ASSUME NEW x \in ToSet(b) PROVE x \in ToSet(a) \/ \E j \in 2..Len(s) : x = s[j]
  <2>1. PICK i \in 1..Len(b) : x = b[i]
    BY <1>1, <1>4, Items
  <2>2. CASE i \in 1..Len(a)
    <3>1. x = a[i]
      BY <1>1, <2>1, <2>2
    <3> QED BY <2>2, <3>1, Items
  <2>3. CASE \E j \in 2..Len(s) : i = j + Len(a) - 1
    BY <1>1, <2>1, <2>3
  <2> QED BY <1>1, <2>2, <2>3
<1>5. s[1] \in ToSet(s)
  BY <1>1, Items
<1> QED BY <1>1, <1>2, <1>3, <1>4, <1>5 DEF b

LEMMA TurnContinues ==
    ASSUME NEW S, NEW s \in Seq(S), NEW a \in Seq(S), s # <<>>, InTurn(s),
           \A x \in ToSet(a) : (Clears(x) => Clears(s[1])) /\ (Fills(x) => Fills(s[1]))
    PROVE  /\ InTurn(a \o Tail(s))
           /\ Fills(s[1]) => \A x \in ToSet(a \o Tail(s)) : ~Clears(x)
<1> DEFINE b == a \o Tail(s)
<1>1. /\ b \in Seq(S) /\ Len(s) \in Nat /\ Len(a) \in Nat /\ 1 \in 1..Len(s)
      /\ \A i \in 1..Len(a) : i \in 1..Len(b) /\ b[i] = a[i]
      /\ \A j \in 2..Len(s) : j + Len(a) - 1 \in 1..Len(b) /\ b[j + Len(a) - 1] = s[j]
      /\ \A i \in 1..Len(b) : i \in 1..Len(a) \/ \E j \in 2..Len(s) : i = j + Len(a) - 1
  BY LaterStatements
<1> HIDE DEF b
<1>2. \A i \in 1..Len(a) : (Clears(b[i]) => Clears(s[1])) /\ (Fills(b[i]) => Fills(s[1]))
  BY <1>1, Items
<1>3. ASSUME Fills(s[1]), NEW i \in 1..Len(b) PROVE ~Clears(b[i])
  <2>1. CASE i \in 1..Len(a)
    BY <1>2, <1>3, <2>1, ClearsOrFills
  <2>2. CASE \E j \in 2..Len(s) : i = j + Len(a) - 1
    <3>1. PICK j \in 2..Len(s) : i = j + Len(a) - 1
      BY <2>2
    <3>2. j \in 1..Len(s) /\ 1 < j /\ b[i] = s[j]
      BY <1>1, <3>1
    <3> QED BY <1>1, <1>3, <3>2 DEF InTurn
  <2> QED BY <1>1, <2>1, <2>2
<1>4. ASSUME NEW i \in 1..Len(b), NEW j \in 1..Len(b), i < j, Fills(b[i]), Clears(b[j])
      PROVE  FALSE
  <2>1. CASE i \in 1..Len(a)
    BY <1>2, <1>3, <1>4, <2>1
  <2>2. CASE i \notin 1..Len(a)
    <3>1. PICK k \in 2..Len(s) : i = k + Len(a) - 1
      BY <1>1, <2>2
    <3>2. j \notin 1..Len(a)
      BY <1>1, <1>4, <2>2
    <3>3. PICK l \in 2..Len(s) : j = l + Len(a) - 1
      BY <1>1, <3>2
    <3>4. k \in 1..Len(s) /\ l \in 1..Len(s) /\ k < l /\ b[i] = s[k] /\ b[j] = s[l]
      BY <1>1, <1>4, <3>1, <3>3
    <3> QED BY <1>4, <3>4 DEF InTurn
  <2> QED BY <2>1, <2>2
<1>5. InTurn(b)
  BY <1>4 DEF InTurn
<1>6. Fills(s[1]) => \A x \in ToSet(b) : ~Clears(x)
  BY <1>1, <1>3, Items
<1> QED BY <1>5, <1>6 DEF b

(* What a step that does s, and leaves a to do, owes the list.                           *)
Tends(t, n, s, a) ==
    /\ \A x \in ToSet(a) :
          /\ x[1] \notin {"create_or_replace", "delete_marks", "update_node"}
          /\ (Clears(x) => Clears(s)) /\ (Fills(x) => Fills(s)) /\ (Lowest(x) = 1 => Lowest(s) = 1)
          /\ \A u \in Tags : (Sows(x, n, u) => Sows(s, n, u)) /\ (Weeds(x, n, u) => Weeds(s, n, u))
    /\ \A u \in Tags :
          /\ Sows(s, n, u) => Sowing(a, n, u) \/ Planted(t, n, u)'
          /\ Weeds(s, n, u) => Weeding(a, n, u) \/ ~View(t)'[Mark(n, u)]
          /\ Planted(t, n, u) /\ ~Weeds(s, n, u) => Planted(t, n, u)'
          /\ View(t)'[Mark(n, u)] => View(t)[Mark(n, u)] \/ Sows(s, n, u)
          /\ Mark(n, u) \in DOMAIN writes'[t] => Tagging(s) \/ Mark(n, u) \in DOMAIN writes[t]
    /\ engine = "sqlite" =>
          /\ Open(t) \/ s[1] = "delete_marks" => Open(t)'
          /\ s[1] = "update_node" \/ Node(n) \in DOMAIN writes[t] \/ Node(n) \notin DOMAIN writes'[t]
          /\ \A u \in Tags : /\ Names(s, u) => Naming(a, u) \/ View(t)'[Tag(u)]
                             /\ View(t)[Tag(u)] => View(t)'[Tag(u)]
    /\ engine = "postgres" =>
          /\ s[1] = "insert_node" => Node(n) \in DOMAIN writes'[t] /\ db'[Node(n)] = "absent"
          /\ Node(n) \in DOMAIN writes[t] => Node(n) \in DOMAIN writes'[t] /\ db'[Node(n)] = db[Node(n)]

Proceeds(t, s, a) ==
    /\ Running(t) /\ s = First(t) /\ s # Finish /\ s[1] # "create_or_replace"
    /\ a \in Seq(Steps) /\ todo[t] \in Seq(Steps) /\ todo'[t] = a \o Tail(todo[t])
    /\ UNCHANGED engine /\ request'[t] = request[t]

LEMMA ComesNext ==
    ASSUME NEW t, NEW s, NEW a, Proceeds(t, s, a)
    PROVE  /\ todo'[t] \in Seq(Steps) /\ s \in ToSet(todo[t])
           /\ \A x \in ToSet(a) : x \in ToSet(todo'[t])
           /\ \A x \in ToSet(todo[t]) : x = s \/ x \in ToSet(todo'[t])
           /\ \A x \in ToSet(todo'[t]) : x \in ToSet(a) \/ \E j \in 2..Len(todo[t]) : x = todo[t][j]
           /\ \A x \in ToSet(todo'[t]) : x \in ToSet(a) \/ x \in ToSet(todo[t])
<1>1. /\ todo[t] \in Seq(Steps) /\ a \in Seq(Steps) /\ todo[t] # <<>> /\ s = todo[t][1]
      /\ todo'[t] = a \o Tail(todo[t])
  BY DEF Proceeds, Running, First
<1>2. /\ todo'[t] \in Seq(Steps) /\ s \in ToSet(todo[t])
      /\ \A x \in ToSet(a) : x \in ToSet(todo'[t])
      /\ \A x \in ToSet(todo[t]) : x = s \/ x \in ToSet(todo'[t])
      /\ \A x \in ToSet(todo'[t]) : x \in ToSet(a) \/ \E j \in 2..Len(todo[t]) : x = todo[t][j]
  BY <1>1, LaterItems
<1>3. \A j \in 2..Len(todo[t]) : todo[t][j] \in ToSet(todo[t])
  BY <1>1, Items
<1> QED BY <1>2, <1>3

LEMMA KeepsOn ==
    ASSUME NEW t, NEW n, NEW s, NEW a, Proceeds(t, s, a), Tends(t, n, s, a), NEW L, KeepsToList(todo[t], n, L)
    PROVE  /\ KeepsToList(todo'[t], n, L)
           /\ Fills(s) => \A x \in ToSet(todo'[t]) : ~Clears(x)
<1>1. \A x \in ToSet(a) : (Clears(x) => Clears(s)) /\ (Fills(x) => Fills(s))
  BY DEF Tends
<1>2. InTurn(todo'[t]) /\ (Fills(s) => \A x \in ToSet(todo'[t]) : ~Clears(x))
  <2>1. InTurn(todo[t])
    BY DEF KeepsToList
  <2>2. /\ todo[t] \in Seq(Steps) /\ a \in Seq(Steps) /\ todo[t] # <<>> /\ s = todo[t][1]
        /\ todo'[t] = a \o Tail(todo[t])
    BY DEF Proceeds, Running, First
  <2> QED BY <1>1, <2>1, <2>2, TurnContinues
<1>3. ASSUME NEW x \in ToSet(todo'[t])
      PROVE  x[1] # "create_or_replace" /\ \A u \in Tags \ L : ~Sows(x, n, u)
  <2>1. x \in ToSet(todo[t]) => x[1] # "create_or_replace" /\ \A u \in Tags \ L : ~Sows(x, n, u)
    BY DEF KeepsToList
  <2>2. \A u \in Tags \ L : ~Sows(s, n, u)
    BY ComesNext DEF KeepsToList
  <2>3. x \in ToSet(a) => x[1] # "create_or_replace" /\ \A u \in Tags \ L : ~Sows(x, n, u)
    BY <2>2 DEF Tends
  <2> QED BY <1>3, <2>1, <2>3, ComesNext
<1> QED BY <1>2, <1>3 DEF KeepsToList

LEMMA BareOn ==
    ASSUME NEW t, NEW n, NEW s, NEW a, Proceeds(t, s, a), Tends(t, n, s, a), Bare(t, n)
    PROVE  Bare(t, n)'
<1>1. ~Tagging(s)
  BY ComesNext DEF Bare
<1>2. ASSUME NEW x \in ToSet(todo'[t]) PROVE ~Tagging(x)
  <2>1. x \in ToSet(a) => ~Tagging(x)
    BY <1>1 DEF Tends, Tagging
  <2>2. x \in ToSet(todo[t]) => ~Tagging(x)
    BY DEF Bare
  <2> QED BY <1>2, <2>1, <2>2, ComesNext
<1>3. \A u \in Tags : Mark(n, u) \notin DOMAIN writes'[t]
  BY <1>1 DEF Bare, Tends
<1>4. ASSUME engine = "postgres"
      PROVE  \/ \E x \in ToSet(todo'[t]) : x[1] = "insert_node"
             \/ Node(n) \in DOMAIN writes'[t] /\ db'[Node(n)] = "absent"
  <2>1. CASE Node(n) \in DOMAIN writes[t] /\ db[Node(n)] = "absent"
    BY <1>4, <2>1 DEF Tends
  <2>2. ASSUME NEW x \in ToSet(todo[t]), x[1] = "insert_node"
        PROVE  \/ x \in ToSet(todo'[t])
               \/ Node(n) \in DOMAIN writes'[t] /\ db'[Node(n)] = "absent"
    BY <1>4, <2>2, ComesNext DEF Tends
  <2>3. (Node(n) \in DOMAIN writes[t] /\ db[Node(n)] = "absent") \/ \E x \in ToSet(todo[t]) : x[1] = "insert_node"
    BY <1>4 DEF Bare
  <2> QED BY <2>1, <2>2, <2>3
<1>5. request'[t] = request[t] /\ engine' = engine /\ request[t].op \in {"POST", "PUT"} /\ request[t].tags = <<>>
  BY DEF Proceeds, Bare
<1>6. ASSUME engine = "sqlite"
      PROVE  Node(n) \notin DOMAIN writes'[t] /\ \A x \in ToSet(todo'[t]) : x[1] # "update_node"
  <2>1. Node(n) \notin DOMAIN writes[t] /\ \A x \in ToSet(todo[t]) : x[1] # "update_node"
    BY <1>6 DEF Bare
  <2>2. Node(n) \notin DOMAIN writes'[t] /\ \A x \in ToSet(a) : x[1] # "update_node"
    BY <1>6, <2>1, ComesNext DEF Tends
  <2> QED BY <2>1, <2>2, ComesNext
<1> QED BY <1>2, <1>3, <1>4, <1>5, <1>6 DEF Bare

LEMMA FillsStay ==
    ASSUME NEW t, NEW s, NEW a, Proceeds(t, s, a), ~Fills(s)
    PROVE  /\ \A n, u : Sowing(todo[t], n, u) => Sowing(todo'[t], n, u)
           /\ \A u : Naming(todo[t], u) => Naming(todo'[t], u)
<1>1. \A x \in ToSet(todo[t]) : Fills(x) => x \in ToSet(todo'[t])
  BY ComesNext
<1> QED BY <1>1, ClearsOrFills DEF Sowing, Naming

LEMMA GatheringOn ==
    ASSUME NEW t, NEW n, NEW s, NEW a, Proceeds(t, s, a), Tends(t, n, s, a),
           NEW L \in SUBSET Tags, Gathering(t, n, L),
           \A j \in 2..Len(todo[t]) : s = <<"delete_marks", n>> => Lowest(todo[t][j]) # 1
    PROVE  (Gathering(t, n, L) \/ Laying(t, n, L))'
<1> DEFINE d == <<"delete_marks", n>>
<1>1. KeepsToList(todo'[t], n, L) /\ (Fills(s) => \A x \in ToSet(todo'[t]) : ~Clears(x))
  BY KeepsOn DEF Gathering
<1>2. d \in ToSet(todo[t]) /\ Clears(d)
  BY DEF Gathering, Clearing, Clears
<1>3. ~Fills(s)
  <2>1. s # d => d \in ToSet(todo'[t])
    BY <1>2, ComesNext
  <2>2. s = d => ~Fills(s)
    BY <1>2, ClearsOrFills
  <2> QED BY <1>1, <1>2, <2>1, <2>2
<1>4. \A u \in L : Sowing(todo'[t], n, u) /\ Naming(todo'[t], u)
  BY <1>3, FillsStay DEF Gathering
<1>5. CASE s # d
  <2>1. Clearing(todo'[t], n)
    BY <1>2, <1>5, ComesNext DEF Clearing
  <2> QED BY <1>1, <1>4, <2>1 DEF Gathering
<1>6. CASE s = d
  <2>1. s[1] = "delete_marks" /\ Lowest(s) # 1
    BY <1>6 DEF Lowest, Wide, Stage
  <2>2. \A x \in ToSet(todo'[t]) : Lowest(x) # 1
    BY <1>6, <2>1, ComesNext DEF Tends
  <2>3. engine' = "sqlite" => Open(t)'
    BY <2>1 DEF Tends, Proceeds
  <2>4. ASSUME NEW u \in Tags \ L
        PROVE  Weeding(todo'[t], n, u) \/ ~View(t)'[Mark(n, u)]
    <3>1. Weeds(s, n, u)
      BY <1>6 DEF Weeds
    <3>2. Weeding(a, n, u) \/ ~View(t)'[Mark(n, u)]
      BY <3>1 DEF Tends
    <3> QED BY <3>2, ComesNext DEF Weeding
  <2> QED BY <1>1, <1>4, <2>2, <2>3, <2>4 DEF Laying
<1> QED BY <1>5, <1>6

LEMMA LayingOn ==
    ASSUME NEW t, NEW n, NEW s, NEW a, Proceeds(t, s, a), Tends(t, n, s, a), NEW L \in SUBSET Tags, Laying(t, n, L),
           Met(t) => Met(t)'
    PROVE  Laying(t, n, L)'
<1>1. KeepsToList(todo'[t], n, L) /\ (Fills(s) => \A x \in ToSet(todo'[t]) : ~Clears(x))
  BY KeepsOn DEF Laying
<1>2. \A x \in ToSet(todo'[t]) : Lowest(x) # 1
  BY ComesNext DEF Laying, Tends
<1>3. engine' = "sqlite" => Open(t)'
  BY DEF Laying, Tends, Proceeds
<1>4. ASSUME NEW u \in L
      PROVE  Sowing(todo'[t], n, u) \/ (Planted(t, n, u)' /\ ~Weeding(todo'[t], n, u))
  <2>1. CASE Sows(s, n, u)
    <3>1. Sowing(a, n, u) \/ Planted(t, n, u)'
      BY <2>1 DEF Tends
    <3>2. \A x \in ToSet(todo'[t]) : ~Weeds(x, n, u)
      BY <1>1, <2>1, ClearsOrFills
    <3> QED BY <3>1, <3>2, ComesNext DEF Sowing, Weeding
  <2>2. CASE ~Sows(s, n, u) /\ Sowing(todo[t], n, u)
    BY <2>2, ComesNext DEF Sowing
  <2>3. CASE Planted(t, n, u) /\ ~Weeding(todo[t], n, u)
    <3>1. ~Weeds(s, n, u)
      BY <2>3, ComesNext DEF Weeding
    <3>2. Planted(t, n, u)' /\ ~Weeding(a, n, u)
      BY <2>3, <3>1 DEF Tends, Weeding
    <3> QED BY <2>3, <3>2, ComesNext DEF Weeding
  <2>4. Sowing(todo[t], n, u) \/ (Planted(t, n, u) /\ ~Weeding(todo[t], n, u))
    BY DEF Laying
  <2> QED BY <2>1, <2>2, <2>3, <2>4
<1>5. ASSUME engine' = "sqlite", NEW u \in L PROVE Naming(todo'[t], u) \/ View(t)'[Tag(u)]
  <2>1. engine = "sqlite" /\ (Naming(todo[t], u) \/ View(t)[Tag(u)])
    BY <1>5 DEF Laying, Proceeds
  <2>2. CASE Names(s, u)
    <3>1. Naming(a, u) \/ View(t)'[Tag(u)]
      BY <2>1, <2>2 DEF Tends
    <3> QED BY <3>1, ComesNext DEF Naming
  <2>3. CASE ~Names(s, u) /\ Naming(todo[t], u)
    BY <2>3, ComesNext DEF Naming
  <2>4. View(t)[Tag(u)] => View(t)'[Tag(u)]
    BY <2>1 DEF Tends
  <2> QED BY <2>1, <2>2, <2>3, <2>4
<1>6. ASSUME NEW u \in Tags \ L
      PROVE  Weeding(todo'[t], n, u) \/ ~View(t)'[Mark(n, u)] \/ Met(t)'
  <2>1. ~Sows(s, n, u)
    BY ComesNext DEF Laying, KeepsToList
  <2>2. CASE Weeds(s, n, u)
    <3>1. Weeding(a, n, u) \/ ~View(t)'[Mark(n, u)]
      BY <2>2 DEF Tends
    <3> QED BY <3>1, ComesNext DEF Weeding
  <2>3. CASE ~Weeds(s, n, u) /\ Weeding(todo[t], n, u)
    BY <2>3, ComesNext DEF Weeding
  <2>4. ~View(t)[Mark(n, u)] => ~View(t)'[Mark(n, u)]
    BY <2>1 DEF Tends
  <2>5. Weeding(todo[t], n, u) \/ ~View(t)[Mark(n, u)] \/ Met(t)
    BY DEF Laying
  <2> QED BY <2>2, <2>3, <2>4, <2>5
<1> QED BY <1>1, <1>2, <1>3, <1>4, <1>5, <1>6 DEF Laying

LEMMA MoreMet ==
    ASSUME IInv, UNCHANGED engine, NEW t \in Threads, request'[t] = request[t],
           \A x \in Threads : /\ overtook[x] \subseteq overtook'[x]
                              /\ request[x] = NoRequest \/ request'[x] = request[x]
    PROVE  (NodeWent(t) => NodeWent(t)') /\ (Met(t) => Met(t)')
<1>1. \A x \in Threads : overtook[x] \subseteq Threads
  BY DEF IInv, Typed, ThreadOK
<1>2. ASSUME NEW x \in Threads, request'[x] = request[x], NodeWent(x) PROVE NodeWent(x)'
  <2>1. PICK d \in overtook[x] : request[d] = [op |-> "DELETE", node |-> request[x].node]
    BY <1>2 DEF NodeWent
  <2>2. request[d] # NoRequest
    BY <2>1 DEF NoRequest
  <2>3. d \in overtook'[x] /\ request'[d] = request[d]
    BY <1>1, <2>2
  <2> QED BY <1>2, <2>1, <2>3 DEF NodeWent
<1>3. ASSUME Met(t) PROVE Met(t)'
  <2>1. PICK o \in overtook[t] : engine = "postgres" /\ ListsMeet(t, o)
    BY <1>3 DEF Met
  <2>2. o \in Threads /\ o \in overtook'[t]
    BY <1>1
  <2>3. Lists(request[o])
    BY <2>1 DEF ListsMeet
  <2>4. request[o] # NoRequest
    BY <2>3 DEF Lists, NoRequest
  <2>5. request'[o] = request[o]
    BY <2>2, <2>4
  <2>6. (NodeWent(t) => NodeWent(t)') /\ (NodeWent(o) => NodeWent(o)')
    BY <1>2, <2>2, <2>5
  <2>7. ListsMeet(t, o)'
    BY <2>1, <2>5, <2>6 DEF ListsMeet
  <2> QED BY <2>1, <2>2, <2>7 DEF Met
<1> QED BY <1>2, <1>3

LEMMA ListFacts ==
    ASSUME IInv, NEW t \in Threads, Running(t), Lists(request[t])
    PROVE  /\ request[t] \in Requests /\ Bodies(request[t]) /\ ~Deleting(request[t])
           /\ request[t].node \in NodeIds /\ request[t].tags \in Seq(Tags) /\ ToSet(request[t].tags) \in SUBSET Tags
<1>1. request[t] \in Requests
  BY DEF IInv, Typed, ThreadOK
<1>2. Bodies(request[t]) /\ ~Deleting(request[t])
  BY DEF Lists, Bodies, Deleting
<1>3. request[t].node \in NodeIds
  BY <1>1, <1>2, NodeOfRequest
<1>4. request[t].tags \in Seq(Tags)
  BY <1>1 DEF Lists, Requests, Creations, Changes, Deletions, TagRequests
<1>5. ToSet(request[t].tags) \in SUBSET Tags
  BY <1>4, Items
<1> QED BY <1>1, <1>2, <1>3, <1>4, <1>5

LEMMA TagsGoOn ==
    ASSUME IInv, NEW t \in Threads, NEW s, NEW a, Proceeds(t, s, a), TagsInHand(t), Met(t) => Met(t)',
           Lists(request[t]) => Tends(t, request[t].node, s, a)
    PROVE  TagsInHand(t)'
<1> SUFFICES ASSUME Running(t)', Lists(request[t])
             PROVE  TagsInHand(t)'
  BY DEF Proceeds, TagsInHand
<1> PICK n, L : n = request[t].node /\ L = ToSet(request[t].tags)
  OBVIOUS
<1>1. Running(t) /\ request'[t] = request[t]
  BY DEF Proceeds
<1>2. L \in SUBSET Tags /\ ~Deleting(request[t])
  BY <1>1, ListFacts
<1>3. Undecided(t, n) \/ Bare(t, n) \/ Gathering(t, n, L) \/ Laying(t, n, L)
  BY <1>1 DEF TagsInHand
<1>4. Tends(t, n, s, a)
  OBVIOUS
<1>5. ASSUME NEW j \in 2..Len(todo[t]), s = <<"delete_marks", n>> PROVE Lowest(todo[t][j]) # 1
  <2>1. Rest(todo[t], Scope(request[t]), Deleting(request[t]))
    BY DEF IInv, Typed, ThreadOK
  <2>2. Len(todo[t]) \in Nat /\ 1 \in 1..Len(todo[t]) /\ j \in 1..Len(todo[t]) /\ 1 < j
    BY <2>1 DEF Rest
  <2>3. Highest(todo[t][1]) <= Lowest(todo[t][j])
    BY <1>2, <2>1, <2>2 DEF Rest
  <2>4. todo[t][1] = s
    BY DEF Proceeds, First
  <2>5. Highest(s) = 3
    BY <1>5 DEF Highest, Wide, Stage
  <2> QED BY <2>3, <2>4, <2>5
<1>6. ~Undecided(t, n)
  BY DEF Undecided, Proceeds, First
<1>7. Bare(t, n) => Bare(t, n)'
  BY <1>4, BareOn
<1>8. Gathering(t, n, L) => (Gathering(t, n, L) \/ Laying(t, n, L))'
  BY <1>2, <1>4, <1>5, GatheringOn
<1>9. Laying(t, n, L) => Laying(t, n, L)'
  BY <1>2, <1>4, LayingOn
<1>10. (Bare(t, n) \/ Gathering(t, n, L) \/ Laying(t, n, L))'
  BY <1>3, <1>6, <1>7, <1>8, <1>9
<1>11. n = request'[t].node /\ L = ToSet(request'[t].tags)
  BY <1>1
<1> QED BY <1>10, <1>11 DEF TagsInHand

(* What such a step owes the other threads.                                              *)
Cares(t, s, a) == engine = "postgres" /\ Bodies(request[t]) =>
    /\ LocksNode(request[t]) /\ Lowest(s) = 1 =>
          \/ NodeWent(t) \/ Node(request[t].node) \in DOMAIN writes'[t]
          \/ \E x \in ToSet(a) : Lowest(x) = 1
    /\ \A x \in ToSet(a) : x[1] # "update_node"
    /\ db' = db
Owns(t, a) == Deleting(request[t]) =>
    /\ \A x \in ToSet(a) : x[1] \notin {"insert_marks", "insert_mark", "delete_node"}
    /\ \A row \in DOMAIN writes'[t] :
          \/ row \in DOMAIN writes[t] /\ writes'[t][row] = writes[t][row]
          \/ /\ row[1] = "mark" => writes'[t][row] = FALSE
             /\ row[1] = "node" /\ writes'[t][row] = "absent" =>
                   request[t] = [op |-> "DELETE", node |-> row[2]]

LEMMA HoldsOn ==
    ASSUME IInv, IInv', NEW t \in Threads, NEW s, NEW a, Proceeds(t, s, a), HoldsNode(t), FindsNode(t),
           Cares(t, s, a), NodeWent(t) => NodeWent(t)', DOMAIN writes[t] \subseteq DOMAIN writes'[t]
    PROVE  HoldsNode(t)' /\ FindsNode(t)'
<1>1. /\ Running(t) /\ request'[t] = request[t] /\ engine' = engine
      /\ \A x \in ToSet(todo[t]) : x = s \/ x \in ToSet(todo'[t])
      /\ \A x \in ToSet(todo'[t]) : x \in ToSet(a) \/ x \in ToSet(todo[t])
      /\ \A x \in ToSet(a) : x \in ToSet(todo'[t])
  BY ComesNext DEF Proceeds
<1>2. HoldsNode(t)'
  <2> SUFFICES ASSUME engine = "postgres", Lists(request[t]), LocksNode(request[t])
               PROVE  \/ NodeWent(t)' \/ Node(request[t].node) \in DOMAIN writes'[t]
                      \/ \E x \in ToSet(todo'[t]) : Lowest(x) = 1
    BY <1>1 DEF HoldsNode
  <2>1. \/ NodeWent(t) \/ Node(request[t].node) \in DOMAIN writes[t]
        \/ \E x \in ToSet(todo[t]) : Lowest(x) = 1
    BY <1>1 DEF HoldsNode
  <2>2. Lowest(s) = 1 => \/ NodeWent(t) \/ Node(request[t].node) \in DOMAIN writes'[t]
                         \/ \E x \in ToSet(a) : Lowest(x) = 1
    BY DEF Cares, Lists, Bodies
  <2> QED BY <1>1, <2>1, <2>2
<1>3. FindsNode(t)'
  <2> SUFFICES ASSUME engine = "postgres", request[t].op \in {"POST", "PUT"}, ~NodeWent(t),
                      NEW x \in ToSet(todo'[t]), x[1] = "update_node"
               PROVE  View(t)'[Node(request[t].node)] # "absent"
    BY <1>1 DEF FindsNode
  <2> DEFINE row == Node(request[t].node)
  <2>1. Bodies(request[t]) /\ ~Deleting(request[t])
    BY DEF Bodies, Deleting
  <2>2. x \in ToSet(todo[t]) /\ db' = db
    BY <1>1, <2>1 DEF Cares
  <2>3. View(t)[row] # "absent"
    BY <2>2 DEF FindsNode
  <2>4. row \in Rows /\ row[1] = "node" /\ Gone(row) = "absent"
    <3>1. request[t] \in Requests
      BY <1>1 DEF IInv, Typed, ThreadOK
    <3>2. request[t].node \in NodeIds
      BY <2>1, <3>1, NodeOfRequest
    <3> QED BY <3>2, RowFacts DEF Node, Gone
  <2>5. /\ View(t)[row] = IF row \in DOMAIN writes[t] THEN writes[t][row] ELSE db[row]
        /\ View(t)'[row] = IF row \in DOMAIN writes'[t] THEN writes'[t][row] ELSE db'[row]
    <3>1. ViewsFit /\ ViewsFit'
      BY Always, PTL
    <3> QED BY <2>4, <3>1 DEF ViewsFit
  <2>6. row \in DOMAIN writes'[t] => writes'[t][row] # "absent"
    <3>1. HoldsInOrder(t)'
      BY DEF IInv
    <3> QED BY <1>1, <2>1, <2>4, <3>1 DEF HoldsInOrder
  <2>7. row \notin DOMAIN writes'[t] => row \notin DOMAIN writes[t]
    OBVIOUS
  <2> HIDE DEF row
  <2>8. View(t)'[row] # "absent"
    BY <2>2, <2>3, <2>5, <2>6, <2>7
  <2> QED BY <2>8 DEF row
<1> QED BY <1>2, <1>3

LEMMA OwnsOn ==
    ASSUME NEW t \in Threads, NEW s, NEW a, Proceeds(t, s, a), DeletesItsOwn(t), Owns(t, a)
    PROVE  DeletesItsOwn(t)'
<1> SUFFICES ASSUME Deleting(request[t]) PROVE DeletesItsOwn(t)'
  BY DEF DeletesItsOwn, Proceeds
<1>1. request'[t] = request[t] /\ \A x \in ToSet(todo'[t]) : x \in ToSet(a) \/ x \in ToSet(todo[t])
  BY ComesNext DEF Proceeds
<1>2. \A x \in ToSet(todo'[t]) : /\ x[1] \notin {"insert_marks", "insert_mark"}
                                 /\ x[1] = "delete_node" => request[t] = [op |-> "DELETE", node |-> x[2]]
  BY <1>1 DEF DeletesItsOwn, Owns
<1>3. ASSUME NEW row \in DOMAIN writes'[t]
      PROVE  /\ row[1] = "mark" => writes'[t][row] = FALSE
             /\ row[1] = "node" /\ writes'[t][row] = "absent" => request[t] = [op |-> "DELETE", node |-> row[2]]
  BY <1>3 DEF DeletesItsOwn, Owns
<1> QED BY <1>1, <1>2, <1>3 DEF DeletesItsOwn

LEMMA GoesOnInHand ==
    ASSUME IInv, IInv', NEW t \in Threads, InHand(t), NEW s, Doing(t, s), s # Finish, s[1] # "create_or_replace",
           NEW a \in Seq(Statements), todo'[t] = a \o Tail(todo[t]), UNCHANGED engine,
           \A x \in Threads : overtook[x] \subseteq overtook'[x] /\ request'[x] = request[x],
           DOMAIN writes[t] \subseteq DOMAIN writes'[t],
           Lists(request[t]) => Tends(t, request[t].node, s, a), Cares(t, s, a), Owns(t, a)
    PROVE  InHand(t)'
<1>1. Proceeds(t, s, a)
  <2>1. a \in Seq(Steps) /\ todo[t] \in Seq(Steps)
    BY StatementsAreMore DEF IInv, Typed, ThreadOK, Rest, Steps
  <2> QED BY <2>1 DEF Proceeds, Doing, First
<1>2. (NodeWent(t) => NodeWent(t)') /\ (Met(t) => Met(t)')
  BY MoreMet
<1>3. TagsInHand(t)'
  BY <1>1, <1>2, TagsGoOn DEF InHand
<1>4. HoldsNode(t)' /\ FindsNode(t)'
  BY <1>1, <1>2, HoldsOn DEF InHand
<1>5. DeletesItsOwn(t)'
  BY <1>1, OwnsOn DEF InHand
<1> QED BY <1>3, <1>4, <1>5 DEF InHand

LEMMA RestsInHand ==
    ASSUME NEW t \in Threads, todo[t] = <<>>, writes[t] = <<>>
    PROVE  InHand(t)
<1>1. ~Running(t) /\ ToSet(todo[t]) = {} /\ DOMAIN writes[t] = {}
  BY DEF Running, ToSet
<1> QED BY <1>1 DEF InHand, TagsInHand, HoldsNode, FindsNode, DeletesItsOwn
RestInHand == \A t \in Threads : todo[t] = <<>> /\ writes[t] = <<>> => InHand(t)
LEMMA AlwaysInHand == RestInHand
BY RestsInHand DEF RestInHand
-----------------------------------------------------------------------------
(* A step of somebody else.                                                              *)

LEMMA ItemsPass ==
    ASSUME NEW s \in Seq(Steps), NEW r, Passes(s, r)
    PROVE  /\ r \in Seq(Steps) /\ (s = <<>> => r = <<>>)
           /\ \A x \in ToSet(r) : x \in ToSet(s) \/ x = <<"pass_by">>
           /\ \A x \in ToSet(s) : x[1] # "remove_row" => x \in ToSet(r)
           /\ InTurn(s) => InTurn(r)
<1>1. /\ r \in Seq(Steps) /\ Len(r) = Len(s) /\ Len(s) \in Nat
      /\ \A i \in 1..Len(s) : r[i] = s[i] \/ (s[i][1] = "remove_row" /\ r[i] = <<"pass_by">>)
  BY DEF Passes, Steps
<1>2. s = <<>> => r = <<>>
  BY <1>1
<1>3. ASSUME NEW x \in ToSet(r) PROVE x \in ToSet(s) \/ x = <<"pass_by">>
  <2>1. PICK i \in 1..Len(r) : x = r[i]
    BY <1>1, <1>3, Items
  <2>2. i \in 1..Len(s) /\ s[i] \in ToSet(s)
    BY <1>1, Items
  <2> QED BY <1>1, <2>1, <2>2
<1>4. ASSUME NEW x \in ToSet(s), x[1] # "remove_row" PROVE x \in ToSet(r)
  <2>1. PICK i \in 1..Len(s) : x = s[i]
    BY <1>4, Items
  <2>2. r[i] = x /\ i \in 1..Len(r)
    BY <1>1, <1>4, <2>1
  <2> QED BY <1>1, <2>2, Items
<1>5. ~Fills(<<"pass_by">>) /\ ~Clears(<<"pass_by">>)
  BY DEF Fills, Clears
<1>6. InTurn(s) => InTurn(r)
  BY <1>1, <1>5 DEF InTurn
<1> QED BY <1>1, <1>2, <1>3, <1>4, <1>6

LEMMA PassedBy ==
    LET x == <<"pass_by">>
    IN  /\ ~Tagging(x) /\ Lowest(x) = 9 /\ x[1] = "pass_by"
        /\ \A n, u : ~Sows(x, n, u) /\ ~Weeds(x, n, u) /\ ~Names(x, u)
BY DEF Tagging, Clears, Fills, Lowest, Wide, Stage, Sows, Weeds, Names

Waits(t) ==
    /\ Passes(todo[t], todo'[t]) /\ todo[t] \in Seq(Steps) /\ UNCHANGED engine
    /\ request'[t] = request[t] /\ writes'[t] = writes[t]
    /\ NodeWent(t) => NodeWent(t)'
    /\ Met(t) => Met(t)'

(* What somebody else leaves of the list of t, and of its node.                           *)
SparesMarks(t, n) == \A u \in Tags : Met(t)' \/
    /\ ~View(t)[Mark(n, u)] => ~View(t)'[Mark(n, u)]
    /\ <<"remove_row", Mark(n, u)>> \in ToSet(todo[t]) =>
          <<"remove_row", Mark(n, u)>> \in ToSet(todo'[t]) \/ ~View(t)'[Mark(n, u)]
SparesTags(t) == engine = "sqlite" => \A u \in Tags : View(t)[Tag(u)] => View(t)'[Tag(u)]
SparesNode(t, n) == engine = "postgres" =>
    /\ Node(n) \in DOMAIN writes[t] => db'[Node(n)] = db[Node(n)]
    /\ View(t)[Node(n)] # "absent" => View(t)'[Node(n)] # "absent" \/ NodeWent(t)'

LEMMA StayInStore ==
    ASSUME NEW t, NEW n, Waits(t)
    PROVE  /\ \A u : Sowing(todo[t], n, u) => Sowing(todo'[t], n, u)
           /\ \A u : Naming(todo[t], u) => Naming(todo'[t], u)
           /\ \A u : Weeding(todo'[t], n, u) => Weeding(todo[t], n, u)
           /\ Clearing(todo[t], n) => Clearing(todo'[t], n)
           /\ \A L : KeepsToList(todo[t], n, L) => KeepsToList(todo'[t], n, L)
<1>1. /\ \A x \in ToSet(todo'[t]) : x \in ToSet(todo[t]) \/ x = <<"pass_by">>
      /\ \A x \in ToSet(todo[t]) : x[1] # "remove_row" => x \in ToSet(todo'[t])
      /\ InTurn(todo[t]) => InTurn(todo'[t])
  BY ItemsPass DEF Waits
<1>2. \A u : Sowing(todo[t], n, u) => Sowing(todo'[t], n, u)
  BY <1>1 DEF Sowing, Sows
<1>3. \A u : Naming(todo[t], u) => Naming(todo'[t], u)
  BY <1>1 DEF Naming, Names
<1>4. \A u : Weeding(todo'[t], n, u) => Weeding(todo[t], n, u)
  BY <1>1, PassedBy DEF Weeding
<1>5. Clearing(todo[t], n) => Clearing(todo'[t], n)
  BY <1>1 DEF Clearing
<1>6. \A L : KeepsToList(todo[t], n, L) => KeepsToList(todo'[t], n, L)
  BY <1>1, PassedBy DEF KeepsToList
<1> QED BY <1>2, <1>3, <1>4, <1>5, <1>6

LEMMA TagsWait ==
    ASSUME NEW t \in Threads, Waits(t), NEW n, NEW L \in SUBSET Tags, SparesNode(t, n),
           Laying(t, n, L) => SparesMarks(t, n) /\ SparesTags(t)
    PROVE  /\ Undecided(t, n) => Undecided(t, n)'
           /\ Bare(t, n) => Bare(t, n)'
           /\ Gathering(t, n, L) => Gathering(t, n, L)'
           /\ Laying(t, n, L) => Laying(t, n, L)'
<1>1. /\ \A x \in ToSet(todo'[t]) : x \in ToSet(todo[t]) \/ x = <<"pass_by">>
      /\ \A x \in ToSet(todo[t]) : x[1] # "remove_row" => x \in ToSet(todo'[t])
  BY ItemsPass DEF Waits
<1>2. engine' = engine /\ request'[t] = request[t] /\ writes'[t] = writes[t] /\ (Met(t) => Met(t)')
  BY DEF Waits
<1>3. Undecided(t, n) => Undecided(t, n)'
  <2> SUFFICES ASSUME Undecided(t, n) PROVE Undecided(t, n)'
    OBVIOUS
  <2> DEFINE s == todo[t]
             r == todo'[t]
  <2>1. s = << <<"create_or_replace", n>>, Finish >>
    BY DEF Undecided
  <2>2. Len(s) = 2 /\ s[1] = <<"create_or_replace", n>> /\ s[2] = Finish
    BY <2>1
  <2>3. s[1][1] # "remove_row" /\ s[2][1] # "remove_row"
    BY <2>2 DEF Finish
  <2>4. r \in Seq(Statements \cup {Finish}) /\ Len(r) = Len(s)
        /\ \A i \in 1..Len(s) : r[i] = s[i] \/ s[i][1] = "remove_row"
    BY DEF Waits, Passes
  <2>5. r[1] = s[1] /\ r[2] = s[2] /\ Len(r) = 2
    BY <2>2, <2>3, <2>4
  <2> HIDE DEF r, s
  <2>6. r = << <<"create_or_replace", n>>, Finish >>
    BY <2>2, <2>4, <2>5
  <2> QED BY <2>6 DEF r, Undecided
<1>4. Bare(t, n) => Bare(t, n)'
  <2> SUFFICES ASSUME Bare(t, n) PROVE Bare(t, n)'
    OBVIOUS
  <2>1. \A x \in ToSet(todo'[t]) : ~Tagging(x)
    BY <1>1, PassedBy DEF Bare
  <2>2. ASSUME engine' = "postgres"
        PROVE  \/ \E x \in ToSet(todo'[t]) : x[1] = "insert_node"
               \/ Node(n) \in DOMAIN writes'[t] /\ db'[Node(n)] = "absent"
    BY <1>1, <1>2, <2>2 DEF Bare, SparesNode
  <2>3. ASSUME engine' = "sqlite"
        PROVE  Node(n) \notin DOMAIN writes'[t] /\ \A x \in ToSet(todo'[t]) : x[1] # "update_node"
    BY <1>1, <1>2, <2>3, PassedBy DEF Bare
  <2> QED BY <1>2, <2>1, <2>2, <2>3 DEF Bare
<1>5. Gathering(t, n, L) => Gathering(t, n, L)'
  BY StayInStore DEF Gathering
<1>6. Laying(t, n, L) => Laying(t, n, L)'
  <2> SUFFICES ASSUME Laying(t, n, L) PROVE Laying(t, n, L)'
    OBVIOUS
  <2>1. KeepsToList(todo'[t], n, L)
    BY StayInStore DEF Laying
  <2>2. \A x \in ToSet(todo'[t]) : Lowest(x) # 1
    BY <1>1, PassedBy DEF Laying
  <2>3. engine' = "sqlite" => Open(t)'
    BY <1>2 DEF Laying, Open
  <2>4. \A u \in L : Sowing(todo'[t], n, u) \/ (Planted(t, n, u)' /\ ~Weeding(todo'[t], n, u))
    BY <1>2, StayInStore DEF Laying, Planted
  <2>5. engine' = "sqlite" => \A u \in L : Naming(todo'[t], u) \/ View(t)'[Tag(u)]
    BY <1>2, StayInStore DEF Laying, SparesTags
  <2>6. ASSUME NEW u \in Tags \ L
        PROVE  Weeding(todo'[t], n, u) \/ ~View(t)'[Mark(n, u)] \/ Met(t)'
    <3>1. ASSUME NEW x \in ToSet(todo[t]), Weeds(x, n, u)
          PROVE  Weeding(todo'[t], n, u) \/ ~View(t)'[Mark(n, u)] \/ Met(t)'
      <4>1. CASE x = <<"delete_marks", n>>
        BY <1>1, <3>1, <4>1 DEF Weeding
      <4>2. CASE x = <<"remove_row", Mark(n, u)>>
        BY <3>1, <4>2 DEF Weeding, SparesMarks
      <4> QED BY <3>1, <4>1, <4>2 DEF Weeds
    <3>2. Weeding(todo[t], n, u) \/ ~View(t)[Mark(n, u)] \/ Met(t)
      BY DEF Laying
    <3>3. ~View(t)[Mark(n, u)] => ~View(t)'[Mark(n, u)] \/ Met(t)'
      BY DEF SparesMarks
    <3> QED BY <1>2, <3>1, <3>2, <3>3 DEF Weeding
  <2> QED BY <2>1, <2>2, <2>3, <2>4, <2>5, <2>6 DEF Laying
<1> QED BY <1>3, <1>4, <1>5, <1>6

LEMMA OthersInHand ==
    ASSUME IInv, NEW t \in Threads, InHand(t), Waits(t),
           Running(t) /\ Bodies(request[t]) => SparesNode(t, request[t].node),
           Running(t) /\ Lists(request[t]) /\ Laying(t, request[t].node, ToSet(request[t].tags)) =>
               SparesMarks(t, request[t].node) /\ SparesTags(t)
    PROVE  InHand(t)'
<1>1. /\ \A x \in ToSet(todo'[t]) : x \in ToSet(todo[t]) \/ x = <<"pass_by">>
      /\ \A x \in ToSet(todo[t]) : x[1] # "remove_row" => x \in ToSet(todo'[t])
      /\ todo[t] = <<>> => todo'[t] = <<>>
  BY ItemsPass DEF Waits
<1>2. /\ engine' = engine /\ request'[t] = request[t] /\ writes'[t] = writes[t]
      /\ (Met(t) => Met(t)') /\ (NodeWent(t) => NodeWent(t)')
  BY DEF Waits
<1>3. Running(t)' => Running(t)
  BY <1>1 DEF Running
<1>4. TagsInHand(t)'
  <2> SUFFICES ASSUME Running(t), Lists(request[t]) PROVE TagsInHand(t)'
    BY <1>2, <1>3 DEF TagsInHand
  <2> PICK n, L : n = request[t].node /\ L = ToSet(request[t].tags)
    OBVIOUS
  <2>1. L \in SUBSET Tags /\ Bodies(request[t])
    BY ListFacts
  <2>2. Undecided(t, n) \/ Bare(t, n) \/ Gathering(t, n, L) \/ Laying(t, n, L)
    BY DEF InHand, TagsInHand
  <2>3. SparesNode(t, n) /\ (Laying(t, n, L) => SparesMarks(t, n) /\ SparesTags(t))
    BY <2>1
  <2>4. (Undecided(t, n) \/ Bare(t, n) \/ Gathering(t, n, L) \/ Laying(t, n, L))'
    BY <2>1, <2>2, <2>3, TagsWait
  <2>5. n = request'[t].node /\ L = ToSet(request'[t].tags)
    BY <1>2
  <2> QED BY <2>4, <2>5 DEF TagsInHand
<1>5. HoldsNode(t)'
  <2>1. \A x \in ToSet(todo[t]) : Lowest(x) = 1 => x \in ToSet(todo'[t])
    <3>1. ASSUME NEW x \in ToSet(todo[t]), Lowest(x) = 1 PROVE x[1] # "remove_row"
      <4>1. todo[t] \in Seq(Steps)
        BY DEF Waits
      <4>2. x \in Statements \cup {Finish}
        BY <3>1, <4>1, Items DEF Steps
      <4>3. x[1] = "remove_row" => Lowest(x) # 1
        BY <4>2, Contents DEF Lowest, Wide, Stage, Rank, Finish
      <4> QED BY <3>1, <4>3
    <3> QED BY <1>1, <3>1
  <2> QED BY <1>2, <1>3, <2>1 DEF InHand, HoldsNode
<1>6. FindsNode(t)'
  <2> SUFFICES ASSUME engine = "postgres", request[t].op \in {"POST", "PUT"}, ~NodeWent(t)',
                      NEW x \in ToSet(todo'[t]), x[1] = "update_node"
               PROVE  View(t)'[Node(request[t].node)] # "absent"
    BY <1>2 DEF FindsNode
  <2>1. x \in ToSet(todo[t]) /\ Bodies(request[t])
    BY <1>1, PassedBy DEF Bodies
  <2>2. Running(t)
    BY <2>1 DEF Running, ToSet
  <2>3. View(t)[Node(request[t].node)] # "absent"
    BY <1>2, <2>1 DEF InHand, FindsNode
  <2> QED BY <2>1, <2>2, <2>3 DEF SparesNode
<1>7. DeletesItsOwn(t)'
  BY <1>1, <1>2, PassedBy DEF InHand, DeletesItsOwn
<1> QED BY <1>4, <1>5, <1>6, <1>7 DEF InHand
-----------------------------------------------------------------------------
(* Reading, giving up, and writing.                                                      *)

LEMMA OvertakersAreThreads == IInv => \A t \in Threads : overtook[t] \subseteq Threads /\ todo[t] \in Seq(Steps)
BY DEF IInv, Typed, ThreadOK, Rest, Steps

LEMMA StillInHand ==
    ASSUME IInv, IInv', NEW t \in Threads, InHand(t), UNCHANGED <<engine, db, request, overtook>>,
           writes'[t] = writes[t], todo'[t] = todo[t]
    PROVE  InHand(t)'
<1>1. View(t)' = View(t)
  BY DEF View, Over
<1>2. (NodeWent(t) => NodeWent(t)') /\ (Met(t) => Met(t)')
  BY MoreMet
<1>3. Waits(t)
  <2>1. Passes(todo[t], todo[t])
    BY SelfPasses
  <2> QED BY <1>2, <2>1, OvertakersAreThreads DEF Waits
<1>4. \A n : SparesNode(t, n) /\ SparesMarks(t, n) /\ SparesTags(t)
  BY <1>1 DEF SparesNode, SparesMarks, SparesTags
<1> QED BY <1>3, <1>4, OthersInHand

LEMMA LearnInHand ==
    ASSUME IInv, IInv', TagsAreInHand, NEW t \in Threads, NEW s, Doing(t, s), s # Finish,
           s[1] # "create_or_replace", NEW values, NEW a \in Seq(Statements), Learn(t, values, a),
           Lists(request[t]) => Tends(t, request[t].node, s, a), Cares(t, s, a), Owns(t, a)
    PROVE  TagsAreInHand'
<1>1. /\ UNCHANGED <<engine, db, request, writes, overtook>> /\ todo'[t] = a \o Tail(todo[t])
      /\ \A o \in Threads : o # t => todo'[o] = todo[o]
  BY DEF Learn, Continue, IInv, Typed, Domains
<1>2. ASSUME NEW o \in Threads, o # t PROVE InHand(o)'
  BY <1>1, <1>2, StillInHand DEF TagsAreInHand
<1>3. InHand(t)'
  BY <1>1, GoesOnInHand DEF TagsAreInHand
<1> QED BY <1>2, <1>3 DEF TagsAreInHand

LEMMA EndInHand ==
    ASSUME IInv, IInv', TagsAreInHand, NEW t \in Threads, NEW status, End(t, status)
    PROVE  TagsAreInHand'
<1>1. /\ UNCHANGED <<engine, db, request, overtook>> /\ todo'[t] = <<>> /\ writes'[t] = <<>>
      /\ \A o \in Threads : o # t => todo'[o] = todo[o] /\ writes'[o] = writes[o]
  BY DEF End, IInv, Typed, Domains
<1>2. ASSUME NEW o \in Threads, o # t PROVE InHand(o)'
  BY <1>1, <1>2, StillInHand DEF TagsAreInHand
<1>3. InHand(t)'
  <2>1. RestInHand'
    BY AlwaysInHand, PTL
  <2> QED BY <1>1, <2>1 DEF RestInHand
<1> QED BY <1>2, <1>3 DEF TagsAreInHand

LEMMA LateItems ==
    ASSUME NEW x, Lowest(x) >= 4
    PROVE  /\ ~Tagging(x) /\ Lowest(x) # 1
           /\ x[1] \notin {"create_or_replace", "delete_marks", "update_node", "insert_marks", "insert_mark",
                           "delete_node"}
<1>1. x[1] = "remove_row" /\ x[2][1] = "mark" => Stage(x) = 3
  BY DEF Stage, Rank
<1>2. x[1] \in {"delete_marks", "insert_marks", "insert_mark", "ensure_tag", "insert_tag"} => Stage(x) = 3
  BY DEF Stage
<1>3. x[1] = "update_node" => Stage(x) = 1
  BY DEF Stage
<1>4. x[1] \in {"create_or_replace", "delete_node"} => Lowest(x) = 1
  BY DEF Lowest, Wide
<1>5. Stage(x) \in {1, 3} => Lowest(x) \in {1, 3}
  BY DEF Lowest
<1>6. Lowest(x) \notin {1, 3}
  OBVIOUS
<1>7. x[1] \notin {"create_or_replace", "delete_marks", "update_node", "insert_marks", "insert_mark", "delete_node",
                    "ensure_tag", "insert_tag"}
  BY <1>2, <1>3, <1>4, <1>5, <1>6
<1> QED BY <1>1, <1>5, <1>6, <1>7 DEF Tagging, Clears, Fills

LEMMA LooksInHand ==
    ASSUME IInv, IInv', TagsAreInHand, NEW t \in Threads, NEW s, Doing(t, s), s # Finish, ~Tagging(s),
           ~Deleting(request[t]) => Lowest(s) # 1,
           NEW values, NEW a \in Seq(Statements), Learn(t, values, a),
           \A x \in ToSet(a) :
              IF Deleting(request[t]) THEN x[1] \notin {"insert_marks", "insert_mark", "delete_node"}
              ELSE Lowest(x) >= 4
    PROVE  TagsAreInHand'
<1>1. UNCHANGED <<engine, db, request, writes, overtook>>
  BY DEF Learn
<1>2. Bodies(request[t]) => ~Deleting(request[t])
  BY DEF Bodies, Deleting
<1>3. Lists(request[t]) => ~Deleting(request[t])
  BY DEF Lists, Deleting
<1>4. Cares(t, s, a)
  BY <1>1, <1>2, LateItems DEF Cares
<1>5. Owns(t, a)
  BY <1>1 DEF Owns
<1>6. ASSUME Lists(request[t]), NEW n PROVE Tends(t, n, s, a)
  <2>1. \A x \in ToSet(a) : /\ ~Tagging(x) /\ Lowest(x) # 1
                             /\ x[1] \notin {"create_or_replace", "delete_marks", "update_node"}
    BY <1>3, <1>6, LateItems
  <2>2. View(t)' = View(t) /\ Open(t)' = Open(t)
    BY <1>1 DEF View, Over, Open
  <2>3. \A u : ~Sows(s, n, u) /\ ~Weeds(s, n, u) /\ ~Names(s, u)
    BY ClearsOrFills DEF Tagging
  <2>4. s[1] \notin {"delete_marks", "insert_node"}
    BY <1>3, <1>6 DEF Tagging, Clears, Lowest, Wide, Stage
  <2>5. ASSUME NEW x \in ToSet(a)
        PROVE  /\ x[1] \notin {"create_or_replace", "delete_marks", "update_node"}
               /\ (Clears(x) => Clears(s)) /\ (Fills(x) => Fills(s)) /\ (Lowest(x) = 1 => Lowest(s) = 1)
               /\ \A u \in Tags : (Sows(x, n, u) => Sows(s, n, u)) /\ (Weeds(x, n, u) => Weeds(s, n, u))
    BY <2>1, ClearsOrFills DEF Tagging
  <2> QED BY <1>1, <2>2, <2>3, <2>4, <2>5 DEF Tends, Planted
<1>7. Lists(request[t]) => Tends(t, request[t].node, s, a)
  BY <1>6
<1>8. s[1] # "create_or_replace"
  BY DEF Tagging
<1> QED BY <1>4, <1>5, <1>7, <1>8, LearnInHand

LEMMA PublishedWrites ==
    ASSUME IInv, NEW t \in Threads, NEW rows, NEW references, NEW events, NEW a,
           Publish(t, rows, references, events, a)
    PROVE  /\ DOMAIN writes[t] \subseteq DOMAIN writes'[t] /\ DOMAIN rows \subseteq DOMAIN writes'[t]
           /\ \A row \in DOMAIN writes'[t] : row \in DOMAIN rows \/ row \in DOMAIN writes[t] \/ row = Database
           /\ \A row \in DOMAIN rows : writes'[t][row] = rows[row]
           /\ \A row \in DOMAIN writes[t] \ DOMAIN rows : row # Database => writes'[t][row] = writes[t][row]
           /\ engine = "sqlite" => Open(t)'
<1> DEFINE opened == IF engine = "sqlite" THEN Only(Database, TRUE) ELSE <<>>
<1>1. /\ writes' = [writes EXCEPT ![t] = Over(rows, Over(opened, @))] /\ DOMAIN writes = Threads
  BY DEF Publish, IInv, Typed, Domains
<1>2. DOMAIN opened \subseteq {Database} /\ (engine = "sqlite" => Database \in DOMAIN opened)
  <2>1. DOMAIN Only(Database, TRUE) = {Database}
    BY OnlyFacts
  <2>2. DOMAIN <<>> = {}
    OBVIOUS
  <2> QED BY <2>1, <2>2
<1> HIDE DEF opened
<1>3. writes'[t] = Over(rows, Over(opened, writes[t]))
  BY <1>1
<1>4. /\ DOMAIN writes'[t] = DOMAIN rows \cup DOMAIN opened \cup DOMAIN writes[t]
      /\ \A row \in DOMAIN rows : writes'[t][row] = rows[row]
      /\ \A row \in DOMAIN writes[t] \ DOMAIN rows : row # Database => writes'[t][row] = writes[t][row]
  BY <1>2, <1>3 DEF Over
<1> QED BY <1>2, <1>4 DEF Open

LEMMA PublishInHand ==
    ASSUME IInv, IInv', TagsAreInHand, NEW t \in Threads, NEW s, Doing(t, s), s # Finish,
           s[1] # "create_or_replace", NEW rows, NEW references, NEW events, NEW a \in Seq(Statements),
           Publish(t, rows, references, events, a),
           Lists(request[t]) => Tends(t, request[t].node, s, a), Cares(t, s, a), Owns(t, a)
    PROVE  TagsAreInHand'
<1>1. /\ UNCHANGED <<engine, db, request, overtook>> /\ todo'[t] = a \o Tail(todo[t])
      /\ \A o \in Threads : o # t => todo'[o] = todo[o] /\ writes'[o] = writes[o]
  BY DEF Publish, Continue, IInv, Typed, Domains
<1>2. ASSUME NEW o \in Threads, o # t PROVE InHand(o)'
  BY <1>1, <1>2, StillInHand DEF TagsAreInHand
<1>3. InHand(t)'
  BY <1>1, PublishedWrites, GoesOnInHand DEF TagsAreInHand
<1> QED BY <1>2, <1>3 DEF TagsAreInHand

LEMMA PlainWriteInHand ==
    ASSUME IInv, IInv', TagsAreInHand, NEW t \in Threads, NEW s, Doing(t, s), s # Finish, ~Tagging(s),
           NEW rows, NEW references, NEW events, Publish(t, rows, references, events, <<>>),
           DOMAIN rows \subseteq Rows,
           \A row \in DOMAIN rows : /\ row[1] # "mark"
                                    /\ row[1] = "tag" => rows[row] = TRUE
                                    /\ row[1] = "node" => rows[row] # "absent",
           engine = "postgres" /\ Bodies(request[t]) /\ LocksNode(request[t]) /\ Lowest(s) = 1 =>
              NodeWent(t) \/ Node(request[t].node) \in DOMAIN rows,
           engine = "sqlite" /\ Lists(request[t]) =>
              s[1] = "update_node" \/ \A row \in DOMAIN rows : row[1] # "node",
           engine = "postgres" /\ Lists(request[t]) /\ s[1] = "insert_node" =>
              Node(request[t].node) \in DOMAIN rows /\ db[Node(request[t].node)] = "absent"
    PROVE  TagsAreInHand'
<1>1. UNCHANGED <<engine, db, request>>
  BY DEF Publish
<1>2. /\ DOMAIN writes[t] \subseteq DOMAIN writes'[t] /\ DOMAIN rows \subseteq DOMAIN writes'[t]
      /\ \A row \in DOMAIN writes'[t] : row \in DOMAIN rows \/ row \in DOMAIN writes[t] \/ row = Database
      /\ \A row \in DOMAIN rows : writes'[t][row] = rows[row]
      /\ \A row \in DOMAIN writes[t] \ DOMAIN rows : row # Database => writes'[t][row] = writes[t][row]
      /\ engine = "sqlite" => Open(t)'
  BY PublishedWrites
<1>3. /\ \A row \in DOMAIN rows : View(t)'[row] = rows[row]
      /\ \A row \in Rows \ DOMAIN rows : row # Database => View(t)'[row] = View(t)[row]
  BY PublishedRows
<1>4. Database[1] = "database" /\ ToSet(<<>>) = {} /\ <<>> \in Seq(Statements)
  BY DEF Database, ToSet
<1>5. Cares(t, s, <<>>)
  BY <1>1, <1>2, <1>4 DEF Cares
<1>6. Owns(t, <<>>)
  <2>1. ASSUME NEW row \in DOMAIN writes'[t]
        PROVE  \/ row \in DOMAIN writes[t] /\ writes'[t][row] = writes[t][row]
               \/ row[1] # "mark" /\ (row[1] = "node" => writes'[t][row] # "absent")
    BY <1>2, <1>4, <2>1
  <2> QED BY <1>4, <2>1 DEF Owns
<1>7. ASSUME Lists(request[t]), NEW n, n = request[t].node PROVE Tends(t, n, s, <<>>)
  <2>1. \A u : ~Sows(s, n, u) /\ ~Weeds(s, n, u) /\ ~Names(s, u)
    BY ClearsOrFills DEF Tagging
  <2>2. s[1] # "delete_marks"
    BY DEF Tagging, Clears
  <2>3. n \in NodeIds
    <3>1. Running(t)
      BY DEF Doing
    <3> QED BY <1>7, <3>1, ListFacts
  <2>4. ASSUME NEW u \in Tags
        PROVE  /\ Planted(t, n, u) => Planted(t, n, u)'
               /\ View(t)'[Mark(n, u)] => View(t)[Mark(n, u)]
               /\ Mark(n, u) \in DOMAIN writes'[t] => Mark(n, u) \in DOMAIN writes[t]
               /\ View(t)[Tag(u)] => View(t)'[Tag(u)]
    <3>1. /\ Mark(n, u) \in Rows /\ Mark(n, u)[1] = "mark" /\ Mark(n, u) # Database
          /\ Tag(u) \in Rows /\ Tag(u)[1] = "tag" /\ Tag(u) # Database
      BY <2>3, RowFacts DEF Mark, Tag, Database
    <3>2. Mark(n, u) \notin DOMAIN rows
      BY <3>1
    <3>3. Tag(u) \in DOMAIN rows => View(t)'[Tag(u)] = TRUE
      BY <1>3, <3>1
    <3> QED BY <1>2, <1>3, <3>1, <3>2, <3>3 DEF Planted
  <2>5. Node(n) # Database /\ Node(n)[1] = "node"
    BY DEF Node, Database
  <2>6. engine = "sqlite" =>
           s[1] = "update_node" \/ Node(n) \in DOMAIN writes[t] \/ Node(n) \notin DOMAIN writes'[t]
    BY <1>2, <1>7, <2>5
  <2> QED BY <1>1, <1>2, <1>4, <1>7, <2>1, <2>2, <2>4, <2>6 DEF Tends
<1>8. Lists(request[t]) => Tends(t, request[t].node, s, <<>>)
  BY <1>7
<1>9. s[1] # "create_or_replace"
  BY DEF Tagging
<1> QED BY <1>4, <1>5, <1>6, <1>8, <1>9, PublishInHand

LEMMA ChecksInHand ==
    ASSUME IInv, IInv', TagsAreInHand, NEW t \in Threads,
           \/ FetchNode(t) \/ EnsureChildless(t) \/ EnsureContainer(t) \/ EnsureAcyclic(t)
           \/ EnsureNewTag(t) \/ FetchTag(t)
    PROVE  TagsAreInHand'
<1>1. \E s : /\ Doing(t, s)
             /\ s[1] \in {"fetch_node", "ensure_childless", "ensure_container", "ensure_acyclic", "ensure_new_tag",
                          "fetch_tag", "assert_tag"}
             /\ Read(t, <<>>) \/ \E status : End(t, status)
  BY DEF FetchNode, EnsureChildless, EnsureContainer, EnsureAcyclic, EnsureNewTag, FetchTag, Check
<1>2. PICK s : /\ Doing(t, s)
               /\ s[1] \in {"fetch_node", "ensure_childless", "ensure_container", "ensure_acyclic", "ensure_new_tag",
                            "fetch_tag", "assert_tag"}
               /\ Read(t, <<>>) \/ \E status : End(t, status)
  BY <1>1
<1>3. CASE \E status : End(t, status)
  BY <1>3, EndInHand
<1>4. CASE Read(t, <<>>)
  <2>1. s # Finish /\ ~Tagging(s) /\ Lowest(s) # 1
    BY <1>2 DEF Finish, Tagging, Clears, Fills, Lowest, Wide, Stage
  <2>2. <<>> \in Seq(Statements) /\ ToSet(<<>>) = {}
    BY DEF ToSet
  <2>3. Learn(t, seen[t], <<>>)
    BY <1>4 DEF Read
  <2> QED BY <1>2, <2>1, <2>2, <2>3, LooksInHand
<1> QED BY <1>2, <1>3, <1>4

LEMMA GlancesInHand ==
    ASSUME IInv, IInv', TagsAreInHand, NEW t \in Threads,
           FetchParent(t) \/ FetchChildren(t) \/ FetchBearers(t) \/ PassBy(t)
    PROVE  TagsAreInHand'
<1>1. PICK s, values : /\ Doing(t, s) /\ s[1] \in {"fetch_parent", "fetch_children", "fetch_bearers", "pass_by"}
                       /\ Learn(t, values, <<>>)
  <2>1. FetchParent(t) => \E s, values : Doing(t, s) /\ s[1] = "fetch_parent" /\ Learn(t, values, <<>>)
    BY DEF FetchParent
  <2>2. FetchChildren(t) => \E s, values : Doing(t, s) /\ s[1] = "fetch_children" /\ Learn(t, values, <<>>)
    BY DEF FetchChildren
  <2>3. FetchBearers(t) => \E s, values : Doing(t, s) /\ s[1] = "fetch_bearers" /\ Learn(t, values, <<>>)
    BY DEF FetchBearers
  <2>4. PassBy(t) => \E s, values : Doing(t, s) /\ s[1] = "pass_by" /\ Learn(t, values, <<>>)
    <3>1. <<"pass_by">>[1] = "pass_by"
      OBVIOUS
    <3> QED BY <3>1 DEF PassBy, Read
  <2> QED BY <2>1, <2>2, <2>3, <2>4
<1>2. s # Finish /\ ~Tagging(s) /\ Lowest(s) # 1
  BY <1>1 DEF Finish, Tagging, Clears, Fills, Lowest, Wide, Stage
<1>3. <<>> \in Seq(Statements) /\ ToSet(<<>>) = {}
  BY DEF ToSet
<1> QED BY <1>1, <1>2, <1>3, LooksInHand

LEMMA EventReadsInHand ==
    ASSUME IInv, IInv', TagsAreInHand, NEW t \in Threads,
           \/ AnnounceUpdate(t) \/ AnnounceReplacement(t) \/ AnnounceDeletion(t)
           \/ AnnounceBearers(t) \/ AnnounceParents(t)
    PROVE  TagsAreInHand'
<1>1. PICK s, a : /\ Doing(t, s) /\ s # Finish /\ Lowest(s) = 4
                  /\ Part(a, 4, 4, {}, DeletesSomething(s)) /\ Learn(t, seen[t], a)
  BY EventReads
<1>2. a \in Seq(Statements) /\ \A i \in 1..Len(a) : Lowest(a[i]) >= 4
  BY <1>1, EventsAreHarmless
<1>3. \A x \in ToSet(a) : Lowest(x) >= 4
  BY <1>2, Items
<1>4. ~Tagging(s)
  BY <1>1, LateItems
<1> QED BY <1>1, <1>2, <1>3, <1>4, LateItems, LooksInHand

(* The pieces of a representation.                                                        *)
LEMMA PiecesInHand ==
    ASSUME IInv, IInv', TagsAreInHand, NEW t \in Threads,
           Begins(t) \/ ReadParent(t) \/ ReadChildren(t) \/ ReadChildTags(t) \/ ReadTags(t)
    PROVE  TagsAreInHand'
<1>1. PICK s, a : \E n \in NodeIds, value \in Representations :
                     /\ Doing(t, s) /\ s \in (Pieced \cup {"announce"}) \X NodeIds /\ Reading(a, n)
                     /\ Learn(t, [seen[t] EXCEPT !.resource = value], a)
  BY PieceReads
<1>2. PICK n \in NodeIds : \E values : Reading(a, n) /\ Learn(t, values, a)
  BY <1>1
<1>3. PICK values : Learn(t, values, a)
  BY <1>2
<1>4. a \in Seq(Statements) /\ \A i \in 1..Len(a) : Lowest(a[i]) >= 4
  BY <1>2, PiecePart, EventsAreHarmless
<1>5. \A x \in ToSet(a) : Lowest(x) >= 4
  BY <1>4, Items
<1>6. Lowest(s) = 4 /\ s # Finish
  <2>1. s[1] \in Pieced \cup {"announce"}
    BY <1>1
  <2> QED BY <2>1 DEF Pieced, Lowest, Wide, Stage, Finish
<1>7. ~Tagging(s)
  BY <1>6, LateItems
<1> QED BY <1>1, <1>3, <1>4, <1>5, <1>6, <1>7, LateItems, LooksInHand
-----------------------------------------------------------------------------
(* The statements that a deletion reads by.                                              *)

LEMMA NewHomeInserts ==
    ASSUME NEW h \in NodeIds
    PROVE  LET a == CreateNode(h, "container", NoNode, <<>>)
           IN  a \in Seq(Statements) /\ \A x \in ToSet(a) : x[1] \in {"insert_node", "announce"}
<1> DEFINE x == <<"insert_node", h, "container">>
           e == << <<"announce", h>> >>
           f == Announcements({NoNode})
           a == CreateNode(h, "container", NoNode, <<>>)
           S == Statements
<1>1. a = (((<<x>> \o <<>>) \o <<>>) \o e) \o f
  BY DEF CreateNode, When
<1>2. x \in S /\ ToSet(<<x>>) = {x} /\ x[1] = "insert_node"
  BY SingleItem DEF Statements, Kinds
<1>3. e \in Seq(S) /\ \A y \in ToSet(e) : y[1] = "announce"
  <2>1. e \in Seq(S)
    BY EventPart, EventsAreHarmless
  <2>2. ToSet(e) = {<<"announce", h>>}
    BY SingleItem
  <2> QED BY <2>1, <2>2
<1>4. f = <<>>
  <2>1. {NoNode} \ {NoNode} = {}
    OBVIOUS
  <2>2. Ascending({}) = <<>>
    <3>1. {} \in SUBSET Nat /\ IsFiniteSet({})
      BY FS_EmptySet
    <3>2. Ascending({}) \in Seq({})
      BY <3>1, AscendingFacts
    <3> QED BY <3>2
  <2>3. DOMAIN <<>> = {}
    OBVIOUS
  <2>4. Announcements({NoNode}) = [i \in DOMAIN Ascending({}) |-> <<"announce", Ascending({})[i]>>]
    BY <2>1 DEF Announcements
  <2>5. Announcements({NoNode}) = [i \in {} |-> <<"announce", <<>>[i]>>]
    BY <2>2, <2>3, <2>4
  <2> QED BY <2>5
<1> HIDE DEF x, e, f, a, S
<1>5. a = <<x>> \o e
  <2>1. <<x>> \o <<>> = <<x>> /\ <<x>> \in Seq(S)
    BY <1>2
  <2>2. <<x>> \o e \in Seq(S)
    BY <1>3, <2>1
  <2>3. (<<x>> \o e) \o <<>> = <<x>> \o e
    BY <2>2
  <2> QED BY <1>1, <1>4, <2>1, <2>3
<1>6. a \in Seq(S) /\ ToSet(a) = {x} \cup ToSet(e)
  <2>1. <<x>> \in Seq(S)
    BY <1>2
  <2>2. <<x>> \o e \in Seq(S) /\ ToSet(<<x>> \o e) = ToSet(<<x>>) \cup ToSet(e)
    BY <1>3, <2>1, JoinedItems
  <2> QED BY <1>2, <1>5, <2>2
<1> QED BY <1>2, <1>3, <1>6 DEF a, S

LEMMA DeletionLooksInHand ==
    ASSUME IInv, IInv', TagsAreInHand, NEW t \in Threads, NEW s, Doing(t, s),
           s[1] \in {"find_home", "find_orphan_container", "reassign_children", "reassign"},
           NEW values, NEW a \in Seq(Statements), Learn(t, values, a),
           \A x \in ToSet(a) : x[1] \notin {"insert_marks", "insert_mark", "delete_node"}
    PROVE  TagsAreInHand'
<1>1. s # Finish /\ ~Tagging(s) /\ DeletesSomething(s)
  BY DEF Finish, Tagging, Clears, Fills, DeletesSomething
<1>2. Deleting(request[t])
  BY <1>1, FirstFacts
<1> QED BY <1>1, <1>2, LooksInHand

LEMMA HomeReadsInHand ==
    ASSUME IInv, IInv', TagsAreInHand, NEW t \in Threads, FindHome(t) \/ FindOrphanContainer(t)
    PROVE  TagsAreInHand'
<1>0. <<>> \in Seq(Statements) /\ ToSet(<<>>) = {} /\ setting.homes \subseteq NodeIds
  BY TransactionsAssumption DEF ToSet, IInv, Typed
<1>1. CASE FindHome(t)
  <2>1. PICK n \in NodeIds :
           /\ Doing(t, <<"find_home", n>>)
           /\ \/ Learn(t, seen[t], <<>>)
              \/ Learn(t, seen[t], << <<"find_orphan_container", n>> >>)
    BY <1>1 DEF FindHome, Read, When
  <2> DEFINE x == <<"find_orphan_container", n>>
             s == <<"find_home", n>>
  <2>2. x \in Statements /\ x[1] = "find_orphan_container" /\ ToSet(<<x>>) = {x} /\ s[1] = "find_home"
    BY SingleItem DEF Statements
  <2>3. Doing(t, s) /\ (Learn(t, seen[t], <<>>) \/ Learn(t, seen[t], <<x>>))
    BY <2>1
  <2> HIDE DEF x, s
  <2>4. <<x>> \in Seq(Statements)
    BY <2>2
  <2> QED BY <1>0, <2>2, <2>3, <2>4, DeletionLooksInHand
<1>2. CASE FindOrphanContainer(t)
  <2>1. PICK n \in NodeIds :
           /\ Doing(t, <<"find_orphan_container", n>>)
           /\ \/ \E values : Learn(t, values, <<>>)
              \/ \E h \in NodeIds : \E values : Learn(t, values, CreateNode(h, "container", NoNode, <<>>))
    BY <1>0, <1>2 DEF FindOrphanContainer
  <2> DEFINE s == <<"find_orphan_container", n>>
  <2>2. s[1] = "find_orphan_container" /\ Doing(t, s)
    BY <2>1
  <2> HIDE DEF s
  <2>3. CASE \E values : Learn(t, values, <<>>)
    BY <1>0, <2>2, <2>3, DeletionLooksInHand
  <2>4. CASE \E h \in NodeIds : \E values : Learn(t, values, CreateNode(h, "container", NoNode, <<>>))
    <3>0. PICK h \in NodeIds : \E values : Learn(t, values, CreateNode(h, "container", NoNode, <<>>))
      BY <2>4
    <3>1. PICK values : Learn(t, values, CreateNode(h, "container", NoNode, <<>>))
      BY <3>0
    <3> DEFINE a == CreateNode(h, "container", NoNode, <<>>)
    <3>2. a \in Seq(Statements) /\ \A x \in ToSet(a) : x[1] \in {"insert_node", "announce"}
      BY NewHomeInserts
    <3>3. Learn(t, values, a)
      BY <3>1
    <3> HIDE DEF a
    <3> QED BY <2>2, <3>2, <3>3, DeletionLooksInHand
  <2> QED BY <2>1, <2>3, <2>4
<1> QED BY <1>1, <1>2

LEMMA ReassignsInHand ==
    ASSUME IInv, IInv', TagsAreInHand, NEW t \in Threads, ReassignChildren(t) \/ Reassign(t)
    PROVE  TagsAreInHand'
<1>0. <<>> \in Seq(Statements) /\ ToSet(<<>>) = {}
  BY DEF ToSet
<1>1. CASE ReassignChildren(t)
  <2> DEFINE home == seen[t].home
  <2>1. PICK n \in NodeIds :
           LET children == Ascending(ChildrenIn(View(t), n))
           IN  /\ Doing(t, <<"reassign_children", n>>)
               /\ Learn(t, seen[t], When(home # NoNode,
                                         [i \in DOMAIN children |-> <<"reassign", children[i], home>>]))
    BY <1>1 DEF ReassignChildren, Read
  <2> DEFINE s == <<"reassign_children", n>>
             S == ChildrenIn(View(t), n)
             children == Ascending(S)
             a == [i \in DOMAIN children |-> <<"reassign", children[i], home>>]
  <2>2. PICK k \in Nat : DOMAIN children = 1..k /\ \A i \in 1..k : children[i] \in S
    <3>1. S \in SUBSET Nat /\ IsFiniteSet(S)
      BY Sights, TransactionsAssumption, FS_Subset
    <3> HIDE DEF S
    <3>2. Ascending(S) \in Seq(S)
      BY <3>1, AscendingFacts
    <3> QED BY <3>2
  <2>3. Doing(t, s) /\ Learn(t, seen[t], When(home # NoNode, a)) /\ s[1] = "reassign_children"
    BY <2>1
  <2> HIDE DEF children, s
  <2>4. CASE home # NoNode
    <3>1. home \in NodeIds /\ S \subseteq NodeIds
      BY <2>4, Sights DEF Memory
    <3>2. \A c \in NodeIds : <<"reassign", c, home>> \in Statements
      BY <3>1 DEF Statements
    <3>3. a \in [1..k -> Statements]
      BY <2>2, <3>1, <3>2
    <3>4. a \in Seq(Statements) /\ Len(a) = k
      BY <3>3
    <3>5. \A i \in 1..Len(a) : a[i][1] = "reassign"
      BY <2>2, <3>4
    <3>6. Learn(t, seen[t], a)
      BY <2>3, <2>4 DEF When
    <3> HIDE DEF a
    <3>7. ASSUME NEW x \in ToSet(a) PROVE x[1] = "reassign"
      <4>1. PICK i \in 1..Len(a) : x = a[i]
        BY <3>4, <3>7, Items
      <4> QED BY <3>5, <4>1
    <3> QED BY <2>3, <3>4, <3>6, <3>7, DeletionLooksInHand
  <2>5. CASE home = NoNode
    <3>1. Learn(t, seen[t], <<>>)
      BY <2>3, <2>5 DEF When
    <3> QED BY <1>0, <2>3, <3>1, DeletionLooksInHand
  <2> QED BY <2>4, <2>5
<1>2. CASE Reassign(t)
  <2>1. PICK c \in NodeIds, p \in NodeIds :
           Doing(t, <<"reassign", c, p>>) /\ Learn(t, seen[t], SetParent(c, p))
    BY <1>2 DEF Reassign, Read
  <2> DEFINE s == <<"reassign", c, p>>
             a == SetParent(c, p)
  <2>2. Doing(t, s) /\ s[1] = "reassign" /\ Learn(t, seen[t], a)
    BY <2>1
  <2>3. a \in Seq(Statements) /\ \A i \in 1..Len(a) : Highest(a[i]) <= 2
    <3>1. Part(a, 2, 2, {Edge(c)}, TRUE)
      BY SetParentPart
    <3> QED BY <3>1 DEF Part
  <2> HIDE DEF s, a
  <2>4. ASSUME NEW x \in ToSet(a) PROVE x[1] \notin {"insert_marks", "insert_mark", "delete_node"}
    <3>1. PICK i \in 1..Len(a) : x = a[i]
      BY <2>3, <2>4, Items
    <3>2. Highest(x) <= 2
      BY <2>3, <3>1
    <3> QED BY <3>2 DEF Highest, Wide, Stage
  <2> QED BY <2>2, <2>3, <2>4, DeletionLooksInHand
<1> QED BY <1>1, <1>2
-----------------------------------------------------------------------------
(* The statements that see to the tags of the list, and make their marks.                *)

LEMMA FillInHand ==
    ASSUME IInv, IInv', TagsAreInHand, NEW t \in Threads, NEW s, Doing(t, s),
           s[1] \in {"ensure_tag", "insert_tag", "insert_marks"},
           NEW values, NEW a \in Seq(Statements), Learn(t, values, a),
           \A x \in ToSet(a) : /\ x[1] \in {"ensure_tag", "insert_tag", "insert_mark"}
                               /\ Deleting(request[t]) => x[1] # "insert_mark"
                               /\ \A n, u : Sows(x, n, u) => Sows(s, n, u),
           \A n, u : Sows(s, n, u) => Sowing(a, n, u),
           \A u \in Tags : Names(s, u) => Naming(a, u) \/ View(t)[Tag(u)]
    PROVE  TagsAreInHand'
<1>1. UNCHANGED <<engine, db, request, writes, overtook>>
  BY DEF Learn
<1>2. View(t)' = View(t) /\ Open(t)' = Open(t)
  BY <1>1 DEF View, Over, Open
<1>3. s # Finish /\ s[1] # "create_or_replace" /\ Fills(s) /\ Lowest(s) = 3
  BY DEF Finish, Fills, Lowest, Wide, Stage
<1>4. \A x \in ToSet(a) : Fills(x) /\ Lowest(x) = 3 /\ x[1] # "update_node"
  BY DEF Fills, Lowest, Wide, Stage
<1>5. Cares(t, s, a)
  BY <1>1, <1>3 DEF Cares
<1>6. Owns(t, a)
  BY <1>1 DEF Owns
<1>7. ASSUME NEW n PROVE Tends(t, n, s, a)
  <2>1. ASSUME NEW x \in ToSet(a)
        PROVE  /\ x[1] \notin {"create_or_replace", "delete_marks", "update_node"}
               /\ (Clears(x) => Clears(s)) /\ (Fills(x) => Fills(s)) /\ (Lowest(x) = 1 => Lowest(s) = 1)
               /\ \A u \in Tags : (Sows(x, n, u) => Sows(s, n, u)) /\ (Weeds(x, n, u) => Weeds(s, n, u))
    BY <1>3, <1>4, ClearsOrFills
  <2>2. \A u : ~Weeds(s, n, u)
    BY <1>3, ClearsOrFills
  <2> QED BY <1>1, <1>2, <2>1, <2>2 DEF Tends, Planted, Tagging
<1> QED BY <1>3, <1>5, <1>6, <1>7, LearnInHand

LEMMA TagReadsInHand ==
    ASSUME IInv, IInv', TagsAreInHand, NEW t \in Threads, EnsureTag(t) \/ InsertMarks(t)
    PROVE  TagsAreInHand'
<1>1. CASE EnsureTag(t)
  <2>1. PICK u \in Tags : /\ Doing(t, <<"ensure_tag", u>>)
                          /\ \/ View(t)[Tag(u)] /\ Learn(t, seen[t], <<>>)
                             \/ Learn(t, seen[t], << <<"insert_tag", u>> >>)
    BY <1>1 DEF EnsureTag, Read, When
  <2> DEFINE s == <<"ensure_tag", u>>
             x == <<"insert_tag", u>>
  <2>2. /\ s[1] = "ensure_tag" /\ Doing(t, s)
        /\ (View(t)[Tag(u)] /\ Learn(t, seen[t], <<>>)) \/ Learn(t, seen[t], <<x>>)
        /\ \A v : Names(s, v) => v = u
        /\ \A n, v : ~Sows(s, n, v) /\ ~Sows(x, n, v)
    BY <2>1 DEF Names, Sows
  <2>3. x \in Statements /\ x[1] = "insert_tag" /\ ToSet(<<x>>) = {x} /\ Names(x, u)
    BY SingleItem DEF Statements, Names
  <2> HIDE DEF s, x
  <2>4. CASE View(t)[Tag(u)] /\ Learn(t, seen[t], <<>>)
    <3>1. <<>> \in Seq(Statements) /\ ToSet(<<>>) = {}
      BY DEF ToSet
    <3> QED BY <2>2, <2>4, <3>1, FillInHand
  <2>5. CASE Learn(t, seen[t], <<x>>)
    <3>1. <<x>> \in Seq(Statements) /\ Naming(<<x>>, u)
      BY <2>3 DEF Naming
    <3> QED BY <2>2, <2>3, <2>5, <3>1, FillInHand
  <2> QED BY <2>2, <2>4, <2>5
<1>2. CASE InsertMarks(t)
  <2>1. PICK n \in NodeIds, S \in SUBSET Tags :
           /\ Doing(t, <<"insert_marks", n, S>>)
           /\ \E list \in SetToSeqs(S) :
                 Learn(t, seen[t], [i \in DOMAIN list |-> <<"insert_mark", n, list[i]>>])
    BY <1>2 DEF InsertMarks, Read
  <2>2. PICK list \in SetToSeqs(S) :
           Learn(t, seen[t], [i \in DOMAIN list |-> <<"insert_mark", n, list[i]>>])
    BY <2>1
  <2> DEFINE s == <<"insert_marks", n, S>>
             a == [i \in DOMAIN list |-> <<"insert_mark", n, list[i]>>]
  <2>3. PICK k \in Nat : /\ DOMAIN list = 1..k /\ \A i \in 1..k : list[i] \in S
                         /\ \A u \in S : \E i \in 1..k : list[i] = u
    <3>1. IsFiniteSet(S)
      BY TransactionsAssumption, FS_Subset
    <3> QED BY <2>2, <3>1, ListHoldsAll
  <2>4. \A u \in S : <<"insert_mark", n, u>> \in Statements
    BY DEF Statements
  <2>5. a \in Seq(Statements) /\ Len(a) = k /\ \A i \in 1..k : a[i] = <<"insert_mark", n, list[i]>>
    <3>1. a \in [1..k -> Statements]
      BY <2>3, <2>4
    <3> QED BY <2>3, <3>1
  <2>6. Doing(t, s) /\ Learn(t, seen[t], a) /\ s[1] = "insert_marks" /\ s[2] = n /\ s[3] = S
    BY <2>1, <2>2
  <2> HIDE DEF s, a
  <2>7. ~Deleting(request[t])
    <3>1. s \in ToSet(todo[t])
      <4>1. todo[t] \in Seq(Steps) /\ todo[t] # <<>> /\ s = todo[t][1]
        BY <2>6, OvertakersAreThreads DEF Doing, Running
      <4>2. <<>> \in Seq(Steps)
        OBVIOUS
      <4> QED BY <4>1, <4>2, LaterItems
    <3> QED BY <2>6, <3>1 DEF TagsAreInHand, InHand, DeletesItsOwn
  <2>8. ASSUME NEW x \in ToSet(a)
        PROVE  x[1] = "insert_mark" /\ \A m, u : Sows(x, m, u) => Sows(s, m, u)
    <3>1. PICK i \in 1..k : x = a[i]
      BY <2>5, <2>8, Items
    <3>2. x[1] = "insert_mark" /\ x[2] = n /\ x[3] \in S
      BY <2>3, <2>5, <3>1
    <3> QED BY <2>6, <3>2 DEF Sows
  <2>9. ASSUME NEW m, NEW u, Sows(s, m, u) PROVE Sowing(a, m, u)
    <3>1. m = n /\ u \in S
      BY <2>6, <2>9 DEF Sows
    <3>2. PICK i \in 1..k : list[i] = u
      BY <2>3, <3>1
    <3>3. a[i] \in ToSet(a) /\ a[i] = <<"insert_mark", n, u>>
      BY <2>5, <3>2, Items
    <3>4. Sows(a[i], m, u)
      BY <3>1, <3>3 DEF Sows
    <3> QED BY <3>3, <3>4 DEF Sowing
  <2>10. \A u : ~Names(s, u)
    BY <2>6 DEF Names
  <2> QED BY <2>5, <2>6, <2>7, <2>8, <2>9, <2>10, FillInHand
<1> QED BY <1>1, <1>2
-----------------------------------------------------------------------------
(* The PUT that looks for its node.                                                      *)

LEMMA CreateOrReplaceInHand ==
    ASSUME IInv, IInv', TagsAreInHand, NEW t \in Threads, CreateOrReplace(t)
    PROVE  TagsAreInHand'
<1> DEFINE r == request[t]
           L == ToSet(r.tags)
<1>1. PICK n \in NodeIds :
         /\ Doing(t, <<"create_or_replace", n>>)
         /\ \/ Learn(t, seen[t], CreateNode(n, r.kind, r.parent, r.tags))
            \/ /\ View(t)[Node(n)] # "absent"
               /\ Learn(t, seen[t], ReplaceNode(n, r.kind, r.parent, r.tags))
  BY DEF CreateOrReplace, Read
<1> DEFINE s == <<"create_or_replace", n>>
<1>2. /\ s # Finish /\ Lowest(s) = 1 /\ s[1] = "create_or_replace"
      /\ Reach(s) = {Whole(n), Node(n), Edge(n)} \cup MarksOf(n)
  BY DEF Finish, Lowest, Wide, Reach
<1>3. Running(t) /\ todo[t][1] = s /\ Whole(n) \in Scope(r) /\ r \in Requests
  BY <1>1, <1>2, FirstFacts DEF First
<1>4. r.op = "PUT" /\ n = r.node
  BY <1>3 DEF Scope, Rows, MarksOf, Whole, Node, Edge, Mark, Tag, Sequence, Database
<1>5. r.kind \in Kinds /\ r.parent \in NodeIds \cup {NoNode} /\ r.tags \in Seq(Tags)
  BY <1>3, <1>4 DEF Requests, Creations, Changes, Deletions, TagRequests
<1>6. Lists(r) /\ Bodies(r) /\ ~Deleting(r)
  BY <1>4 DEF Lists, Bodies, Deleting
<1>7. todo[t] = <<s, Finish>>
  <2>1. Undecided(t, n) \/ Bare(t, n) \/ Gathering(t, n, L) \/ Laying(t, n, L)
    BY <1>3, <1>4, <1>6 DEF TagsAreInHand, InHand, TagsInHand
  <2>2. s \in ToSet(todo[t])
    <3>1. todo[t] \in Seq(Steps) /\ todo[t] # <<>> /\ <<>> \in Seq(Steps)
      BY <1>3, OvertakersAreThreads DEF Running
    <3> QED BY <1>3, <3>1, LaterItems
  <2>3. ~Bare(t, n) /\ ~Gathering(t, n, L) /\ ~Laying(t, n, L)
    BY <2>2 DEF Bare, Gathering, Laying, KeepsToList, Tagging
  <2> QED BY <2>1, <2>3 DEF Undecided
<1> HIDE DEF r, s, L
<1>13. writes[t] = <<>>
  <2>1. CreatesFirst(t) /\ 1 \in 1..Len(todo[t]) /\ todo[t][1][1] = "create_or_replace"
    BY <1>2, <1>3, <1>7 DEF IInv
  <2> QED BY <1>6, <2>1 DEF CreatesFirst, Creating, r
<1>9. ASSUME NEW a \in Seq(Statements), Learn(t, seen[t], a), NEW all, all = a \o <<Finish>>,
             \E x \in ToSet(all) : Lowest(x) = 1, Tame(all) \/ View(t)[Node(n)] # "absent",
             \/ Tagged(all, n, L)
             \/ r.tags = <<>> /\ Plain(all) /\ Tame(all) /\ \E x \in ToSet(all) : x[1] = "insert_node"
      PROVE  TagsAreInHand'
  <2>1. /\ UNCHANGED <<engine, db, request, writes, overtook>> /\ todo'[t] = a \o Tail(todo[t])
        /\ \A o \in Threads : o # t => todo'[o] = todo[o]
    BY <1>9 DEF Learn, Continue, IInv, Typed, Domains
  <2>2. ASSUME NEW o \in Threads, o # t PROVE InHand(o)'
    BY <2>1, <2>2, StillInHand DEF TagsAreInHand
  <2>3. todo'[t] = all
    <3>1. Tail(<<s, Finish>>) = <<Finish>>
      OBVIOUS
    <3> QED BY <1>7, <1>9, <2>1, <3>1
  <2>6. TagsInHand(t)'
    <3>1. CASE Tagged(all, n, L)
      <4>1. L' = L /\ todo[t]' = all
        BY <2>1, <2>3 DEF L, r
      <4>2. KeepsToList(todo[t], n, L)' /\ Clearing(todo[t], n)'
        BY <3>1, <4>1 DEF Tagged
      <4>3. \A u \in L' : Sowing(todo[t], n, u)' /\ Naming(todo[t], u)'
        BY <3>1, <4>1 DEF Tagged
      <4>4. Gathering(t, n, L)'
        BY <4>2, <4>3 DEF Gathering
      <4> QED BY <1>4, <2>1, <4>4 DEF TagsInHand, r, L
    <3>2. CASE r.tags = <<>> /\ Plain(all) /\ Tame(all) /\ \E x \in ToSet(all) : x[1] = "insert_node"
      <4>1. Node(n) \notin DOMAIN writes'[t] /\ \A u \in Tags : Mark(n, u) \notin DOMAIN writes'[t]
        BY <1>13, <2>1
      <4>2. Bare(t, n)'
        BY <1>4, <2>1, <2>3, <3>2, <4>1 DEF Bare, Plain, Tame, r
      <4> QED BY <1>4, <2>1, <4>2 DEF TagsInHand, r
    <3> QED BY <1>9, <3>1, <3>2
  <2>7. HoldsNode(t)'
    BY <1>9, <2>3 DEF HoldsNode
  <2>8. FindsNode(t)'
    <3>1. View(t)' = View(t)
      BY <2>1 DEF View, Over
    <3>2. CASE View(t)[Node(n)] # "absent"
      BY <1>4, <2>1, <3>1, <3>2 DEF FindsNode, r
    <3>3. CASE Tame(all)
      BY <2>3, <3>3 DEF FindsNode, Tame
    <3> QED BY <1>9, <3>2, <3>3
  <2>9. DeletesItsOwn(t)'
    BY <1>6, <2>1 DEF DeletesItsOwn, r
  <2>10. InHand(t)'
    BY <2>6, <2>7, <2>8, <2>9 DEF InHand
  <2> QED BY <2>2, <2>10 DEF TagsAreInHand
<1>10. {Node(n), Edge(n)} \cup MarksOf(n) \subseteq Rows
  BY RowFacts
<1>11. CASE Learn(t, seen[t], CreateNode(n, r.kind, r.parent, r.tags))
  <2> DEFINE a == CreateNode(n, r.kind, r.parent, r.tags)
             x == <<"insert_node", n, r.kind>>
  <2>1. a \in Seq(Statements)
    BY <1>5, <1>10, CreateNodePart DEF Part
  <2> DEFINE all == a \o <<Finish>>
  <2>3. /\ r.tags # <<>> => Tagged(all, n, L)
        /\ r.tags = <<>> => Plain(all)
        /\ Tame(all) /\ x \in ToSet(all)
    BY <1>5, CreateNodeTagged DEF L
  <2>4. Learn(t, seen[t], a) /\ x[1] = "insert_node" /\ Lowest(x) = 1 /\ all = a \o <<Finish>>
    BY <1>11 DEF Lowest, Wide, Stage
  <2> HIDE DEF a, x, all
  <2> QED BY <1>9, <2>1, <2>3, <2>4
<1>12. CASE View(t)[Node(n)] # "absent" /\ Learn(t, seen[t], ReplaceNode(n, r.kind, r.parent, r.tags))
  <2> DEFINE a == ReplaceNode(n, r.kind, r.parent, r.tags)
             x == <<"update_node", n, r.kind>>
  <2>1. a \in Seq(Statements)
    BY <1>5, <1>10, ReplaceNodePart DEF Part
  <2> DEFINE all == a \o <<Finish>>
  <2>3. Tagged(all, n, L) /\ x \in ToSet(all)
    BY <1>5, ReplaceNodeTagged DEF L
  <2>4. Learn(t, seen[t], a) /\ Lowest(x) = 1 /\ all = a \o <<Finish>>
    BY <1>12 DEF Lowest, Wide, Stage
  <2> HIDE DEF a, x, all
  <2> QED BY <1>9, <1>12, <2>1, <2>3, <2>4
<1> QED BY <1>1, <1>11, <1>12 DEF r
-----------------------------------------------------------------------------
(* What is inserted under a savepoint, and the UPDATE of the node.                       *)

LEMMA InsertionTends ==
    ASSUME NEW t, NEW n, NEW s, s[1] \in {"insert_node", "insert_tag"}, NEW a,
           \A x \in ToSet(a) : ~Tagging(x) /\ Lowest(x) # 1,
           UNCHANGED engine, DOMAIN writes[t] \subseteq DOMAIN writes'[t],
           engine = "sqlite" => Node(n) \in DOMAIN writes[t] \/ Node(n) \notin DOMAIN writes'[t],
           \A u \in Tags : /\ View(t)'[Mark(n, u)] = View(t)[Mark(n, u)]
                           /\ Mark(n, u) \in DOMAIN writes'[t] =>
                                 /\ Mark(n, u) \in DOMAIN writes[t]
                                 /\ writes'[t][Mark(n, u)] = writes[t][Mark(n, u)]
                           /\ View(t)[Tag(u)] \/ Names(s, u) => View(t)'[Tag(u)],
           engine = "postgres" => /\ db' = db
                                  /\ s[1] = "insert_node" => Node(n) \in DOMAIN writes'[t] /\ db[Node(n)] = "absent"
    PROVE  Tends(t, n, s, a)
<1>1. /\ s[1] # "delete_marks" /\ ~Clears(s)
      /\ \A u : ~Sows(s, n, u) /\ ~Weeds(s, n, u)
  BY DEF Clears, Sows, Weeds
<1>2. \A x \in ToSet(a) : /\ x[1] \notin {"create_or_replace", "delete_marks"} /\ ~Clears(x) /\ ~Fills(x)
                          /\ \A u : ~Sows(x, n, u) /\ ~Weeds(x, n, u)
  BY ClearsOrFills DEF Tagging, Clears
<1>5. \A x \in ToSet(a) : x[1] # "update_node"
  BY DEF Lowest, Wide, Stage
<1>3. \A u \in Tags : Planted(t, n, u) => Planted(t, n, u)'
  BY DEF Planted
<1>4. Open(t) => Open(t)'
  BY DEF Open
<1> QED BY <1>1, <1>2, <1>3, <1>4, <1>5 DEF Tends

(* RELEASE SAVEPOINT commits on SQLite when nothing was open.                            *)
LEMMA ReleaseInHand ==
    ASSUME IInv, IInv', TagsAreInHand, NEW t \in Threads, NEW s, Doing(t, s), s # Finish,
           s[1] \in {"insert_node", "insert_tag"}, NEW a \in Seq(Statements), engine = "sqlite",
           \A x \in ToSet(a) : ~Tagging(x) /\ Lowest(x) # 1
                               /\ x[1] \notin {"insert_marks", "insert_mark", "delete_node", "update_node"},
           NEW row \in Rows, NEW value, db' = [db EXCEPT ![row] = value], row[1] \in {"node", "tag"},
           \A u \in Tags : row = Tag(u) => value,
           \A u \in Tags : Names(s, u) => row = Tag(u),
           Overtake(t), Continue(t, a), UNCHANGED <<engine, request, writes>>
    PROVE  TagsAreInHand'
<1>1. DOMAIN todo = Threads /\ DOMAIN overtook = Threads /\ DOMAIN db = Rows
  BY DEF IInv, Typed, Domains, Table
<1>2. /\ todo'[t] = a \o Tail(todo[t])
      /\ \A o \in Threads : o # t => todo'[o] = todo[o]
  BY <1>1 DEF Continue
<1>3. \A o \in Threads : overtook[o] \subseteq overtook'[o]
  BY <1>1 DEF Overtake
<1>4. \A x \in Rows : db'[x] = IF x = row THEN value ELSE db[x]
  BY <1>1
<1>5. \A o \in Threads : \A x \in Rows :
         View(o)'[x] = View(o)[x] \/ (x = row /\ View(o)'[x] = value)
  <2>1. ViewsFit /\ ViewsFit'
    BY Always, PTL
  <2> QED BY <1>4, <2>1 DEF ViewsFit
<1>6. ASSUME NEW o \in Threads, NEW n \in NodeIds, NEW u \in Tags
      PROVE  View(o)'[Mark(n, u)] = View(o)[Mark(n, u)] /\ (View(o)[Tag(u)] => View(o)'[Tag(u)])
  <2>1. Mark(n, u) \in Rows /\ Tag(u) \in Rows /\ Mark(n, u)[1] = "mark"
    BY RowFacts DEF Mark
  <2>2. Mark(n, u) # row
    BY <2>1
  <2> QED BY <1>5, <2>1, <2>2
<1>7. ASSUME NEW o \in Threads, o # t PROVE InHand(o)'
  <2>1. (NodeWent(o) => NodeWent(o)') /\ (Met(o) => Met(o)')
    BY <1>3, MoreMet
  <2>2. Waits(o)
    BY <1>2, <1>7, <2>1, SelfPasses, OvertakersAreThreads DEF Waits
  <2>3. \A n : SparesNode(o, n)
    BY DEF SparesNode
  <2>4. ASSUME Running(o), Lists(request[o]) PROVE SparesMarks(o, request[o].node) /\ SparesTags(o)
    <3>1. request[o].node \in NodeIds
      BY <2>4, ListFacts
    <3>2. PICK n \in NodeIds : n = request[o].node
      BY <3>1
    <3>3. todo'[o] = todo[o]
      BY <1>2, <1>7
    <3>4. SparesMarks(o, n)
      BY <1>6, <3>3 DEF SparesMarks
    <3>5. SparesTags(o)
      BY <1>6, <3>2 DEF SparesTags
    <3> QED BY <3>2, <3>4, <3>5
  <2> QED BY <2>2, <2>3, <2>4, OthersInHand DEF TagsAreInHand
<1>8. InHand(t)'
  <2>1. ASSUME Lists(request[t]), NEW n \in NodeIds PROVE Tends(t, n, s, a)
    <3>1. \A u \in Tags : Names(s, u) => View(t)'[Tag(u)]
      <4>1. ASSUME NEW u \in Tags, Names(s, u) PROVE View(t)'[Tag(u)]
        <5> DEFINE tag == Tag(u)
        <5>1. tag = row /\ value /\ tag[1] = "tag" /\ Gone(tag) = FALSE
          BY <4>1 DEF Tag, Gone
        <5>2. View(t)'[tag] = IF tag \in DOMAIN writes[t] THEN writes[t][tag] ELSE db'[tag]
          <6>1. ViewsFit'
            BY Always, PTL
          <6> QED BY <5>1, <6>1 DEF ViewsFit
        <5>3. tag \in DOMAIN writes[t] => writes[t][tag]
          <6>1. ~Deleting(request[t])
            BY <2>1 DEF Lists, Deleting
          <6>2. tag \in DOMAIN writes[t] => writes[t][tag] # FALSE
            BY <5>1, <6>1 DEF IInv, HoldsInOrder
          <6>3. tag \in DOMAIN writes[t] => writes[t][tag] \in BOOLEAN
            BY <5>1 DEF IInv, Typed, ThreadOK, WritesFit, Fits
          <6> QED BY <6>2, <6>3
        <5> HIDE DEF tag
        <5>4. tag \notin DOMAIN writes[t] => db'[tag]
          BY <1>4, <5>1
        <5>5. View(t)'[tag]
          BY <5>2, <5>3, <5>4
        <5> QED BY <5>5 DEF tag
      <4> QED BY <4>1
    <3> QED BY <1>6, <3>1, InsertionTends
  <2>2. Cares(t, s, a)
    BY DEF Cares
  <2>3. Owns(t, a)
    BY DEF Owns
  <2>4. Lists(request[t]) => Tends(t, request[t].node, s, a)
    BY <2>1, ListFacts DEF Doing
  <2>5. s[1] # "create_or_replace"
    OBVIOUS
  <2>6. \A x \in Threads : overtook[x] \subseteq overtook'[x] /\ request'[x] = request[x]
    BY <1>3
  <2> QED BY <1>2, <2>2, <2>3, <2>4, <2>5, <2>6, GoesOnInHand DEF TagsAreInHand
<1> QED BY <1>7, <1>8 DEF TagsAreInHand

LEMMA NodeOfItsOwn ==
    ASSUME IInv, NEW t \in Threads, NEW s, Doing(t, s), s[1] \in {"insert_node", "update_node"},
           ~Deleting(request[t])
    PROVE  s[2] = request[t].node
<1>1. s # Finish /\ Reach(s) = {Node(s[2])}
  BY DEF Finish, Reach
<1>2. Node(s[2]) \in Scope(request[t])
  BY <1>1, FirstFacts
<1>3. Node(s[2]) = Node(request[t].node)
  BY <1>2, ScopeFacts DEF Node
<1> QED BY <1>3 DEF Node

LEMMA InsertNodeInHand ==
    ASSUME IInv, IInv', TagsAreInHand, NEW t \in Threads, InsertNode(t)
    PROVE  TagsAreInHand'
<1>1. PICK n \in NodeIds, kind \in Kinds :
         /\ Doing(t, <<"insert_node", n, kind>>)
         /\ \/ \E status \in {400, 500} : End(t, status)
            \/ View(t)[Node(n)] = "absent" /\ InsertUnderSavepoint(t, Node(n), kind, <<>>)
  BY DEF InsertNode
<1> DEFINE s == <<"insert_node", n, kind>>
           row == Node(n)
<1>2. /\ s # Finish /\ ~Tagging(s) /\ s[1] = "insert_node" /\ s[2] = n /\ Doing(t, s)
      /\ \A u : ~Names(s, u)
  BY <1>1 DEF Finish, Tagging, Clears, Fills, Names
<1>3. /\ row \in Rows /\ row[1] = "node" /\ kind # "absent" /\ Gone(row) = "absent"
      /\ \A u : row # Tag(u)
  BY DEF Rows, Node, Kinds, Gone, Tag
<1>4. <<>> \in Seq(Statements) /\ ToSet(<<>>) = {} /\ DOMAIN <<>> = {}
  BY DEF ToSet
<1>5. (View(t)[row] = "absent" /\ InsertUnderSavepoint(t, row, kind, <<>>)) \/ \E status : End(t, status)
  BY <1>1
<1>6. ~Deleting(request[t]) => row = Node(request[t].node)
  BY <1>2, NodeOfItsOwn
<1> HIDE DEF s, row
<1>7. CASE \E status : End(t, status)
  BY <1>7, EndInHand
<1>8. CASE InsertUnderSavepoint(t, row, kind, <<>>) /\ ReleaseCommits(t)
  <2>1. /\ db' = [db EXCEPT ![row] = kind] /\ Overtake(t) /\ Continue(t, <<>>)
        /\ UNCHANGED <<engine, request, writes>> /\ engine = "sqlite"
    BY <1>8 DEF InsertUnderSavepoint, ReleaseCommits
  <2>2. \A u \in Tags : (row = Tag(u) => kind) /\ (Names(s, u) => row = Tag(u))
    BY <1>2, <1>3
  <2> QED BY <1>2, <1>3, <1>4, <2>1, <2>2, ReleaseInHand
<1>9. CASE View(t)[row] = "absent" /\ InsertUnderSavepoint(t, row, kind, <<>>) /\ ~ReleaseCommits(t)
  <2> DEFINE rows == Only(row, kind)
  <2>1. Publish(t, rows, {}, <<>>, <<>>)
    BY <1>9 DEF InsertUnderSavepoint, Write
  <2>2. DOMAIN rows = {row} /\ rows[row] = kind
    BY OnlyFacts
  <2> HIDE DEF rows
  <2>3. ASSUME Lists(request[t]) PROVE db[row] = "absent"
    <3>1. ~Deleting(request[t])
      BY <2>3 DEF Lists, Deleting
    <3>2. row \notin DOMAIN writes[t] \/ writes[t][row] # "absent"
      BY <1>3, <3>1 DEF IInv, HoldsInOrder
    <3>3. View(t)[row] = IF row \in DOMAIN writes[t] THEN writes[t][row] ELSE db[row]
      <4>1. ViewsFit
        BY Always
      <4> QED BY <1>3, <4>1 DEF ViewsFit
    <3> QED BY <1>9, <3>2, <3>3
  <2>4. Bodies(request[t]) => ~Deleting(request[t])
    BY DEF Bodies, Deleting
  <2>5. Lists(request[t]) => ~Deleting(request[t])
    BY DEF Lists, Deleting
  <2>6. \A x \in DOMAIN rows : x[1] # "mark" /\ x[1] # "tag" /\ rows[x] # "absent"
    BY <1>3, <2>2
  <2>7. DOMAIN rows \subseteq Rows
    BY <1>3, <2>2
  <2>8. ~(engine = "sqlite" /\ Lists(request[t]))
    <3>1. 1 \in 1..Len(todo[t]) /\ todo[t][1][1] \in Creating
      <4>1. todo[t] \in Seq(Steps) /\ todo[t] # <<>> /\ todo[t][1] = s
        BY <1>2, OvertakersAreThreads DEF Doing, Running
      <4> QED BY <1>2, <4>1 DEF Creating
    <3>2. Lists(request[t]) => writes[t] = <<>>
      BY <3>1 DEF IInv, CreatesFirst, Lists, Bodies
    <3> QED BY <1>4, <1>9, <3>2 DEF ReleaseCommits, Open
  <2> QED BY <1>2, <1>6, <2>1, <2>2, <2>3, <2>4, <2>5, <2>6, <2>7, <2>8, PlainWriteInHand
<1> QED BY <1>5, <1>7, <1>8, <1>9

LEMMA UpdateFieldsInHand ==
    ASSUME IInv, IInv', TagsAreInHand, NEW t \in Threads, UpdateFields(t)
    PROVE  TagsAreInHand'
<1>1. PICK n \in NodeIds, kind \in Kinds \cup {Relabel} :
         LET old == View(t)[Node(n)]
             new == IF kind = Relabel THEN old ELSE kind
         IN  /\ Doing(t, <<"update_node", n, kind>>)
             /\ IF old = "absent" /\ request[t].op = "PATCH" THEN End(t, 404)
                ELSE Write(t, IF old = "absent" THEN <<>> ELSE Only(Node(n), new), <<>>)
  BY DEF UpdateFields
<1> DEFINE s == <<"update_node", n, kind>>
           row == Node(n)
           found == View(t)[row] # "absent"
           new == IF kind = Relabel THEN View(t)[row] ELSE kind
<1>2. s # Finish /\ ~Tagging(s) /\ s[1] = "update_node" /\ s[2] = n /\ Doing(t, s)
  BY <1>1 DEF Finish, Tagging, Clears, Fills
<1>3. row \in Rows /\ row[1] = "node" /\ (found => new # "absent")
  BY DEF Rows, Node, Kinds
<1>4. DOMAIN <<>> = {}
  OBVIOUS
<1>5. ~Deleting(request[t]) => row = Node(request[t].node)
  BY <1>2, NodeOfItsOwn
<1>6. Bodies(request[t]) => ~Deleting(request[t])
  BY DEF Bodies, Deleting
<1>7. CASE ~found /\ request[t].op = "PATCH"
  <2>1. End(t, 404)
    BY <1>1, <1>7
  <2> QED BY <2>1, EndInHand
<1>8. CASE found
  <2> DEFINE rows == Only(row, new)
  <2>1. Publish(t, rows, {}, <<>>, <<>>)
    BY <1>1, <1>8 DEF Write
  <2>2. DOMAIN rows = {row} /\ rows[row] = new
    BY OnlyFacts
  <2> HIDE DEF rows, row, s, new
  <2>3. /\ \A x \in DOMAIN rows : x[1] # "mark" /\ x[1] # "tag" /\ rows[x] # "absent"
        /\ DOMAIN rows \subseteq Rows
    BY <1>3, <1>8, <2>2
  <2>4. s[1] # "insert_node" /\ (Bodies(request[t]) => Node(request[t].node) \in DOMAIN rows)
    BY <1>2, <1>5, <1>6, <2>2
  <2>5. \A x \in DOMAIN rows : x[1] # "mark" /\ x[1] # "tag" /\ rows[x] # "absent"
    BY <2>3
  <2>6. DOMAIN rows \subseteq Rows
    BY <2>3
  <2>7. engine = "postgres" /\ Bodies(request[t]) /\ LocksNode(request[t]) /\ Lowest(s) = 1 =>
           NodeWent(t) \/ Node(request[t].node) \in DOMAIN rows
    BY <2>4
  <2>8. engine = "postgres" /\ Lists(request[t]) /\ s[1] = "insert_node" =>
           Node(request[t].node) \in DOMAIN rows /\ db[Node(request[t].node)] = "absent"
    BY <2>4
  <2>9. s # Finish /\ ~Tagging(s) /\ Doing(t, s)
    BY <1>2
  <2>10. s[1] = "update_node"
    BY <1>2
  <2> QED BY <2>1, <2>5, <2>6, <2>7, <2>8, <2>9, <2>10, PlainWriteInHand
<1>9. CASE ~found /\ request[t].op # "PATCH"
  <2>1. Publish(t, <<>>, {}, <<>>, <<>>)
    BY <1>1, <1>9 DEF Write
  <2> HIDE DEF s, row
  <2>2. ASSUME engine = "postgres", Bodies(request[t]) PROVE NodeWent(t)
    <3>1. request[t].op \in {"POST", "PUT"}
      BY <1>9, <2>2 DEF Bodies
    <3>2. s \in ToSet(todo[t])
      <4>1. todo[t] \in Seq(Steps) /\ todo[t] # <<>> /\ s = todo[t][1] /\ <<>> \in Seq(Steps)
        BY <1>2, OvertakersAreThreads DEF Doing, Running
      <4> QED BY <4>1, LaterItems
    <3>3. View(t)[Node(request[t].node)] = "absent"
      BY <1>5, <1>6, <1>9, <2>2
    <3> QED BY <1>2, <2>2, <3>1, <3>2, <3>3 DEF TagsAreInHand, InHand, FindsNode
  <2> QED BY <1>2, <1>4, <2>1, <2>2, PlainWriteInHand
<1> QED BY <1>7, <1>8, <1>9

LEMMA InsertTagInHand ==
    ASSUME IInv, IInv', TagsAreInHand, NEW t \in Threads, InsertTag(t)
    PROVE  TagsAreInHand'
<1>1. PICK u \in Tags :
         /\ Doing(t, <<"insert_tag", u>>)
         /\ \/ Read(t, << <<"ensure_tag", u>> >>)
            \/ InsertUnderSavepoint(t, Tag(u), TRUE, << <<"assert_tag", u>>, <<"append", u, TRUE>> >>)
  BY DEF InsertTag
<1> DEFINE s == <<"insert_tag", u>>
           x == <<"assert_tag", u>>
           y == <<"append", u, TRUE>>
           a == <<x, y>>
           again == <<"ensure_tag", u>>
           row == Tag(u)
<1>2. /\ s # Finish /\ s[1] = "insert_tag" /\ Doing(t, s) /\ Lowest(s) # 1
      /\ \A v : Names(s, v) => v = u
  BY <1>1 DEF Finish, Lowest, Wide, Stage, Names
<1>3. /\ row \in Rows /\ row[1] = "tag" /\ \A n, v : row # Mark(n, v) /\ row # Node(n) /\ (row = Tag(v) => u = v)
      /\ row # Database
  BY DEF Rows, Tag, Mark, Node, Database
<1>4. \/ Read(t, <<again>>)
      \/ InsertUnderSavepoint(t, row, TRUE, a)
  BY <1>1
<1>5. /\ x \in Statements /\ x[1] = "assert_tag" /\ Lowest(x) = 9 /\ ~Tagging(x)
      /\ y \in Statements /\ y[1] = "append" /\ ~Tagging(y)
  BY DEF Statements, Lowest, Wide, Stage, Tagging, Clears, Fills
<1>6. Lowest(y) # 1
  BY <1>5 DEF Lowest, Wide, Stage
<1> HIDE DEF s, x, y, row
<1>7. a \in Seq(Statements) /\ ToSet(a) = {x, y}
  <2>1. a \in Seq(Statements) /\ Len(a) = 2 /\ a[1] = x /\ a[2] = y
    BY <1>5
  <2> HIDE DEF a
  <2>2. 1..2 = {1, 2}
    OBVIOUS
  <2> QED BY <2>1, <2>2, Items
<1>8. \A z \in ToSet(a) : /\ ~Tagging(z) /\ Lowest(z) # 1
                          /\ z[1] \notin {"insert_marks", "insert_mark", "delete_node", "update_node"}
  BY <1>5, <1>6, <1>7
<1> HIDE DEF a
<1>9. CASE Read(t, <<again>>)
  <2>1. Learn(t, seen[t], <<again>>)
    BY <1>9 DEF Read
  <2>2. /\ again \in Statements /\ again[1] = "ensure_tag" /\ ToSet(<<again>>) = {again} /\ Names(again, u)
        /\ \A n, v : ~Sows(again, n, v) /\ ~Sows(s, n, v)
    BY SingleItem DEF Statements, Names, Sows, s
  <2> HIDE DEF again
  <2>3. <<again>> \in Seq(Statements) /\ Naming(<<again>>, u)
    BY <2>2 DEF Naming
  <2> QED BY <1>2, <2>1, <2>2, <2>3, FillInHand
<1>10. CASE InsertUnderSavepoint(t, row, TRUE, a) /\ ReleaseCommits(t)
  <2>1. PICK yes : yes = TRUE
    OBVIOUS
  <2>2. /\ db' = [db EXCEPT ![row] = yes] /\ Overtake(t) /\ Continue(t, a)
        /\ UNCHANGED <<engine, request, writes>> /\ engine = "sqlite"
    BY <1>10, <2>1 DEF InsertUnderSavepoint, ReleaseCommits
  <2>3. \A v \in Tags : (row = Tag(v) => yes) /\ (Names(s, v) => row = Tag(v))
    BY <1>2, <2>1 DEF row
  <2> QED BY <1>2, <1>3, <1>7, <1>8, <2>2, <2>3, ReleaseInHand
<1>11. CASE InsertUnderSavepoint(t, row, TRUE, a) /\ ~ReleaseCommits(t)
  <2> DEFINE rows == Only(row, TRUE)
  <2>1. Publish(t, rows, {}, <<>>, a)
    BY <1>11 DEF InsertUnderSavepoint, Write
  <2>2. DOMAIN rows = {row} /\ rows[row] = TRUE
    BY OnlyFacts
  <2> HIDE DEF rows
  <2>3. /\ UNCHANGED <<engine, db>> /\ View(t)'[row] = TRUE
        /\ \A z \in Rows : z # row /\ z # Database => View(t)'[z] = View(t)[z]
        /\ \A z \in DOMAIN writes'[t] : z # row /\ z # Database =>
              z \in DOMAIN writes[t] /\ writes'[t][z] = writes[t][z]
    BY <1>3, <2>1, <2>2, PublishedRows
  <2>4. DOMAIN writes[t] \subseteq DOMAIN writes'[t]
    BY <2>1, PublishedWrites
  <2>5. ASSUME NEW n \in NodeIds PROVE Tends(t, n, s, a)
    <3>1. ASSUME NEW v \in Tags
          PROVE  /\ View(t)'[Mark(n, v)] = View(t)[Mark(n, v)]
                 /\ Mark(n, v) \in DOMAIN writes'[t] =>
                       /\ Mark(n, v) \in DOMAIN writes[t]
                       /\ writes'[t][Mark(n, v)] = writes[t][Mark(n, v)]
                 /\ View(t)[Tag(v)] \/ Names(s, v) => View(t)'[Tag(v)]
      <4>1. /\ Mark(n, v) \in Rows /\ Tag(v) \in Rows /\ Mark(n, v) # Database /\ Tag(v) # Database
            /\ row # Mark(n, v)
        BY <1>3, RowFacts DEF Mark, Tag, Database
      <4>2. Names(s, v) => Tag(v) = row
        BY <1>2 DEF row
      <4> QED BY <2>3, <4>1, <4>2
    <3>2. engine = "postgres" => /\ db' = db
                                 /\ s[1] = "insert_node" => Node(n) \in DOMAIN writes'[t] /\ db[Node(n)] = "absent"
      BY <1>2, <2>3
    <3>3. UNCHANGED engine /\ s[1] \in {"insert_node", "insert_tag"}
          /\ \A z \in ToSet(a) : ~Tagging(z) /\ Lowest(z) # 1
      BY <1>2, <1>8, <2>3
    <3>4. Node(n) \in DOMAIN writes[t] \/ Node(n) \notin DOMAIN writes'[t]
      <4>1. Node(n) # Database /\ Node(n) # row
        BY <1>3 DEF Node, Database
      <4> QED BY <2>3, <4>1
    <3> QED BY <2>4, <3>1, <3>2, <3>3, <3>4, InsertionTends, SMTT(40)
  <2>6. Lists(request[t]) => Tends(t, request[t].node, s, a)
    BY <1>2, <2>5, ListFacts DEF Doing
  <2>7. Cares(t, s, a)
    BY <1>2, <1>8, <2>3 DEF Cares
  <2>8. Owns(t, a)
    <3>1. row[1] # "mark" /\ row[1] # "node" /\ Database[1] # "mark" /\ Database[1] # "node"
      BY <1>3 DEF Database
    <3> QED BY <1>8, <2>3, <3>1 DEF Owns
  <2> QED BY <1>2, <1>7, <2>1, <2>6, <2>7, <2>8, PublishInHand
<1> QED BY <1>4, <1>9, <1>10, <1>11
-----------------------------------------------------------------------------
(* The rows of edges and marks.                                                         *)

LEMMA SweepInHand ==
    ASSUME IInv, IInv', TagsAreInHand, NEW t \in Threads, NEW s,
           s[1] \in {"delete_edge", "delete_child_edges", "delete_marks", "delete_tag_marks"},
           NEW R, IsFiniteSet(R), R \subseteq Rows, \A row \in R : row[1] \in {"edge", "mark"},
           s[1] \in {"delete_edge", "delete_child_edges"} => \A row \in R : row[1] = "edge",
           s[1] = "delete_tag_marks" => DeletesSomething(s),
           \A n, u : <<"delete_marks", n>> = s /\ View(t)[Mark(n, u)] /\ u \in Tags => Mark(n, u) \in R,
           \A n, u : s[1] = "delete_marks" /\ Mark(n, u) \in R => s = <<"delete_marks", n>>,
           DeleteRows(t, s, R)
    PROVE  TagsAreInHand'
<1>1. PICK found \in SetToSeqs(R) :
         Publish(t, <<>>, {}, <<>>, [i \in DOMAIN found |-> <<"remove_row", found[i]>>])
  BY DEF DeleteRows, Write
<1> DEFINE a == [i \in DOMAIN found |-> <<"remove_row", found[i]>>]
<1>2. PICK k \in Nat : /\ DOMAIN found = 1..k /\ \A i \in 1..k : found[i] \in R
                       /\ \A row \in R : \E i \in 1..k : found[i] = row
  BY ListHoldsAll
<1>3. a \in Seq(Statements) /\ Len(a) = k /\ \A i \in 1..k : a[i] = <<"remove_row", found[i]>>
  <2>1. \A row \in R : <<"remove_row", row>> \in Statements
    BY DEF Statements
  <2>2. a \in [1..k -> Statements]
    BY <1>2, <2>1
  <2> QED BY <1>2, <2>2
<1>4. Doing(t, s) /\ Publish(t, <<>>, {}, <<>>, a)
  BY <1>1 DEF DeleteRows
<1> HIDE DEF a
<1>5. ASSUME NEW x \in ToSet(a) PROVE \E row \in R : x = <<"remove_row", row>>
  <2>1. PICK i \in 1..k : x = a[i]
    BY <1>3, <1>5, Items
  <2> QED BY <1>2, <1>3, <2>1
<1>6. ASSUME NEW row \in R PROVE <<"remove_row", row>> \in ToSet(a)
  <2>1. PICK i \in 1..k : found[i] = row
    BY <1>2, <1>6
  <2>2. a[i] \in ToSet(a)
    BY <1>3, Items
  <2> QED BY <1>3, <2>1, <2>2
<1>7. /\ s # Finish /\ s[1] # "create_or_replace" /\ s[1] # "insert_node" /\ Lowest(s) \in {2, 3}
      /\ \A n, u : ~Sows(s, n, u) /\ ~Names(s, u)
      /\ s[1] = "delete_marks" => Clears(s)
  BY DEF Finish, Lowest, Wide, Stage, Sows, Names, Clears
<1>8. ASSUME NEW x \in ToSet(a)
      PROVE  /\ x[1] = "remove_row" /\ Lowest(x) # 1 /\ ~Fills(x)
             /\ \A n, u : ~Sows(x, n, u)
  <2>1. PICK row \in R : x = <<"remove_row", row>>
    BY <1>5, <1>8
  <2>2. x[1] = "remove_row" /\ x[2] = row /\ Rank(row) # 1 /\ Rank(row) # 0
    BY <2>1 DEF Rank
  <2> QED BY <2>2 DEF Lowest, Wide, Stage, Fills, Sows
<1>9. DOMAIN <<>> = {}
  OBVIOUS
<1>10. /\ UNCHANGED <<engine, db>>
       /\ \A row \in Rows : row # Database => View(t)'[row] = View(t)[row]
       /\ \A row \in DOMAIN writes'[t] : row # Database =>
             row \in DOMAIN writes[t] /\ writes'[t][row] = writes[t][row]
  BY <1>4, <1>9, PublishedRows
<1>11. /\ DOMAIN writes[t] \subseteq DOMAIN writes'[t]
       /\ \A row \in DOMAIN writes[t] : row # Database => writes'[t][row] = writes[t][row]
       /\ engine = "sqlite" => Open(t)'
  BY <1>4, <1>9, PublishedWrites
<1>12. ASSUME Lists(request[t]), NEW n \in NodeIds PROVE Tends(t, n, s, a)
  <2>1. s[1] # "delete_tag_marks"
    <3>1. ~Deleting(request[t])
      BY <1>12 DEF Lists, Deleting
    <3> QED BY <1>4, <1>7, <3>1, FirstFacts
  <2>2. ASSUME NEW x \in ToSet(a), Clears(x) PROVE s[1] = "delete_marks"
    <3>1. PICK row \in R : x = <<"remove_row", row>>
      BY <1>5, <2>2
    <3>2. row[1] = "mark"
      BY <2>2, <3>1 DEF Clears
    <3> QED BY <2>1, <3>2
  <2>3. ASSUME NEW x \in ToSet(a), NEW u \in Tags, Weeds(x, n, u) PROVE Weeds(s, n, u)
    <3>1. PICK row \in R : x = <<"remove_row", row>>
      BY <1>5, <2>3
    <3>2. row = Mark(n, u) /\ s[1] = "delete_marks"
      BY <2>2, <2>3, <3>1, ClearsOrFills DEF Weeds
    <3> QED BY <3>2 DEF Weeds
  <2>4. ASSUME NEW u \in Tags
        PROVE  /\ View(t)'[Mark(n, u)] = View(t)[Mark(n, u)] /\ View(t)'[Tag(u)] = View(t)[Tag(u)]
               /\ Mark(n, u) \in DOMAIN writes'[t] => Mark(n, u) \in DOMAIN writes[t]
               /\ Planted(t, n, u) => Planted(t, n, u)'
    <3>1. Mark(n, u) \in Rows /\ Tag(u) \in Rows /\ Mark(n, u) # Database /\ Tag(u) # Database
      BY RowFacts DEF Mark, Tag, Database
    <3> QED BY <1>10, <1>11, <3>1 DEF Planted
  <2>5. ASSUME NEW u \in Tags, Weeds(s, n, u), View(t)'[Mark(n, u)] PROVE Weeding(a, n, u)
    <3>1. s = <<"delete_marks", n>>
      BY <2>5 DEF Weeds
    <3>2. Mark(n, u) \in R
      BY <2>4, <2>5, <3>1
    <3> QED BY <1>6, <3>2 DEF Weeding, Weeds
  <2>6. Node(n) \in DOMAIN writes[t] \/ Node(n) \notin DOMAIN writes'[t]
    <3>1. Node(n) # Database
      BY DEF Node, Database
    <3> QED BY <1>10, <3>1
  <2> QED BY <1>7, <1>8, <1>10, <1>11, <2>2, <2>3, <2>4, <2>5, <2>6 DEF Tends
<1>13. Lists(request[t]) => Tends(t, request[t].node, s, a)
  BY <1>4, <1>12, ListFacts DEF Doing
<1>14. Cares(t, s, a)
  BY <1>7, <1>8, <1>10 DEF Cares
<1>15. Owns(t, a)
  <2>1. Database[1] # "mark" /\ Database[1] # "node"
    BY DEF Database
  <2> QED BY <1>8, <1>10, <2>1 DEF Owns
<1> QED BY <1>3, <1>4, <1>7, <1>13, <1>14, <1>15, PublishInHand

LEMMA SweepsInHand ==
    ASSUME IInv, IInv', TagsAreInHand, NEW t \in Threads,
           DeleteEdge(t) \/ DeleteChildEdges(t) \/ DeleteMarks(t) \/ DeleteTagMarks(t)
    PROVE  TagsAreInHand'
<1>1. /\ \A n \in NodeIds : ChildrenIn(View(t), n) \in SUBSET NodeIds /\ MarksIn(View(t), n) \in SUBSET Tags
      /\ \A u \in Tags : BearersIn(View(t), u) \in SUBSET NodeIds
      /\ \A n \in NodeIds : Edge(n) \in Rows /\ \A u \in Tags : Mark(n, u) \in Rows
      /\ \A c : Edge(c)[1] = "edge" /\ \A u : Mark(c, u)[1] = "mark"
  BY DEF ChildrenIn, MarksIn, BearersIn, Rows, Edge, Mark
<1>2. CASE DeleteEdge(t)
  <2>1. PICK n \in NodeIds : DeleteRows(t, <<"delete_edge", n>>, {e \in {Edge(n)} : View(t)[e] # NoNode})
    BY <1>2 DEF DeleteEdge
  <2> DEFINE s == <<"delete_edge", n>>
             R == {e \in {Edge(n)} : View(t)[e] # NoNode}
  <2>2. IsFiniteSet(R)
    BY FS_Singleton, FS_Subset
  <2>3. R \subseteq Rows /\ \A row \in R : row[1] = "edge"
    BY <1>1
  <2>4. s[1] = "delete_edge" /\ DeleteRows(t, s, R)
    BY <2>1
  <2> HIDE DEF s, R
  <2>5. \A n1 : <<"delete_marks", n1>> # s
    BY <2>4
  <2> QED BY <2>2, <2>3, <2>4, <2>5, SweepInHand
<1>3. CASE DeleteChildEdges(t)
  <2>1. PICK n \in NodeIds : DeleteRows(t, <<"delete_child_edges", n>>, {Edge(c) : c \in ChildrenIn(View(t), n)})
    BY <1>3 DEF DeleteChildEdges
  <2> DEFINE s == <<"delete_child_edges", n>>
             R == {Edge(c) : c \in ChildrenIn(View(t), n)}
  <2>2. IsFiniteSet(R)
    BY <1>1, FiniteRows
  <2>3. R \subseteq Rows /\ \A row \in R : row[1] = "edge"
    BY <1>1
  <2>4. s[1] = "delete_child_edges" /\ DeleteRows(t, s, R)
    BY <2>1
  <2> HIDE DEF s, R
  <2>5. \A n1 : <<"delete_marks", n1>> # s
    BY <2>4
  <2> QED BY <2>2, <2>3, <2>4, <2>5, SweepInHand
<1>4. CASE DeleteMarks(t)
  <2>1. PICK n \in NodeIds : DeleteRows(t, <<"delete_marks", n>>, {Mark(n, u) : u \in MarksIn(View(t), n)})
    BY <1>4 DEF DeleteMarks
  <2> DEFINE s == <<"delete_marks", n>>
             R == {Mark(n, u) : u \in MarksIn(View(t), n)}
  <2>2. IsFiniteSet(R)
    BY <1>1, FiniteRows
  <2>3. R \subseteq Rows /\ \A row \in R : row[1] = "mark"
    BY <1>1
  <2>4. s[1] = "delete_marks" /\ DeleteRows(t, s, R)
    BY <2>1
  <2>5. \A m, u : <<"delete_marks", m>> = s /\ View(t)[Mark(m, u)] /\ u \in Tags => Mark(m, u) \in R
    BY DEF MarksIn
  <2>6. \A m, u : Mark(m, u) \in R => s = <<"delete_marks", m>>
    BY DEF Mark
  <2> HIDE DEF s, R
  <2> QED BY <2>2, <2>3, <2>4, <2>5, <2>6, SweepInHand
<1>5. CASE DeleteTagMarks(t)
  <2>1. PICK u \in Tags : DeleteRows(t, <<"delete_tag_marks", u>>, {Mark(n, u) : n \in BearersIn(View(t), u)})
    BY <1>5 DEF DeleteTagMarks
  <2> DEFINE s == <<"delete_tag_marks", u>>
             R == {Mark(n, u) : n \in BearersIn(View(t), u)}
  <2>2. IsFiniteSet(R)
    BY <1>1, FiniteRows
  <2>3. R \subseteq Rows /\ \A row \in R : row[1] = "mark"
    BY <1>1
  <2>4. s[1] = "delete_tag_marks" /\ DeleteRows(t, s, R) /\ DeletesSomething(s)
    BY <2>1 DEF DeletesSomething
  <2> HIDE DEF s, R
  <2>5. \A n1 : <<"delete_marks", n1>> # s
    BY <2>4
  <2> QED BY <2>2, <2>3, <2>4, <2>5, SweepInHand
<1> QED BY <1>2, <1>3, <1>4, <1>5
-----------------------------------------------------------------------------
(* One row at a time, and the last deletion.                                             *)

LEMMA InsertEdgeInHand ==
    ASSUME IInv, IInv', TagsAreInHand, NEW t \in Threads, InsertEdge(t)
    PROVE  TagsAreInHand'
<1>1. PICK n \in NodeIds, p \in NodeIds :
         /\ Doing(t, <<"insert_edge", n, p>>)
         /\ \/ End(t, 500)
            \/ Publish(t, Only(Edge(n), p), References(todo[t][1]), <<>>, <<>>)
  BY DEF InsertEdge, Insert
<1> DEFINE s == <<"insert_edge", n, p>>
           rows == Only(Edge(n), p)
<1>2. s # Finish /\ ~Tagging(s) /\ s[1] # "insert_node" /\ Lowest(s) # 1 /\ Doing(t, s)
  BY <1>1 DEF Finish, Tagging, Clears, Fills, Lowest, Wide, Stage
<1>3. Edge(n) \in Rows /\ Edge(n)[1] = "edge"
  BY DEF Rows, Edge
<1>4. DOMAIN rows \subseteq Rows /\ \A x \in DOMAIN rows : x[1] # "mark" /\ x[1] # "tag" /\ x[1] # "node"
  <2>1. DOMAIN rows = {Edge(n)}
    BY OnlyFacts
  <2> HIDE DEF rows
  <2> QED BY <1>3, <2>1
<1>5. CASE End(t, 500)
  BY <1>5, EndInHand
<1>6. CASE Publish(t, rows, References(todo[t][1]), <<>>, <<>>)
  <2> HIDE DEF rows, s
  <2> QED BY <1>2, <1>4, <1>6, PlainWriteInHand
<1> QED BY <1>1, <1>5, <1>6

(* A statement that writes the row of a mark, and adds nothing to the program.           *)
LEMMA MarkWriteInHand ==
    ASSUME IInv, IInv', TagsAreInHand, NEW t \in Threads, NEW s, Doing(t, s), s # Finish, Tagging(s),
           s[1] \notin {"create_or_replace", "delete_marks"}, Lowest(s) # 1, \A u : ~Names(s, u),
           NEW m \in NodeIds, NEW w \in Tags, NEW rows, DOMAIN rows = {Mark(m, w)},
           NEW references, Publish(t, rows, references, <<>>, <<>>),
           NEW value \in BOOLEAN, rows[Mark(m, w)] = value, Deleting(request[t]) => ~value,
           \A n, u : Sows(s, n, u) <=> value /\ n = m /\ u = w,
           \A n, u : Weeds(s, n, u) <=> ~value /\ n = m /\ u = w
    PROVE  TagsAreInHand'
<1> PICK row : row = Mark(m, w)
  OBVIOUS
<1>1. row \in Rows /\ row # Database /\ row[1] = "mark" /\ Database[1] # "mark" /\ Database[1] # "node"
  BY RowFacts DEF Mark, Database
<1>2. ToSet(<<>>) = {} /\ <<>> \in Seq(Statements)
  BY DEF ToSet
<1>3. /\ UNCHANGED <<engine, db>> /\ View(t)'[row] = rows[row]
      /\ \A z \in Rows : z # row /\ z # Database => View(t)'[z] = View(t)[z]
      /\ \A z \in DOMAIN writes'[t] : z # row /\ z # Database =>
            z \in DOMAIN writes[t] /\ writes'[t][z] = writes[t][z]
  BY <1>1, PublishedRows
<1>4. /\ DOMAIN writes[t] \subseteq DOMAIN writes'[t] /\ row \in DOMAIN writes'[t] /\ writes'[t][row] = rows[row]
      /\ \A z \in DOMAIN writes[t] : z # row /\ z # Database => writes'[t][z] = writes[t][z]
      /\ engine = "sqlite" => Open(t)'
  BY PublishedWrites
<1>5. ASSUME NEW n \in NodeIds PROVE Tends(t, n, s, <<>>)
  <2>1. ASSUME NEW u \in Tags
        PROVE  /\ Sows(s, n, u) => Planted(t, n, u)'
               /\ Weeds(s, n, u) => ~View(t)'[Mark(n, u)]
               /\ Planted(t, n, u) /\ ~Weeds(s, n, u) => Planted(t, n, u)'
               /\ View(t)'[Mark(n, u)] => View(t)[Mark(n, u)] \/ Sows(s, n, u)
               /\ View(t)[Tag(u)] => View(t)'[Tag(u)]
    <3>1. /\ Mark(n, u) \in Rows /\ Tag(u) \in Rows /\ Mark(n, u) # Database /\ Tag(u) # Database
          /\ Tag(u) # row /\ (Mark(n, u) = row <=> n = m /\ u = w)
      BY <1>1, RowFacts DEF Mark, Tag, Database
    <3>2. CASE Mark(n, u) = row
      BY <1>3, <1>4, <3>1, <3>2 DEF Planted
    <3>3. CASE Mark(n, u) # row
      BY <1>3, <1>4, <3>1, <3>3 DEF Planted
    <3> QED BY <3>2, <3>3
  <2>2. s[1] # "insert_node"
    BY DEF Tagging, Clears, Fills
  <2>3. Node(n) \in DOMAIN writes[t] \/ Node(n) \notin DOMAIN writes'[t]
    <3>1. Node(n) # Database /\ Node(n) # row
      BY <1>1 DEF Node, Database
    <3> QED BY <1>3, <3>1
  <2> QED BY <1>2, <1>3, <1>4, <2>1, <2>2, <2>3 DEF Tends
<1>6. Lists(request[t]) => Tends(t, request[t].node, s, <<>>)
  BY <1>5, ListFacts DEF Doing
<1>7. Cares(t, s, <<>>)
  BY <1>2, <1>3 DEF Cares
<1>8. Owns(t, <<>>)
  <2>1. Deleting(request[t]) => rows[row] = FALSE
    <3>1. rows[row] = value
      OBVIOUS
    <3> QED BY <3>1
  <2> QED BY <1>1, <1>2, <1>3, <1>4, <2>1 DEF Owns
<1> QED BY <1>2, <1>6, <1>7, <1>8, PublishInHand

LEMMA InsertMarkInHand ==
    ASSUME IInv, IInv', TagsAreInHand, NEW t \in Threads, InsertMark(t)
    PROVE  TagsAreInHand'
<1>1. PICK n \in NodeIds, u \in Tags :
         /\ Doing(t, <<"insert_mark", n, u>>)
         /\ \/ End(t, 500)
            \/ Publish(t, Only(Mark(n, u), TRUE), References(todo[t][1]), <<>>, <<>>)
  BY DEF InsertMark, Insert
<1> DEFINE s == <<"insert_mark", n, u>>
<1>2. /\ s # Finish /\ Tagging(s) /\ Lowest(s) # 1 /\ Doing(t, s) /\ s[1] = "insert_mark"
      /\ \A m, w : (Sows(s, m, w) <=> m = n /\ w = u) /\ ~Weeds(s, m, w) /\ ~Names(s, w)
  BY <1>1 DEF Finish, Tagging, Clears, Fills, Lowest, Wide, Stage, Sows, Weeds, Names
<1> HIDE DEF s
<1>3. ~Deleting(request[t])
  <2>1. todo[t] \in Seq(Steps) /\ todo[t] # <<>> /\ s = todo[t][1] /\ <<>> \in Seq(Steps)
    BY <1>2, OvertakersAreThreads DEF Doing, Running
  <2>2. s \in ToSet(todo[t])
    BY <2>1, LaterItems
  <2> QED BY <1>2, <2>2 DEF TagsAreInHand, InHand, DeletesItsOwn
<1>4. CASE End(t, 500)
  BY <1>4, EndInHand
<1>5. CASE Publish(t, Only(Mark(n, u), TRUE), References(todo[t][1]), <<>>, <<>>)
  <2> DEFINE rows == Only(Mark(n, u), TRUE)
  <2>1. DOMAIN rows = {Mark(n, u)} /\ rows[Mark(n, u)] = TRUE /\ Publish(t, rows, References(todo[t][1]), <<>>, <<>>)
    BY <1>5, OnlyFacts
  <2> HIDE DEF rows
  <2>2. s[1] \notin {"create_or_replace", "delete_marks"} /\ \A w : ~Names(s, w)
    BY <1>2
  <2>3. PICK m, w : m = n /\ w = u
    OBVIOUS
  <2>7. PICK yes \in BOOLEAN : yes = TRUE
    OBVIOUS
  <2>4. /\ rows[Mark(m, w)] = yes
        /\ \A n1, u1 : Sows(s, n1, u1) <=> yes /\ n1 = m /\ u1 = w
        /\ \A n1, u1 : Weeds(s, n1, u1) <=> ~yes /\ n1 = m /\ u1 = w
        /\ Deleting(request[t]) => ~yes
    BY <1>2, <1>3, <2>1, <2>3, <2>7
  <2>5. m \in NodeIds /\ w \in Tags /\ DOMAIN rows = {Mark(m, w)}
    BY <2>1, <2>3
  <2>6. /\ s # Finish /\ Tagging(s) /\ Lowest(s) # 1 /\ Doing(t, s)
        /\ Publish(t, rows, References(todo[t][1]), <<>>, <<>>)
    BY <1>2, <2>1
  <2> QED BY <2>2, <2>4, <2>5, <2>6, MarkWriteInHand
<1> QED BY <1>1, <1>4, <1>5

LEMMA RemoveRowInHand ==
    ASSUME IInv, IInv', TagsAreInHand, NEW t \in Threads, RemoveRow(t)
    PROVE  TagsAreInHand'
<1>1. PICK row \in Rows :
         Doing(t, <<"remove_row", row>>) /\ Publish(t, Only(row, Gone(row)), {}, <<>>, <<>>)
  BY DEF RemoveRow, Write
<1> DEFINE s == <<"remove_row", row>>
           rows == Only(row, Gone(row))
<1>2. s # Finish /\ s[1] = "remove_row" /\ s[2] = row /\ Doing(t, s)
  BY <1>1 DEF Finish
<1>3. row[1] \in {"edge", "mark"} /\ Lowest(s) # 1
  <2>1. s \in Statements
    BY <1>2, FirstFacts
  <2> HIDE DEF s
  <2>2. row[1] \in {"edge", "mark"}
    BY <1>2, <2>1, Contents
  <2> QED BY <1>2, <2>2 DEF Lowest, Wide, Stage, Rank
<1>4. DOMAIN rows = {row} /\ rows[row] = Gone(row) /\ Publish(t, rows, {}, <<>>, <<>>)
  BY <1>1, OnlyFacts
<1> HIDE DEF s, rows
<1>5. CASE row[1] = "edge"
  <2>1. ~Tagging(s) /\ s[1] # "insert_node" /\ DOMAIN rows \subseteq Rows
        /\ \A x \in DOMAIN rows : x[1] # "mark" /\ x[1] # "tag" /\ x[1] # "node"
    BY <1>2, <1>4, <1>5 DEF Tagging, Clears, Fills
  <2> QED BY <1>2, <1>3, <1>4, <2>1, PlainWriteInHand
<1>6. CASE row[1] = "mark"
  <2>1. PICK m \in NodeIds, w \in Tags : row = Mark(m, w)
    BY <1>6 DEF Rows, Node, Edge, Tag, Sequence, Database
  <2>2. /\ Tagging(s) /\ s[1] \notin {"create_or_replace", "delete_marks"}
        /\ \A u : ~Names(s, u) /\ \A n : ~Sows(s, n, u) /\ (Weeds(s, n, u) <=> n = m /\ u = w)
    BY <1>2, <1>6, <2>1 DEF Tagging, Clears, Names, Sows, Weeds, s, Mark
  <2>3. Gone(row) = FALSE
    BY <1>6 DEF Gone
  <2>4. PICK no \in BOOLEAN : no = Gone(row) /\ ~no
    BY <2>3
  <2>5. /\ DOMAIN rows = {Mark(m, w)} /\ rows[Mark(m, w)] = no
        /\ \A n1, u1 : Sows(s, n1, u1) <=> no /\ n1 = m /\ u1 = w
        /\ \A n1, u1 : Weeds(s, n1, u1) <=> ~no /\ n1 = m /\ u1 = w
        /\ Deleting(request[t]) => ~no
    <3>1. DOMAIN rows = {Mark(m, w)} /\ rows[Mark(m, w)] = no
      BY <1>4, <2>1, <2>4
    <3>2. \A n1, u1 : Sows(s, n1, u1) <=> no /\ n1 = m /\ u1 = w
      BY <2>2, <2>4
    <3>3. \A n1, u1 : Weeds(s, n1, u1) <=> ~no /\ n1 = m /\ u1 = w
      BY <2>2, <2>4
    <3> QED BY <2>4, <3>1, <3>2, <3>3
  <2> QED BY <1>2, <1>3, <1>4, <2>2, <2>5, MarkWriteInHand
<1> QED BY <1>3, <1>5, <1>6

LEMMA CascadeOfMarks ==
    ASSUME NEW v
    PROVE  /\ \A n : \A row \in Cascade(v, Node(n)) : row[1] # "node"
           /\ \A u : \A row \in Cascade(v, Tag(u)) : row[1] # "node"
<1>1. /\ \A n : Node(n)[1] = "node" /\ Edge(n)[1] = "edge" /\ \A u : Mark(n, u)[1] = "mark"
      /\ \A u : Tag(u)[1] = "tag"
  BY DEF Node, Edge, Mark, Tag
<1>2. ASSUME NEW row0, NEW row \in Cascade(v, row0) PROVE row[1] # "node"
  BY <1>1, <1>2 DEF Cascade
<1> QED BY <1>2

LEMMA LastDeletionInHand ==
    ASSUME IInv, IInv', TagsAreInHand, NEW t \in Threads, NEW s, s # Finish, DeletesSomething(s),
           s[1] \in {"delete_node", "delete_tag"}, NEW row \in Rows, row[1] \in {"node", "tag"},
           row[1] = "node" => s[1] = "delete_node" /\ row[2] = s[2],
           Cascade(View(t), row) \subseteq Rows, \A x \in Cascade(View(t), row) : x[1] # "node",
           DeleteLast(t, s, row)
    PROVE  TagsAreInHand'
<1> DEFINE rows == [r \in {row} \cup (IF engine = "postgres" THEN Cascade(View(t), row) ELSE {}) |-> Gone(r)]
<1>1. /\ Doing(t, s)
      /\ End(t, 404) \/ Publish(t, rows, {}, <<>>, <<>>)
  BY DEF DeleteLast, Write
<1>2. /\ DOMAIN rows \subseteq Rows
      /\ \A x \in DOMAIN rows : rows[x] = Gone(x) /\ (x[1] = "node" => x = row)
  OBVIOUS
<1> HIDE DEF rows
<1>3. Deleting(request[t])
  BY <1>1, FirstFacts
<1>4. ~Lists(request[t]) /\ ~Bodies(request[t]) /\ s[1] # "create_or_replace"
  BY <1>3 DEF Lists, Bodies, Deleting
<1>5. ToSet(<<>>) = {} /\ <<>> \in Seq(Statements)
  BY DEF ToSet
<1>6. CASE End(t, 404)
  BY <1>6, EndInHand
<1>7. CASE Publish(t, rows, {}, <<>>, <<>>)
  <2>1. row[1] = "node" => request[t] = [op |-> "DELETE", node |-> row[2]]
    <3>1. todo[t] \in Seq(Steps) /\ todo[t] # <<>> /\ s = todo[t][1] /\ <<>> \in Seq(Steps)
      BY <1>1, OvertakersAreThreads DEF Doing, Running
    <3>2. s \in ToSet(todo[t])
      BY <3>1, LaterItems
    <3> QED BY <1>3, <3>2 DEF TagsAreInHand, InHand, DeletesItsOwn
  <2>2. \A z \in DOMAIN writes'[t] :
           \/ z = Database
           \/ z \in DOMAIN rows /\ writes'[t][z] = rows[z]
           \/ z \in DOMAIN writes[t] /\ writes'[t][z] = writes[t][z]
    BY <1>2, <1>7, PublishedRows
  <2>3. Owns(t, <<>>)
    <3>1. Database[1] # "mark" /\ Database[1] # "node"
      BY DEF Database
    <3>2. ASSUME NEW z \in DOMAIN rows PROVE z[1] = "mark" => rows[z] = FALSE
      BY <1>2, <3>2 DEF Gone
    <3> QED BY <1>2, <1>5, <2>1, <2>2, <3>1, <3>2 DEF Owns
  <2>4. Cares(t, s, <<>>)
    BY <1>4 DEF Cares
  <2> QED BY <1>1, <1>4, <1>5, <1>7, <2>3, <2>4, PublishInHand
<1> QED BY <1>1, <1>6, <1>7

LEMMA LastDeletionsInHand ==
    ASSUME IInv, IInv', TagsAreInHand, NEW t \in Threads, DeleteNodeRow(t) \/ DeleteTagRow(t)
    PROVE  TagsAreInHand'
<1>1. ASSUME NEW n \in NodeIds, DeleteLast(t, <<"delete_node", n>>, Node(n))
      PROVE  TagsAreInHand'
  <2> DEFINE s == <<"delete_node", n>>
             row == Node(n)
  <2>1. s # Finish /\ DeletesSomething(s) /\ s[1] = "delete_node" /\ s[2] = n /\ DeleteLast(t, s, row)
    BY <1>1 DEF Finish, DeletesSomething
  <2>2. /\ row \in Rows /\ Cascade(View(t), row) \subseteq Rows /\ row[1] = "node" /\ row[2] = n
        /\ \A x \in Cascade(View(t), row) : x[1] # "node"
    BY CascadeFacts, CascadeOfMarks DEF Node
  <2> HIDE DEF s, row
  <2> QED BY <2>1, <2>2, LastDeletionInHand
<1>2. ASSUME NEW u \in Tags, DeleteLast(t, <<"delete_tag", u>>, Tag(u))
      PROVE  TagsAreInHand'
  <2> DEFINE s == <<"delete_tag", u>>
             row == Tag(u)
  <2>1. s # Finish /\ DeletesSomething(s) /\ s[1] = "delete_tag" /\ DeleteLast(t, s, row)
    BY <1>2 DEF Finish, DeletesSomething
  <2>2. /\ row \in Rows /\ Cascade(View(t), row) \subseteq Rows /\ row[1] = "tag"
        /\ \A x \in Cascade(View(t), row) : x[1] # "node"
    BY CascadeFacts, CascadeOfMarks DEF Tag
  <2> HIDE DEF s, row
  <2> QED BY <2>1, <2>2, LastDeletionInHand
<1> QED BY <1>1, <1>2 DEF DeleteNodeRow, DeleteTagRow

LEMMA EventsInHand ==
    ASSUME IInv, IInv', TagsAreInHand, NEW t \in Threads, Announce(t) \/ AppendEvent(t)
    PROVE  TagsAreInHand'
<1> DEFINE rows == Only(Sequence, TRUE)
<1>1. ASSUME NEW s, Doing(t, s), s[1] \in {"announce", "append"}, NEW events, Publish(t, rows, {}, events, <<>>)
      PROVE  TagsAreInHand'
  <2>1. DOMAIN rows = {Sequence} /\ Sequence \in Rows /\ Sequence[1] = "event_sequence"
    <3>1. DOMAIN rows = {Sequence}
      BY OnlyFacts
    <3> HIDE DEF rows
    <3> QED BY <3>1 DEF Rows, Sequence
  <2> HIDE DEF rows
  <2>2. s # Finish /\ ~Tagging(s) /\ s[1] # "insert_node" /\ Lowest(s) # 1
    BY <1>1 DEF Finish, Tagging, Clears, Fills, Lowest, Wide, Stage
  <2>3. DOMAIN rows \subseteq Rows /\ \A x \in DOMAIN rows : x[1] # "mark" /\ x[1] # "tag" /\ x[1] # "node"
    BY <2>1
  <2> QED BY <1>1, <2>2, <2>3, PlainWriteInHand
<1>2. CASE AppendEvent(t)
  <2>1. PICK s : Doing(t, s) /\ s[1] = "append"
    BY <1>2 DEF AppendEvent, Doing
  <2>2. \E events : Publish(t, rows, {}, events, <<>>)
    BY <1>2 DEF AppendEvent, PublishEvent
  <2> HIDE DEF rows
  <2> QED BY <1>1, <2>1, <2>2
<1>3. CASE Announce(t)
  <2>1. CASE Begins(t)
    BY <2>1, PiecesInHand
  <2>2. CASE \E n \in NodeIds : Doing(t, <<"announce", n>>) /\ Read(t, <<>>)
    <3>1. PICK n \in NodeIds : Doing(t, <<"announce", n>>) /\ Learn(t, seen[t], <<>>)
      BY <2>2 DEF Read
    <3> DEFINE s == <<"announce", n>>
    <3>2. s # Finish /\ ~Tagging(s) /\ Lowest(s) # 1 /\ Doing(t, s)
      BY <3>1 DEF Finish, Tagging, Clears, Fills, Lowest, Wide, Stage
    <3>3. ToSet(<<>>) = {} /\ <<>> \in Seq(Statements)
      BY DEF ToSet
    <3> HIDE DEF s
    <3> QED BY <3>1, <3>2, <3>3, LooksInHand
  <2>3. CASE \E n \in NodeIds : /\ Doing(t, <<"announce", n>>)
                               /\ PublishEvent(t, n, Representation(View(t), n))
    <3>1. PICK n \in NodeIds : /\ Doing(t, <<"announce", n>>)
                               /\ PublishEvent(t, n, Representation(View(t), n))
      BY <2>3
    <3> DEFINE s == <<"announce", n>>
    <3>2. s[1] = "announce" /\ Doing(t, s) /\ \E events : Publish(t, rows, {}, events, <<>>)
      BY <3>1 DEF PublishEvent
    <3> HIDE DEF s, rows
    <3> QED BY <1>1, <3>2
  <2> QED BY <1>3, <2>1, <2>2, <2>3, AnnounceCases
<1> QED BY <1>2, <1>3
-----------------------------------------------------------------------------
(* How a request begins.                                                                 *)

LEMMA DecisionJoins ==
    ASSUME NEW n \in NodeIds
    PROVE  << <<"create_or_replace", n>>, Finish >> = << <<"create_or_replace", n>> >> \o <<Finish>>
BY DEF Finish

LEMMA ProgramOfList ==
    ASSUME NEW r \in Requests, Lists(r)
    PROVE  LET a == Program(r) \o <<Finish>>
           IN  /\ \/ r.op = "PUT" /\ a = << <<"create_or_replace", r.node>>, Finish >>
                  \/ Tagged(a, r.node, ToSet(r.tags))
                  \/ /\ r.op = "POST" /\ r.tags = <<>> /\ Plain(a)
                     /\ \E x \in ToSet(a) : x[1] = "insert_node"
               /\ r.op \in {"POST", "PUT"} => Tame(a)
               /\ LocksNode(r) => \E x \in ToSet(a) : Lowest(x) = 1
<1>1. CASE r.op = "PUT"
  <2>1. Program(r) = << <<"create_or_replace", r.node>> >>
    BY <1>1 DEF Program
  <2>2. r.node \in NodeIds
    BY <1>1 DEF Requests, Creations, Changes, Deletions, TagRequests
  <2>3. PICK n \in NodeIds : n = r.node
    BY <2>2
  <2>4. Program(r) \o <<Finish>> = << <<"create_or_replace", n>>, Finish >>
    BY <2>1, <2>3, DecisionJoins
  <2> DEFINE x == <<"create_or_replace", n>>
             b == << <<"create_or_replace", n>>, Finish >>
  <2>5. ToSet(b) = {x, Finish}
    BY DEF ToSet
  <2>6. x[1] # "update_node" /\ Finish[1] # "update_node" /\ Lowest(x) = 1
    BY DEF Finish, Lowest, Wide
  <2>7. b = << <<"create_or_replace", r.node>>, Finish >>
    BY <2>3
  <2> HIDE DEF x
  <2>8. Tame(b) /\ \E y \in ToSet(b) : Lowest(y) = 1
    BY <2>5, <2>6 DEF Tame
  <2> QED BY <1>1, <2>4, <2>7, <2>8
<1>2. CASE r.op = "POST"
  <2>1. /\ r.node \in NodeIds /\ r.kind \in Kinds /\ r.parent \in NodeIds \cup {NoNode} /\ r.tags \in Seq(Tags)
        /\ Program(r) = CreateNode(r.node, r.kind, r.parent, r.tags)
    BY <1>2 DEF Requests, Creations, Changes, Deletions, TagRequests, Program
  <2> DEFINE x == <<"insert_node", r.node, r.kind>>
             a == CreateNode(r.node, r.kind, r.parent, r.tags) \o <<Finish>>
  <2>2. /\ r.tags # <<>> => Tagged(a, r.node, ToSet(r.tags))
        /\ r.tags = <<>> => Plain(a)
        /\ Tame(a) /\ x \in ToSet(a)
    BY <2>1, CreateNodeTagged
  <2>3. x[1] = "insert_node" /\ Lowest(x) = 1 /\ Program(r) \o <<Finish>> = a
    BY <2>1 DEF Lowest, Wide, Stage
  <2> HIDE DEF x, a
  <2> QED BY <1>2, <2>2, <2>3
<1>3. CASE r.op = "PATCH"
  <2>1. /\ r.node \in NodeIds /\ r.kind \in Kinds \cup {Keep, Relabel} /\ r.parent \in NodeIds \cup {NoNode, Keep}
        /\ r.tags \in Seq(Tags) \cup {Keep}
        /\ Program(r) = UpdateNode(r.node, r.kind, r.parent, r.tags)
    BY <1>3 DEF Requests, Creations, Changes, Deletions, TagRequests, Program
  <2>2. r.tags # Keep /\ r.tags \in Seq(Tags)
    BY <1>3, <2>1 DEF Lists
  <2> DEFINE x == <<"update_node", r.node, r.kind>>
             a == UpdateNode(r.node, r.kind, r.parent, r.tags) \o <<Finish>>
  <2>3. Tagged(a, r.node, ToSet(r.tags)) /\ (r.kind # Keep => x \in ToSet(a))
    BY <2>1, <2>2, UpdateNodeTagged
  <2>4. Lowest(x) = 1 /\ Program(r) \o <<Finish>> = a /\ (LocksNode(r) => r.kind # Keep)
    BY <1>3, <2>1 DEF Lowest, Wide, Stage, LocksNode
  <2> HIDE DEF x, a
  <2> QED BY <1>3, <2>3, <2>4
<1> QED BY <1>1, <1>2, <1>3 DEF Lists

LEMMA ProgramOfDeletion ==
    ASSUME NEW r \in Requests, Deleting(r), NEW i \in 1..Len(Program(r))
    PROVE  /\ Program(r)[i][1] \notin {"insert_marks", "insert_mark"}
           /\ Program(r)[i][1] = "delete_node" => r = [op |-> "DELETE", node |-> Program(r)[i][2]]
<1>1. CASE r.op = "DELETE"
  <2>1. r \in Deletions
    BY <1>1 DEF Requests, Creations, Changes, Deletions, TagRequests
  <2>2. r = [op |-> "DELETE", node |-> r.node] /\ Program(r) = DeleteNode(r.node)
    BY <1>1, <2>1 DEF Deletions, Program
  <2>3. PICK n : n = r.node
    OBVIOUS
  <2>4. i \in 1..10 /\ Program(r)[i] = DeleteNode(n)[i]
    <3>1. Len(DeleteNode(n)) = 10
      BY DEF DeleteNode
    <3> QED BY <2>2, <2>3, <3>1
  <2>5. \/ DeleteNode(n)[i] = <<"delete_node", n>>
        \/ DeleteNode(n)[i][1] \in {"fetch_node", "fetch_parent", "find_home", "fetch_children", "reassign_children",
                                    "delete_child_edges", "delete_edge", "delete_marks", "announce_deletion"}
    BY <2>4 DEF DeleteNode
  <2> QED BY <2>2, <2>3, <2>4, <2>5
<1>2. CASE r.op = "DELETE tag"
  <2>1. Program(r) = DeleteTag(r.tag)
    BY <1>2 DEF Program
  <2>2. i \in 1..5 /\ Program(r)[i] = DeleteTag(r.tag)[i]
    <3>1. Len(DeleteTag(r.tag)) = 5
      BY DEF DeleteTag
    <3> QED BY <2>1, <3>1
  <2>3. DeleteTag(r.tag)[i][1] \in {"fetch_tag", "fetch_bearers", "delete_tag_marks", "delete_tag", "announce_bearers"}
    BY <2>2 DEF DeleteTag
  <2> QED BY <2>2, <2>3
<1> QED BY <1>1, <1>2 DEF Deleting

LEMMA StartInHand ==
    ASSUME IInv, IInv', TagsAreInHand, NEW t \in Threads, Start(t)
    PROVE  TagsAreInHand'
<1>1. /\ UNCHANGED <<engine, setting, db, writes, overtook>>
      /\ request[t] = NoRequest /\ setting \in Settings /\ request \in [Threads -> Requests \cup {NoRequest}]
      /\ DOMAIN todo = Threads /\ ThreadOK(t)
  BY DEF Start, IInv, Typed, Domains
<1>2. PICK r \in setting.requests :
         /\ request' = [request EXCEPT ![t] = r]
         /\ todo' = [todo EXCEPT ![t] = Program(r) \o <<Finish>>]
  BY DEF Start, Finish
<1>3. r \in Requests
  BY <1>1, TransactionsAssumption
<1>4. /\ todo'[t] = Program(r) \o <<Finish>> /\ request'[t] = r
      /\ \A o \in Threads \ {t} : todo'[o] = todo[o] /\ request'[o] = request[o]
  BY <1>1, <1>2
<1>5. NoRequest.op = "none" /\ r.op # "none"
  BY <1>3 DEF NoRequest, Requests, Creations, Changes, Deletions, TagRequests
<1>6. DOMAIN writes'[t] = {} /\ DOMAIN writes[t] = {}
  <2>1. request[t] \notin Requests
    BY <1>1, <1>5 DEF Requests, Creations, Changes, Deletions, TagRequests
  <2> QED BY <1>1, <2>1 DEF ThreadOK
<1>7. ASSUME NEW o \in Threads, o # t PROVE InHand(o)'
  <2>1. (NodeWent(o) => NodeWent(o)') /\ (Met(o) => Met(o)')
    BY <1>1, <1>4, <1>7, MoreMet
  <2>2. Waits(o)
    BY <1>1, <1>4, <1>7, <2>1, SelfPasses, OvertakersAreThreads DEF Waits
  <2>3. View(o)' = View(o) /\ todo'[o] = todo[o]
    BY <1>1, <1>4, <1>7 DEF View, Over
  <2>4. \A n : SparesNode(o, n) /\ SparesMarks(o, n) /\ SparesTags(o)
    BY <1>1, <2>3 DEF SparesNode, SparesMarks, SparesTags
  <2> QED BY <2>2, <2>4, OthersInHand DEF TagsAreInHand
<1>8. InHand(t)'
  <2> DEFINE a == Program(r)
             p == a \o <<Finish>>
  <2>1. a \in Seq(Statements)
    BY <1>3, ProgramPart DEF Part
  <2>2. todo'[t] = p
    BY <1>4
  <2>3. Lists(r) => /\ \/ r.op = "PUT" /\ p = << <<"create_or_replace", r.node>>, Finish >>
                       \/ Tagged(p, r.node, ToSet(r.tags))
                       \/ /\ r.op = "POST" /\ r.tags = <<>> /\ Plain(p)
                          /\ \E x \in ToSet(p) : x[1] = "insert_node"
                    /\ r.op \in {"POST", "PUT"} => Tame(p)
                    /\ LocksNode(r) => \E x \in ToSet(p) : Lowest(x) = 1
    BY <1>3, ProgramOfList
  <2>4. Deleting(r) => \A i \in 1..Len(a) :
           /\ a[i][1] \notin {"insert_marks", "insert_mark"}
           /\ a[i][1] = "delete_node" => r = [op |-> "DELETE", node |-> a[i][2]]
    BY <1>3, ProgramOfDeletion
  <2> HIDE DEF a
  <2>5. ToSet(p) = ToSet(a) \cup {Finish}
    <3> DEFINE b == <<Finish>>
    <3>1. a \in Seq(Steps) /\ b \in Seq(Steps) /\ ToSet(b) = {Finish}
      BY <2>1, StatementsAreMore, SingleItem DEF Steps
    <3> HIDE DEF b
    <3>2. ToSet(a \o b) = ToSet(a) \cup ToSet(b)
      BY <3>1, JoinedItems
    <3> QED BY <3>1, <3>2 DEF b
  <2> HIDE DEF p
  <2>6. Finish[1] = "commit"
    BY DEF Finish
  <2>7. TagsInHand(t)'
    <3> SUFFICES ASSUME Lists(r) PROVE TagsInHand(t)'
      BY <1>4 DEF TagsInHand
    <3> PICK n, L : n = r.node /\ L = ToSet(r.tags)
      OBVIOUS
    <3>1. CASE r.op = "PUT" /\ p = << <<"create_or_replace", r.node>>, Finish >>
      BY <1>4, <2>2, <3>1 DEF TagsInHand, Undecided
    <3>2. CASE Tagged(p, r.node, ToSet(r.tags))
      <4>1. KeepsToList(todo[t], n, L)' /\ Clearing(todo[t], n)'
        BY <2>2, <3>2 DEF Tagged
      <4>2. \A u \in L : Sowing(todo[t], n, u)' /\ Naming(todo[t], u)'
        BY <2>2, <3>2 DEF Tagged
      <4>3. Gathering(t, n, L)'
        BY <4>1, <4>2 DEF Gathering
      <4>4. n = request'[t].node /\ L = ToSet(request'[t].tags)
        BY <1>4
      <4> QED BY <4>3, <4>4 DEF TagsInHand
    <3>3. CASE r.op = "POST" /\ r.tags = <<>> /\ Plain(p) /\ \E x \in ToSet(p) : x[1] = "insert_node"
      <4>1. /\ \A x \in ToSet(p) : ~Tagging(x) /\ x[1] # "update_node"
            /\ \E x \in ToSet(p) : x[1] = "insert_node"
        BY <2>3, <3>3 DEF Plain, Tame
      <4>2. request'[t].op = "POST" /\ request'[t].tags = <<>>
        BY <1>4, <3>3
      <4>3. Bare(t, n)'
        BY <1>6, <2>2, <4>1, <4>2 DEF Bare
      <4> QED BY <1>4, <4>3 DEF TagsInHand
    <3> QED BY <2>3, <3>1, <3>2, <3>3
  <2>8. HoldsNode(t)'
    BY <1>4, <2>2, <2>3 DEF HoldsNode
  <2>9. ASSUME NEW x \in ToSet(p) PROVE x = Finish \/ \E i \in 1..Len(a) : x = a[i]
    BY <2>1, <2>5, <2>9, Items
  <2>10. FindsNode(t)'
    <3>1. r.op \in {"POST", "PUT"} => \A x \in ToSet(p) : x[1] # "update_node"
      BY <2>3 DEF Lists, Tame
    <3> QED BY <1>4, <2>2, <3>1 DEF FindsNode
  <2>11. DeletesItsOwn(t)'
    <3>1. Deleting(r) => \A x \in ToSet(p) :
             /\ x[1] \notin {"insert_marks", "insert_mark"}
             /\ x[1] = "delete_node" => r = [op |-> "DELETE", node |-> x[2]]
      BY <2>4, <2>6, <2>9
    <3> QED BY <1>4, <1>6, <2>2, <3>1 DEF DeletesItsOwn
  <2> QED BY <2>7, <2>8, <2>10, <2>11 DEF InHand
<1> QED BY <1>7, <1>8 DEF TagsAreInHand
-----------------------------------------------------------------------------
(* A commit, and those who have not committed yet.                                       *)

LEMMA OnlyFinishLeft ==
    ASSUME IInv, NEW t \in Threads, Doing(t, Finish)
    PROVE  Running(t) /\ \A x \in ToSet(todo[t]) : x = Finish
<1>1. \A o \in Threads : todo[o] \in Seq(Statements \cup {Finish})
  BY DEF IInv, Typed, ThreadOK, Rest
<1>2. Running(t) /\ todo[t][1] = Finish
  BY DEF Doing, Running
<1>3. ASSUME NEW x \in ToSet(todo[t]) PROVE x = Finish
  <2>1. Rest(todo[t], Scope(request[t]), Deleting(request[t]))
    BY DEF IInv, Typed, ThreadOK
  <2>2. \A i \in 1..Len(todo[t]) : todo[t][i] = Finish <=> i = Len(todo[t])
    BY <2>1 DEF Rest
  <2>3. todo[t] # <<>> /\ Len(todo[t]) \in Nat
    BY <1>1, <1>2 DEF Running
  <2>6. Len(todo[t]) # 0
    BY <1>1, <2>3
  <2>4. Len(todo[t]) = 1
    <3>1. 1 \in 1..Len(todo[t])
      BY <2>3, <2>6
    <3> QED BY <1>2, <2>2, <3>1
  <2>5. PICK i \in 1..Len(todo[t]) : x = todo[t][i]
    BY <1>1, <1>3, Items
  <2> QED BY <1>2, <2>4, <2>5
<1> QED BY <1>2, <1>3

LEMMA CommitFacts ==
    ASSUME IInv, NEW t \in Threads, Commit(t)
    PROVE  /\ UNCHANGED <<engine, request>> /\ Running(t) /\ todo'[t] = <<>> /\ writes'[t] = <<>>
           /\ \A x \in ToSet(todo[t]) : x = Finish
           /\ \A o \in Threads : overtook[o] \subseteq overtook'[o]
           /\ \A o \in Threads \ {t} :
                 /\ writes'[o] = writes[o] /\ todo[o] \in Seq(Steps) /\ Passes(todo[o], todo'[o])
                 /\ Running(o) => t \in overtook'[o]
                 /\ \A row : <<"remove_row", row>> \in ToSet(todo[o]) =>
                       <<"remove_row", row>> \in ToSet(todo'[o]) \/ row \in DOMAIN writes[t]
           /\ \A row \in Rows : db'[row] = IF row \in DOMAIN writes[t] THEN writes[t][row] ELSE db[row]
<1> DEFINE passedBy(s) == s[1] = "remove_row" /\ s[2] \in DOMAIN writes[t]
<1>1. /\ UNCHANGED <<engine, setting, request, seen>> /\ Overtake(t) /\ Doing(t, Finish)
      /\ todo' = [o \in Threads |->
                     IF o = t THEN <<>>
                     ELSE [i \in DOMAIN todo[o] |-> IF passedBy(todo[o][i]) THEN <<"pass_by">> ELSE todo[o][i]]]
      /\ writes' = [writes EXCEPT ![t] = <<>>]
      /\ DOMAIN writes = Threads
  BY DEF Commit, Finish, IInv, Typed, Domains
<1>2. todo'[t] = <<>> /\ writes'[t] = <<>> /\ \A o \in Threads \ {t} : writes'[o] = writes[o]
  BY <1>1
<1>3. \A o \in Threads : todo[o] \in Seq(Statements \cup {Finish})
  BY DEF IInv, Typed, ThreadOK, Rest
<1>4. ASSUME NEW o \in Threads \ {t}
      PROVE  /\ Passes(todo[o], todo'[o])
             /\ \A row : <<"remove_row", row>> \in ToSet(todo[o]) =>
                   <<"remove_row", row>> \in ToSet(todo'[o]) \/ row \in DOMAIN writes[t]
  <2> DEFINE S == Statements \cup {Finish}
  <2>1. <<"pass_by">> \in S /\ todo[o] \in Seq(S)
    BY <1>3 DEF Statements
  <2>2. todo'[o] = [i \in DOMAIN todo[o] |-> IF passedBy(todo[o][i]) THEN <<"pass_by">> ELSE todo[o][i]]
    BY <1>1
  <2> HIDE DEF S
  <2>3. /\ todo'[o] \in Seq(S) /\ Len(todo'[o]) = Len(todo[o])
        /\ \A i \in 1..Len(todo[o]) : todo'[o][i] = todo[o][i]
                                      \/ (todo[o][i][1] = "remove_row" /\ todo'[o][i] = <<"pass_by">>)
    BY <2>1, <2>2
  <2>4. \A i \in 1..Len(todo[o]) : todo'[o][i] = IF passedBy(todo[o][i]) THEN <<"pass_by">> ELSE todo[o][i]
    BY <2>1, <2>2
  <2>5. ASSUME NEW row, <<"remove_row", row>> \in ToSet(todo[o]), row \notin DOMAIN writes[t]
        PROVE  <<"remove_row", row>> \in ToSet(todo'[o])
    <3>1. PICK i \in 1..Len(todo[o]) : todo[o][i] = <<"remove_row", row>>
      BY <2>1, <2>5, Items
    <3>2. todo[o][i][2] = row
      BY <3>1
    <3>3. todo'[o][i] = <<"remove_row", row>>
      BY <2>4, <2>5, <3>1, <3>2
    <3>4. i \in 1..Len(todo'[o])
      BY <2>3
    <3> DEFINE r == todo'[o]
    <3>5. r \in Seq(S)
      BY <2>3
    <3>6. r[i] \in ToSet(r)
      BY <3>4, <3>5, Items
    <3> QED BY <3>3, <3>6
  <2> QED BY <2>3, <2>1, <2>5 DEF Passes, S
<1>5. /\ \A o \in Threads : overtook[o] \subseteq overtook'[o]
      /\ \A o \in Threads \ {t} : Running(o) => t \in overtook'[o]
  BY <1>1 DEF Overtake
<1>6. \A row \in Rows : db'[row] = IF row \in DOMAIN writes[t] THEN writes[t][row] ELSE db[row]
  BY CommitsItsView
<1>7. Running(t) /\ todo[t][1] = Finish
  BY <1>1 DEF Doing, Running
<1>8. \A x \in ToSet(todo[t]) : x = Finish
  BY <1>1, OnlyFinishLeft
<1> QED BY <1>1, <1>2, <1>3, <1>4, <1>5, <1>6, <1>7, <1>8 DEF Steps

LEMMA CommitPlants ==
    ASSUME IInv, TagsAreInHand, NEW t \in Threads, Commit(t), engine = "postgres",
           NEW o \in Threads \ {t}, Running(o), Lists(request[o]), NEW L, Laying(o, request[o].node, L),
           NEW u \in Tags, NEW row \in DOMAIN writes[t], row = Mark(request[o].node, u), writes[t][row] # FALSE
    PROVE  Met(o)'
<1> PICK n : n = request[o].node
  OBVIOUS
<1>1. /\ UNCHANGED <<engine, request>> /\ Running(t) /\ t \in overtook'[o]
      /\ \A x \in ToSet(todo[t]) : x = Finish
      /\ \A x \in Threads : overtook[x] \subseteq overtook'[x]
  BY CommitFacts
<1>2. row = <<"mark", n, u>>
  BY DEF Mark
<1>3. ~Deleting(request[t])
  <2>1. DeletesItsOwn(t)
    BY DEF TagsAreInHand, InHand
  <2>2. row[1] = "mark"
    BY <1>2
  <2>3. ~(row \in DOMAIN writes[t] /\ writes[t][row] = FALSE)
    OBVIOUS
  <2> QED BY <2>1, <2>2, <2>3 DEF DeletesItsOwn
<1>4. row \in Scope(request[t])
  BY <1>2, <1>3 DEF IInv, HoldsInOrder
<1>5. Lists(request[t]) /\ request[t].node = n
  <2>1. Lists(request[t]) /\ \E v \in Tags : row = Mark(request[t].node, v)
    BY <1>2, <1>3, <1>4, ScopeFacts
  <2> QED BY <1>2, <2>1 DEF Mark
<1>6. \A x \in {t, o} : NodeWent(x) => NodeWent(x)'
  BY <1>1, MoreMet
<1>7. ListsMeet(o, t)
  <2> SUFFICES ASSUME ~NodeWent(t), ~NodeWent(o), LocksNode(request[t]), LocksNode(request[o])
               PROVE  FALSE
    BY <1>5 DEF ListsMeet
  <2>1. Lowest(Finish) # 1
    BY DEF Lowest, Wide, Stage, Finish
  <2>2. \A x \in ToSet(todo[o]) : Lowest(x) # 1
    BY DEF Laying
  <2>3. HoldsNode(t) /\ HoldsNode(o)
    BY DEF TagsAreInHand, InHand
  <2>4. Node(n) \in DOMAIN writes[t]
    BY <1>1, <1>5, <2>1, <2>3 DEF HoldsNode
  <2>5. Node(n) \in DOMAIN writes[o]
    BY <2>2, <2>3 DEF HoldsNode
  <2>6. t # o /\ LocksAreExclusive
    BY DEF IInv
  <2> QED BY <2>4, <2>5, <2>6 DEF LocksAreExclusive
<1>8. ListsMeet(o, t)'
  BY <1>1, <1>6, <1>7 DEF ListsMeet
<1> QED BY <1>1, <1>8 DEF Met

LEMMA CommitRemoves ==
    ASSUME IInv, TagsAreInHand, NEW t \in Threads, NEW n,
           Node(n) \in DOMAIN writes[t], writes[t][Node(n)] = "absent"
    PROVE  request[t] = [op |-> "DELETE", node |-> n]
<1> PICK row : row = Node(n)
  OBVIOUS
<1>1. row[1] = "node" /\ row[2] = n /\ Gone(row) = "absent"
  BY DEF Node, Gone
<1>2. Deleting(request[t])
  BY <1>1 DEF IInv, HoldsInOrder
<1> QED BY <1>1, <1>2 DEF TagsAreInHand, InHand, DeletesItsOwn

LEMMA CommitInHand ==
    ASSUME IInv, IInv', FilesAreKept, TagsAreInHand, NEW t \in Threads, Commit(t)
    PROVE  TagsAreInHand'
<1>1. /\ UNCHANGED <<engine, request>> /\ Running(t) /\ todo'[t] = <<>> /\ writes'[t] = <<>>
      /\ \A o \in Threads : overtook[o] \subseteq overtook'[o]
      /\ \A o \in Threads \ {t} :
            /\ writes'[o] = writes[o] /\ todo[o] \in Seq(Steps) /\ Passes(todo[o], todo'[o])
            /\ Running(o) => t \in overtook'[o]
            /\ \A row : <<"remove_row", row>> \in ToSet(todo[o]) =>
                  <<"remove_row", row>> \in ToSet(todo'[o]) \/ row \in DOMAIN writes[t]
      /\ \A row \in Rows : db'[row] = IF row \in DOMAIN writes[t] THEN writes[t][row] ELSE db[row]
  BY CommitFacts
<1>2. InHand(t)'
  <2>1. RestInHand'
    BY AlwaysInHand, PTL
  <2> QED BY <1>1, <2>1 DEF RestInHand
<1>3. /\ \A o \in Threads : \A row \in Rows :
            View(o)[row] = IF row \in DOMAIN writes[o] THEN writes[o][row] ELSE db[row]
      /\ \A o \in Threads \ {t} : \A row \in Rows :
            View(o)'[row] = IF row \in DOMAIN writes[o] THEN writes[o][row] ELSE db'[row]
  <2>1. ViewsFit /\ ViewsFit'
    BY Always, PTL
  <2> QED BY <1>1, <2>1 DEF ViewsFit
<1>4. ASSUME NEW o \in Threads \ {t} PROVE InHand(o)'
  <2>1. (NodeWent(o) => NodeWent(o)') /\ (Met(o) => Met(o)')
    BY <1>1, MoreMet
  <2>2. Waits(o)
    BY <1>1, <2>1 DEF Waits
  <2>3. ASSUME Running(o), Bodies(request[o]) PROVE SparesNode(o, request[o].node)
    <3> PICK n : n = request[o].node
      OBVIOUS
    <3> SUFFICES ASSUME engine = "postgres"
                 PROVE  /\ Node(n) \in DOMAIN writes[o] => db'[Node(n)] = db[Node(n)]
                        /\ View(o)[Node(n)] # "absent" => View(o)'[Node(n)] # "absent" \/ NodeWent(o)'
      BY <1>1 DEF SparesNode
    <3>1. Node(n) \in Rows
      <4>1. request[o] \in Requests
        BY <2>3 DEF IInv, Typed, ThreadOK
      <4>2. n \in NodeIds
        BY <2>3, <4>1, NodeOfRequest
      <4> QED BY <4>2, RowFacts
    <3>2. Node(n) \in DOMAIN writes[o] => Node(n) \notin DOMAIN writes[t]
      BY DEF IInv, LocksAreExclusive
    <3>3. ASSUME View(o)[Node(n)] # "absent", View(o)'[Node(n)] = "absent" PROVE NodeWent(o)'
      <4>1. Node(n) \in DOMAIN writes[t] /\ writes[t][Node(n)] = "absent"
        BY <1>1, <1>3, <3>1, <3>3
      <4>2. request[t] = [op |-> "DELETE", node |-> n]
        BY <4>1, CommitRemoves
      <4>3. t \in overtook'[o] /\ request'[t] = [op |-> "DELETE", node |-> request'[o].node]
        BY <1>1, <2>3, <4>2
      <4> QED BY <4>3 DEF NodeWent
    <3> QED BY <1>1, <3>1, <3>2, <3>3
  <2>4. ASSUME Running(o), Lists(request[o]), Laying(o, request[o].node, ToSet(request[o].tags))
        PROVE  SparesMarks(o, request[o].node) /\ SparesTags(o)
    <3> PICK n, L : n = request[o].node /\ L = ToSet(request[o].tags)
      OBVIOUS
    <3>1. n \in NodeIds
      BY <2>4, ListFacts
    <3>2. \A u \in Tags : Mark(n, u) \in Rows /\ Tag(u) \in Rows /\ Mark(n, u)[1] = "mark"
      BY <3>1, RowFacts DEF Mark
    <3>3. CASE engine = "postgres"
      <4>1. ASSUME NEW u \in Tags, ~Met(o)'
            PROVE  /\ ~View(o)[Mark(n, u)] => ~View(o)'[Mark(n, u)]
                   /\ <<"remove_row", Mark(n, u)>> \in ToSet(todo[o]) =>
                         <<"remove_row", Mark(n, u)>> \in ToSet(todo'[o]) \/ ~View(o)'[Mark(n, u)]
        <5> PICK row \in Rows : row = Mark(n, u)
          BY <3>2
        <5>1. row \in DOMAIN writes[t] => writes[t][row] = FALSE
          BY <2>4, <3>3, <4>1, CommitPlants
        <5>2. row \in DOMAIN writes[t] => row \notin DOMAIN writes[o]
          BY <3>3 DEF IInv, LocksAreExclusive
        <5>3. /\ View(o)[row] = IF row \in DOMAIN writes[o] THEN writes[o][row] ELSE db[row]
              /\ View(o)'[row] = IF row \in DOMAIN writes[o] THEN writes[o][row] ELSE db'[row]
              /\ db'[row] = IF row \in DOMAIN writes[t] THEN writes[t][row] ELSE db[row]
          BY <1>1, <1>3
        <5>4. CASE row \in DOMAIN writes[t]
          <6>1. View(o)'[row] = FALSE
            BY <5>1, <5>2, <5>3, <5>4
          <6> QED BY <6>1
        <5>5. CASE row \notin DOMAIN writes[t]
          <6>1. View(o)'[row] = View(o)[row]
            BY <5>3, <5>5
          <6>2. <<"remove_row", row>> \in ToSet(todo[o]) => <<"remove_row", row>> \in ToSet(todo'[o])
            BY <1>1, <5>5
          <6> QED BY <6>1, <6>2
        <5> QED BY <5>4, <5>5
      <4> QED BY <3>3, <4>1 DEF SparesMarks, SparesTags
    <3>4. CASE engine # "postgres"
      <4>1. engine = "sqlite"
        <5>1. engine \in Engines
          BY DEF IInv, Typed
        <5> QED BY <3>4, <5>1, TransactionsAssumption
      <4>2. Open(o) /\ OneWriter
        BY <2>4, <4>1 DEF Laying, FilesAreKept
      <4>3. DOMAIN writes[t] = {}
        BY <4>2 DEF OneWriter
      <4>4. \A row \in Rows : View(o)'[row] = View(o)[row]
        BY <1>1, <1>3, <4>3
      <4>5. \A row : <<"remove_row", row>> \in ToSet(todo[o]) => <<"remove_row", row>> \in ToSet(todo'[o])
        BY <1>1, <4>3
      <4> QED BY <3>2, <4>4, <4>5 DEF SparesMarks, SparesTags
    <3> QED BY <3>3, <3>4
  <2> QED BY <2>2, <2>3, <2>4, OthersInHand DEF TagsAreInHand
<1> QED BY <1>2, <1>4 DEF TagsAreInHand
-----------------------------------------------------------------------------
(* The tags stay in hand, and become the list.                                           *)

LEMMA StepInHand ==
    ASSUME IInv, IInv', FilesAreKept, TagsAreInHand, NEW t \in Threads, Step(t)
    PROVE  TagsAreInHand'
<1>1. CASE \/ FetchNode(t) \/ EnsureChildless(t) \/ EnsureContainer(t) \/ EnsureAcyclic(t)
           \/ EnsureNewTag(t) \/ FetchTag(t)
  BY <1>1, ChecksInHand
<1>2. CASE FetchParent(t) \/ FetchChildren(t) \/ FetchBearers(t) \/ PassBy(t)
  BY <1>2, GlancesInHand
<1>3. CASE FindHome(t) \/ FindOrphanContainer(t)
  BY <1>3, HomeReadsInHand
<1>4. CASE ReassignChildren(t) \/ Reassign(t)
  BY <1>4, ReassignsInHand
<1>5. CASE EnsureTag(t) \/ InsertMarks(t)
  BY <1>5, TagReadsInHand
<1>6. CASE \/ AnnounceUpdate(t) \/ AnnounceReplacement(t) \/ AnnounceDeletion(t)
           \/ AnnounceBearers(t) \/ AnnounceParents(t)
  BY <1>6, EventReadsInHand
<1>7. CASE DeleteEdge(t) \/ DeleteChildEdges(t) \/ DeleteMarks(t) \/ DeleteTagMarks(t)
  BY <1>7, SweepsInHand
<1>8. CASE DeleteNodeRow(t) \/ DeleteTagRow(t)
  BY <1>8, LastDeletionsInHand
<1>9. CASE Announce(t) \/ AppendEvent(t)
  BY <1>9, EventsInHand
<1>10. CASE CreateOrReplace(t) \/ UpdateFields(t) \/ RemoveRow(t) \/ InsertEdge(t) \/ InsertMark(t)
  BY <1>10, CreateOrReplaceInHand, UpdateFieldsInHand, RemoveRowInHand, InsertEdgeInHand, InsertMarkInHand
<1>11. CASE InsertNode(t) \/ InsertTag(t) \/ Commit(t)
  BY <1>11, InsertNodeInHand, InsertTagInHand, CommitInHand
<1>12. CASE ReadParent(t) \/ ReadChildren(t) \/ ReadChildTags(t) \/ ReadTags(t)
  BY <1>12, PiecesInHand
<1> QED BY <1>1, <1>2, <1>3, <1>4, <1>5, <1>6, <1>7, <1>8, <1>9, <1>10, <1>11, <1>12 DEF Step

LEMMA NextInHand ==
    ASSUME IInv, IInv', FilesAreKept, TagsAreInHand, [Next]_vars
    PROVE  TagsAreInHand'
<1>1. ASSUME NEW t \in Threads, Start(t) \/ Step(t) \/ Victim(t) \/ Timeout(t)
      PROVE  TagsAreInHand'
  BY <1>1, StartInHand, StepInHand, EndInHand DEF Victim, Timeout
<1>2. ASSUME NEW t \in Threads, Respond(t)
      PROVE  TagsAreInHand'
  BY <1>2, StillInHand DEF Respond, TagsAreInHand
<1>3. CASE UNCHANGED vars
  BY <1>3, StillInHand DEF vars, TagsAreInHand
<1> QED BY <1>1, <1>2, <1>3 DEF Next, Proceed

LEMMA InitInHand ==
    ASSUME Init
    PROVE  TagsAreInHand
<1>1. todo = [t \in Threads |-> <<>>] /\ writes = [t \in Threads |-> <<>>]
  BY DEF Init
<1>2. \A t \in Threads : todo[t] = <<>> /\ writes[t] = <<>>
  BY <1>1
<1> QED BY <1>2, AlwaysInHand DEF RestInHand, TagsAreInHand

LEMMA TagsStayInHand == Spec => []TagsAreInHand
BY InitInHand, NextInHand, Invariant, FilesStayKept, PTL DEF Spec

(* A request that has only its commit left.                                               *)
LEMMA TagsAtTheEnd ==
    ASSUME IInv, NothingDangles, TagsAreInHand, NEW t \in Threads, Doing(t, Finish), Lists(request[t])
    PROVE  LET n == request[t].node
               L == ToSet(request[t].tags)
           IN  \/ TagsIn(View(t), n) = L
               \/ /\ LeavesNodeOut(t) /\ request[t].tags = <<>>
                  /\ MarksIn(View(t), n) = MarksIn(db, n)
               \/ Met(t)
<1> PICK n, L : n = request[t].node /\ L = ToSet(request[t].tags)
  OBVIOUS
<1>1. Running(t) /\ \A x \in ToSet(todo[t]) : x = Finish
  BY OnlyFinishLeft
<1>2. L \in SUBSET Tags /\ n \in NodeIds /\ \A u \in Tags : Mark(n, u) \in Rows /\ Tag(u) \in Rows
  BY <1>1, ListFacts, RowFacts
<1>3. /\ Table(View(t))
      /\ \A row \in Rows : View(t)[row] = IF row \in DOMAIN writes[t] THEN writes[t][row] ELSE db[row]
  BY Always DEF ViewsFit
<1>4. /\ ~Clearing(todo[t], n) /\ \A u \in Tags : ~Sowing(todo[t], n, u) /\ ~Weeding(todo[t], n, u)
      /\ \A u \in Tags : ~Naming(todo[t], u)
  BY <1>1 DEF Clearing, Sowing, Weeding, Naming, Sows, Weeds, Names, Finish
<1>5. engine \in {"sqlite", "postgres"}
  <2>1. engine \in Engines
    BY DEF IInv, Typed
  <2> QED BY <2>1, TransactionsAssumption
<1>6. Undecided(t, n) \/ Bare(t, n) \/ Gathering(t, n, L) \/ Laying(t, n, L)
  BY <1>1 DEF TagsAreInHand, InHand, TagsInHand
<1>7. ~Undecided(t, n) /\ ~Gathering(t, n, L)
  <2>1. ~Gathering(t, n, L)
    BY <1>4 DEF Gathering
  <2>2. ~Undecided(t, n)
    BY DEF Undecided, Doing, Finish
  <2> QED BY <2>1, <2>2
<1>8. CASE Bare(t, n)
  <2>1. MarksIn(View(t), n) = MarksIn(db, n)
    BY <1>2, <1>3, <1>8 DEF Bare, MarksIn
  <2>2. ASSUME engine = "postgres" PROVE TagsIn(View(t), n) = {} /\ L = {}
    <3>1. L = {}
      BY <1>8 DEF Bare, ToSet
    <3>2. db[Node(n)] = "absent"
      BY <1>1, <1>8, <2>2 DEF Bare, Finish
    <3>3. MarksIn(db, n) = {}
      BY <1>2, <2>2, <3>2 DEF NothingDangles, RefersToNothing
    <3> QED BY <2>1, <3>1, <3>3 DEF TagsIn
  <2>3. engine = "sqlite" => LeavesNodeOut(t) /\ request[t].tags = <<>>
    BY <1>8 DEF Bare, LeavesNodeOut
  <2> QED BY <1>5, <2>1, <2>2, <2>3
<1>9. CASE Laying(t, n, L) /\ ~Met(t)
  <2>1. ASSUME NEW u \in L PROVE u \in TagsIn(View(t), n)
    <3>1. Mark(n, u) \in DOMAIN writes[t] /\ writes[t][Mark(n, u)] = TRUE
      BY <1>2, <1>4, <1>9, <2>1 DEF Laying, Planted
    <3>2. View(t)[Mark(n, u)] = writes[t][Mark(n, u)]
      BY <1>2, <1>3, <2>1, <3>1
    <3>3. u \in MarksIn(View(t), n)
      BY <1>2, <2>1, <3>1, <3>2 DEF MarksIn
    <3>4. View(t)[Tag(u)]
      <4>1. CASE engine = "sqlite"
        BY <1>2, <1>4, <1>9, <2>1, <4>1 DEF Laying
      <4>2. CASE engine = "postgres"
        <5>1. ~RefersToNothing(View(t), n)
          BY <1>2, <4>2 DEF NothingDangles
        <5>2. u \in TagsIn(View(t), n)
          BY <3>3, <5>1 DEF RefersToNothing
        <5> QED BY <5>2 DEF TagsIn
      <4> QED BY <1>5, <4>1, <4>2
    <3> QED BY <3>3, <3>4 DEF TagsIn
  <2>2. ASSUME NEW u \in TagsIn(View(t), n) PROVE u \in L
    <3>1. u \in Tags /\ View(t)[Mark(n, u)]
      BY <2>2 DEF TagsIn, MarksIn
    <3> QED BY <1>4, <1>9, <3>1 DEF Laying
  <2> QED BY <2>1, <2>2
<1> QED BY <1>6, <1>7, <1>8, <1>9

(* replace_node_tags: a request that gives a node a list of tags leaves it exactly those,  *)
(* however many requests overlap and whatever they do to its marks and to its tags: the    *)
(* DELETE of the old marks takes SQLite's lock before it looks, and on PostgreSQL the row    *)
(* of the node keeps another list out.  What is excepted is what the property names: a       *)
(* PATCH that does not write that row, a DELETE that has taken it away, and on SQLite the      *)
(* marks a deletion has left to a node that is created again without tags, under a savepoint   *)
(* that has committed the node by itself.                                                     *)
THEOREM TagsFollowTheList == Spec => TagsBecomeTheList
<1> DEFINE HasItsList(t) ==
        \/ TagsIn(db', request[t].node) = ToSet(request[t].tags)
        \/ /\ LeavesNodeOut(t) /\ request[t].tags = <<>>
           /\ MarksIn(db', request[t].node) = MarksIn(db, request[t].node)
        \/ engine = "postgres" /\ \E o \in overtook[t] : ListsMeet(t, o)
<1>1. ASSUME IInv, NothingDangles, TagsAreInHand, NEW t \in Threads, Committing(t), Lists(request[t])
      PROVE  HasItsList(t)
  <2>1. Doing(t, Finish) /\ db' = View(t)
    BY <1>1 DEF Committing, Finish
  <2>2. Met(t) => HasItsList(t)
    BY DEF Met
  <2> QED BY <1>1, <2>1, <2>2, TagsAtTheEnd
<1>2. IInv /\ NothingDangles /\ TagsAreInHand =>
         [\A t \in Threads : Committing(t) /\ Lists(request[t]) => HasItsList(t)]_vars
  BY <1>1
<1> QED BY <1>2, Invariant, NothingDanglesOnPostgres, TagsStayInHand, PTL DEF TagsBecomeTheList
-----------------------------------------------------------------------------
(* Circles.  What a thread waits for, on PostgreSQL and if nobody deletes, is a row that *)
(* another one has written.                                                              *)
LEMMA WaitsForRow ==
    ASSUME IInv, engine = "postgres", NEW o \in Threads, Running(o), NEW b \in Blockers(o),
           ~Deleting(request[o]), ~Deleting(request[b])
    PROVE  b \in Threads \ {o} /\ \E row \in Written(o, First(o)) : row \in DOMAIN writes[b]
<1> DEFINE s == First(o)
<1>1. /\ b \in Threads \ {o}
      /\ \/ Written(o, s) \cap DOMAIN writes[b] # {}
         \/ Deleted(s) \cap shares[b] # {}
         \/ \E row \in References(s) : Deletes(b, row)
  BY DEF Blockers, First
<1>2. Doing(o, s)
  BY DEF Doing, First
<1> HIDE DEF s
<1>3. Deleted(s) = {}
  <2>1. CASE s = Finish
    BY <2>1 DEF Finish, Deleted
  <2>2. CASE s # Finish
    <3>1. ~DeletesSomething(s)
      BY <1>2, <2>2, FirstFacts
    <3> QED BY <3>1 DEF Deleted, DeletesSomething
  <2> QED BY <2>1, <2>2
<1>4. \A row \in References(s) : row[1] \in {"node", "tag"}
  BY DEF References, Node, Tag
<1>5. \A row \in References(s) : ~Deletes(b, row)
  <2>1. HoldsInOrder(b) /\ ~Deleting(request[b])
    BY <1>1 DEF IInv
  <2> QED BY <1>4, <2>1 DEF HoldsInOrder, Deletes
<1> QED BY <1>1, <1>3, <1>5 DEF s

(* Who holds a row waits for none of a lower rank, if for any: seen from the end    *)
(* of the order, nobody in a circle can wait for an event, a tag, a mark, an edge    *)
(* or a node.                                                                       *)
LEMMA NoCircleInOrder ==
    ASSUME IInv, TagsAreInHand, engine = "postgres", NEW S \in SUBSET Threads, Circle(S),
           \A o \in S : ~Deleting(request[o]) /\ ~NewTag(o) /\ \A p \in S \ {o} : ~ListsMeet(o, p)
    PROVE  FALSE
<1> DEFINE Awaits(o, b, row) == o # b /\ row \in Written(o, First(o)) /\ row \in DOMAIN writes[b]
<1>1. ASSUME NEW o \in S PROVE \E b \in S, row \in Written(o, First(o)) : Awaits(o, b, row)
  <2>1. PICK b \in S : b \in Blockers(o) /\ Running(o) /\ o \in Threads
    BY <1>1 DEF Circle
  <2> QED BY <1>1, <2>1, WaitsForRow
<1>2. \A o, b \in Threads : \A row : o # b => ~(row \in DOMAIN writes[o] /\ row \in DOMAIN writes[b])
  BY DEF IInv, LocksAreExclusive
<1>3. \A o \in S : /\ HoldsInOrder(o) /\ HoldsNode(o) /\ ~Deleting(request[o]) /\ ~NewTag(o)
                   /\ Rest(todo[o], Scope(request[o]), Deleting(request[o]))
  BY DEF IInv, TagsAreInHand, InHand, Typed, ThreadOK
<1>4. \A o \in S : /\ First(o) = todo[o][1] /\ 1 \in 1..Len(todo[o]) /\ Len(todo[o]) \in Nat
                   /\ todo[o] \in Seq(Steps) /\ Running(o) /\ o \in Threads
  <2> SUFFICES ASSUME NEW o \in S
               PROVE  /\ First(o) = todo[o][1] /\ 1 \in 1..Len(todo[o]) /\ Len(todo[o]) \in Nat
                      /\ todo[o] \in Seq(Steps) /\ Running(o) /\ o \in Threads
    OBVIOUS
  <2>1. Running(o) /\ todo[o] \in Seq(Steps)
    BY <1>3 DEF Circle, Rest, Steps
  <2> QED BY <2>1 DEF First, Running
<1>5. /\ \A row : Rank(row) \in 0..4
      /\ \A s : Lowest(s) \in Nat /\ Highest(s) \in Nat /\ (Lowest(s) = 3 => Highest(s) = 3)
  <2>1. \A row : Rank(row) \in 0..4
    BY DEF Rank
  <2>2. \A s : Stage(s) \in 0..4
    BY <2>1 DEF Stage
  <2>3. \A s : s[1] = "insert_node" => Stage(s) = 1
    BY DEF Stage
  <2> QED BY <2>1, <2>2, <2>3 DEF Lowest, Highest
<1>6. ASSUME NEW o \in S, NEW row \in Written(o, First(o))
      PROVE  /\ row[1] \in {"node", "edge", "mark"} => row \in Scope(request[o])
             /\ \/ row = Sequence /\ Rank(row) = 4 /\ (AnnouncesTag(First(o)) \/ Lowest(First(o)) = 4)
                \/ /\ row[1] \in {"node", "edge", "mark", "tag"}
                   /\ Lowest(First(o)) = Rank(row)
  BY <1>3, <1>4, WrittenFacts
<1>7. ASSUME NEW o \in S, NEW row \in DOMAIN writes[o]
      PROVE  /\ row[1] \in {"node", "edge", "mark"} => row \in Scope(request[o])
             /\ \A i \in 1..Len(todo[o]) : Rank(row) <= Lowest(todo[o][i])
             /\ row[1] = "tag" => AnnouncesTag(First(o)) \/ First(o)[1] = "assert_tag"
  BY <1>3, <1>4 DEF HoldsInOrder
<1>8. ASSUME NEW b \in S, NEW row \in DOMAIN writes[b], NEW next \in Written(b, First(b))
      PROVE  Rank(row) <= Rank(next)
  <2>1. Rank(row) <= Lowest(First(b))
    BY <1>4, <1>7
  <2> QED BY <1>5, <1>6, <2>1
<1>9. \A row : /\ Rank(row) = 1 <=> row[1] = "node"
               /\ Rank(row) = 2 <=> row[1] = "edge"
               /\ Rank(row) = 3 <=> row[1] \in {"mark", "tag"}
  BY DEF Rank
<1>10. ASSUME NEW o \in S, NEW b \in S, NEW row, Awaits(o, b, row) PROVE Rank(row) # 4
  <2> SUFFICES ASSUME Rank(row) = 4 PROVE FALSE
    OBVIOUS
  <2>1. row = Sequence
    BY <1>6, <1>9, <1>10
  <2>2. PICK c \in S, next \in Written(b, First(b)) : Awaits(b, c, next)
    BY <1>1
  <2>3. Rank(next) = 4
    BY <1>5, <1>8, <1>10, <2>2
  <2>4. next = Sequence
    BY <1>6, <1>9, <2>2, <2>3
  <2> QED BY <1>2, <1>10, <2>1, <2>2, <2>4
<1>11. ASSUME NEW o \in S, NEW b \in S, NEW row, Awaits(o, b, row) PROVE row[1] # "tag"
  <2> SUFFICES ASSUME row[1] = "tag" PROVE FALSE
    OBVIOUS
  <2>1. AnnouncesTag(First(b)) \/ First(b)[1] = "assert_tag"
    BY <1>7, <1>11
  <2>2. PICK c \in S, next \in Written(b, First(b)) : Awaits(b, c, next)
    BY <1>1
  <2>3. next = Sequence
    BY <2>1, <2>2 DEF AnnouncesTag, Written
  <2> QED BY <1>10, <2>2, <2>3 DEF Rank, Sequence
<1>12. ASSUME NEW o \in S, NEW b \in S, NEW row, Awaits(o, b, row) PROVE row[1] # "mark"
  <2> SUFFICES ASSUME row[1] = "mark" PROVE FALSE
    OBVIOUS
  <2>1. /\ row \in Scope(request[o]) /\ Lowest(First(o)) = 3
        /\ row \in Scope(request[b]) /\ \A i \in 1..Len(todo[b]) : 3 <= Lowest(todo[b][i])
    BY <1>6, <1>7, <1>9, <1>12 DEF Sequence
  <2>2. /\ Bodies(request[o]) /\ Lists(request[o]) /\ \E u \in Tags : row = Mark(request[o].node, u)
        /\ Bodies(request[b]) /\ Lists(request[b]) /\ \E u \in Tags : row = Mark(request[b].node, u)
    BY <1>3, <1>4, <2>1, ScopeFacts
  <2>3. request[o].node = request[b].node
    BY <2>2 DEF Mark
  <2>4. /\ LocksNode(request[o]) /\ LocksNode(request[b]) /\ ~NodeWent(o) /\ ~NodeWent(b)
        /\ engine = "postgres" /\ Running(o) /\ Running(b)
    BY <1>4, <1>12, <2>2, <2>3 DEF ListsMeet
  <2>5. \A i \in 1..Len(todo[o]) : 3 <= Lowest(todo[o][i])
    <3> SUFFICES ASSUME NEW i \in 1..Len(todo[o]) PROVE 3 <= Lowest(todo[o][i])
      OBVIOUS
    <3>1. CASE i = 1
      BY <1>4, <2>1, <3>1
    <3>2. CASE i # 1
      <4>1. Highest(todo[o][1]) <= Lowest(todo[o][i])
        BY <1>3, <1>4, <3>2 DEF Rest
      <4>2. Highest(todo[o][1]) = 3
        BY <1>4, <1>5, <2>1
      <4> QED BY <4>1, <4>2
    <3> QED BY <3>1, <3>2
  <2>6. ASSUME NEW c \in {o, b} PROVE Node(request[c].node) \in DOMAIN writes[c]
    <3>1. \A i \in 1..Len(todo[c]) : 3 <= Lowest(todo[c][i])
      BY <2>1, <2>5
    <3>2. \A x \in ToSet(todo[c]) : Lowest(x) # 1
      BY <1>4, <3>1, Items
    <3> QED BY <1>3, <2>2, <2>4, <3>2 DEF HoldsNode
  <2> QED BY <1>2, <1>4, <1>12, <2>3, <2>6
<1>13. ASSUME NEW o \in S, NEW b \in S, NEW row, Awaits(o, b, row), NEW x \in {"node", "edge"}, row[1] = x,
              \A c, d \in S : \A other : Awaits(c, d, other) => Rank(other) <= Rank(row)
       PROVE  FALSE
  <2>1. PICK c \in S, next \in Written(b, First(b)) : Awaits(b, c, next)
    BY <1>1
  <2>2. Rank(next) = Rank(row)
    <3>1. Rank(next) <= Rank(row) /\ Rank(row) <= Rank(next)
      BY <1>8, <1>13, <2>1
    <3> QED BY <1>5, <3>1
  <2>3. next[1] = x
    BY <1>9, <1>13, <2>2
  <2>4. row \in Scope(request[b]) /\ next \in Scope(request[b])
    BY <1>6, <1>7, <1>13, <2>1, <2>3
  <2>5. row = next
    BY <1>3, <1>4, <1>13, <2>3, <2>4, ScopeFacts
  <2> QED BY <1>2, <1>4, <1>13, <2>1, <2>5
<1>14. ASSUME NEW o \in S, NEW b \in S, NEW row, Awaits(o, b, row) PROVE Rank(row) \in {1, 2}
  <2>1. row[1] \in {"node", "edge", "mark", "tag"}
    BY <1>6, <1>10, <1>14
  <2> QED BY <1>9, <1>11, <1>12, <1>14, <2>1
<1>15. ASSUME NEW o \in S, NEW b \in S, NEW row, Awaits(o, b, row) PROVE Rank(row) = 1
  <2> SUFFICES ASSUME Rank(row) = 2 PROVE FALSE
    BY <1>14, <1>15
  <2>1. row[1] = "edge"
    BY <1>9
  <2>2. \A c, d \in S : \A other : Awaits(c, d, other) => Rank(other) <= Rank(row)
    BY <1>14
  <2> QED BY <1>13, <1>15, <2>1, <2>2
<1>16. ASSUME NEW o \in S PROVE FALSE
  <2>1. PICK b \in S, row \in Written(o, First(o)) : Awaits(o, b, row)
    BY <1>1
  <2>2. row[1] = "node" /\ Rank(row) = 1
    BY <1>9, <1>15, <2>1
  <2>3. \A c, d \in S : \A other : Awaits(c, d, other) => Rank(other) <= Rank(row)
    BY <1>15, <2>2
  <2> QED BY <1>13, <2>1, <2>2, <2>3
<1> QED BY <1>16 DEF Circle

(* Requests wait for each other in a circle only on PostgreSQL, and only if one of them   *)
(* deletes something or has a new tag to announce, or two of them give one node lists of   *)
(* tags that its row does not keep apart: the order in which the handlers of db/flask.py    *)
(* write excludes every other circle, however many requests and whatever rows there are.    *)
THEOREM CirclesNeedADisorder == Spec => []CirclesNeedLocksOutOfOrder
<1>1. IInv /\ TagsAreInHand => CirclesNeedLocksOutOfOrder
  <2> SUFFICES ASSUME IInv, TagsAreInHand, NEW S \in SUBSET Threads, Circle(S)
               PROVE  /\ engine = "postgres"
                      /\ \E t \in S : \/ Deleting(request[t]) \/ NewTag(t)
                                      \/ \E o \in S \ {t} : ListsMeet(t, o)
    BY DEF CirclesNeedLocksOutOfOrder
  <2>1. engine = "postgres"
    <3>1. engine \in {"sqlite", "postgres"}
      BY TransactionsAssumption DEF IInv, Typed
    <3> QED BY <3>1, NoCircleOnSQLite
  <2> QED BY <2>1, NoCircleInOrder
<1> QED BY <1>1, Invariant, TagsStayInHand, PTL
===============================================================================
