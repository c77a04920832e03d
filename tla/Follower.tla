------------------------------ MODULE Follower ------------------------------
(***************************************************************************)
(* A subscriber of the inventory's events: what it holds is what snapshots  *)
(* and events have told it, carried from request to request.  It applies the *)
(* events in the order of the log, so that it may apply them at once.        *)
(***************************************************************************)
EXTENDS Inventory

VARIABLE held    \* the resource of each node the subscriber has heard of

(* The whole graph in one statement; a snapshot is a flat list of nodes with   *)
(* their parents, and what a node embeds follows from it.                     *)
Snapshot == CopyAfter(Representations, <<>>, 0)

(* The events of a request reach it, one after the other.                     *)
Receive == held' = CopyAfter(held, batch', Len(batch'))

(* It starts over, for instance after reset-required.                         *)
Reload == held' = Snapshot /\ UNCHANGED vars

FollowerInit == Init /\ held = Snapshot
FollowerNext == (Next /\ Receive) \/ Reload
FollowerSpec == FollowerInit /\ [][FollowerNext]_<<vars, held>>
-----------------------------------------------------------------------------
Known(copy) == {n \in NodeIds : copy[n] # Absent}

NamesOnly(copy, S) ==
    \A n \in Known(copy) : copy[n].parent \in S \cup {NoNode} /\ DOMAIN copy[n].children \subseteq S

(* The rows that refused and interrupted creates have left, and that nobody has    *)
(* touched since the last snapshot.                                          *)
Unannounced == {n \in nodes : held[n] = Absent}

(* What the subscriber holds is the graph, but for what the failed creates of      *)
(* SQLite have left: a row that no event announced has neither parent nor children  *)
(* nor tags, so that what is held is never about it, and the first request that      *)
(* gives it any announces it.                                                    *)
OnlyBareRowsAreUnknown ==
    \A n \in NodeIds :
        \/ held[n] = Snapshot[n]
        \/ /\ EarlyCommit /\ held[n] = Absent
           /\ parent[n] = NoNode /\ Children(n) = {} /\ tagged[n] = {}

(* No event refers to a node the subscriber has not heard of or was told is     *)
(* deleted, wherever in the batch the stream is cut: a new node is announced    *)
(* before the parent that embeds it, and a deletion after the children and      *)
(* parents that let go of the node.  Where savepoints commit, an event may name *)
(* a node that a failed create has left and no event announced (the parent of a *)
(* new node, the home of orphans); then a later event of the same request       *)
(* announces it.                                                             *)
EventsNeverDangle ==
    [][\A k \in DOMAIN batch' :
          LET copy == CopyAfter(held, batch', k)
              left == IF EarlyCommit /\ k < Len(batch') THEN Unannounced ELSE {}
          IN  NamesOnly(copy, Known(copy) \cup left)]_vars
=============================================================================
