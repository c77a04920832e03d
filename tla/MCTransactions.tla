---------------------------- MODULE MCTransactions ----------------------------
(* Transactions for two requests at a time and one after them, in settings where  *)
(* they can meet.                                                              *)
EXTENDS Transactions

CONSTANTS tool, box

Post(n, k, p, ts) == [op |-> "POST", node |-> n, kind |-> k, parent |-> p, tags |-> ts]
Put(n, k, p, ts) == [op |-> "PUT", node |-> n, kind |-> k, parent |-> p, tags |-> ts]
Patch(n, k, p, ts) == [op |-> "PATCH", node |-> n, kind |-> k, parent |-> p, tags |-> ts]
Move(n, p) == Patch(n, Keep, p, Keep)
Label(n, ts) == Patch(n, Keep, Keep, ts)
Delete(n) == [op |-> "DELETE", node |-> n]
PostTag(u) == [op |-> "POST tag", tag |-> u]
DeleteTheTag(u) == [op |-> "DELETE tag", tag |-> u]

Setting(ids, edges, names, marks, orphanage, arriving) ==
    [kind |-> [n \in ids |-> "container"], parent |-> edges, tags |-> names, tagged |-> marks,
     homes |-> orphanage, requests |-> arriving]

Heirs == {Put(1, "item", NoNode, <<>>), Put(1, "container", 2, <<>>)}
Successors == Heirs \cup {Put(1, "item", NoNode, <<tool>>)}

MCSettings == {
    (* Moves, deletions and is_container.                                      *)
    Setting({1, 2, 3}, 2 :> 1, {}, <<>>, {},
            {Move(1, 3), Move(3, 2), Put(3, "item", NoNode, <<>>), Patch(2, "item", 1, Keep),
             Post(4, "container", 3, <<>>), Put(4, "item", 2, <<>>), Delete(2), Delete(3)}),
    (* Tags.                                                                   *)
    Setting({1, 2}, 2 :> 1, {tool}, 2 :> {tool}, {},
            {Label(2, <<box>>), Put(2, "container", 1, <<box, tool>>),
             Post(4, "item", NoNode, <<tool>>), PostTag(box), DeleteTheTag(tool), Delete(2)}),
    (* Lists of tags for one node.                                              *)
    Setting({1}, <<>>, {tool, box}, 1 :> {tool, box}, {},
            {Label(1, <<tool>>), Label(1, <<box, tool>>), Patch(1, "item", Keep, <<box>>),
             Patch(1, Relabel, Keep, <<box>>)}),
    (* Orphans, with a home to find and without.                               *)
    Setting({1, 2, 3}, 2 :> 1, {}, <<>>, {3, 4},
            {Delete(1), Delete(3), Move(3, 2), Patch(2, Keep, NoNode, Keep)}),
    Setting({1, 2}, 2 :> 1, {}, <<>>, {3, 4}, {Delete(1), Move(2, NoNode)}),
    (* Two moves that met have left a cycle.                                    *)
    Setting({1, 2, 3}, (2 :> 1) @@ (1 :> 2), {}, <<>>, {},
            {Move(3, 1), Move(1, NoNode), Put(3, "container", 2, <<>>), Post(4, "container", 1, <<>>)}),
    (* What a deleted node has left, for the next one with its id.              *)
    Setting({1, 2}, <<>>, {tool}, <<>>, {},
            {Move(2, 1), Delete(1), Label(1, <<tool>>)} \cup Heirs),
    (* A list of tags for a node that goes and comes back meanwhile.             *)
    Setting({1}, <<>>, {tool, box}, <<>>, {},
            {Put(1, "container", NoNode, <<box>>), Delete(1), Put(1, "item", NoNode, <<tool>>)})}

(* Threads are alike: the first request to arrive is served by the first one.  The *)
(* last one comes when those that overlap are through, to meet what they leave, or   *)
(* when one of them is.                                                          *)
CONSTANTS first, second, last
Ended == {t \in {first, second} : request[t] # NoRequest /\ ~Running(t)}
InOrder ==
    /\ request[first] # NoRequest \/ request[second]' = NoRequest
    /\ request[first]' \notin Successors /\ request[second]' \notin Successors
    /\ \/ request[last]' = NoRequest
       \/ request[last]' \in Heirs /\ Ended = {first, second}
       \/ request[last]' \in Successors \ Heirs /\ Ended # {}
OrderedSpec == Init /\ [][Next /\ InOrder]_vars /\ Fairness
===============================================================================
