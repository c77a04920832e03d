------------------------------- MODULE Listing -------------------------------
(***************************************************************************)
(* "binctl node list" and "binctl tag list": a client collects a list page by  *)
(* page while others change what is listed.                                  *)
(*                                                                         *)
(* Nodes are listed by id, tags by name; a row is a number in that order.     *)
(* Each page is an answer of its own, made of two statements: the COUNT and     *)
(* the page; others may commit between any two statements.                   *)
(***************************************************************************)
EXTENDS Ids, Ordering, FiniteSetsExt

CONSTANTS
    Limits,     \* the page sizes to look at
    Clocks,     \* what the server's clock may show, 0 at EPOCH_US
    Texts,      \* what may be typed as an id
    MaxChanges, \* (bound) how many changes others make
    FarOff      \* (bound) an offset past every row; further on nothing is new

ASSUME ListingAssumption ==
    /\ Limits \subseteq Nat \ {0}
    /\ Clocks \subseteq Nat /\ MaxChanges \in Nat /\ FarOff \in Nat
    /\ FarOff > MaxId
    /\ \A s \in Texts : \A i \in DOMAIN s : s[i] \in 0..Base
    /\ \A n \in 1..MaxId : Encode[n] \in Texts     \* anything may be typed

VARIABLES
    resource,   \* "nodes" or "tags"
    limit,      \* the page size
    rows,       \* the table
    phase,      \* of the client: "count", "page", "done" or "failed"
    offset,     \* where its next page begins
    total,      \* the COUNT of the page being made
    items,      \* what it has collected
    removed,    \* (history) rows removed since it began
    inserted,   \* (history) rows inserted since it began
    short,      \* (history) whether a page had less than its COUNT promised
    changes

vars == <<resource, limit, rows, phase, offset, total, items,
          removed, inserted, short, changes>>

client == <<phase, offset, total, items, short>>
history == <<removed, inserted, changes>>
-----------------------------------------------------------------------------
(* The client: the loop of _node_list and _tag_list over get_nodes_list and      *)
(* get_tags_list.                                                              *)

Count ==
    /\ phase = "count"
    /\ total' = Cardinality(rows)
    /\ phase' = "page"
    /\ UNCHANGED <<resource, limit, rows, offset, items, short, history>>

(* ORDER BY, LIMIT, OFFSET                                                      *)
Page == SubSeq(Ascending(rows), offset + 1, Min({offset + limit, Cardinality(rows)}))

NeverFull ==
    /\ phase = "page"
    /\ items' = items \o Page
    /\ short' = (short \/ Len(Page) < Min({limit, total - offset}))
    /\ IF Len(items') > total
       THEN phase' = "done" /\ UNCHANGED offset
       ELSE phase' = "count" /\ offset' = Min({offset + limit, FarOff})
    /\ UNCHANGED <<resource, limit, rows, total, history>>
OneTooFew ==
    /\ phase = "page"
    /\ items' = items \o Page
    /\ short' = (short \/ Len(Page) < Min({limit, total - offset}))
    /\ IF Len(items') >= total - 1
       THEN phase' = "done" /\ UNCHANGED offset
       ELSE phase' = "count" /\ offset' = Min({offset + limit, FarOff})
    /\ UNCHANGED <<resource, limit, rows, total, history>>
FetchPage ==
    /\ phase = "page"
    /\ items' = items \o Page
    /\ short' = (short \/ Len(Page) < Min({limit, total - offset}))
    /\ IF Len(items') >= total
       THEN phase' = "done" /\ UNCHANGED offset
       ELSE phase' = "count" /\ offset' = Min({offset + limit, FarOff})
    /\ UNCHANGED <<resource, limit, rows, total, history>>

(* _check_response: any answer without a body of its own ends the command.       *)
Refused ==
    /\ phase \in {"count", "page"}
    /\ phase' = "failed"
    /\ UNCHANGED <<resource, limit, rows, offset, total, items, short, history>>
-----------------------------------------------------------------------------
(* The others.                                                                 *)

Change(new, gone) ==
    /\ phase \in {"count", "page"} /\ changes < MaxChanges
    /\ changes' = changes + 1
    /\ rows' = (rows \ gone) \cup new
    /\ inserted' = inserted \cup new
    /\ removed' = removed \cup gone
    /\ UNCHANGED <<resource, limit, client>>

(* POST /nodes draws an id until it finds one that is free; one that does not fit *)
(* is an error of the database.  The clock may have been set in any way, but not    *)
(* to before EPOCH_US.                                                        *)
PostNode ==
    /\ resource = "nodes"
    /\ \E now \in Clocks, draw \in 0..(Draws - 1) :
          LET n == NewId(now, draw)
          IN  /\ n \notin rows /\ Fits(n)
              /\ Change({n}, {})

(* PUT /nodes/{id} with an id nobody has, and DELETE: the id is given as text.     *)
TextsOf == [n \in 1..MaxId |-> {s \in Texts : DecodeId(s) = n}]
Named == {n \in 1..MaxId : TextsOf[n] # {}}

PutNode == resource = "nodes" /\ \E n \in Named \ rows : Change({n}, {})
DeleteNode == resource = "nodes" /\ \E n \in Named \cap rows : Change({}, {n})

CreateTag == resource = "tags" /\ \E n \in (1..MaxId) \ rows : Change({n}, {})
DeleteTag == resource = "tags" /\ \E n \in rows : Change({}, {n})
RenameTag == resource = "tags" /\ \E n \in rows, m \in (1..MaxId) \ rows : Change({m}, {n})

Init ==
    /\ resource \in {"nodes", "tags"}
    /\ limit \in Limits
    /\ rows \in SUBSET (1..MaxId)
    /\ phase = "count"
    /\ offset = 0 /\ total = 0
    /\ items = <<>>
    /\ removed = {} /\ inserted = {}
    /\ short = FALSE
    /\ changes = 0

List == Count \/ FetchPage
Next ==
    \/ List \/ Refused
    \/ PostNode \/ PutNode \/ DeleteNode \/ CreateTag \/ DeleteTag \/ RenameTag

Spec == Init /\ [][Next]_vars /\ WF_vars(List)
-----------------------------------------------------------------------------
(* Properties.                                                                 *)

(* A list is exact unless a row moved from page to page: one that was there all    *)
(* the time is missing only if a smaller one was removed or any was inserted, and   *)
(* one is listed twice or out of order only if a smaller one, or itself, was         *)
(* inserted meanwhile.  And it lists nothing that was never there.                  *)
ListsAreExactUnlessRowsMove ==
    phase = "done" =>
        /\ \A n \in (rows \ inserted) \ ToSet(items) : \E m \in removed \cup inserted : m < n
        /\ \A i, j \in DOMAIN items : i < j /\ items[i] >= items[j] =>
                \E m \in inserted : m <= items[j]
        /\ ToSet(items) \subseteq rows \cup removed

(* The loop ends, however many rows come while it runs; but once a row goes between *)
(* the COUNT and its page, and others come later, it may ask for ever.              *)
ListsEnd == <>(phase \in {"done", "failed"} \/ short)

(* Each node answers to exactly one text, the one that encode writes: decode_id      *)
(* takes no other spelling of its id and no larger number, and what it takes in a PUT  *)
(* it finds again.  Only 0, which new_id may draw in the first microsecond of its       *)
(* epoch, is an id that no text gets at.                                             *)
NodesAnswerToOneText == \A n \in rows \ {0} : TextsOf[n] = {Encode[n]}
=============================================================================
