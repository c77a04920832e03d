----------------------------- MODULE MCInventory -----------------------------
(* Inventory and a subscriber of its events, on small tables.                 *)
EXTENDS Follower

(* Of the last request the properties read only what the step shows, so two  *)
(* states with the same tables, and a subscriber that holds the same, have    *)
(* the same future.                                                         *)
Tables == <<graph, held>>
=============================================================================
