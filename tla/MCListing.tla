------------------------------ MODULE MCListing ------------------------------
(* Listing for TLC: texts of up to four characters, leading zeros and characters *)
(* that are no digits included; a clock that may be at its epoch, and where ids   *)
(* no longer fit.                                                              *)
EXTENDS Listing

MCClocks == 0..2
MCTexts == UNION {[1..length -> 0..Base] : length \in 0..4}
===============================================================================
