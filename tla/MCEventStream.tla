---------------------------- MODULE MCEventStream ----------------------------
(* EventStream for TLC: the constants are in the .cfg files.  Writers do the  *)
(* same things, but a symmetry set would make the check of CatchesUp unsound, *)
(* so there is none.                                                          *)
EXTENDS EventStream
==============================================================================
