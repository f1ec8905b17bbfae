---------------------------- MODULE MCParseDialog ----------------------------
(* Instances of ParseDialog: two projects, and two threads where the user  *)
(* may start a second parse under the first.                               *)
EXTENDS ParseDialog

CONSTANTS mine, other
=============================================================================
