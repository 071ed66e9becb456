------------------------------ MODULE MCCowList ------------------------------
(* Three concurrent Appends and two lock-free readers. *)
EXTENDS CowList
=============================================================================
