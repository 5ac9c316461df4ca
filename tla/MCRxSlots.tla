------------------------------ MODULE MCRxSlots ------------------------------
(* Instances of RxSlots with few slots and sessions. *)
EXTENDS RxSlots
=============================================================================
