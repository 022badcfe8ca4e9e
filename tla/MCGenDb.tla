------------------------------ MODULE MCGenDb ------------------------------
(* Instance of GenDb for TLC: the constants are numbers. *)
EXTENDS GenDb
=============================================================================
