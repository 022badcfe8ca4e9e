----------------------------- MODULE MCTgClient -----------------------------
(* Instance of TgClient for TLC: the constants are numbers and Booleans. *)
EXTENDS TgClient
=============================================================================
