--------------------------- MODULE MCVoipRuntime ---------------------------
(* Model-checking instances of VoipRuntime. *)
EXTENDS VoipRuntime, TLC

CONSTANTS c1, c2, c3, u1, u2, w1, w2

\* Users and workers are interchangeable, controllers too.
Symmetry == Permutations(Ctls) \cup Permutations(Users) \cup Permutations(Workers)
=============================================================================
