----------------------------- MODULE MCGateway -----------------------------
(* Model-checking instances of Gateway: the ids are model values. *)
EXTENDS Gateway, TLC

CONSTANTS t1, t2, s1, s2, u1, u2

\* Ids are only compared for equality, so permuting them changes nothing.
CallSymmetry == Permutations(TgIds) \cup Permutations(SipIds)
=============================================================================
