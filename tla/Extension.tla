----------------------------- MODULE Extension -----------------------------
(***************************************************************************)
(* What a SIP caller dialled: the user part of the URI (sip.cpp) and the   *)
(* three kinds of extension AcceptIncomingSip knows (gateway.cpp).  A      *)
(* string is a sequence of characters; MaxLong stands for LONG_MAX.        *)
(***************************************************************************)
EXTENDS Naturals, Sequences, SequencesExt

CONSTANT MaxLong

ASSUME MaxLongAssumption == MaxLong \in Nat

Digit == [d \in {"0", "1", "2", "3", "4", "5", "6", "7", "8", "9"} |->
            CHOOSE n \in 0..9 : ToString(n) = d]

is_digits(str) == \A i \in DOMAIN str : str[i] \in DOMAIN Digit

\* Mutant: a conversion that wraps around instead of throwing (strtoul, atol).
stol_Wraps(str) ==
    LET value == FoldLeft(LAMBDA n, d : 10 * n + Digit[d], 0, str) IN
    IF str = <<>> THEN {} ELSE {value % (MaxLong + 1)}

\* std::stol of a string of digits: the set of its value, empty where it throws
\* (no digit at all, or a value that does not fit).
stol(str) ==
    LET value == FoldLeft(LAMBDA n, d : 10 * n + Digit[d], 0, str) IN
    IF str = <<>> \/ value > MaxLong THEN {} ELSE {value}

\* What AcceptIncomingSip leaves in the context; an extension is refused with
\* all fields empty.
Context(username, phone, id) ==
    [ext_username |-> username, ext_phone |-> phone, user_id |-> id]

Refused == Context(<<>>, <<>>, {})

\* The cases of AcceptIncomingSip, in their order.
AcceptIncomingSip(ext) ==
    LET From(n) == SubSeq(ext, n, Len(ext)) IN
    CASE Len(ext) > 3 /\ SubSeq(ext, 1, 3) = <<"t", "g", "#">> ->
            Context(From(4), <<>>, {})
      [] Len(ext) > 1 /\ ext[1] = "+" /\ is_digits(From(2)) ->
            Context(<<>>, From(2), {})
      [] is_digits(ext) -> Context(<<>>, <<>>, stol(ext))
      [] OTHER -> Refused

\* user_from_uri: pjsip parses the URI (external); other schemes have no user.
user_from_uri(uri) ==
    IF uri.parsed /\ uri.scheme = "sip" THEN uri.user ELSE <<>>
=============================================================================
