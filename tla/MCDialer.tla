------------------------------ MODULE MCDialer ------------------------------
(* Instances of Dialer and Extension for TLC. *)
EXTENDS Dialer, Extension

CONSTANTS u1, u2, k1, k2, Chars, MaxLength

\* Users and keys are interchangeable.
Symmetry == Permutations(Users) \cup Permutations(Keys)

Uris == [parsed : BOOLEAN, scheme : {"sip", "sips", "tel"},
         user : UNION {[1..n -> Chars] : n \in 0..MaxLength}]

\* The digits of n, of which there are as many as in s, are those of s.
Spells(n, s) == \A i \in 1..Len(s) : (n \div 10^(Len(s) - i)) % 10 = Digit[s[i]]

\* A URI is read as what its user part spells, or refused.
ReadAsSpelt(uri) ==
    LET s == uri.user
        sip == uri.parsed /\ uri.scheme = "sip"
        ctx == AcceptIncomingSip(user_from_uri(uri))
        name == Len(s) > 3 /\ IsPrefix(<<"t", "g", "#">>, s)
        phone == Len(s) > 1 /\ s[1] = "+" /\ is_digits(Tail(s))
        id == s # <<>> /\ is_digits(s) IN
    \/ ctx = Refused /\ ~(sip /\ (name \/ phone \/ (id /\ Len(s) <= 2)))
    \/ sip /\ name /\ s = <<"t", "g", "#">> \o ctx.ext_username
    \/ sip /\ phone /\ s = <<"+">> \o ctx.ext_phone
    \/ sip /\ id /\ \E n \in 0..MaxLong : ctx = Context(<<>>, <<>>, {n}) /\ Spells(n, s)

\* TLC evaluates this once.
AllReadAsSpelt == \A uri \in Uris : ReadAsSpelt(uri)

\* Whatever URI a call that is dialled comes with, the context dials what the user
\* part spells, character by character, after the mark of its kind
\* (sip.cpp:214-236, gateway.cpp:252-270); nothing of a refused extension is
\* dialled and no id is dialled modulo 2^64.  What has the form of one of the
\* three kinds is not refused, as far as ids of up to two digits go, which always
\* fit.
ExtensionsAsSpelt == dial.pc # "idle" => AllReadAsSpelt
=============================================================================
