----------------------------- MODULE MCSettings -----------------------------
(* Small configuration files for TLC. *)
EXTENDS Settings, TLC

CONSTANT MaxLines

\* Lines of every kind: sections, pairs with both separators and with comments,
\* continued values, comments, a blank line, bad lines.
Lines == {
    <<"[", "telegram", "]">>,
    <<"[", "sip", "]", " ", ";", "x">>,
    <<"[", "sip">>,
    <<"[", "a", "b", "c", "]">>,
    <<";", "x", "x", "x", "x", "x", "x", "x", "x", "raw_pcm", "=", "off">>,
    <<"api_id", "=", "9">>,
    <<"core", "=", "-1">>,
    <<"api_hash", " ", ":", " ", "h", " ", ";", "x">>,
    <<"api_hash", "=", " ", ";", "x">>,
    <<"raw_pcm", "=", "off">>,
    <<" ", "x", " ", ";", "x">>,
    <<" ", "[", "sip", "]">>,
    <<";", "api_id", "=", "0">>,
    <<"x">>}

\* A file that runs, before which and after which other lines may stand.
Complete == <<<<"BOM", "[", "telegram", "]">>, <<"api_id", "=", "9">>, <<"api_hash", "=", "h">>>>

SomeFiles ==
    {Missing, Unreadable}
    \cup {Opened(s) : s \in UNION {[1..n -> Lines] : n \in 0..MaxLines}}
    \cup {Opened(Complete \o s) : s \in UNION {[1..n -> Lines] : n \in 0..(MaxLines - 1)}}

\* One path holds any file, the others none or one that runs.
SomeDisks ==
    {[rest EXCEPT ![p] = f] :
        p \in Paths, f \in SomeFiles, rest \in [Paths -> {Missing, Unreadable, Opened(Complete)}]}

Numbers == ("9" :> 9 @@ "0" :> 0 @@ "-1" :> -1 @@ "65536" :> 65536)
=============================================================================
