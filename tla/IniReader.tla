----------------------------- MODULE IniReader -----------------------------
(***************************************************************************)
(* The configuration file parser (include/INIReader.h).  A line is a       *)
(* sequence of characters; a word that the parser never looks into is one  *)
(* character, " " stands for any white space and "BOM" for the three bytes *)
(* of a UTF-8 mark.  Letters are of one case: MakeKey folds them.          *)
(***************************************************************************)
EXTENDS Integers, Sequences, FiniteSets, SequencesExt

CONSTANTS
    MaxLine,      \* characters fgets returns at once, INI_MAX_LINE - 1
    MaxName       \* characters kept of a section or a name, MAX_NAME - 1

ASSUME IniAssumption == MaxLine \in Nat \ {0} /\ MaxName \in Nat \ {0}

VARIABLES
    file,        \* whether there is such a file, whether it opens, its lines
    input,       \* what fgets has not read yet
    lineno,
    section,
    prev_name,
    error,       \* what ini_parse returns, INIReader::_error
    values       \* INIReader::_values

iniVars == <<file, input, lineno, section, prev_name, error, values>>

Missing == [exists |-> FALSE, opens |-> FALSE, lines |-> <<>>]
Unreadable == [exists |-> TRUE, opens |-> FALSE, lines |-> <<>>]
Opened(lines) == [exists |-> TRUE, opens |-> TRUE, lines |-> lines]

-----------------------------------------------------------------------------
(* Strings *)

From(s, i) == SubSeq(s, i, Len(s))
UpTo(s, i) == SubSeq(s, 1, i)

\* rstrip and lskip.
rstrip(s) == UpTo(s, Max({0} \cup {i \in DOMAIN s : s[i] # " "}))
lskip(s) == From(s, Min({Len(s) + 1} \cup {i \in DOMAIN s : s[i] # " "}))

\* The place of the first of chars, or of a comment that follows white space;
\* the place after the end where there is neither.
find_chars_or_comment(s, chars) ==
    Min({Len(s) + 1} \cup
        {i \in DOMAIN s : s[i] \in chars \/ (s[i] = ";" /\ i > 1 /\ s[i - 1] = " ")})

\* strncpy0.
strncpy0(s) == IF Len(s) > MaxName THEN UpTo(s, MaxName) ELSE s

\* A value without its inline comment and the white space around it.
Value(s) == rstrip(UpTo(s, find_chars_or_comment(s, {}) - 1))

-----------------------------------------------------------------------------
(* ini_parse_stream *)

\* ValueHandler: a value of a key that has one is appended after a line break.
ValueHandler(name, value) ==
    LET key == <<section, name>>
        old == IF key \in DOMAIN values THEN values[key] ELSE <<>>
        new == (IF old = <<>> THEN old ELSE Append(old, "\n")) \o value IN
    values' = [k \in DOMAIN values \cup {key} |-> IF k = key THEN new ELSE values[k]]

\* Only the first error is kept.
Fail ==
    /\ error' = IF error = 0 THEN lineno + 1 ELSE error
    /\ UNCHANGED <<section, prev_name, values>>

\* Non-blank line with leading white space: one more line of the last name.
Continuation(start) ==
    /\ ValueHandler(prev_name, Value(start))
    /\ UNCHANGED <<section, prev_name, error>>

\* Mutant: the last name outlives its section.
SectionLine_KeepsName(start) ==
    LET rest == Tail(start)
        end == find_chars_or_comment(rest, {"]"}) IN
    \/ /\ end <= Len(rest) /\ rest[end] = "]"
       /\ section' = strncpy0(UpTo(rest, end - 1))
       /\ UNCHANGED <<prev_name, error, values>>
    \/ ~(end <= Len(rest) /\ rest[end] = "]") /\ Fail

\* A "[section]" line.
SectionLine(start) ==
    LET rest == Tail(start)
        end == find_chars_or_comment(rest, {"]"}) IN
    \/ /\ end <= Len(rest) /\ rest[end] = "]"
       /\ section' = strncpy0(UpTo(rest, end - 1))
       /\ prev_name' = <<>>
       /\ UNCHANGED <<error, values>>
    \/ ~(end <= Len(rest) /\ rest[end] = "]") /\ Fail

\* A name[=:]value line.
PairLine(start) ==
    LET end == find_chars_or_comment(start, {"=", ":"})
        name == rstrip(UpTo(start, end - 1)) IN
    \/ /\ end <= Len(start) /\ start[end] \in {"=", ":"}
       /\ prev_name' = strncpy0(name)
       /\ ValueHandler(name, Value(lskip(From(start, end + 1))))
       /\ UNCHANGED <<section, error>>
    \/ ~(end <= Len(start) /\ start[end] \in {"=", ":"}) /\ Fail

\* The cases of the loop body, in their order.
ParseLine(line) ==
    LET marked == lineno = 0 /\ line # <<>> /\ line[1] = "BOM"
        stripped == rstrip(IF marked THEN Tail(line) ELSE line)
        start == lskip(stripped) IN
    CASE start = <<>> \/ start[1] \in {";", "#"} ->
            UNCHANGED <<section, prev_name, error, values>>
      [] prev_name # <<>> /\ (Len(start) < Len(stripped) \/ marked) -> Continuation(start)
      [] start[1] = "[" -> SectionLine(start)
      [] OTHER -> PairLine(start)

\* fgets: a line that does not fit is read in pieces.
ReadLine ==
    /\ input # <<>>
    /\ LET line == Head(input)
           fits == Len(line) < MaxLine IN
       /\ input' = (IF fits THEN <<>> ELSE <<From(line, MaxLine + 1)>>) \o Tail(input)
       /\ ParseLine(IF fits THEN line ELSE UpTo(line, MaxLine))
    /\ lineno' = lineno + 1
    /\ UNCHANGED file

\* ini_parse up to its loop: fopen.
IniInit(opened) ==
    /\ file = opened
    /\ input = file.lines
    /\ lineno = 0
    /\ section = <<>>
    /\ prev_name = <<>>
    /\ error = IF file.opens THEN 0 ELSE -1
    /\ values = <<>>

-----------------------------------------------------------------------------
(* INIReader's getters *)

Get(sec, name, default) ==
    IF <<sec, name>> \in DOMAIN values THEN values[<<sec, name>>] ELSE default

-----------------------------------------------------------------------------
(* What a file means, as the comments of the header say it *)

Unmarked(i) ==
    LET line == file.lines[i] IN
    rstrip(IF i = 1 /\ line # <<>> /\ line[1] = "BOM" THEN Tail(line) ELSE line)
Text(i) == lskip(Unmarked(i))
Indented(i) == Len(Text(i)) < Len(Unmarked(i))
HasSeparator(s, chars) ==
    LET end == find_chars_or_comment(s, chars) IN end <= Len(s) /\ s[end] \in chars
Before(s, chars) == UpTo(s, find_chars_or_comment(s, chars) - 1)
NameAt(i) == rstrip(Before(Text(i), {"=", ":"}))

\* The kind of each line, from those before it: a line continues the last pair
\* of its section.
Kinds ==
    LET kind[i \in DOMAIN file.lines] ==
          LET last == Max({0} \cup {j \in 1..(i - 1) : kind[j] \in {"pair", "section"}}) IN
          CASE Text(i) = <<>> \/ Text(i)[1] \in {";", "#"} -> "none"
            [] Indented(i) /\ last > 0 /\ kind[last] = "pair" /\ NameAt(last) # <<>> -> "more"
            [] Text(i)[1] = "[" ->
                  IF HasSeparator(Tail(Text(i)), {"]"}) THEN "section" ELSE "bad"
            [] OTHER -> IF HasSeparator(Text(i), {"=", ":"}) THEN "pair" ELSE "bad"
    IN kind

\* The section and the name a line belongs to, and its piece of the value.
LastOf(i, kind) == Max({0} \cup {j \in 1..i : Kinds[j] = kind})
KeyAt(i) ==
    LET s == LastOf(i, "section") IN
    <<IF s = 0 THEN <<>> ELSE Before(Tail(Text(s)), {"]"}), NameAt(LastOf(i, "pair"))>>
AfterName(i) == From(Text(i), find_chars_or_comment(Text(i), {"=", ":"}) + 1)
PieceAt(i) ==
    IF Kinds[i] = "more" THEN Value(Text(i)) ELSE lskip(Value(AfterName(i)))

\* The values of a file: the pieces of each key, joined by line breaks.
Meant ==
    LET lines == {i \in DOMAIN file.lines : Kinds[i] \in {"pair", "more"}} IN
    [k \in {KeyAt(i) : i \in lines} |->
       FoldLeft(LAMBDA text, i : (IF text = <<>> THEN text ELSE Append(text, "\n")) \o PieceAt(i),
                <<>>, SetToSortSeq({i \in lines : KeyAt(i) = k}, <))]

\* The keys with a line that gives no value, only a comment after white space.
\* PairLine looks for comments once it has skipped that white space, and so takes
\* this one for the value.
Commented ==
    {KeyAt(i) : i \in {j \in DOMAIN file.lines :
        Kinds[j] = "pair" /\ PieceAt(j) = <<>> /\ lskip(AfterName(j)) # <<>>}}

\* The first line that is neither of these, or 0.
FirstBad ==
    LET bad == {i \in DOMAIN file.lines : Kinds[i] = "bad"} IN
    IF bad = {} THEN 0 ELSE Min(bad)

\* Every line fits into the parser's buffer, every name and section is kept whole.
Fits ==
    \A i \in DOMAIN file.lines :
        /\ Len(file.lines[i]) < MaxLine
        /\ Kinds[i] = "pair" => Len(NameAt(i)) <= MaxName
        /\ Kinds[i] = "section" => Len(Before(Tail(Text(i)), {"]"})) <= MaxName
=============================================================================
