---------------------------- MODULE Switchboard ----------------------------
(***************************************************************************)
(* What the gateway promises to its callers, without queues, events and    *)
(* the states of the two libraries.  A context becomes a bridge once; a    *)
(* bridge takes calls that no other bridge has and keeps them; it talks    *)
(* only with both of them; when it goes, it lets go of both, and of no     *)
(* other call, and its context never comes back.  The gateway lets go of a *)
(* call in no other way, but for refusing one that no bridge has.          *)
(***************************************************************************)
CONSTANTS Ctx, TgIds, SipIds, NoTg, NoSip

VARIABLES
    board,      \* of each context: its stage and its two calls
    tgLine,     \* of each call: "idle", "open", "over" (ended by itself)
    sipLine     \*               or "left" (the gateway let go of it)

Entry(stage, t, s) == [stage |-> stage, tg |-> t, sip |-> s]

Init ==
    /\ board = [c \in Ctx |-> Entry("unused", NoTg, NoSip)]
    /\ tgLine = [t \in TgIds |-> "idle"]
    /\ sipLine = [s \in SipIds |-> "idle"]

TgHeld(t) == \E c \in Ctx : board[c].tg = t
SipHeld(s) == \E c \in Ctx : board[c].sip = s

Set(line, x, v) == [line EXCEPT ![x] = v]

\* A slot is used again; a session may be over as soon as it is opened.
OpensSip(s) ==
    /\ sipLine[s] # "open" /\ ~SipHeld(s)
    /\ \E v \in {"open", "over"} : sipLine' = Set(sipLine, s, v)

-----------------------------------------------------------------------------
(* Calls. *)

TgRings(t) ==
    /\ tgLine[t] = "idle" /\ tgLine' = Set(tgLine, t, "open")
    /\ UNCHANGED <<board, sipLine>>

SipRings(s) == OpensSip(s) /\ UNCHANGED <<board, tgLine>>

TgEnds(t) ==
    /\ tgLine[t] = "open" /\ tgLine' = Set(tgLine, t, "over")
    /\ UNCHANGED <<board, sipLine>>

SipEnds(s) ==
    /\ sipLine[s] = "open" /\ sipLine' = Set(sipLine, s, "over")
    /\ UNCHANGED <<board, tgLine>>

Refuse(t) ==
    /\ tgLine[t] # "idle" /\ ~TgHeld(t)
    /\ tgLine' = Set(tgLine, t, "left")
    /\ UNCHANGED <<board, sipLine>>

-----------------------------------------------------------------------------
(* Bridges. *)

\* Bridge c for a Telegram call, with a new SIP call unless that failed.
TakeTg(c, t) ==
    /\ board[c].stage = "unused"
    /\ tgLine[t] # "idle" /\ ~TgHeld(t) /\ tgLine' = tgLine
    /\ \/ board' = [board EXCEPT ![c] = Entry("setup", t, NoSip)] /\ sipLine' = sipLine
       \/ \E s \in SipIds :
            /\ OpensSip(s)
            /\ board' = [board EXCEPT ![c] = Entry("setup", t, s)]

TakeSip(c, s) ==
    /\ board[c].stage = "unused"
    /\ sipLine[s] # "idle" /\ ~SipHeld(s)
    /\ board' = [board EXCEPT ![c] = Entry("setup", NoTg, s)]
    /\ UNCHANGED <<tgLine, sipLine>>

\* The Telegram call to the one the SIP caller asked for.
Dial(c, t) ==
    /\ board[c].stage = "setup" /\ board[c].tg = NoTg
    /\ tgLine[t] = "idle" /\ tgLine' = Set(tgLine, t, "open")
    /\ board' = [board EXCEPT ![c] = Entry("setup", t, @.sip)]
    /\ sipLine' = sipLine

Talk(c) ==
    /\ board[c].stage = "setup" /\ board[c].tg # NoTg /\ board[c].sip # NoSip
    /\ board' = [board EXCEPT ![c] = Entry("talking", @.tg, @.sip)]
    /\ UNCHANGED <<tgLine, sipLine>>

\* What becomes of the calls when the gateway is done with x, which it need
\* not hang up once it is over.
LetGo(line, x) ==
    {[y \in DOMAIN line |-> IF y = x THEN "left" ELSE line[y]]}
      \cup (IF x \in DOMAIN line /\ line[x] = "open" THEN {} ELSE {line})

Remove(c) ==
    /\ board[c].stage \in {"setup", "talking"}
    /\ tgLine' \in LetGo(tgLine, board[c].tg)
    /\ sipLine' \in LetGo(sipLine, board[c].sip)
    /\ board' = [board EXCEPT ![c] = Entry("gone", NoTg, NoSip)]

Next ==
    \/ \E t \in TgIds : TgRings(t) \/ TgEnds(t) \/ Refuse(t)
    \/ \E s \in SipIds : SipRings(s) \/ SipEnds(s)
    \/ \E c \in Ctx, t \in TgIds : TakeTg(c, t) \/ Dial(c, t)
    \/ \E c \in Ctx, s \in SipIds : TakeSip(c, s)
    \/ \E c \in Ctx : Talk(c) \/ Remove(c)

Spec == Init /\ [][Next]_<<board, tgLine, sipLine>>
=============================================================================
