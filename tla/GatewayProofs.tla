--------------------------- MODULE GatewayProofs ---------------------------
(***************************************************************************)
(* Gateway, for any number of calls, slots, users and contexts: the lemmas *)
(* on its data and its type correctness; the shape of the bridges, which   *)
(* legs a bridge has in each state of its machine and that it keeps them;  *)
(* and the Telegram side: whatever the order in which events are handled,  *)
(* no Telegram call is forgotten.                                          *)
(***************************************************************************)
EXTENDS Gateway, SequenceTheorems, WellFoundedInduction, TLAPS

-----------------------------------------------------------------------------
(* Lemmas on the data. *)

\* search_call returns one of the matches: a non-empty set of context ids has
\* a least element.
LEMMA FirstIsMatch ==
    ASSUME NEW M, M \subseteq Ctx, M # {}
    PROVE  First(M) \in M
<1>1. M \subseteq Nat
  BY ConstantsAssumption DEF Ctx
<1>2. \E x \in M : \A y \in M : ~(<<y, x>> \in OpToRel(<, Nat))
  BY <1>1, NatLessThanWellFounded, WFMin, Zenon
<1>3. \A x, y \in Nat : y < x => <<y, x>> \in OpToRel(<, Nat)
  BY Zenon DEF OpToRel
<1>4. \E x \in M : \A y \in M : ~(y < x)
  BY <1>1, <1>2, <1>3, Zenon
<1>5. \E x \in M : \A y \in M : x <= y
  BY <1>1, <1>4
<1> QED
  BY <1>5 DEF First

\* What Append and Tail do to the elements of a queue.
LEMMA AppendElements ==
    ASSUME NEW S, NEW q \in Seq(S), NEW e \in S
    PROVE  Append(q, e) \in Seq(S) /\ Elements(Append(q, e)) = Elements(q) \cup {e}
BY AppendProperties, LenProperties DEF Elements

LEMMA TailElements ==
    ASSUME NEW S, NEW q \in Seq(S), q # <<>>
    PROVE  /\ Head(q) \in S /\ Tail(q) \in Seq(S)
           /\ Elements(q) = {Head(q)} \cup Elements(Tail(q))
<1>1. Head(q) \in S /\ Tail(q) \in Seq(S) /\ Len(Tail(q)) = Len(q) - 1
  BY HeadTailProperties
<1>2. \A i \in 1..Len(Tail(q)) : Tail(q)[i] = q[i + 1]
  BY HeadTailProperties
<1>3. Len(q) \in Nat \ {0} /\ Head(q) = q[1]
  BY EmptySeq, LenProperties
<1>4. \A i \in 1..Len(q) : i = 1 \/ (i - 1 \in 1..Len(Tail(q)) /\ q[i] = Tail(q)[i - 1])
  BY <1>1, <1>2, <1>3
<1>5. Elements(q) \subseteq {Head(q)} \cup Elements(Tail(q))
  <2>1. ASSUME NEW i \in 1..Len(q) PROVE q[i] \in {Head(q)} \cup Elements(Tail(q))
    <3>1. CASE i = 1
      BY <1>3, <3>1
    <3>2. CASE i - 1 \in 1..Len(Tail(q)) /\ q[i] = Tail(q)[i - 1]
      BY <3>2 DEF Elements
    <3> QED
      BY <1>4, <3>1, <3>2
  <2> QED
    BY <2>1 DEF Elements
<1>6. Elements(Tail(q)) \subseteq Elements(q)
  BY <1>1, <1>2, <1>3 DEF Elements
<1>7. Head(q) \in Elements(q)
  BY <1>3 DEF Elements
<1> QED
  BY <1>1, <1>5, <1>6, <1>7

LEMMA ElementsTyped ==
    ASSUME NEW S, NEW q \in Seq(S)
    PROVE  Elements(q) \subseteq S
BY ElementOfSeq DEF Elements

\* The fields of queued events, by type.
LEMMA TgEventFields ==
    ASSUME NEW e \in TgEvent, e.type = "updateCall"
    PROVE  /\ e.id \in TgIds /\ e.out \in BOOLEAN /\ e.user \in Users \cup {NoUser}
           /\ e.state \in {"pending", "ready", "hangup", "discarded", "error"}
BY DEF TgEvent

LEMMA SipEventFields ==
    ASSUME NEW e \in SipEvent
    PROVE  e.id \in SipIds
BY DEF SipEvent

\* The event constructors.
LEMMA EventsTyped ==
    /\ \A c \in Ctx : InternalError(c) \in InternalEvent
    /\ \A t \in TgIds, u \in Users \cup {NoUser}, o \in BOOLEAN,
          s \in {"pending", "ready", "hangup", "discarded", "error"} :
             UpdateCall(t, s, o, u) \in TgEvent
    /\ \A s \in SipIds, st \in {"EARLY", "CONFIRMED", "DISCONNECTED"} :
             CallStateUpdate(s, st) \in SipEvent
BY DEF InternalError, InternalEvent, UpdateCall, TgEvent, CallStateUpdate, SipEvent

LEMMA NewContextTyped == NewContext \in BridgeType
BY ConstantsAssumption DEF NewContext, BridgeType, Tops, Subs
-----------------------------------------------------------------------------
(* Type correctness. *)

LEMMA DiscardTyped ==
    ASSUME TypeOK, NEW t \in TgIds \cup {NoTg}, NEW q \in Seq(TgEvent), DiscardTg(t, q)
    PROVE  td' \in [TgIds -> TdType] /\ tg_events' \in Seq(TgEvent)
<1>1. CASE t = NoTg
  BY <1>1 DEF DiscardTg, TypeOK
<1>2. CASE t # NoTg
  <2>1. td[t] \in TdType
    BY <1>2 DEF TypeOK
  <2>2. /\ [td[t] EXCEPT !.st = "hangup", !.asked = TRUE] \in TdType
        /\ [td[t] EXCEPT !.asked = TRUE] \in TdType
    BY <2>1 DEF TdType
  <2>3. td' \in [TgIds -> TdType]
    BY <1>2, <2>2 DEF DiscardTg, TypeOK
  <2>4. UpdateCall(t, "hangup", td[t].out, td[t].user) \in TgEvent
    BY <1>2, <2>1, EventsTyped DEF TdType
  <2>5. tg_events' \in Seq(TgEvent)
    BY <1>2, <2>4, AppendElements DEF DiscardTg
  <2> QED
    BY <2>3, <2>5
<1> QED
  BY <1>1, <1>2

LEMMA HangupTyped ==
    ASSUME TypeOK, NEW s, NEW q \in Seq(SipEvent), Hangup(s, q)
    PROVE  /\ calls' \subseteq calls /\ pj' \in [SipIds -> PjType]
           /\ sip_events' \in Seq(SipEvent)
<1>1. CASE s \notin calls
  BY <1>1 DEF Hangup, TypeOK
<1>2. CASE s \in calls
  <2>1. s \in SipIds /\ pj[s] \in PjType
    BY <1>2 DEF TypeOK
  <2>2. /\ [pj[s] EXCEPT !.st = "ended", !.hung = TRUE] \in PjType
        /\ [pj[s] EXCEPT !.hung = TRUE] \in PjType
    BY <2>1 DEF PjType
  <2>3. pj' \in [SipIds -> PjType] /\ calls' \subseteq calls
    BY <1>2, <2>2 DEF Hangup, TypeOK
  <2>4. sip_events' \in Seq(SipEvent)
    BY <1>2, <2>1, EventsTyped, AppendElements DEF Hangup
  <2> QED
    BY <2>3, <2>4
<1> QED
  BY <1>1, <1>2

\* The loop's own variables, which every handler sets the same way.
LoopTyped ==
    /\ up' \in {"running", "stopped"} \cup Thrown /\ e_flag' \in BOOLEAN
    /\ phase' \in {"internal", "tg", "sip"}

\* The process ends, whatever was thrown.
Aborts == \E why \in Thrown : Abort(why)

LEMMA Throws ==
    (\/ Abort("getUser") \/ Abort("Start") \/ Abort("Stop") \/ Abort("stoi")
     \/ Abort("CALL_NOT_FOUND")) => Aborts
BY DEF Aborts, Thrown

LEMMA AbortTyped ==
    ASSUME TypeOK, Aborts, LoopTyped
    PROVE  TypeOK'
BY DEF Aborts, Abort, LoopTyped, TypeOK

LEMMA TerminateTyped ==
    ASSUME TypeOK, NEW c \in Ctx, NEW b \in BridgeType,
           NEW i \in Seq(InternalEvent), NEW q \in Seq(TgEvent),
           NEW r \in Seq(SipEvent), Terminate(c, b, i, q, r),
           e_flag' \in BOOLEAN, phase' \in {"internal", "tg", "sip"}
    PROVE  TypeOK'
<1>1. CASE Aborts
  BY <1>1, AbortTyped DEF Aborts, Abort, LoopTyped
<1>2. CASE CleanUp(b, q, r) /\ bridges' = [bridges EXCEPT ![c] = NewContext]
           /\ internal_events' = i /\ UNCHANGED <<up, ctx_counter>>
  <2>1. b.tg \in TgIds \cup {NoTg}
    BY DEF BridgeType
  <2>2. td' \in [TgIds -> TdType] /\ tg_events' \in Seq(TgEvent)
    BY <1>2, <2>1, DiscardTyped DEF CleanUp
  <2>3. /\ calls' \subseteq calls /\ pj' \in [SipIds -> PjType]
        /\ sip_events' \in Seq(SipEvent)
    BY <1>2, HangupTyped DEF CleanUp
  <2> QED
    BY <1>2, <2>2, <2>3, NewContextTyped DEF TypeOK
<1> QED
  BY <1>1, <1>2, Throws DEF Terminate

\* A matching bridge is one.
LEMMA Matches ==
    /\ \A t : WithTg(t) \subseteq Ctx /\ (WithTg(t) # {} => First(WithTg(t)) \in WithTg(t))
    /\ \A s : WithSip(s) \subseteq Ctx /\ (WithSip(s) # {} => First(WithSip(s)) \in WithSip(s))
<1>1. \A t : WithTg(t) \subseteq Ctx
  BY DEF WithTg
<1>2. \A s : WithSip(s) \subseteq Ctx
  BY DEF WithSip
<1> QED
  BY <1>1, <1>2, FirstIsMatch

LEMMA OpenSipTyped ==
    ASSUME TypeOK, NEW s \in SipIds, NEW st \in ActiveSip, OpenSip(s, st)
    PROVE  calls' \subseteq SipIds /\ pj' \in [SipIds -> PjType]
<1>1. [st |-> IF s \in calls THEN "ended" ELSE st, media |-> FALSE, nego |-> 1,
       hung |-> FALSE] \in PjType
  BY ConstantsAssumption DEF PjType, ActiveSip
<1> QED
  BY <1>1 DEF OpenSip, TypeOK

LEMMA LinkableHasMedia ==
    ASSUME TypeOK, NEW b, MediaLinkable(b)
    PROVE  b.sip \in SipIds /\ pj[b.sip].nego \in 0..MaxMedia /\ pj[b.sip].nego # 0
<1>1. b.sip \in SipIds /\ pj[b.sip] \in PjType
  BY DEF MediaLinkable, TypeOK
<1> QED
  BY <1>1, ConstantsAssumption DEF PjType

LEMMA BridgeAudioTyped ==
    ASSUME TypeOK, NEW c \in Ctx, NEW b \in BridgeType, BridgeAudio(c, b)
    PROVE  bridges' \in [Ctx -> BridgeType] /\ internal_events' \in Seq(InternalEvent)
<1>1. MediaLinkable(b) => [b EXCEPT !.aud = pj[b.sip].nego] \in BridgeType
  BY LinkableHasMedia DEF BridgeType
<1>2. Append(internal_events, InternalError(c)) \in Seq(InternalEvent)
  BY EventsTyped, AppendElements DEF TypeOK
<1> QED
  BY <1>1, <1>2 DEF BridgeAudio, TypeOK

LEMMA AnswerSipTyped ==
    ASSUME TypeOK, NEW c \in Ctx, NEW b \in BridgeType, AnswerSip(c, b)
    PROVE  /\ bridges' \in [Ctx -> BridgeType] /\ internal_events' \in Seq(InternalEvent)
           /\ pj' \in [SipIds -> PjType]
<1>1. Append(internal_events, InternalError(c)) \in Seq(InternalEvent)
  BY EventsTyped, AppendElements DEF TypeOK
<1>2. bridges' \in [Ctx -> BridgeType] /\ internal_events' \in Seq(InternalEvent)
  BY <1>1 DEF AnswerSip, TypeOK
<1>3. CASE pj' = pj
  BY <1>2, <1>3 DEF TypeOK
<1>4. CASE /\ b.sip \in calls
           /\ pj' = [pj EXCEPT ![b.sip] = [pj[b.sip] EXCEPT !.st = "confirmed"]]
  <2>1. b.sip \in SipIds /\ pj[b.sip] \in PjType
    BY <1>4 DEF TypeOK
  <2>2. [pj[b.sip] EXCEPT !.st = "confirmed"] \in PjType
    BY <2>1 DEF PjType, ActiveSip
  <2> QED
    BY <1>2, <1>4, <2>1, <2>2 DEF TypeOK
<1> QED
  BY <1>3, <1>4 DEF AnswerSip, Answers

LEMMA PollTyped ==
    ASSUME TypeOK, NEW p, NEW n \in {"internal", "tg", "sip"}, Polls(p, n)
    PROVE  e_flag' \in BOOLEAN /\ phase' \in {"internal", "tg", "sip"}
BY DEF Polls, TypeOK

LEMMA InternalErrorTyped == TypeOK /\ ProcessInternalError => TypeOK'
<1> SUFFICES ASSUME TypeOK, ProcessInternalError PROVE TypeOK'
  OBVIOUS
<1> DEFINE c == Head(internal_events).ctx
           q == Tail(internal_events)
<1>1. c \in Ctx /\ q \in Seq(InternalEvent) /\ bridges[c] \in BridgeType
  <2>1. internal_events \in Seq(InternalEvent) /\ internal_events # <<>>
    BY DEF ProcessInternalError, PollInternal, TypeOK
  <2>2. Head(internal_events) \in InternalEvent /\ q \in Seq(InternalEvent)
    BY <2>1, TailElements
  <2> QED
    BY <2>2 DEF InternalEvent, TypeOK
<1>2. e_flag' \in BOOLEAN /\ phase' \in {"internal", "tg", "sip"}
  BY PollTyped DEF ProcessInternalError, PollInternal
<1>3. CASE Terminate(c, bridges[c], q, tg_events, sip_events)
  BY <1>1, <1>2, <1>3, TerminateTyped DEF TypeOK
<1>4. CASE /\ internal_events' = q
           /\ UNCHANGED <<up, bridges, ctx_counter, tg_events, sip_events, calls, pj, td>>
  BY <1>1, <1>2, <1>4 DEF TypeOK
<1> QED
  BY <1>3, <1>4 DEF ProcessInternalError

LEMMA DialSipTyped ==
    ASSUME TypeOK, NEW e, e.id \in TgIds, e.user \in Users \cup {NoUser},
           NEW q \in Seq(TgEvent), DialSip(e, q),
           e_flag' \in BOOLEAN, phase' \in {"internal", "tg", "sip"}
    PROVE  TypeOK'
<1>1. CASE Aborts
  BY <1>1, AbortTyped DEF Aborts, Abort, LoopTyped
<1>2. CASE ~Aborts
  <2> DEFINE b == [NewContext EXCEPT !.top = "from_tg", !.sub = "sip_wait_media",
                                     !.tg = e.id, !.user = e.user]
  <2>1. PICK c \in Ctx : /\ NewCtx(c) /\ DialCallbackUri(c, b)
                         /\ tg_events' = q /\ UNCHANGED <<up, sip_events, td>>
    BY <1>2, Throws DEF DialSip
  <2>2. b \in BridgeType /\ \A s \in SipIds : [b EXCEPT !.sip = s] \in BridgeType
    BY NewContextTyped DEF BridgeType, Tops, Subs
  <2>3. ctx_counter' \in 0..MaxCtx
    BY <2>1, ConstantsAssumption DEF NewCtx, Ctx
  <2>4. Append(internal_events, InternalError(c)) \in Seq(InternalEvent)
    BY EventsTyped, AppendElements DEF TypeOK
  <2>5. CASE \E s \in SipIds : /\ OpenSip(s, "calling") /\ internal_events' = internal_events
                               /\ bridges' = [bridges EXCEPT ![c] = [b EXCEPT !.sip = s]]
    <3>1. PICK s \in SipIds : /\ OpenSip(s, "calling")
                              /\ internal_events' = internal_events
                              /\ bridges' = [bridges EXCEPT ![c] = [b EXCEPT !.sip = s]]
      BY <2>5
    <3>2. calls' \subseteq SipIds /\ pj' \in [SipIds -> PjType]
      BY <3>1, OpenSipTyped DEF ActiveSip
    <3> HIDE DEF b
    <3> QED
      BY <2>1, <2>2, <2>3, <3>1, <3>2 DEF TypeOK
  <2>6. CASE /\ bridges' = [bridges EXCEPT ![c] = b]
             /\ internal_events' = Append(internal_events, InternalError(c))
             /\ UNCHANGED <<calls, pj>>
    <3> HIDE DEF b
    <3> QED
      BY <2>1, <2>2, <2>3, <2>4, <2>6 DEF TypeOK
  <2> HIDE DEF b
  <2> QED
    BY <2>1, <2>5, <2>6 DEF DialCallbackUri
<1> QED
  BY <1>1, <1>2

LEMMA ReadyTyped ==
    ASSUME TypeOK, NEW c \in Ctx, NEW e, e.user \in Users \cup {NoUser},
           NEW q \in Seq(TgEvent), TgReadyInBridge(c, e, q),
           e_flag' \in BOOLEAN, phase' \in {"internal", "tg", "sip"}
    PROVE  TypeOK'
<1> DEFINE b == bridges[c]
           b1 == [b EXCEPT !.sub = "wait_dtmf", !.ctl = TRUE]
           b2 == [b EXCEPT !.sub = "sip_wait_media", !.ctl = TRUE, !.user = e.user]
<1>1. b1 \in BridgeType /\ b2 \in BridgeType
  BY DEF TypeOK, BridgeType, Subs
<1>2. CASE Aborts
  BY <1>2, AbortTyped DEF Aborts, Abort, LoopTyped
<1>3. CASE /\ BridgeAudio(c, b1) /\ tg_events' = q
           /\ UNCHANGED <<up, ctx_counter, sip_events, calls, pj, td>>
  <2> HIDE DEF b1
  <2>1. bridges' \in [Ctx -> BridgeType] /\ internal_events' \in Seq(InternalEvent)
    BY <1>1, <1>3, BridgeAudioTyped
  <2> QED
    BY <1>3, <2>1 DEF TypeOK
<1>4. CASE /\ AnswerSip(c, b2) /\ tg_events' = q
           /\ UNCHANGED <<up, ctx_counter, sip_events, calls, td>>
  <2> HIDE DEF b2
  <2>1. /\ bridges' \in [Ctx -> BridgeType] /\ internal_events' \in Seq(InternalEvent)
        /\ pj' \in [SipIds -> PjType]
    BY <1>1, <1>4, AnswerSipTyped
  <2> QED
    BY <1>4, <2>1 DEF TypeOK
<1> QED
  BY <1>2, <1>3, <1>4, Throws DEF TgReadyInBridge

LEMMA UpdateCallTyped == TypeOK /\ ProcessUpdateCall => TypeOK'
<1> SUFFICES ASSUME TypeOK, ProcessUpdateCall PROVE TypeOK'
  OBVIOUS
<1> DEFINE e == Head(tg_events)
           q == Tail(tg_events)
           c == First(WithTg(e.id))
<1>1. e \in TgEvent /\ e.type = "updateCall" /\ q \in Seq(TgEvent)
  BY TailElements DEF ProcessUpdateCall, PollTg, TypeOK
<1>2. /\ e.id \in TgIds /\ e.out \in BOOLEAN /\ e.user \in Users \cup {NoUser}
  BY <1>1, TgEventFields
<1>3. e_flag' \in BOOLEAN /\ phase' \in {"internal", "tg", "sip"}
  BY PollTyped DEF ProcessUpdateCall, PollTg
<1> HIDE DEF e, q
<1>4. CASE tg_events' = q /\ UNCHANGED <<up, bridges, ctx_counter, internal_events,
                                         sip_events, calls, pj, td>>
  BY <1>1, <1>3, <1>4 DEF TypeOK
<1>5. CASE DialSip(e, q)
  BY <1>1, <1>2, <1>3, <1>5, DialSipTyped
<1>6. CASE /\ CleanUp([NewContext EXCEPT !.tg = e.id], q, sip_events)
           /\ UNCHANGED <<up, bridges, ctx_counter, internal_events>>
  <2>1. td' \in [TgIds -> TdType] /\ tg_events' \in Seq(TgEvent)
    BY <1>1, <1>2, <1>6, DiscardTyped DEF CleanUp, NewContext
  <2>2. /\ calls' \subseteq calls /\ pj' \in [SipIds -> PjType]
        /\ sip_events' \in Seq(SipEvent)
    BY <1>6, HangupTyped DEF CleanUp, TypeOK
  <2> QED
    BY <1>3, <1>6, <2>1, <2>2 DEF TypeOK
<1>7. CASE WithTg(e.id) # {} /\ TgReadyInBridge(c, e, q)
  BY <1>1, <1>2, <1>3, <1>7, Matches, ReadyTyped
<1>8. CASE WithTg(e.id) # {} /\ Terminate(c, CleanTgId(bridges[c]), internal_events, q, sip_events)
  <2>1. c \in Ctx
    BY <1>8, Matches
  <2>2. CleanTgId(bridges[c]) \in BridgeType
    BY <2>1 DEF CleanTgId, TypeOK, BridgeType
  <2> QED
    BY <1>1, <1>3, <1>8, <2>1, <2>2, TerminateTyped DEF TypeOK
<1> QED
  <2>1. CASE WithTg(e.id) = {}
    BY <2>1, <1>4, <1>5, <1>6 DEF ProcessUpdateCall, UpdateCallInInit, e, q
  <2>2. CASE WithTg(e.id) # {}
    BY <2>2, <1>4, <1>7, <1>8 DEF ProcessUpdateCall, UpdateCallInBridge, e, q
  <2> QED
    BY <2>1, <2>2
LEMMA IncomingCallTyped == TypeOK /\ ProcessIncomingCall => TypeOK'
<1> SUFFICES ASSUME TypeOK, ProcessIncomingCall PROVE TypeOK'
  OBVIOUS
<1> DEFINE e == Head(sip_events)
           q == Tail(sip_events)
<1>1. e \in SipEvent /\ e.type = "IncomingCall" /\ q \in Seq(SipEvent)
  BY TailElements DEF ProcessIncomingCall, PollSip, TypeOK
<1>2. e.id \in SipIds
  BY <1>1, SipEventFields
<1>3. e_flag' \in BOOLEAN /\ phase' \in {"internal", "tg", "sip"}
  BY PollTyped DEF ProcessIncomingCall, PollSip
<1> HIDE DEF e, q
<1>4. CASE AcceptIncomingSip(e, q)
  <2> DEFINE b == [NewContext EXCEPT !.top = "from_sip", !.sub = "sip_wait_confirm",
                     !.sip = e.id,
                     !.user = IF e.extension \in Users THEN e.extension ELSE NoUser]
  <2>1. b \in BridgeType
    BY <1>2, NewContextTyped DEF BridgeType, Tops, Subs
  <2>2. PICK c \in Ctx :
          /\ NewCtx(c) /\ bridges' = [bridges EXCEPT ![c] = b]
          /\ \/ /\ pj' = [pj EXCEPT ![e.id] = [pj[e.id] EXCEPT !.st = "ringing"]]
                /\ sip_events' = Append(q, CallStateUpdate(e.id, "EARLY"))
                /\ internal_events' = internal_events
             \/ /\ internal_events' = Append(internal_events, InternalError(c))
                /\ sip_events' = q /\ pj' = pj
          /\ UNCHANGED <<up, tg_events, calls, td>>
    BY <1>4 DEF AcceptIncomingSip
  <2> HIDE DEF b
  <2>3. ctx_counter' \in 0..MaxCtx
    BY <2>2, ConstantsAssumption DEF NewCtx, Ctx
  <2>4. /\ Append(internal_events, InternalError(c)) \in Seq(InternalEvent)
        /\ Append(q, CallStateUpdate(e.id, "EARLY")) \in Seq(SipEvent)
    BY <1>1, <1>2, EventsTyped, AppendElements DEF TypeOK
  <2>5. [pj[e.id] EXCEPT !.st = "ringing"] \in PjType
    BY <1>2 DEF TypeOK, PjType, ActiveSip
  <2> QED
    BY <1>1, <1>2, <1>3, <2>1, <2>2, <2>3, <2>4, <2>5 DEF TypeOK
<1>5. CASE sip_events' = q /\ UNCHANGED <<up, bridges, ctx_counter, internal_events,
                                          tg_events, calls, pj, td>>
  BY <1>1, <1>3, <1>5 DEF TypeOK
<1> QED
  BY <1>4, <1>5 DEF ProcessIncomingCall, e, q

LEMMA DialTgTyped ==
    ASSUME TypeOK, NEW c \in Ctx, NEW q \in Seq(SipEvent), DialTgReturns(c, q),
           e_flag' \in BOOLEAN, phase' \in {"internal", "tg", "sip"}
    PROVE  TypeOK'
<1> DEFINE b == [bridges[c] EXCEPT !.sub = "wait_tg"]
<1>1. b \in BridgeType
  BY DEF TypeOK, BridgeType, Subs
<1>2. PICK u \in Users \cup {NoUser} :
        \/ \E t \in TgIds :
             /\ td' = [td EXCEPT ![t] = [st |-> "pending", out |-> TRUE,
                         user |-> u, asked |-> FALSE, received |-> FALSE]]
             /\ tg_events' = Append(tg_events, UpdateCall(t, "pending", TRUE, u))
             /\ bridges' = [bridges EXCEPT ![c] = [b EXCEPT !.user = u, !.tg = t]]
             /\ internal_events' = internal_events
        \/ /\ \/ bridges' = [bridges EXCEPT ![c] = b]
              \/ bridges' = [bridges EXCEPT ![c] = [b EXCEPT !.user = u]]
           /\ internal_events' = Append(internal_events, InternalError(c))
           /\ UNCHANGED <<td, tg_events>>
  BY <1>1 DEF DialTgReturns, BridgeType
<1>3. \A t \in TgIds : [b EXCEPT !.user = u, !.tg = t] \in BridgeType
  BY <1>1 DEF BridgeType
<1>4. [b EXCEPT !.user = u] \in BridgeType
  BY <1>1 DEF BridgeType
<1> HIDE DEF b
<1>5. Append(internal_events, InternalError(c)) \in Seq(InternalEvent)
  BY EventsTyped, AppendElements DEF TypeOK
<1>6. \A t \in TgIds : Append(tg_events, UpdateCall(t, "pending", TRUE, u)) \in Seq(TgEvent)
  BY EventsTyped, AppendElements DEF TypeOK
<1>7. [st |-> "pending", out |-> TRUE, user |-> u, asked |-> FALSE,
       received |-> FALSE] \in TdType
  BY DEF TdType, ActiveTg
<1>8. bridges' \in [Ctx -> BridgeType]
  BY <1>1, <1>2, <1>3, <1>4 DEF TypeOK
<1>9. /\ internal_events' \in Seq(InternalEvent) /\ tg_events' \in Seq(TgEvent)
      /\ td' \in [TgIds -> TdType]
  BY <1>2, <1>5, <1>6, <1>7 DEF TypeOK
<1>10. sip_events' = q /\ UNCHANGED <<up, ctx_counter, calls, pj>>
  BY DEF DialTgReturns
<1> QED
  BY <1>8, <1>9, <1>10 DEF TypeOK

LEMMA CallStateTyped == TypeOK /\ ProcessCallStateUpdate => TypeOK'
<1> SUFFICES ASSUME TypeOK, ProcessCallStateUpdate PROVE TypeOK'
  OBVIOUS
<1> DEFINE e == Head(sip_events)
           q == Tail(sip_events)
           c == First(WithSip(e.id))
<1>1. e \in SipEvent /\ q \in Seq(SipEvent)
  BY TailElements DEF ProcessCallStateUpdate, PollSip, TypeOK
<1>2. e_flag' \in BOOLEAN /\ phase' \in {"internal", "tg", "sip"}
  BY PollTyped DEF ProcessCallStateUpdate, PollSip
<1> HIDE DEF e, q
<1>3. CASE WithSip(e.id) # {} /\ DialTgReturns(c, q)
  BY <1>1, <1>2, <1>3, Matches, DialTgTyped
<1>4. CASE WithSip(e.id) # {}
           /\ Terminate(c, CleanSipId(bridges[c]), internal_events, tg_events, q)
  <2>1. c \in Ctx
    BY <1>4, Matches
  <2>2. CleanSipId(bridges[c]) \in BridgeType
    BY <2>1 DEF CleanSipId, TypeOK, BridgeType
  <2> QED
    BY <1>1, <1>2, <1>4, <2>1, <2>2, TerminateTyped DEF TypeOK
<1>5. CASE sip_events' = q /\ UNCHANGED <<up, bridges, ctx_counter, internal_events,
                                          tg_events, calls, pj, td>>
  BY <1>1, <1>2, <1>5 DEF TypeOK
<1>6. CASE Aborts
  BY <1>2, <1>6, AbortTyped DEF Aborts, Abort, LoopTyped
<1> QED
  BY <1>3, <1>4, <1>5, <1>6, Throws DEF ProcessCallStateUpdate, DialTg, e, q

LEMMA MediaStateTyped == TypeOK /\ ProcessCallMediaStateUpdate => TypeOK'
<1> SUFFICES ASSUME TypeOK, ProcessCallMediaStateUpdate PROVE TypeOK'
  OBVIOUS
<1> DEFINE e == Head(sip_events)
           c == First(WithSip(e.id))
<1>1. e \in SipEvent /\ Tail(sip_events) \in Seq(SipEvent)
  BY TailElements DEF ProcessCallMediaStateUpdate, PollSip, TypeOK
<1>2. e_flag' \in BOOLEAN /\ phase' \in {"internal", "tg", "sip"}
  BY PollTyped DEF ProcessCallMediaStateUpdate, PollSip
<1>3. /\ sip_events' = Tail(sip_events)
      /\ UNCHANGED <<up, ctx_counter, tg_events, calls, pj>>
  BY DEF ProcessCallMediaStateUpdate
<1> SUFFICES /\ bridges' \in [Ctx -> BridgeType] /\ internal_events' \in Seq(InternalEvent)
             /\ td' \in [TgIds -> TdType]
  BY <1>1, <1>2, <1>3 DEF TypeOK
<1>4. CASE WithSip(e.id) # {} /\ AnswerTg(c)
  <2>1. c \in Ctx /\ bridges[c] \in BridgeType
    BY <1>4, Matches DEF TypeOK
  <2> HIDE DEF c
  <2>2. [bridges[c] EXCEPT !.sub = "wait_tg"] \in BridgeType
    BY <2>1 DEF BridgeType, Subs
  <2>3. Append(internal_events, InternalError(c)) \in Seq(InternalEvent)
    BY <2>1, EventsTyped, AppendElements DEF TypeOK
  <2>4. \A t \in TgIds : [td[t] EXCEPT !.st = "accepted"] \in TdType
    BY DEF TypeOK, TdType, ActiveTg
  <2>5. bridges' \in [Ctx -> BridgeType] /\ internal_events' \in Seq(InternalEvent)
    BY <1>4, <2>1, <2>2, <2>3 DEF AnswerTg, TypeOK
  <2>6. td' \in [TgIds -> TdType]
    BY <1>4, <2>4 DEF AnswerTg, TypeOK
  <2> QED
    BY <2>5, <2>6
<1>5. CASE /\ WithSip(e.id) # {} /\ td' = td
           /\ BridgeAudio(c, [bridges[c] EXCEPT !.sub = "wait_dtmf"])
  <2>1. c \in Ctx
    BY <1>5, Matches
  <2>2. [bridges[c] EXCEPT !.sub = "wait_dtmf"] \in BridgeType
    BY <2>1 DEF TypeOK, BridgeType, Subs
  <2> QED
    BY <1>5, <2>1, <2>2, BridgeAudioTyped DEF TypeOK
<1>6. CASE UNCHANGED <<bridges, internal_events, td>>
  BY <1>6 DEF TypeOK
<1> QED
  BY <1>4, <1>5, <1>6 DEF ProcessCallMediaStateUpdate
LEMMA TgMovesTyped ==
    ASSUME TypeOK, NEW t \in TgIds, NEW r \in TdType,
           NEW s \in {"pending", "ready", "hangup", "discarded", "error"}, TgMoves(t, r, s)
    PROVE  TypeOK'
<1>1. UpdateCall(t, s, r.out, r.user) \in TgEvent
  BY EventsTyped DEF TdType
<1>2. tg_events' \in Seq(TgEvent)
  BY <1>1, AppendElements DEF TgMoves, TgSends, TypeOK
<1>3. td' \in [TgIds -> TdType]
  BY DEF TgMoves, TypeOK
<1> QED
  BY <1>2, <1>3 DEF TgMoves, TgSends, TypeOK, loopVars

LEMMA TgTyped ==
    ASSUME TypeOK, NEW t \in TgIds,
           TgReceived(t) \/ TgReady(t) \/ TgEnd(t) \/ \E u \in Users : TgIncoming(t, u)
    PROVE  TypeOK'
<1>1. td[t] \in TdType
  BY DEF TypeOK
<1>2. /\ [td[t] EXCEPT !.received = TRUE] \in TdType
      /\ [td[t] EXCEPT !.st = "ready"] \in TdType
      /\ [td[t] EXCEPT !.st = "ended"] \in TdType
      /\ \A u \in Users : [st |-> "pending", out |-> FALSE, user |-> u,
                           asked |-> FALSE, received |-> FALSE] \in TdType
  BY <1>1 DEF TdType, ActiveTg
<1>3. CASE TgReceived(t)
  BY <1>2, <1>3, TgMovesTyped DEF TgReceived
<1>4. CASE TgReady(t)
  BY <1>2, <1>4, TgMovesTyped DEF TgReady
<1>5. CASE TgEnd(t)
  BY <1>2, <1>5, TgMovesTyped DEF TgEnd
<1>6. CASE \E u \in Users : TgIncoming(t, u)
  BY <1>2, <1>6, TgMovesTyped DEF TgIncoming
<1> QED
  BY <1>3, <1>4, <1>5, <1>6

LEMMA SipSendsTyped ==
    ASSUME TypeOK, NEW e \in SipEvent, SipSends(e), calls' \subseteq SipIds,
           pj' \in [SipIds -> PjType]
    PROVE  TypeOK'
<1>1. sip_events' \in Seq(SipEvent)
  BY AppendElements DEF SipSends, TypeOK
<1> QED
  BY <1>1 DEF SipSends, TypeOK, loopVars

LEMMA SipTyped ==
    ASSUME TypeOK, NEW s \in SipIds,
           \/ SipProgress(s) \/ SipDisconnect(s)
           \/ \E x \in Exts : SipIncoming(s, x)
           \/ \E m \in BOOLEAN : SipMedia(s, m)
    PROVE  TypeOK'
<1>1. pj[s] \in PjType
  BY DEF TypeOK
<1>2. \A st \in ActiveSip \cup {"ended"} : [pj[s] EXCEPT !.st = st] \in PjType
  BY <1>1 DEF PjType
<1>3. CASE SipProgress(s)
  <2>0. /\ [pj[s] EXCEPT !.st = "early"] \in PjType
        /\ [pj[s] EXCEPT !.st = "confirmed"] \in PjType
    BY <1>2 DEF ActiveSip
  <2>1. pj' \in [SipIds -> PjType] /\ calls' \subseteq SipIds
    BY <1>3, <2>0 DEF SipProgress, TypeOK
  <2> QED
    BY <1>3, <2>1, EventsTyped, SipSendsTyped DEF SipProgress
<1>4. CASE SipDisconnect(s)
  <2>1. pj' \in [SipIds -> PjType] /\ calls' \subseteq SipIds
    BY <1>2, <1>4 DEF SipDisconnect, TypeOK
  <2> QED
    BY <1>4, <2>1, EventsTyped, SipSendsTyped DEF SipDisconnect
<1>5. CASE \E x \in Exts : SipIncoming(s, x)
  <2>1. PICK x \in Exts : SipIncoming(s, x)
    BY <1>5
  <2>2. pj' \in [SipIds -> PjType] /\ calls' \subseteq SipIds
    BY <2>1, OpenSipTyped DEF SipIncoming, ActiveSip
  <2>3. [type |-> "IncomingCall", id |-> s, extension |-> x] \in SipEvent
    BY DEF SipEvent
  <2> QED
    BY <2>1, <2>2, <2>3, SipSendsTyped DEF SipIncoming
<1>6. CASE \E m \in BOOLEAN : SipMedia(s, m)
  <2>1. PICK m \in BOOLEAN : SipMedia(s, m)
    BY <1>6
  <2> DEFINE n == pj[s].nego + 1
             r == [pj[s] EXCEPT !.media = m, !.nego = n]
  <2>4. pj[s].nego < MaxMedia => n \in 1..MaxMedia
    BY <1>1, ConstantsAssumption DEF PjType
  <2>5. pj' = pj \/ (pj[s].nego < MaxMedia /\ pj' = [pj EXCEPT ![s] = r])
    BY <2>1 DEF SipMedia
  <2> HIDE DEF n
  <2>6. n \in 1..MaxMedia => r \in PjType
    BY <1>1 DEF PjType
  <2> HIDE DEF r
  <2>2. pj' \in [SipIds -> PjType] /\ calls' \subseteq SipIds
    BY <2>1, <2>4, <2>5, <2>6 DEF SipMedia, TypeOK
  <2>3. [type |-> "CallMediaStateUpdate", id |-> s, has_media |-> m] \in SipEvent
    BY DEF SipEvent
  <2> QED
    BY <2>1, <2>2, <2>3, SipSendsTyped DEF SipMedia
<1> QED
  BY <1>3, <1>4, <1>5, <1>6

LEMMA OthersTyped == TypeOK /\ Others => TypeOK'
<1> SUFFICES ASSUME TypeOK, Others PROVE TypeOK'
  OBVIOUS
<1>1. CASE \E t \in TgIds : \/ TgReceived(t) \/ TgReady(t) \/ TgEnd(t)
                            \/ \E u \in Users : TgIncoming(t, u)
  BY <1>1, TgTyped
<1>2. CASE \E s \in SipIds : \/ SipProgress(s) \/ SipDisconnect(s)
                             \/ \E x \in Exts : SipIncoming(s, x)
                             \/ \E m \in BOOLEAN : SipMedia(s, m)
  BY <1>2, SipTyped
<1>3. CASE \E t \in TgIds : TgSignaling(t)
  <2>1. PICK t \in TgIds : TgSignaling(t)
    BY <1>3
  <2>2. [type |-> "updateNewCallSignalingData", id |-> t] \in TgEvent
    BY DEF TgEvent
  <2>3. tg_events' \in Seq(TgEvent)
    BY <2>1, <2>2, AppendElements DEF TgSignaling, TgSends, TypeOK
  <2> QED
    BY <2>1, <2>3 DEF TgSignaling, TgSends, TypeOK, loopVars
<1>4. CASE \E u \in Users, x \in Contents : TgMessage(u, x)
  <2>1. PICK u \in Users, x \in Contents : TgMessage(u, x)
    BY <1>4
  <2>2. [type |-> "updateNewMessage", user |-> u, content |-> x] \in TgEvent
    BY DEF TgEvent
  <2>3. tg_events' \in Seq(TgEvent)
    BY <2>1, <2>2, AppendElements DEF TgMessage, TgSends, TypeOK
  <2> QED
    BY <2>1, <2>3 DEF TgMessage, TgSends, TypeOK, loopVars
<1>5. CASE \E c \in Ctx : EmitSignaling(c)
  <2>1. PICK c \in Ctx : EmitSignaling(c)
    BY <1>5
  <2>2. [type |-> "SignalingDataEmitted", ctx |-> c] \in InternalEvent
    BY DEF InternalEvent
  <2>3. internal_events' \in Seq(InternalEvent)
    BY <2>1, <2>2, AppendElements DEF EmitSignaling, TypeOK
  <2> QED
    BY <2>1, <2>3 DEF EmitSignaling, TypeOK, loopVars
<1>6. CASE Signal
  BY <1>6 DEF Signal, TypeOK
<1> QED
  BY <1>1, <1>2, <1>3, <1>4, <1>5, <1>6 DEF Others

LEMMA LoopTypedStep == TypeOK /\ Loop => TypeOK'
<1> SUFFICES ASSUME TypeOK, Loop PROVE TypeOK'
  OBVIOUS
<1>1. CASE PollEmpty
  BY <1>1 DEF PollEmpty, Polls, TypeOK
<1>2. CASE LeaveLoop
  BY <1>2 DEF LeaveLoop, TypeOK
<1>3. CASE ProcessSignalingDataEmitted
  <2>1. internal_events' \in Seq(InternalEvent)
    BY <1>3, TailElements DEF ProcessSignalingDataEmitted, PollInternal, TypeOK
  <2> QED
    BY <1>3, <2>1 DEF ProcessSignalingDataEmitted, PollInternal, Polls, TypeOK
<1>4. CASE ProcessUpdateNewMessage
  <2>1. Tail(tg_events) \in Seq(TgEvent)
    BY <1>4, TailElements DEF ProcessUpdateNewMessage, PollTg, TypeOK
  <2>2. e_flag' \in BOOLEAN /\ phase' \in {"internal", "tg", "sip"}
    BY <1>4, PollTyped DEF ProcessUpdateNewMessage, PollTg
  <2>3. CASE Aborts
    BY <2>2, <2>3, AbortTyped DEF Aborts, Abort, LoopTyped
  <2>4. CASE tg_events' = Tail(tg_events)
             /\ UNCHANGED <<up, bridges, ctx_counter, internal_events,
                            sip_events, calls, pj, td>>
    BY <2>1, <2>2, <2>4 DEF TypeOK
  <2> QED
    BY <1>4, <2>3, <2>4, Throws DEF ProcessUpdateNewMessage
<1>5. CASE ProcessUpdateNewCallSignalingData
  <2>1. tg_events' \in Seq(TgEvent)
    BY <1>5, TailElements DEF ProcessUpdateNewCallSignalingData, PollTg, TypeOK
  <2> QED
    BY <1>5, <2>1 DEF ProcessUpdateNewCallSignalingData, PollTg, Polls, TypeOK
<1> QED
  BY <1>1, <1>2, <1>3, <1>4, <1>5, InternalErrorTyped, UpdateCallTyped,
     IncomingCallTyped, CallStateTyped, MediaStateTyped DEF Loop

LEMMA InitTyped == Init => TypeOK
<1> SUFFICES ASSUME Init PROVE TypeOK
  OBVIOUS
<1>1. /\ bridges \in [Ctx -> BridgeType]
      /\ pj \in [SipIds -> PjType] /\ td \in [TgIds -> TdType]
  BY NewContextTyped, ConstantsAssumption DEF Init, PjType, TdType
<1>2. ctx_counter \in 0..MaxCtx
  BY ConstantsAssumption DEF Init
<1> QED
  BY <1>1, <1>2, EmptySeq DEF Init, TypeOK

LEMMA StepTyped == TypeOK /\ [Next]_vars => TypeOK'
<1> SUFFICES ASSUME TypeOK, [Next]_vars PROVE TypeOK'
  OBVIOUS
<1>1. CASE UNCHANGED vars
  BY <1>1 DEF vars, loopVars, TypeOK
<1> QED
  BY <1>1, LoopTypedStep, OthersTyped DEF Next, Halted

\* Every variable keeps its type: ids in bridges, queues and the call table are
\* ids or the "none" value of their kind, for every number of calls.
THEOREM TypeCorrect == Spec => []TypeOK
BY InitTyped, StepTyped, PTL DEF Spec

-----------------------------------------------------------------------------
(***************************************************************************)
(* The shape of the bridges: the inductive invariant.                      *)
(***************************************************************************)

\* What the place of a bridge in the state machine says about its legs.
Consistent(b) ==
    /\ b.top = "none" => b = NewContext
    /\ b.sub = "sip_wait_confirm" => b.tg = NoTg
    /\ b.top = "from_sip" => b.sip # NoSip
    /\ b.sub \in {"wait_tg", "wait_dtmf"} => b.sip # NoSip

\* Contexts are numbered in order: those to come are unused.
ShapeInv ==
    \A c \in Ctx : /\ Consistent(bridges[c])
                   /\ c > ctx_counter => bridges[c] = NewContext

-----------------------------------------------------------------------------
(* The shape of bridges, and what a step does to their legs. *)

\* A step that leaves the bridges alone.
LEMMA SameBridges ==
    ASSUME TypeOK, ShapeInv, UNCHANGED <<bridges, ctx_counter>>
    PROVE  ShapeInv' /\ KeepsLegs
BY DEF ShapeInv, KeepsLegs, Live, Consistent, NewContext

\* A step that changes one bridge.
LEMMA OneBridge ==
    ASSUME TypeOK, ShapeInv, NEW c \in Ctx, NEW b, Consistent(b),
           bridges' = [bridges EXCEPT ![c] = b],
           ctx_counter' = ctx_counter \/ NewCtx(c),
           c > ctx_counter' => b = NewContext,
           Live(c) /\ b.top # "none"
              => /\ bridges[c].tg # NoTg => b.tg = bridges[c].tg
                 /\ b.sip = bridges[c].sip
    PROVE  ShapeInv' /\ KeepsLegs
<1>1. /\ bridges'[c] = b
      /\ \A d \in Ctx : d # c => bridges'[d] = bridges[d]
  BY DEF TypeOK
<1>2. ctx_counter \in Nat /\ ctx_counter' \in Nat /\ ctx_counter' >= ctx_counter /\ Ctx \subseteq Nat
  BY ConstantsAssumption DEF TypeOK, NewCtx, Ctx
<1>3. \A d \in Ctx : d # c => Consistent(bridges'[d])
  BY <1>1 DEF ShapeInv
<1>4. \A d \in Ctx : d # c /\ d > ctx_counter' => bridges'[d] = NewContext
  BY <1>1, <1>2 DEF ShapeInv
<1>5. ShapeInv'
  <2> SUFFICES ASSUME NEW d \in Ctx
               PROVE  Consistent(bridges'[d]) /\ (d > ctx_counter' => bridges'[d] = NewContext)
    BY DEF ShapeInv, Ctx, Consistent, NewContext
  <2> QED
    BY <1>1, <1>3, <1>4
<1>6. KeepsLegs
  BY <1>1 DEF KeepsLegs, Live
<1> QED
  BY <1>5, <1>6

LEMMA NewContextConsistent == Consistent(NewContext)
BY DEF Consistent, NewContext

LEMMA TerminateShape ==
    ASSUME TypeOK, ShapeInv, NEW c \in Ctx, NEW b, NEW i, NEW q, NEW r,
           Terminate(c, b, i, q, r)
    PROVE  ShapeInv' /\ KeepsLegs
<1>1. CASE Aborts
  BY <1>1, SameBridges DEF Aborts, Abort
<1>2. CASE bridges' = [bridges EXCEPT ![c] = NewContext] /\ ctx_counter' = ctx_counter
  BY <1>2, OneBridge, NewContextConsistent DEF NewContext
<1> QED
  BY <1>1, <1>2, Throws DEF Terminate

\* A bridge that an event of its call finds is in use.
LEMMA MatchedIsUsed ==
    ASSUME TypeOK, ShapeInv, NEW c \in Ctx,
           \/ \E t \in TgIds : bridges[c].tg = t
           \/ \E s \in SipIds : bridges[c].sip = s
    PROVE  Live(c) /\ c <= ctx_counter
<1>1. bridges[c] # NewContext
  BY ConstantsAssumption DEF NewContext
<1>2. c \in Nat /\ ctx_counter \in Nat
  BY ConstantsAssumption DEF Ctx, TypeOK
<1> QED
  BY <1>1, <1>2 DEF ShapeInv, Consistent, Live

\* A matching bridge, with what its match says.
LEMMA FoundByTg ==
    ASSUME TypeOK, ShapeInv, NEW t \in TgIds, WithTg(t) # {}, NEW c, c = First(WithTg(t))
    PROVE  c \in Ctx /\ bridges[c] \in BridgeType /\ bridges[c].tg = t /\ Live(c) /\ c <= ctx_counter
<1>1. c \in Ctx /\ bridges[c].tg = t
  BY Matches DEF WithTg
<1> QED
  BY <1>1, MatchedIsUsed DEF TypeOK

LEMMA FoundBySip ==
    ASSUME TypeOK, ShapeInv, NEW s \in SipIds, WithSip(s) # {}, NEW c, c = First(WithSip(s))
    PROVE  c \in Ctx /\ bridges[c] \in BridgeType /\ bridges[c].sip = s /\ Live(c) /\ c <= ctx_counter
<1>1. c \in Ctx /\ bridges[c].sip = s
  BY Matches DEF WithSip
<1> QED
  BY <1>1, MatchedIsUsed DEF TypeOK

\* The context id of a new bridge is unused.
LEMMA NewCtxUnused ==
    ASSUME TypeOK, ShapeInv, NEW c \in Ctx, NewCtx(c)
    PROVE  bridges[c] = NewContext /\ ~Live(c) /\ ~(c > ctx_counter')
<1>1. c > ctx_counter /\ ~(c > ctx_counter')
  BY ConstantsAssumption DEF NewCtx, TypeOK, Ctx
<1>2. bridges[c] = NewContext
  BY <1>1 DEF ShapeInv
<1> QED
  BY <1>1, <1>2 DEF Live, NewContext

LEMMA DialSipShape ==
    ASSUME TypeOK, ShapeInv, NEW e, NEW q, DialSip(e, q)
    PROVE  ShapeInv' /\ KeepsLegs
<1>1. CASE Aborts
  BY <1>1, SameBridges DEF Aborts, Abort
<1>2. CASE ~Aborts
  <2> DEFINE b == [NewContext EXCEPT !.top = "from_tg", !.sub = "sip_wait_media",
                                     !.tg = e.id, !.user = e.user]
  <2>1. PICK c \in Ctx : NewCtx(c) /\ DialCallbackUri(c, b)
    BY <1>2, Throws DEF DialSip
  <2>2. Consistent(b) /\ \A s : Consistent([b EXCEPT !.sip = s])
    BY DEF Consistent, NewContext
  <2>3. ~Live(c) /\ ~(c > ctx_counter')
    BY <2>1, NewCtxUnused
  <2> HIDE DEF b
  <2>4. \/ bridges' = [bridges EXCEPT ![c] = b]
        \/ \E s \in SipIds : bridges' = [bridges EXCEPT ![c] = [b EXCEPT !.sip = s]]
    BY <2>1 DEF DialCallbackUri
  <2> QED
    BY <2>1, <2>2, <2>3, <2>4, OneBridge
<1> QED
  BY <1>1, <1>2

LEMMA ReadyShape ==
    ASSUME TypeOK, ShapeInv, NEW c \in Ctx, NEW e, NEW q, Live(c), c <= ctx_counter,
           bridges[c].sub = "wait_tg", TgReadyInBridge(c, e, q)
    PROVE  ShapeInv' /\ KeepsLegs
<1>1. CASE Aborts
  BY <1>1, SameBridges DEF Aborts, Abort
<1>2. CASE ~Aborts
  <2> DEFINE b1 == [bridges[c] EXCEPT !.sub = "wait_dtmf", !.ctl = TRUE]
             b2 == [b1 EXCEPT !.aud = pj[b1.sip].nego]
             b3 == [bridges[c] EXCEPT !.sub = "sip_wait_media", !.ctl = TRUE, !.user = e.user]
  <2>1. /\ ctx_counter' = ctx_counter
        /\ \E b \in {b1, b2, b3} : bridges' = [bridges EXCEPT ![c] = b]
    BY <1>2, Throws DEF TgReadyInBridge, BridgeAudio, AnswerSip
  <2>2. bridges[c] \in BridgeType /\ bridges[c].sip # NoSip
    BY DEF ShapeInv, Consistent, TypeOK
  <2>3. \A b \in {b1, b2, b3} : /\ Consistent(b) /\ b.tg = bridges[c].tg
                                /\ b.sip = bridges[c].sip
    BY <2>2 DEF Consistent, Live, BridgeType
  <2>4. ~(c > ctx_counter')
    BY <2>1, ConstantsAssumption DEF Ctx, TypeOK
  <2> HIDE DEF b1, b2, b3
  <2> QED
    BY <2>1, <2>3, <2>4, OneBridge
<1> QED
  BY <1>1, <1>2

LEMMA UpdateCallShape ==
    TypeOK /\ ShapeInv /\ ProcessUpdateCall => ShapeInv' /\ KeepsLegs
<1> SUFFICES ASSUME TypeOK, ShapeInv, ProcessUpdateCall PROVE ShapeInv' /\ KeepsLegs
  OBVIOUS
<1> DEFINE e == Head(tg_events)
           q == Tail(tg_events)
           c == First(WithTg(e.id))
<1>1. e \in TgEvent /\ e.type = "updateCall"
  BY TailElements DEF ProcessUpdateCall, PollTg, TypeOK
<1>2. e.id \in TgIds
  BY <1>1, TgEventFields
<1> HIDE DEF e, q
<1>3. CASE UNCHANGED <<bridges, ctx_counter>>
  BY <1>3, SameBridges
<1>4. CASE DialSip(e, q)
  BY <1>4, DialSipShape
<1>5. CASE WithTg(e.id) # {} /\ bridges[c].sub = "wait_tg" /\ TgReadyInBridge(c, e, q)
  BY <1>2, <1>5, FoundByTg, ReadyShape
<1>6. CASE WithTg(e.id) # {} /\ Terminate(c, CleanTgId(bridges[c]), internal_events, q, sip_events)
  BY <1>2, <1>6, FoundByTg, TerminateShape
<1> QED
  <2>1. CASE WithTg(e.id) = {}
    BY <2>1, <1>3, <1>4 DEF ProcessUpdateCall, UpdateCallInInit, e, q
  <2>2. CASE WithTg(e.id) # {}
    BY <2>2, <1>3, <1>5, <1>6 DEF ProcessUpdateCall, UpdateCallInBridge, e, q
  <2> QED
    BY <2>1, <2>2

LEMMA IncomingCallShape ==
    TypeOK /\ ShapeInv /\ ProcessIncomingCall => ShapeInv' /\ KeepsLegs
<1> SUFFICES ASSUME TypeOK, ShapeInv, ProcessIncomingCall PROVE ShapeInv' /\ KeepsLegs
  OBVIOUS
<1> DEFINE e == Head(sip_events)
           q == Tail(sip_events)
<1>1. e.id \in SipIds
  BY TailElements, SipEventFields DEF ProcessIncomingCall, PollSip, TypeOK
<1> HIDE DEF e, q
<1>2. CASE UNCHANGED <<bridges, ctx_counter>>
  BY <1>2, SameBridges
<1>3. CASE AcceptIncomingSip(e, q)
  <2> DEFINE b == [NewContext EXCEPT !.top = "from_sip", !.sub = "sip_wait_confirm",
                     !.sip = e.id,
                     !.user = IF e.extension \in Users THEN e.extension ELSE NoUser]
  <2>1. PICK c \in Ctx : NewCtx(c) /\ bridges' = [bridges EXCEPT ![c] = b]
    BY <1>3 DEF AcceptIncomingSip
  <2>2. Consistent(b)
    BY <1>1, ConstantsAssumption DEF Consistent, NewContext
  <2>3. ~Live(c) /\ ~(c > ctx_counter')
    BY <2>1, NewCtxUnused
  <2> HIDE DEF b
  <2> QED
    BY <2>1, <2>2, <2>3, OneBridge
<1> QED
  BY <1>2, <1>3 DEF ProcessIncomingCall, e, q

LEMMA CallStateShape ==
    TypeOK /\ ShapeInv /\ ProcessCallStateUpdate => ShapeInv' /\ KeepsLegs
<1> SUFFICES ASSUME TypeOK, ShapeInv, ProcessCallStateUpdate PROVE ShapeInv' /\ KeepsLegs
  OBVIOUS
<1> DEFINE e == Head(sip_events)
           q == Tail(sip_events)
           c == First(WithSip(e.id))
<1>1. e.id \in SipIds
  BY TailElements, SipEventFields DEF ProcessCallStateUpdate, PollSip, TypeOK
<1> HIDE DEF e, q
<1>2. CASE UNCHANGED <<bridges, ctx_counter>>
  BY <1>2, SameBridges
<1>3. CASE WithSip(e.id) # {} /\ DialsOnEarly(bridges[c], e) /\ DialTgReturns(c, q)
  <2>1. /\ c \in Ctx /\ bridges[c] \in BridgeType /\ bridges[c].sip = e.id
        /\ Live(c) /\ c <= ctx_counter
    BY <1>1, <1>3, FoundBySip
  <2> HIDE DEF c
  <2> DEFINE b1 == [bridges[c] EXCEPT !.sub = "wait_tg"]
  <2>2. /\ ctx_counter' = ctx_counter
        /\ \/ bridges' = [bridges EXCEPT ![c] = b1]
           \/ \E u : bridges' = [bridges EXCEPT ![c] = [b1 EXCEPT !.user = u]]
           \/ \E u, t : bridges' = [bridges EXCEPT ![c] = [b1 EXCEPT !.user = u, !.tg = t]]
    BY <1>3 DEF DialTgReturns
  <2>3. bridges[c].tg = NoTg
    BY <1>3, <2>1 DEF DialsOnEarly, ShapeInv, Consistent
  <2>4. /\ Consistent(b1) /\ b1.sip = bridges[c].sip
        /\ \A u : /\ Consistent([b1 EXCEPT !.user = u])
                  /\ [b1 EXCEPT !.user = u].sip = bridges[c].sip
        /\ \A u, t : /\ Consistent([b1 EXCEPT !.user = u, !.tg = t])
                     /\ [b1 EXCEPT !.user = u, !.tg = t].sip = bridges[c].sip
    <3> DEFINE Good(x) == /\ x.top # "none" /\ x.sub = "wait_tg"
                          /\ x.sip = bridges[c].sip
    <3>1. bridges[c].sip # NoSip
      BY <1>1, <2>1, ConstantsAssumption
    <3>2. \A x : Good(x) => Consistent(x)
      BY <3>1 DEF Consistent
    <3>3. Good(b1)
      BY <2>1 DEF Live, BridgeType
    <3>4. \A u : Good([b1 EXCEPT !.user = u])
      BY <2>1 DEF Live, BridgeType
    <3>5. \A u, t : Good([b1 EXCEPT !.user = u, !.tg = t])
      BY <2>1 DEF Live, BridgeType
    <3> QED
      BY <3>2, <3>3, <3>4, <3>5
  <2>5. ~(c > ctx_counter')
    <3>1. ctx_counter' = ctx_counter
      BY <2>2
    <3> QED
      BY <2>1, <3>1, ConstantsAssumption DEF Ctx, TypeOK
  <2> HIDE DEF b1
  <2> QED
    BY <2>1, <2>2, <2>3, <2>4, <2>5, OneBridge
<1>4. CASE WithSip(e.id) # {}
           /\ Terminate(c, CleanSipId(bridges[c]), internal_events, tg_events, q)
  BY <1>1, <1>4, FoundBySip, TerminateShape
<1>5. Abort("stoi") => UNCHANGED <<bridges, ctx_counter>>
  BY DEF Abort
<1> QED
  BY <1>2, <1>3, <1>4, <1>5 DEF ProcessCallStateUpdate, DialTg, e, q

LEMMA MediaStateShape ==
    TypeOK /\ ShapeInv /\ ProcessCallMediaStateUpdate => ShapeInv' /\ KeepsLegs
<1> SUFFICES ASSUME TypeOK, ShapeInv, ProcessCallMediaStateUpdate PROVE ShapeInv' /\ KeepsLegs
  OBVIOUS
<1> DEFINE e == Head(sip_events)
           c == First(WithSip(e.id))
<1>1. e.id \in SipIds
  BY TailElements, SipEventFields DEF ProcessCallMediaStateUpdate, PollSip, TypeOK
<1>2. CASE UNCHANGED <<bridges, internal_events, td>>
  BY <1>2, SameBridges DEF ProcessCallMediaStateUpdate
<1>3. CASE /\ WithSip(e.id) # {}
           /\ \/ AnswerTg(c)
              \/ BridgeAudio(c, [bridges[c] EXCEPT !.sub = "wait_dtmf"])
  <2>1. /\ c \in Ctx /\ bridges[c] \in BridgeType /\ bridges[c].sip = e.id
        /\ Live(c) /\ c <= ctx_counter
    BY <1>1, <1>3, FoundBySip
  <2> HIDE DEF e, c
  <2> DEFINE b1 == [bridges[c] EXCEPT !.sub = "wait_tg"]
             b2 == [bridges[c] EXCEPT !.sub = "wait_dtmf"]
             b3 == [b2 EXCEPT !.aud = pj[b2.sip].nego]
  <2>2. /\ ctx_counter' = ctx_counter
        /\ \E b \in {b1, b2, b3} : bridges' = [bridges EXCEPT ![c] = b]
    BY <1>3 DEF ProcessCallMediaStateUpdate, AnswerTg, BridgeAudio
  <2>3. \A b \in {b1, b2, b3} : /\ Consistent(b) /\ b.tg = bridges[c].tg
                                /\ b.sip = bridges[c].sip
    <3>1. bridges[c].sip # NoSip /\ bridges[c].top # "none"
      BY <1>1, <2>1, ConstantsAssumption DEF Live
    <3> QED
      BY <2>1, <3>1 DEF Consistent, BridgeType
  <2>4. ~(c > ctx_counter')
    BY <2>1, <2>2, ConstantsAssumption DEF Ctx, TypeOK
  <2> HIDE DEF b1, b2, b3
  <2> QED
    BY <2>1, <2>2, <2>3, <2>4, OneBridge
<1> QED
  BY <1>2, <1>3 DEF ProcessCallMediaStateUpdate

LEMMA StepShape ==
    TypeOK /\ ShapeInv /\ [Next]_vars => ShapeInv' /\ KeepsLegs
<1> SUFFICES ASSUME TypeOK, ShapeInv, [Next]_vars PROVE ShapeInv' /\ KeepsLegs
  OBVIOUS
<1>1. CASE UNCHANGED <<bridges, ctx_counter>>
  BY <1>1, SameBridges
<1>2. Others \/ Halted \/ UNCHANGED vars => UNCHANGED <<bridges, ctx_counter>>
  BY DEF Others, Halted, vars, TgReceived, TgReady, TgEnd, TgSignaling, TgIncoming,
         TgMessage, TgMoves, TgSends, EmitSignaling, SipIncoming, SipProgress,
         SipDisconnect, SipMedia, SipSends, Signal
<1>3. PollEmpty \/ LeaveLoop \/ ProcessSignalingDataEmitted \/ ProcessUpdateNewMessage
      \/ ProcessUpdateNewCallSignalingData => UNCHANGED <<bridges, ctx_counter>>
  BY DEF PollEmpty, LeaveLoop, ProcessSignalingDataEmitted, ProcessUpdateNewMessage,
         ProcessUpdateNewCallSignalingData, Abort
<1>4. CASE ProcessInternalError
  <2>1. Head(internal_events) \in InternalEvent
    BY <1>4, TailElements DEF ProcessInternalError, PollInternal, TypeOK
  <2>2. Head(internal_events).ctx \in Ctx
    BY <2>1 DEF InternalEvent
  <2> QED
    BY <1>1, <1>4, <2>2, TerminateShape DEF ProcessInternalError
<1> QED
  BY <1>1, <1>2, <1>3, <1>4, UpdateCallShape, IncomingCallShape, CallStateShape,
     MediaStateShape DEF Next, Loop

LEMMA InitShape == Init => ShapeInv
BY NewContextConsistent DEF Init, ShapeInv

\* A bridge never exchanges a leg and loses one only when it is removed: no
\* event, early, late or repeated, makes DialTg or DialSip run a second time.
THEOREM LegsStable == Spec => LegsAreStable
<1>1. Init => TypeOK /\ ShapeInv
  BY InitTyped, InitShape
<1>2. TypeOK /\ ShapeInv /\ [Next]_vars => (TypeOK /\ ShapeInv)'
  BY StepTyped, StepShape
<1>3. TypeOK /\ ShapeInv /\ [Next]_vars => [KeepsLegs]_vars
  BY StepShape
<1> QED
  BY <1>1, <1>2, <1>3, PTL DEF Spec, LegsAreStable

-----------------------------------------------------------------------------
(***************************************************************************)
(* The Telegram side: the inductive invariant.                             *)
(***************************************************************************)

\* A Telegram call has one bridge: removing it discards the call or knows
\* that it has ended, and no second bridge is left behind.
UniqueTg ==
    \A c, d \in Ctx : c # d => bridges[c].tg = NoTg \/ bridges[c].tg # bridges[d].tg

\* Bridges and queued updates name calls that TDLib has reported.
KnownTg ==
    /\ \A c \in Ctx : bridges[c].tg # NoTg => td[bridges[c].tg].st # "idle"
    /\ \A e \in Elements(tg_events) :
          e.type = "updateCall" => td[e.id].st # "idle" /\ e.out = td[e.id].out

\* The end of a call is reported only when it has ended.
EndsAreEnds ==
    \A e \in Elements(tg_events) : e.type = "updateCall" /\ IsTgEnd(e) => td[e.id].st = "ended"

\* NoOrphanTg, where only an incoming call may wait in the queue: the pending
\* update of an outgoing call makes no bridge.
HeldTg ==
    \A t \in TgIds :
       td[t].st \in ActiveTg /\ ~td[t].asked
          => \/ \E c \in Ctx : bridges[c].tg = t
             \/ ~td[t].out /\ CallQueued(t, {"pending"})

TgInv == UniqueTg /\ KnownTg /\ EndsAreEnds /\ HeldTg

-----------------------------------------------------------------------------
(* Steps in general. *)

\* Calls keep their direction, do not become unknown and do not revive.
CallsGoOn ==
    \A t \in TgIds : /\ td[t].st # "idle" => td'[t].st # "idle" /\ td'[t].out = td[t].out
                     /\ td[t].st = "ended" => td'[t].st = "ended"

\* What is appended is true of the call it names.
HonestEvents ==
    \A e \in Elements(tg_events') :
       \/ e \in Elements(tg_events)
       \/ e.type = "updateCall"
             => /\ td'[e.id].st # "idle" /\ e.out = td'[e.id].out
                /\ IsTgEnd(e) => td'[e.id].st = "ended"

\* A bridge that changes its call takes one that TDLib has reported.
TakesKnown ==
    \A c \in Ctx : \/ bridges'[c].tg \in {NoTg, bridges[c].tg}
                   \/ td'[bridges'[c].tg].st # "idle"

LEMMA TgStep ==
    ASSUME TypeOK, TypeOK', TgInv, CallsGoOn, HonestEvents, TakesKnown, UniqueTg', HeldTg'
    PROVE  TgInv'
<1>1. \A e \in Elements(tg_events) : e.type = "updateCall" => e.id \in TgIds
  BY ElementsTyped, TgEventFields DEF TypeOK
<1>2. \A c \in Ctx : bridges'[c].tg # NoTg => td'[bridges'[c].tg].st # "idle"
  BY DEF TgInv, KnownTg, TypeOK, BridgeType, CallsGoOn, TakesKnown
<1>3. \A e \in Elements(tg_events') :
         e.type = "updateCall" => td'[e.id].st # "idle" /\ e.out = td'[e.id].out
  BY <1>1 DEF TgInv, KnownTg, CallsGoOn, HonestEvents
<1>4. KnownTg'
  BY <1>2, <1>3 DEF KnownTg
<1>5. EndsAreEnds'
  BY <1>1 DEF TgInv, EndsAreEnds, CallsGoOn, HonestEvents, IsTgEnd
<1> QED
  BY <1>4, <1>5 DEF TgInv

\* Events taken off the queue other than the pending update that makes a
\* bridge.
Spare(e) ==
    e.type = "updateCall" /\ e.state = "pending"
       => e.out \/ \E c \in Ctx : bridges[c].tg = e.id

\* A step that leaves TDLib and the Telegram legs of bridges alone.
LEMMA TgKept ==
    ASSUME TypeOK, TypeOK', TgInv, td' = td,
           \A c \in Ctx : bridges'[c].tg = bridges[c].tg,
           Elements(tg_events') \subseteq Elements(tg_events),
           \A e \in Elements(tg_events) \ Elements(tg_events') : Spare(e)
    PROVE  TgInv'
<1>1. CallsGoOn
  BY DEF CallsGoOn
<1>2. HonestEvents
  BY DEF HonestEvents
<1>3. TakesKnown
  BY DEF TakesKnown
<1>4. UniqueTg'
  BY DEF TgInv, UniqueTg
<1>5. HeldTg'
  <2> SUFFICES ASSUME NEW t \in TgIds, td[t].st \in ActiveTg, ~td[t].asked,
                      ~\E c \in Ctx : bridges[c].tg = t
               PROVE  ~td[t].out /\ \E e \in Elements(tg_events') :
                         e.type = "updateCall" /\ e.id = t /\ e.state \in {"pending"}
    BY DEF HeldTg, CallQueued
  <2>1. PICK e \in Elements(tg_events) :
           ~td[t].out /\ e.type = "updateCall" /\ e.id = t /\ e.state = "pending"
    BY DEF TgInv, HeldTg, CallQueued
  <2>2. ~e.out
    BY <2>1 DEF TgInv, KnownTg
  <2> QED
    BY <2>1, <2>2 DEF Spare
<1> QED
  BY <1>1, <1>2, <1>3, <1>4, <1>5, TgStep

-----------------------------------------------------------------------------
(* Discarding. *)

LEMMA DiscardFacts ==
    ASSUME TypeOK, NEW t \in TgIds \cup {NoTg}, NEW q \in Seq(TgEvent), DiscardTg(t, q)
    PROVE  /\ \A x \in TgIds : x # t => td'[x] = td[x]
           /\ t # NoTg => /\ td'[t].asked /\ td'[t].out = td[t].out
                          /\ td'[t].st = td[t].st \/ (td[t].st \in ActiveTg /\ td'[t].st = "hangup")
           /\ Elements(q) \subseteq Elements(tg_events')
           /\ \A e \in Elements(tg_events') :
                 \/ e \in Elements(q)
                 \/ /\ t # NoTg /\ td'[t].st = "hangup"
                    /\ e = UpdateCall(t, "hangup", td[t].out, td[t].user)
<1>1. CASE t = NoTg
  BY <1>1, ConstantsAssumption DEF DiscardTg
<1>2. CASE t # NoTg
  <2>1. t \in TgIds /\ td \in [TgIds -> TdType] /\ td[t] \in TdType
    BY <1>2 DEF TypeOK
  <2>2. CASE /\ td[t].st \in ActiveTg
             /\ td' = [td EXCEPT ![t] = [@ EXCEPT !.st = "hangup", !.asked = TRUE]]
             /\ tg_events' = Append(q, UpdateCall(t, "hangup", td[t].out, td[t].user))
    <3>1. UpdateCall(t, "hangup", td[t].out, td[t].user) \in TgEvent
      BY <2>1, EventsTyped DEF TdType
    <3>2. Elements(tg_events') = Elements(q) \cup {UpdateCall(t, "hangup", td[t].out, td[t].user)}
      BY <2>2, <3>1, AppendElements
    <3>3. td'[t].asked /\ td'[t].out = td[t].out /\ td'[t].st = "hangup"
      BY <2>1, <2>2 DEF TdType
    <3>4. \A x \in TgIds : x # t => td'[x] = td[x]
      BY <2>1, <2>2
    <3> QED
      BY <1>2, <2>2, <3>2, <3>3, <3>4
  <2>3. CASE /\ td' = [td EXCEPT ![t] = [@ EXCEPT !.asked = TRUE]]
             /\ tg_events' = q
    BY <2>1, <2>3 DEF TdType
  <2> QED
    BY <1>2, <2>2, <2>3 DEF DiscardTg
<1> QED
  BY <1>1, <1>2

\* A discarded call, and the bridge c that goes with it: t is the call the
\* context still names, if any.
LEMMA TgDiscards ==
    ASSUME TypeOK, TypeOK', TgInv, NEW t \in TgIds \cup {NoTg}, NEW q \in Seq(TgEvent),
           DiscardTg(t, q),
           t # NoTg => td[t].st # "idle",
           \A c \in Ctx : \/ bridges'[c].tg = bridges[c].tg
                          \/ /\ bridges'[c].tg = NoTg
                             /\ bridges[c].tg \in {NoTg, t} \/ td[bridges[c].tg].st = "ended",
           Elements(q) \subseteq Elements(tg_events),
           \A e \in Elements(tg_events) \ Elements(q) :
              Spare(e) \/ (e.type = "updateCall" => e.id = t)
    PROVE  TgInv'
<1>1. /\ \A x \in TgIds : x # t => td'[x] = td[x]
      /\ t # NoTg => /\ td'[t].asked /\ td'[t].out = td[t].out
                     /\ td'[t].st = td[t].st \/ (td[t].st \in ActiveTg /\ td'[t].st = "hangup")
      /\ Elements(q) \subseteq Elements(tg_events')
      /\ \A e \in Elements(tg_events') :
            \/ e \in Elements(q)
            \/ /\ t # NoTg /\ td'[t].st = "hangup"
               /\ e = UpdateCall(t, "hangup", td[t].out, td[t].user)
  BY DiscardFacts
<1>2. CallsGoOn
  BY <1>1, ConstantsAssumption DEF CallsGoOn, ActiveTg
<1>3. HonestEvents
  BY <1>1 DEF HonestEvents, UpdateCall, IsTgEnd
<1>4. TakesKnown
  BY DEF TakesKnown
<1>5. UniqueTg'
  BY DEF TgInv, UniqueTg
<1>6. HeldTg'
  <2> SUFFICES ASSUME NEW x \in TgIds, td'[x].st \in ActiveTg, ~td'[x].asked,
                      ~\E c \in Ctx : bridges'[c].tg = x
               PROVE  ~td'[x].out /\ \E e \in Elements(tg_events') :
                         e.type = "updateCall" /\ e.id = x /\ e.state \in {"pending"}
    BY DEF HeldTg, CallQueued
  <2>1. x # t /\ td'[x] = td[x] /\ x # NoTg
    BY <1>1, ConstantsAssumption
  <2>2. ~\E c \in Ctx : bridges[c].tg = x
    BY <2>1 DEF ActiveTg
  <2>3. PICK e \in Elements(tg_events) :
           ~td[x].out /\ e.type = "updateCall" /\ e.id = x /\ e.state = "pending"
    BY <2>1, <2>2 DEF TgInv, HeldTg, CallQueued
  <2>4. ~e.out
    BY <2>3 DEF TgInv, KnownTg
  <2>5. e \in Elements(q)
    BY <2>1, <2>2, <2>3, <2>4 DEF Spare
  <2> QED
    BY <1>1, <2>1, <2>3, <2>5
<1> QED
  BY <1>2, <1>3, <1>4, <1>5, <1>6, TgStep

LEMMA TgAborts ==
    ASSUME TypeOK, TypeOK', TgInv, Aborts
    PROVE  TgInv'
BY TgKept DEF Aborts, Abort

\* Entry of X, with the Telegram id of the context still there or cleared
\* because the call has ended.
LEMMA TgTerminates ==
    ASSUME TypeOK, TypeOK', TgInv, NEW c \in Ctx, NEW b \in BridgeType, NEW i, NEW r,
           NEW q \in Seq(TgEvent), Terminate(c, b, i, q, r),
           \/ b.tg = bridges[c].tg
           \/ b.tg = NoTg /\ td[bridges[c].tg].st = "ended",
           Elements(q) \subseteq Elements(tg_events),
           \A e \in Elements(tg_events) \ Elements(q) : Spare(e)
    PROVE  TgInv'
<1>1. CASE Aborts
  BY <1>1, TgAborts
<1>2. CASE CleanUp(b, q, r) /\ bridges' = [bridges EXCEPT ![c] = NewContext]
  <2>1. b.tg \in TgIds \cup {NoTg} /\ DiscardTg(b.tg, q)
    BY <1>2 DEF CleanUp, BridgeType
  <2>2. b.tg # NoTg => td[b.tg].st # "idle"
    BY DEF TgInv, KnownTg
  <2>3. \A d \in Ctx : \/ bridges'[d].tg = bridges[d].tg
                       \/ /\ bridges'[d].tg = NoTg
                          /\ bridges[d].tg \in {NoTg, b.tg} \/ td[bridges[d].tg].st = "ended"
    BY <1>2 DEF TypeOK, NewContext
  <2> QED
    BY <2>1, <2>2, <2>3, TgDiscards
<1> QED
  BY <1>1, <1>2, Throws DEF Terminate

-----------------------------------------------------------------------------
(* Handlers. *)

\* The new bridge takes the call of the pending update.
LEMMA DialSipTg ==
    ASSUME TypeOK, TypeOK', ShapeInv, TgInv, tg_events # <<>>,
           NEW e, e = Head(tg_events), e.type = "updateCall",
           WithTg(e.id) = {}, DialSip(e, Tail(tg_events))
    PROVE  TgInv'
<1>1. CASE Aborts
  BY <1>1, TgAborts
<1>2. CASE ~Aborts
  <2> DEFINE b == [NewContext EXCEPT !.top = "from_tg", !.sub = "sip_wait_media",
                                     !.tg = e.id, !.user = e.user]
  <2>1. PICK c \in Ctx : NewCtx(c) /\ DialCallbackUri(c, b)
    BY <1>2, Throws DEF DialSip
  <2>2. td' = td /\ tg_events' = Tail(tg_events)
    BY <1>2, Throws DEF DialSip
  <2>3. bridges[c].tg = NoTg
    BY <2>1, NewCtxUnused DEF NewContext
  <2>4. e \in TgEvent /\ Elements(tg_events) = {e} \cup Elements(tg_events')
    BY <2>2, TailElements DEF TypeOK
  <2>5. e.id \in TgIds /\ e \in Elements(tg_events)
    BY <2>4, TgEventFields
  <2>6. bridges'[c].tg = e.id /\ \A d \in Ctx : d # c => bridges'[d] = bridges[d]
    <3>1. b.tg = e.id /\ \A s : [b EXCEPT !.sip = s].tg = e.id
      BY DEF NewContext
    <3> HIDE DEF b
    <3>2. \/ bridges' = [bridges EXCEPT ![c] = b]
          \/ \E s \in SipIds : bridges' = [bridges EXCEPT ![c] = [b EXCEPT !.sip = s]]
      BY <2>1 DEF DialCallbackUri
    <3> QED
      BY <3>1, <3>2 DEF TypeOK
  <2> HIDE DEF b
  <2>7. CallsGoOn
    BY <2>2 DEF CallsGoOn
  <2>8. HonestEvents
    BY <2>4 DEF HonestEvents
  <2>9. TakesKnown
    BY <2>2, <2>5, <2>6 DEF TakesKnown, TgInv, KnownTg
  <2>10. UniqueTg'
    <3>1. \A d \in Ctx : d # c => bridges'[d].tg # e.id
      BY <2>6 DEF WithTg
    <3> QED
      BY <2>6, <3>1 DEF TgInv, UniqueTg
  <2>11. HeldTg'
    <3> SUFFICES ASSUME NEW t \in TgIds, td[t].st \in ActiveTg, ~td[t].asked,
                        ~\E d \in Ctx : bridges'[d].tg = t
                 PROVE  ~td[t].out /\ \E x \in Elements(tg_events') :
                           x.type = "updateCall" /\ x.id = t /\ x.state \in {"pending"}
      BY <2>2 DEF HeldTg, CallQueued
    <3>1. t # e.id /\ ~\E d \in Ctx : bridges[d].tg = t
      BY <2>3, <2>6, ConstantsAssumption
    <3> QED
      BY <2>4, <3>1 DEF TgInv, HeldTg, CallQueued
  <2> QED
    BY <2>7, <2>8, <2>9, <2>10, <2>11, TgStep
<1> QED
  BY <1>1, <1>2

LEMMA ReadyTg ==
    ASSUME TypeOK, TypeOK', TgInv, NEW c \in Ctx, NEW e, tg_events # <<>>,
           Spare(Head(tg_events)), TgReadyInBridge(c, e, Tail(tg_events))
    PROVE  TgInv'
<1>1. CASE Aborts
  BY <1>1, TgAborts
<1>2. CASE ~Aborts
  <2> DEFINE b1 == [bridges[c] EXCEPT !.sub = "wait_dtmf", !.ctl = TRUE]
             b2 == [b1 EXCEPT !.aud = pj[b1.sip].nego]
             b3 == [bridges[c] EXCEPT !.sub = "sip_wait_media", !.ctl = TRUE, !.user = e.user]
  <2>1. /\ td' = td /\ tg_events' = Tail(tg_events)
        /\ \E b \in {b1, b2, b3} : bridges' = [bridges EXCEPT ![c] = b]
    BY <1>2, Throws DEF TgReadyInBridge, BridgeAudio, AnswerSip
  <2>2. \A b \in {b1, b2, b3} : b.tg = bridges[c].tg
    <3>1. bridges[c] \in BridgeType
      BY DEF TypeOK
    <3>2. b1.tg = bridges[c].tg /\ b3.tg = bridges[c].tg /\ b1 \in BridgeType
      BY <3>1 DEF BridgeType, Subs
    <3> HIDE DEF b1, b3
    <3>3. b2.tg = b1.tg
      BY <3>2 DEF BridgeType
    <3> QED
      BY <3>2, <3>3
  <2> HIDE DEF b1, b2, b3
  <2>3. \A d \in Ctx : bridges'[d].tg = bridges[d].tg
    BY <2>1, <2>2 DEF TypeOK
  <2>4. Elements(tg_events) = {Head(tg_events)} \cup Elements(tg_events')
    BY <2>1, TailElements DEF TypeOK
  <2> QED
    BY <2>1, <2>3, <2>4, TgKept
<1> QED
  BY <1>1, <1>2

LEMMA UpdateCallTg ==
    TypeOK /\ TypeOK' /\ ShapeInv /\ TgInv /\ ProcessUpdateCall => TgInv'
<1> SUFFICES ASSUME TypeOK, TypeOK', ShapeInv, TgInv, ProcessUpdateCall PROVE TgInv'
  OBVIOUS
<1> DEFINE e == Head(tg_events)
           q == Tail(tg_events)
           c == First(WithTg(e.id))
<1>1. /\ e \in TgEvent /\ e.type = "updateCall" /\ tg_events # <<>> /\ q \in Seq(TgEvent)
      /\ Elements(tg_events) = {e} \cup Elements(q)
  BY TailElements DEF ProcessUpdateCall, PollTg, TypeOK
<1>2. e.id \in TgIds /\ td[e.id].st # "idle"
  BY <1>1, TgEventFields DEF TgInv, KnownTg
<1> HIDE DEF e, q
<1>3. ASSUME td' = td, bridges' = bridges, tg_events' = q, Spare(e)
      PROVE  TgInv'
  BY <1>1, <1>3, TgKept
<1>4. CASE WithTg(e.id) = {} /\ DialSip(e, q)
  BY <1>1, <1>4, DialSipTg DEF e, q
<1>5. CASE /\ CleanUp([NewContext EXCEPT !.tg = e.id], q, sip_events)
           /\ bridges' = bridges
  <2>1. DiscardTg(e.id, q)
    BY <1>5 DEF CleanUp, NewContext
  <2> QED
    BY <1>1, <1>2, <1>5, <2>1, TgDiscards
<1>6. CASE /\ WithTg(e.id) # {} /\ IsTgEnd(e)
           /\ Terminate(c, CleanTgId(bridges[c]), internal_events, q, sip_events)
  <2>1. c \in Ctx /\ bridges[c] \in BridgeType /\ bridges[c].tg = e.id
    BY <1>2, <1>6, FoundByTg
  <2>2. CleanTgId(bridges[c]) \in BridgeType /\ CleanTgId(bridges[c]).tg = NoTg
    BY <2>1 DEF CleanTgId, BridgeType
  <2>3. td[bridges[c].tg].st = "ended" /\ Spare(e)
    BY <1>1, <1>6, <2>1 DEF TgInv, EndsAreEnds, Spare, IsTgEnd
  <2> HIDE DEF c
  <2> QED
    BY <1>1, <1>6, <2>1, <2>2, <2>3, TgTerminates
<1>7. WithTg(e.id) # {} => c \in Ctx /\ Spare(e)
  BY Matches DEF WithTg, Spare
<1>8. CASE WithTg(e.id) # {} /\ TgReadyInBridge(c, e, q)
  BY <1>1, <1>7, <1>8, ReadyTg DEF e, q
<1> HIDE DEF c
<1> QED
  <2>1. CASE WithTg(e.id) = {}
    <3>1. CASE ~(~e.out /\ e.state = "pending")
      <4>1. Spare(e)
        BY <1>1, <3>1, TgEventFields DEF Spare
      <4> QED
        BY <2>1, <3>1, <4>1, <1>3 DEF ProcessUpdateCall, UpdateCallInInit, IsPending, e, q
    <3>2. CASE ~e.out /\ e.state = "pending"
      BY <2>1, <3>2, <1>4, <1>5 DEF ProcessUpdateCall, UpdateCallInInit, IsPending, e, q
    <3> QED
      BY <3>1, <3>2
  <2>2. CASE WithTg(e.id) # {}
    BY <2>2, <1>3, <1>6, <1>7, <1>8 DEF ProcessUpdateCall, UpdateCallInBridge, e, q, c
  <2> QED
    BY <2>1, <2>2

\* createCall: bridge c, which has no Telegram leg yet, gets a new call.
LEMMA DialTgTg ==
    ASSUME TypeOK, TypeOK', TgInv, NEW c \in Ctx, bridges[c].tg = NoTg, NEW q,
           DialTgReturns(c, q)
    PROVE  TgInv'
<1> DEFINE b == [bridges[c] EXCEPT !.sub = "wait_tg"]
<1>0. b.tg = NoTg /\ \A u : [b EXCEPT !.user = u].tg = NoTg
  BY DEF TypeOK, BridgeType
<1>1. \A u, t : [b EXCEPT !.user = u, !.tg = t].tg = t
  BY DEF TypeOK, BridgeType
<1>2. CASE td' = td /\ tg_events' = tg_events
           /\ (\/ bridges' = [bridges EXCEPT ![c] = b]
               \/ \E u : bridges' = [bridges EXCEPT ![c] = [b EXCEPT !.user = u]])
  <2> HIDE DEF b
  <2>1. \A d \in Ctx : bridges'[d].tg = bridges[d].tg
    BY <1>0, <1>2 DEF TypeOK
  <2> QED
    BY <1>2, <2>1, TgKept
<1>3. ASSUME NEW u \in Users \cup {NoUser}, NEW t \in TgIds, td[t].st = "idle",
             td' = [td EXCEPT ![t] = [st |-> "pending", out |-> TRUE,
                       user |-> u, asked |-> FALSE, received |-> FALSE]],
             tg_events' = Append(tg_events, UpdateCall(t, "pending", TRUE, u)),
             bridges' = [bridges EXCEPT ![c] = [b EXCEPT !.user = u, !.tg = t]]
      PROVE  TgInv'
  <2> DEFINE new == UpdateCall(t, "pending", TRUE, u)
  <2>1. new \in TgEvent /\ new.id = t /\ new.out = TRUE /\ ~IsTgEnd(new)
    BY EventsTyped DEF UpdateCall, IsTgEnd
  <2>2. tg_events \in Seq(TgEvent) /\ tg_events' = Append(tg_events, new)
    BY <1>3 DEF TypeOK
  <2> HIDE DEF new
  <2>3. Elements(tg_events') = Elements(tg_events) \cup {new}
    BY <2>1, <2>2, AppendElements
  <2>4. /\ td'[t].st = "pending" /\ td'[t].out = TRUE
        /\ \A x \in TgIds : x # t => td'[x] = td[x]
    BY <1>3 DEF TypeOK
  <2> HIDE DEF b
  <2>5. bridges'[c].tg = t /\ \A d \in Ctx : d # c => bridges'[d] = bridges[d]
    BY <1>1, <1>3 DEF TypeOK
  <2>6. CallsGoOn
    BY <1>3, <2>4 DEF CallsGoOn
  <2>7. HonestEvents
    BY <2>1, <2>3, <2>4 DEF HonestEvents
  <2>8. TakesKnown
    BY <2>4, <2>5 DEF TakesKnown
  <2>9. UniqueTg'
    <3>1. \A d \in Ctx : bridges[d].tg # t
      BY <1>3, ConstantsAssumption DEF TgInv, KnownTg
    <3> QED
      BY <2>5, <3>1 DEF TgInv, UniqueTg
  <2>10. HeldTg'
    <3> SUFFICES ASSUME NEW x \in TgIds, td'[x].st \in ActiveTg, ~td'[x].asked,
                        ~\E d \in Ctx : bridges'[d].tg = x
                 PROVE  ~td'[x].out /\ \E e \in Elements(tg_events') :
                           e.type = "updateCall" /\ e.id = x /\ e.state \in {"pending"}
      BY DEF HeldTg, CallQueued
    <3>1. x # t /\ td'[x] = td[x] /\ ~\E d \in Ctx : bridges[d].tg = x
      BY <2>4, <2>5, ConstantsAssumption
    <3> QED
      BY <2>3, <3>1 DEF TgInv, HeldTg, CallQueued
  <2> QED
    BY <2>6, <2>7, <2>8, <2>9, <2>10, TgStep
<1>4. bridges[c].user \in Users \cup {NoUser} /\ b.user = bridges[c].user
  BY DEF TypeOK, BridgeType
<1> QED
  <2>1. \A u : u \in (IF b.user = NoUser THEN Users ELSE {b.user}) => u \in Users \cup {NoUser}
    BY <1>4
  <2> QED
    BY <1>2, <1>3, <2>1 DEF DialTgReturns

LEMMA CallStateTg ==
    TypeOK /\ TypeOK' /\ ShapeInv /\ TgInv /\ ProcessCallStateUpdate => TgInv'
<1> SUFFICES ASSUME TypeOK, TypeOK', ShapeInv, TgInv, ProcessCallStateUpdate PROVE TgInv'
  OBVIOUS
<1> DEFINE e == Head(sip_events)
           q == Tail(sip_events)
           c == First(WithSip(e.id))
<1>1. e.id \in SipIds
  BY TailElements, SipEventFields DEF ProcessCallStateUpdate, PollSip, TypeOK
<1> HIDE DEF e, q
<1>2. CASE UNCHANGED <<bridges, tg_events, td>>
  BY <1>2, TgKept
<1>3. WithSip(e.id) # {} => c \in Ctx /\ bridges[c] \in BridgeType
  BY <1>1, FoundBySip
<1>4. CASE WithSip(e.id) # {} /\ DialsOnEarly(bridges[c], e) /\ DialTgReturns(c, q)
  <2>1. bridges[c].tg = NoTg
    BY <1>3, <1>4 DEF DialsOnEarly, ShapeInv, Consistent
  <2> HIDE DEF c
  <2> QED
    BY <1>3, <1>4, <2>1, DialTgTg
<1>5. CASE WithSip(e.id) # {}
           /\ Terminate(c, CleanSipId(bridges[c]), internal_events, tg_events, q)
  <2>1. CleanSipId(bridges[c]) \in BridgeType /\ CleanSipId(bridges[c]).tg = bridges[c].tg
    BY <1>3, <1>5 DEF CleanSipId, BridgeType
  <2>2. tg_events \in Seq(TgEvent)
    BY DEF TypeOK
  <2> HIDE DEF c
  <2> QED
    BY <1>3, <1>5, <2>1, <2>2, TgTerminates
<1> QED
  BY <1>2, <1>4, <1>5, Throws, TgAborts DEF ProcessCallStateUpdate, DialTg, e, q

\* acceptCall, or sound for a bridge from SIP.
LEMMA MediaStateTg ==
    TypeOK /\ TypeOK' /\ ShapeInv /\ TgInv /\ ProcessCallMediaStateUpdate => TgInv'
<1> SUFFICES ASSUME TypeOK, TypeOK', ShapeInv, TgInv, ProcessCallMediaStateUpdate PROVE TgInv'
  OBVIOUS
<1> DEFINE e == Head(sip_events)
           c == First(WithSip(e.id))
<1>1. e.id \in SipIds
  BY TailElements, SipEventFields DEF ProcessCallMediaStateUpdate, PollSip, TypeOK
<1>2. tg_events' = tg_events
  BY DEF ProcessCallMediaStateUpdate
<1>3. CASE UNCHANGED <<bridges, td>>
  BY <1>2, <1>3, TgKept
<1>4. CASE /\ WithSip(e.id) # {}
           /\ \/ AnswerTg(c)
              \/ td' = td /\ BridgeAudio(c, [bridges[c] EXCEPT !.sub = "wait_dtmf"])
  <2>1. c \in Ctx /\ bridges[c] \in BridgeType
    BY <1>1, <1>4, FoundBySip
  <2> HIDE DEF e, c
  <2> DEFINE b1 == [bridges[c] EXCEPT !.sub = "wait_tg"]
             b2 == [bridges[c] EXCEPT !.sub = "wait_dtmf"]
             b3 == [b2 EXCEPT !.aud = pj[b2.sip].nego]
  <2>2. \E b \in {b1, b2, b3} : bridges' = [bridges EXCEPT ![c] = b]
    BY <1>4 DEF AnswerTg, BridgeAudio
  <2>3. \A b \in {b1, b2, b3} : b.tg = bridges[c].tg
    BY <2>1 DEF BridgeType
  <2> HIDE DEF b1, b2, b3
  <2>4. \A d \in Ctx : bridges'[d].tg = bridges[d].tg
    BY <2>1, <2>2, <2>3 DEF TypeOK
  <2>5. CASE td' = td
    BY <1>2, <2>4, <2>5, TgKept
  <2>6. CASE /\ bridges[c].tg \in TgIds /\ td[bridges[c].tg].st = "pending"
             /\ td' = [td EXCEPT ![bridges[c].tg] = [@ EXCEPT !.st = "accepted"]]
    <3> DEFINE t == bridges[c].tg
    <3>1. /\ td'[t].st = "accepted" /\ td'[t].out = td[t].out
          /\ \A x \in TgIds : x # t => td'[x] = td[x]
      BY <2>6 DEF TypeOK, TdType
    <3>2. CallsGoOn
      BY <2>6, <3>1 DEF CallsGoOn
    <3>3. HonestEvents
      BY <1>2 DEF HonestEvents
    <3>4. TakesKnown
      BY <2>4 DEF TakesKnown
    <3>5. UniqueTg'
      BY <2>4 DEF TgInv, UniqueTg
    <3>6. HeldTg'
      BY <1>2, <2>1, <2>4, <3>1 DEF TgInv, HeldTg, CallQueued
    <3> QED
      BY <3>2, <3>3, <3>4, <3>5, <3>6, TgStep
  <2> QED
    <3>1. CASE bridges[c].tg \in TgIds
      BY <1>4, <2>5, <2>6, <3>1 DEF AnswerTg
    <3>2. CASE bridges[c].tg \notin TgIds
      <4>1. td' = td \/ td' = [td EXCEPT ![bridges[c].tg] = [@ EXCEPT !.st = "accepted"]]
        BY <1>4 DEF AnswerTg
      <4>2. td' = td
        BY <3>2, <4>1 DEF TypeOK
      <4> QED
        BY <2>5, <4>2
    <3> QED
      BY <3>1, <3>2
<1> QED
  BY <1>3, <1>4 DEF ProcessCallMediaStateUpdate

LEMMA IncomingCallTg ==
    TypeOK /\ TypeOK' /\ ShapeInv /\ TgInv /\ ProcessIncomingCall => TgInv'
<1> SUFFICES ASSUME TypeOK, TypeOK', ShapeInv, TgInv, ProcessIncomingCall PROVE TgInv'
  OBVIOUS
<1> DEFINE e == Head(sip_events)
<1>1. CASE UNCHANGED <<bridges, tg_events, td>>
  BY <1>1, TgKept
<1>2. CASE AcceptIncomingSip(e, Tail(sip_events))
  <2> HIDE DEF e
  <2> DEFINE b == [NewContext EXCEPT !.top = "from_sip", !.sub = "sip_wait_confirm",
                     !.sip = e.id,
                     !.user = IF e.extension \in Users THEN e.extension ELSE NoUser]
  <2>1. PICK c \in Ctx : NewCtx(c) /\ bridges' = [bridges EXCEPT ![c] = b]
    BY <1>2 DEF AcceptIncomingSip
  <2>2. tg_events' = tg_events /\ td' = td
    BY <1>2 DEF AcceptIncomingSip
  <2>3. b.tg = NoTg
    BY DEF NewContext
  <2>4. bridges[c].tg = NoTg
    BY <2>1, NewCtxUnused DEF NewContext
  <2> HIDE DEF b
  <2>5. \A d \in Ctx : bridges'[d].tg = bridges[d].tg
    BY <2>1, <2>3, <2>4 DEF TypeOK
  <2> QED
    BY <2>2, <2>5, TgKept
<1> QED
  BY <1>1, <1>2 DEF ProcessIncomingCall

LEMMA InternalErrorTg ==
    TypeOK /\ TypeOK' /\ TgInv /\ ProcessInternalError => TgInv'
<1> SUFFICES ASSUME TypeOK, TypeOK', TgInv, ProcessInternalError PROVE TgInv'
  OBVIOUS
<1> DEFINE c == Head(internal_events).ctx
<1>1. Head(internal_events) \in InternalEvent
  BY TailElements DEF ProcessInternalError, PollInternal, TypeOK
<1>2. c \in Ctx /\ bridges[c] \in BridgeType /\ tg_events \in Seq(TgEvent)
  BY <1>1 DEF InternalEvent, TypeOK
<1>3. CASE UNCHANGED <<bridges, tg_events, td>>
  BY <1>3, TgKept
<1>4. CASE Terminate(c, bridges[c], Tail(internal_events), tg_events, sip_events)
  <2> HIDE DEF c
  <2> QED
    BY <1>2, <1>4, TgTerminates
<1> QED
  BY <1>3, <1>4 DEF ProcessInternalError

\* TDLib moves call t to r and reports it as s.
LEMMA TgMovesTg ==
    ASSUME TypeOK, TypeOK', TgInv, NEW t \in TgIds, NEW r \in TdType,
           NEW s \in {"pending", "ready", "discarded", "error"}, TgMoves(t, r, s),
           r.st # "idle", td[t].st # "ended",
           s \in {"discarded", "error"} => r.st = "ended",
           td[t].st = "idle" => s = "pending" /\ ~r.out,
           td[t].st # "idle" => r.out = td[t].out,
           r.st \in ActiveTg /\ ~r.asked /\ td[t].st # "idle"
              => td[t].st \in ActiveTg /\ ~td[t].asked
    PROVE  TgInv'
<1> DEFINE new == UpdateCall(t, s, r.out, r.user)
<1>1. /\ new \in TgEvent /\ new.type = "updateCall" /\ new.id = t /\ new.state = s
      /\ new.out = r.out
  BY EventsTyped DEF UpdateCall, TdType
<1>2. /\ tg_events \in Seq(TgEvent) /\ tg_events' = Append(tg_events, new)
      /\ bridges' = bridges
  BY DEF TypeOK, TgMoves, TgSends
<1> HIDE DEF new
<1>3. Elements(tg_events') = Elements(tg_events) \cup {new}
  BY <1>1, <1>2, AppendElements
<1>4. td'[t] = r /\ \A x \in TgIds : x # t => td'[x] = td[x]
  BY DEF TypeOK, TgMoves
<1>5. CallsGoOn
  BY <1>4 DEF CallsGoOn
<1>6. HonestEvents
  BY <1>1, <1>3, <1>4 DEF HonestEvents, IsTgEnd
<1>7. TakesKnown
  BY <1>2 DEF TakesKnown
<1>8. UniqueTg'
  BY <1>2 DEF TgInv, UniqueTg
<1>9. HeldTg'
  <2> SUFFICES ASSUME NEW x \in TgIds, td'[x].st \in ActiveTg, ~td'[x].asked,
                      ~\E c \in Ctx : bridges[c].tg = x
               PROVE  ~td'[x].out /\ \E e \in Elements(tg_events') :
                         e.type = "updateCall" /\ e.id = x /\ e.state \in {"pending"}
    BY <1>2 DEF HeldTg, CallQueued
  <2>1. CASE td[x].st = "idle"
    <3>1. x = t /\ new \in Elements(tg_events')
      BY <1>3, <1>4, <2>1 DEF ActiveTg
    <3> QED
      BY <1>1, <1>4, <2>1, <3>1
  <2>2. CASE td[x].st # "idle"
    <3>1. td[x].st \in ActiveTg /\ ~td[x].asked /\ td'[x].out = td[x].out
      BY <1>4, <2>2
    <3> QED
      BY <1>3, <3>1 DEF TgInv, HeldTg, CallQueued
  <2> QED
    BY <2>1, <2>2
<1> QED
  BY <1>5, <1>6, <1>7, <1>8, <1>9, TgStep

LEMMA TdLibTg ==
    ASSUME TypeOK, TypeOK', TgInv, NEW t \in TgIds,
           \/ TgReceived(t) \/ TgReady(t) \/ TgEnd(t)
           \/ \E u \in Users : TgIncoming(t, u)
    PROVE  TgInv'
<1>1. td[t] \in TdType
  BY DEF TypeOK
<1>2. CASE TgReceived(t)
  <2> DEFINE r == [td[t] EXCEPT !.received = TRUE]
  <2>1. r \in TdType /\ r.st = td[t].st /\ r.out = td[t].out /\ r.asked = td[t].asked
    BY <1>1 DEF TdType
  <2>2. td[t].st = "pending" /\ TgMoves(t, r, "pending")
    BY <1>2 DEF TgReceived
  <2> HIDE DEF r
  <2> QED
    BY <2>1, <2>2, TgMovesTg DEF ActiveTg
<1>3. CASE TgReady(t)
  <2> DEFINE r == [td[t] EXCEPT !.st = "ready"]
  <2>1. r \in TdType /\ r.st = "ready" /\ r.out = td[t].out /\ r.asked = td[t].asked
    BY <1>1 DEF TdType, ActiveTg
  <2>2. td[t].st \in {"pending", "accepted"} /\ TgMoves(t, r, "ready")
    BY <1>3 DEF TgReady
  <2> HIDE DEF r
  <2> QED
    BY <2>1, <2>2, TgMovesTg DEF ActiveTg
<1>4. CASE TgEnd(t)
  <2> DEFINE r == [td[t] EXCEPT !.st = "ended"]
  <2>1. r \in TdType /\ r.st = "ended" /\ r.out = td[t].out
    BY <1>1 DEF TdType, ActiveTg
  <2>2. PICK s \in {"discarded", "error"} : TgMoves(t, r, s)
    BY <1>4 DEF TgEnd
  <2>3. td[t].st \in ActiveTg \cup {"hangup"}
    BY <1>4 DEF TgEnd
  <2> HIDE DEF r
  <2> QED
    BY <2>1, <2>2, <2>3, TgMovesTg DEF ActiveTg
<1>5. ASSUME NEW u \in Users, TgIncoming(t, u) PROVE TgInv'
  <2> DEFINE r == [st |-> "pending", out |-> FALSE, user |-> u,
                   asked |-> FALSE, received |-> FALSE]
  <2>1. r \in TdType /\ r.st = "pending" /\ r.out = FALSE
    BY DEF TdType, ActiveTg
  <2>2. td[t].st = "idle" /\ TgMoves(t, r, "pending")
    BY <1>5 DEF TgIncoming
  <2> HIDE DEF r
  <2> QED
    BY <2>1, <2>2, TgMovesTg DEF ActiveTg
<1> QED
  BY <1>2, <1>3, <1>4, <1>5

\* An update that is no updateCall is appended.
LEMMA OtherUpdateTg ==
    ASSUME TypeOK, TypeOK', TgInv, NEW e \in TgEvent, e.type # "updateCall",
           td' = td, TgSends(e)
    PROVE  TgInv'
<1>1. Elements(tg_events') = Elements(tg_events) \cup {e} /\ bridges' = bridges
  BY AppendElements DEF TypeOK, TgSends
<1>2. CallsGoOn
  BY DEF CallsGoOn
<1>3. HonestEvents
  BY <1>1 DEF HonestEvents
<1>4. TakesKnown
  BY <1>1 DEF TakesKnown
<1>5. UniqueTg' /\ HeldTg'
  BY <1>1 DEF TgInv, UniqueTg, HeldTg, CallQueued
<1> QED
  BY <1>2, <1>3, <1>4, <1>5, TgStep

\* A chat message or signalling data is taken off the queue.
LEMMA OtherPopTg ==
    TypeOK /\ TypeOK' /\ TgInv
       /\ (ProcessUpdateNewMessage \/ ProcessUpdateNewCallSignalingData) => TgInv'
<1> SUFFICES ASSUME TypeOK, TypeOK', TgInv,
                    ProcessUpdateNewMessage \/ ProcessUpdateNewCallSignalingData
             PROVE  TgInv'
  OBVIOUS
<1>1. CASE Aborts
  BY <1>1, TgAborts
<1>2. CASE ~Aborts
  <2>1. /\ tg_events # <<>> /\ Head(tg_events).type # "updateCall"
        /\ tg_events' = Tail(tg_events) /\ UNCHANGED <<bridges, td>>
    BY <1>2, Throws DEF ProcessUpdateNewMessage, ProcessUpdateNewCallSignalingData, PollTg
  <2>2. Elements(tg_events) = {Head(tg_events)} \cup Elements(tg_events')
    BY <2>1, TailElements DEF TypeOK
  <2>3. Spare(Head(tg_events))
    BY <2>1 DEF Spare
  <2> QED
    BY <2>1, <2>2, <2>3, TgKept
<1> QED
  BY <1>1, <1>2

LEMMA StepTg ==
    TypeOK /\ ShapeInv /\ TgInv /\ [Next]_vars => TgInv'
<1> SUFFICES ASSUME TypeOK, ShapeInv, TgInv, [Next]_vars PROVE TgInv'
  OBVIOUS
<1>1. TypeOK'
  BY StepTyped
<1>2. CASE UNCHANGED <<bridges, tg_events, td>>
  BY <1>1, <1>2, TgKept
<1>3. CASE Loop
  <2>1. PollEmpty \/ LeaveLoop \/ ProcessSignalingDataEmitted => UNCHANGED <<bridges, tg_events, td>>
    BY DEF PollEmpty, LeaveLoop, ProcessSignalingDataEmitted
  <2> QED
    BY <1>1, <1>2, <1>3, <2>1, InternalErrorTg, UpdateCallTg, OtherPopTg, IncomingCallTg,
       CallStateTg, MediaStateTg DEF Loop
<1>4. CASE Others
  <2>1. ASSUME NEW t \in TgIds, TgSignaling(t) PROVE TgInv'
    <3>1. [type |-> "updateNewCallSignalingData", id |-> t] \in TgEvent
      BY DEF TgEvent
    <3> QED
      BY <1>1, <2>1, <3>1, OtherUpdateTg DEF TgSignaling
  <2>2. ASSUME NEW u \in Users, NEW x \in Contents, TgMessage(u, x) PROVE TgInv'
    <3>1. [type |-> "updateNewMessage", user |-> u, content |-> x] \in TgEvent
      BY DEF TgEvent
    <3> QED
      BY <1>1, <2>2, <3>1, OtherUpdateTg DEF TgMessage
  <2>3. \/ \E c \in Ctx : EmitSignaling(c)
        \/ \E s \in SipIds, x \in Exts : SipIncoming(s, x)
        \/ \E s \in SipIds : SipProgress(s) \/ SipDisconnect(s)
        \/ \E s \in SipIds, m \in BOOLEAN : SipMedia(s, m)
        \/ Signal
        => UNCHANGED <<bridges, tg_events, td>>
    BY DEF EmitSignaling, SipIncoming, SipProgress, SipDisconnect, SipMedia, SipSends, Signal
  <2> QED
    BY <1>1, <1>2, <1>4, <2>1, <2>2, <2>3, TdLibTg DEF Others
<1>5. CASE Halted \/ UNCHANGED vars
  BY <1>2, <1>5 DEF Halted, vars
<1> QED
  BY <1>3, <1>4, <1>5 DEF Next

LEMMA InitTg == Init => TgInv
<1> SUFFICES ASSUME Init PROVE TgInv
  OBVIOUS
<1>1. Elements(tg_events) = {}
  BY DEF Init, Elements
<1>2. \A c \in Ctx : bridges[c].tg = NoTg
  BY DEF Init, NewContext
<1>3. \A t \in TgIds : td[t].st = "idle"
  BY DEF Init
<1> QED
  BY <1>1, <1>2, <1>3 DEF TgInv, UniqueTg, KnownTg, EndsAreEnds, HeldTg, ActiveTg

\* Every Telegram call that is active and that the gateway did not ask TDLib to
\* discard has a bridge, or is about to get one from its queued update: CleanUp,
\* the refusal of calls and every failure leave no caller behind.
THEOREM NoTgForgotten == Spec => []NoOrphanTg
<1> DEFINE I == TypeOK /\ ShapeInv /\ TgInv
<1>1. Init => I
  BY InitTyped, InitShape, InitTg
<1>2. I /\ [Next]_vars => I'
  BY StepTyped, StepShape, StepTg
<1>3. I => NoOrphanTg
  BY DEF TgInv, HeldTg, NoOrphanTg
<1> QED
  BY <1>1, <1>2, <1>3, PTL DEF Spec

=============================================================================
