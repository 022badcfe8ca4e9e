-------------------------- MODULE GatewayLegProofs --------------------------
(***************************************************************************)
(* The SIP side and both legs of a bridge of Gateway, for any number of    *)
(* calls and slots: bridges do not share slots, the call table has the     *)
(* call of every bridge, and so DialDtmf never misses it; a bridge that    *)
(* lost a leg has the event queued that removes it, a SIP session that     *)
(* lost its bridge was hung up, and a bridge that talks was linked with    *)
(* media of its session.  At the end, the refinement of Switchboard.       *)
(***************************************************************************)
EXTENDS GatewayProofs

(***************************************************************************)
(* The SIP side: the inductive invariant.                                  *)
(***************************************************************************)

\* A slot belongs to one bridge.
UniqueSip ==
    \A c, d \in Ctx : c # d => bridges[c].sip = NoSip \/ bridges[c].sip # bridges[d].sip

\* Bridges and queued events name slots that pjsua has handed out.
KnownSip ==
    /\ \A c \in Ctx : bridges[c].sip # NoSip => pj[bridges[c].sip].st # "free"
    /\ \A e \in Elements(sip_events) : pj[e.id].st # "free"

\* The call of a bridge is in the call table; the table loses it only when
\* that bridge is removed.
InTable == \A c \in Ctx : bridges[c].sip # NoSip => bridges[c].sip \in calls

\* A queued incoming call is in the call table and no bridge has its slot.
IncomingInTable ==
    \A e \in Elements(sip_events) :
       e.type = "IncomingCall" => e.id \in calls /\ \A c \in Ctx : bridges[c].sip # e.id

\* An incoming call is queued once.
Once(q) ==
    \A i, j \in 1..Len(q) :
       q[i].type = "IncomingCall" /\ q[j].type = "IncomingCall" /\ q[i].id = q[j].id
          => i = j

SipInv == UniqueSip /\ KnownSip /\ InTable /\ IncomingInTable /\ Once(sip_events)

-----------------------------------------------------------------------------
(* Steps in general. *)

LEMMA OnceTail ==
    ASSUME NEW S, NEW q \in Seq(S), q # <<>>, Once(q)
    PROVE  /\ Once(Tail(q))
           /\ Head(q).type = "IncomingCall"
                => \A e \in Elements(Tail(q)) :
                      e.type = "IncomingCall" => e.id # Head(q).id
<1>1. /\ Len(Tail(q)) = Len(q) - 1 /\ Len(q) \in Nat /\ Len(q) >= 1
      /\ \A i \in 1..Len(Tail(q)) : i + 1 \in 1..Len(q) /\ Tail(q)[i] = q[i + 1]
  BY HeadTailProperties, EmptySeq, LenProperties
<1>2. 1 \in 1..Len(q) /\ Head(q) = q[1]
  BY <1>1
<1>3. Once(Tail(q))
  BY <1>1 DEF Once
<1>4. ASSUME NEW i \in 1..Len(Tail(q)), Tail(q)[i].type = "IncomingCall",
             Head(q).type = "IncomingCall", Tail(q)[i].id = Head(q).id
      PROVE  FALSE
  <2>1. i + 1 = 1
    BY <1>1, <1>2, <1>4 DEF Once
  <2> QED
    BY <1>1, <1>4, <2>1
<1> QED
  BY <1>3, <1>4 DEF Elements

LEMMA OnceAppend ==
    ASSUME NEW S, NEW q \in Seq(S), NEW e \in S, Once(q),
           e.type = "IncomingCall"
              => \A x \in Elements(q) : x.type = "IncomingCall" => x.id # e.id
    PROVE  Once(Append(q, e))
<1> DEFINE r == Append(q, e)
<1>1. /\ Len(q) \in Nat /\ Len(r) = Len(q) + 1 /\ r[Len(q) + 1] = e
      /\ \A i \in 1..Len(q) : r[i] = q[i]
  BY AppendProperties, LenProperties
<1>2. \A i \in 1..Len(q) : q[i] \in Elements(q)
  BY DEF Elements
<1> HIDE DEF r
<1>3. \A i \in 1..Len(r) : i \in 1..Len(q) \/ i = Len(q) + 1
  BY <1>1
<1>4. Once(r)
  BY <1>1, <1>2, <1>3 DEF Once
<1> QED
  BY <1>4 DEF r

\* pjsua does not take a slot back that it has handed out.
SlotsGoOn == \A s \in SipIds : pj[s].st # "free" => pj'[s].st # "free"

\* What is appended is no incoming call and names a slot in use.
HonestSip ==
    \A e \in Elements(sip_events') :
       e \in Elements(sip_events) \/ (e.type # "IncomingCall" /\ pj'[e.id].st # "free")

\* A step in which bridges keep or drop their slots; what the call table loses
\* no bridge has and no queued incoming call names.
LEMMA SipStep ==
    ASSUME TypeOK, TypeOK', SipInv, SlotsGoOn, HonestSip, Once(sip_events'),
           \A c \in Ctx : bridges'[c].sip \in {NoSip, bridges[c].sip},
           \A s \in calls \ calls' :
              /\ \A c \in Ctx : bridges'[c].sip # s
              /\ \A e \in Elements(sip_events) : e.type = "IncomingCall" => e.id # s
    PROVE  SipInv'
<1>1. \A e \in Elements(sip_events) : e.id \in SipIds
  BY ElementsTyped, SipEventFields DEF TypeOK
<1>2. \A c \in Ctx : bridges[c].sip \in SipIds \cup {NoSip}
  BY DEF TypeOK, BridgeType
<1>3. UniqueSip'
  BY DEF SipInv, UniqueSip
<1>4. KnownSip'
  <2>1. \A c \in Ctx : bridges'[c].sip # NoSip => pj'[bridges'[c].sip].st # "free"
    BY <1>2 DEF SipInv, KnownSip, SlotsGoOn
  <2>2. \A e \in Elements(sip_events') : pj'[e.id].st # "free"
    BY <1>1 DEF SipInv, KnownSip, SlotsGoOn, HonestSip
  <2> QED
    BY <2>1, <2>2 DEF KnownSip
<1>5. InTable'
  BY DEF SipInv, InTable
<1>6. IncomingInTable'
  <2>1. \A e \in Elements(sip_events') : e.type = "IncomingCall" => e \in Elements(sip_events)
    BY DEF HonestSip
  <2>2. \A e \in Elements(sip_events) : e.id # NoSip
    BY <1>1, ConstantsAssumption
  <2> QED
    BY <2>1, <2>2 DEF SipInv, IncomingInTable
<1> QED
  BY <1>3, <1>4, <1>5, <1>6 DEF SipInv

\* A step that leaves pjsua, the table and the slots of bridges alone, and at
\* most takes an event off the queue.
LEMMA SipKept ==
    ASSUME TypeOK, TypeOK', SipInv, UNCHANGED <<calls, pj>>,
           \A c \in Ctx : bridges'[c].sip = bridges[c].sip,
           \/ sip_events' = sip_events
           \/ sip_events # <<>> /\ sip_events' = Tail(sip_events)
    PROVE  SipInv'
<1>1. SlotsGoOn
  BY DEF SlotsGoOn
<1>2. HonestSip /\ Once(sip_events')
  <2>1. CASE sip_events' = sip_events
    BY <2>1 DEF HonestSip, SipInv
  <2>2. CASE sip_events # <<>> /\ sip_events' = Tail(sip_events)
    <3>1. sip_events \in Seq(SipEvent)
      BY DEF TypeOK
    <3> QED
      BY <2>2, <3>1, TailElements, OnceTail DEF HonestSip, SipInv
  <2> QED
    BY <2>1, <2>2
<1> QED
  BY <1>1, <1>2, SipStep

LEMMA SipAborts ==
    ASSUME TypeOK, TypeOK', SipInv, Aborts
    PROVE  SipInv'
BY SipKept DEF Aborts, Abort

-----------------------------------------------------------------------------
(* Hanging up. *)

LEMMA HangupFacts ==
    ASSUME TypeOK, NEW s, NEW q \in Seq(SipEvent), Once(q), Hangup(s, q)
    PROVE  /\ calls' \subseteq calls /\ calls \ calls' \subseteq {s} \cap SipIds
           /\ SlotsGoOn
           /\ Once(sip_events')
           /\ \A e \in Elements(sip_events') :
                 \/ e \in Elements(q)
                 \/ e.type = "CallStateUpdate" /\ e.id = s /\ pj'[s].st # "free"
<1>1. CASE s \notin calls
  BY <1>1 DEF Hangup, SlotsGoOn
<1>2. CASE s \in calls
  <2>1. s \in SipIds /\ pj \in [SipIds -> PjType] /\ pj[s] \in PjType
    BY <1>2 DEF TypeOK
  <2>2. CASE /\ calls' = calls \ {s}
             /\ pj' = [pj EXCEPT ![s] = [@ EXCEPT !.st = "ended", !.hung = TRUE]]
             /\ \/ sip_events' = q
                \/ sip_events' = Append(q, CallStateUpdate(s, "DISCONNECTED"))
    <3> DEFINE new == CallStateUpdate(s, "DISCONNECTED")
    <3>1. new \in SipEvent /\ new.type = "CallStateUpdate" /\ new.id = s
      BY <2>1, EventsTyped DEF CallStateUpdate
    <3>2. pj'[s].st = "ended" /\ \A x \in SipIds : x # s => pj'[x] = pj[x]
      BY <2>1, <2>2 DEF PjType
    <3>3. SlotsGoOn
      BY <3>2 DEF SlotsGoOn
    <3>4. sip_events' = q \/ sip_events' = Append(q, new)
      BY <2>2
    <3> HIDE DEF new
    <3>5. /\ Once(sip_events')
          /\ \A e \in Elements(sip_events') : e \in Elements(q) \/ e = new
      <4>1. Once(Append(q, new))
        BY <3>1, OnceAppend
      <4>2. Elements(Append(q, new)) = Elements(q) \cup {new}
        BY <3>1, AppendElements
      <4> QED
        BY <3>4, <4>1, <4>2
    <3> QED
      BY <2>1, <2>2, <3>1, <3>2, <3>3, <3>5
  <2>3. CASE /\ pj' = [pj EXCEPT ![s] = [@ EXCEPT !.hung = TRUE]]
             /\ calls' = calls /\ sip_events' = q
    <3>1. SlotsGoOn
      BY <2>1, <2>3 DEF SlotsGoOn, PjType
    <3> QED
      BY <2>3, <3>1
  <2> QED
    BY <1>2, <2>2, <2>3 DEF Hangup
<1> QED
  BY <1>1, <1>2

\* The queue after a pop, or untouched.
LEMMA PoppedSip ==
    ASSUME TypeOK, SipInv, NEW q,
           q = sip_events \/ (sip_events # <<>> /\ q = Tail(sip_events))
    PROVE  q \in Seq(SipEvent) /\ Once(q) /\ Elements(q) \subseteq Elements(sip_events)
<1>1. sip_events \in Seq(SipEvent) /\ Once(sip_events)
  BY DEF TypeOK, SipInv
<1>2. CASE q = sip_events
  BY <1>1, <1>2
<1>3. CASE sip_events # <<>> /\ q = Tail(sip_events)
  <2>1. Once(Tail(sip_events))
    BY <1>1, <1>3, OnceTail
  <2> QED
    BY <1>1, <1>3, <2>1, TailElements
<1> QED
  BY <1>2, <1>3

\* Entry of X: the slot of the removed bridge leaves the table, or nothing
\* does when the id was cleared before.
LEMMA SipTerminates ==
    ASSUME TypeOK, TypeOK', SipInv, NEW c \in Ctx, NEW b, NEW i, NEW q, NEW r,
           Terminate(c, b, i, q, r), b.sip \in {NoSip, bridges[c].sip},
           r = sip_events \/ (sip_events # <<>> /\ r = Tail(sip_events))
    PROVE  SipInv'
<1>1. CASE Aborts
  BY <1>1, SipAborts
<1>2. CASE Hangup(b.sip, r) /\ bridges' = [bridges EXCEPT ![c] = NewContext]
  <2>1. r \in Seq(SipEvent) /\ Once(r) /\ Elements(r) \subseteq Elements(sip_events)
    BY PoppedSip
  <2>2. /\ calls \ calls' \subseteq {b.sip} \cap SipIds /\ SlotsGoOn /\ Once(sip_events')
        /\ \A e \in Elements(sip_events') :
              \/ e \in Elements(r)
              \/ e.type = "CallStateUpdate" /\ e.id = b.sip /\ pj'[b.sip].st # "free"
    BY <1>2, <2>1, HangupFacts
  <2>3. HonestSip
    BY <2>1, <2>2 DEF HonestSip
  <2>4. bridges'[c].sip = NoSip /\ \A d \in Ctx : d # c => bridges'[d] = bridges[d]
    BY <1>2 DEF TypeOK, NewContext
  <2>5. ASSUME NEW s \in calls \ calls'
        PROVE  /\ \A d \in Ctx : bridges'[d].sip # s
               /\ \A e \in Elements(sip_events) : e.type = "IncomingCall" => e.id # s
    <3>1. s = bridges[c].sip /\ s # NoSip
      BY <2>2, <2>5, ConstantsAssumption
    <3> QED
      BY <2>4, <3>1 DEF SipInv, UniqueSip, IncomingInTable
  <2> QED
    BY <2>2, <2>3, <2>4, <2>5, SipStep
<1> QED
  BY <1>1, <1>2, Throws DEF Terminate, CleanUp

-----------------------------------------------------------------------------
(* Handlers. *)

\* A free slot is no bridge's, and no queued event names it.
LEMMA FreeIsUnused ==
    ASSUME TypeOK, SipInv, NEW s \in SipIds, FreeSlot(s)
    PROVE  /\ \A c \in Ctx : bridges[c].sip # s
           /\ \A e \in Elements(sip_events) : e.id # s
BY ConstantsAssumption DEF SipInv, KnownSip, FreeSlot

\* A session is opened, and the bridge of the call is the new one, c, or
\* none yet.
LEMMA OpenFacts ==
    ASSUME TypeOK, NEW s \in SipIds, NEW st, st # "free", OpenSip(s, st)
    PROVE  SlotsGoOn /\ pj'[s].st # "free" /\ calls' = calls \cup {s}
<1>1. pj'[s].st # "free" /\ \A x \in SipIds : x # s => pj'[x] = pj[x]
  BY DEF OpenSip, TypeOK
<1> QED
  BY <1>1 DEF SlotsGoOn, OpenSip

LEMMA DialSipSip ==
    ASSUME TypeOK, TypeOK', ShapeInv, SipInv, NEW e, NEW q, DialSip(e, q)
    PROVE  SipInv'
<1>1. CASE Aborts
  BY <1>1, SipAborts
<1>2. CASE ~Aborts
  <2> DEFINE b == [NewContext EXCEPT !.top = "from_tg", !.sub = "sip_wait_media",
                                     !.tg = e.id, !.user = e.user]
  <2>1. PICK c \in Ctx : NewCtx(c) /\ DialCallbackUri(c, b)
    BY <1>2, Throws DEF DialSip
  <2>2. sip_events' = sip_events
    BY <1>2, Throws DEF DialSip
  <2>3. bridges[c].sip = NoSip
    BY <2>1, NewCtxUnused DEF NewContext
  <2>4. b.sip = NoSip /\ \A s : [b EXCEPT !.sip = s].sip = s
    BY DEF NewContext
  <2> HIDE DEF b
  <2>5. CASE bridges' = [bridges EXCEPT ![c] = b] /\ UNCHANGED <<calls, pj>>
    <3>1. \A d \in Ctx : bridges'[d].sip = bridges[d].sip
      BY <2>3, <2>4, <2>5 DEF TypeOK
    <3> QED
      BY <2>2, <2>5, <3>1, SipKept
  <2>6. ASSUME NEW s \in SipIds, FreeSlot(s), OpenSip(s, "calling"),
               bridges' = [bridges EXCEPT ![c] = [b EXCEPT !.sip = s]]
        PROVE  SipInv'
    <3>1. bridges'[c].sip = s /\ \A d \in Ctx : d # c => bridges'[d] = bridges[d]
      BY <2>4, <2>6 DEF TypeOK
    <3>2. /\ \A d \in Ctx : bridges[d].sip # s
          /\ \A x \in Elements(sip_events) : x.id # s
      BY <2>6, FreeIsUnused
    <3>3. SlotsGoOn /\ pj'[s].st # "free" /\ calls' = calls \cup {s}
      BY <2>6, OpenFacts
    <3>4. UniqueSip'
      BY <3>1, <3>2 DEF SipInv, UniqueSip
    <3>5. KnownSip'
      <4>1. \A x \in Elements(sip_events) : x.id \in SipIds
        BY ElementsTyped, SipEventFields DEF TypeOK
      <4>2. \A d \in Ctx : bridges[d].sip \in SipIds \cup {NoSip}
        BY DEF TypeOK, BridgeType
      <4> QED
        BY <2>2, <3>1, <3>3, <4>1, <4>2 DEF SipInv, KnownSip, SlotsGoOn
    <3>6. InTable' /\ IncomingInTable'
      BY <2>2, <3>1, <3>2, <3>3 DEF SipInv, InTable, IncomingInTable
    <3> QED
      BY <2>2, <3>4, <3>5, <3>6 DEF SipInv
  <2> QED
    BY <2>1, <2>5, <2>6 DEF DialCallbackUri
<1> QED
  BY <1>1, <1>2

\* Calls of the state machine that move a session: AnswerSip and a ringing
\* incoming call.
LEMMA MovedSlot ==
    ASSUME TypeOK, NEW s, NEW st, st # "free",
           pj' = [pj EXCEPT ![s] = [@ EXCEPT !.st = st]]
    PROVE  SlotsGoOn
<1>1. CASE s \in SipIds
  <2>1. pj'[s].st = st /\ \A x \in SipIds : x # s => pj'[x] = pj[x]
    BY <1>1 DEF TypeOK, PjType
  <2> QED
    BY <2>1 DEF SlotsGoOn
<1>2. CASE s \notin SipIds
  BY <1>2 DEF TypeOK, SlotsGoOn
<1> QED
  BY <1>1, <1>2

LEMMA ReadySip ==
    ASSUME TypeOK, TypeOK', SipInv, NEW c \in Ctx, NEW e, NEW q, TgReadyInBridge(c, e, q)
    PROVE  SipInv'
<1>1. CASE Aborts
  BY <1>1, SipAborts
<1>2. CASE ~Aborts
  <2> DEFINE b1 == [bridges[c] EXCEPT !.sub = "wait_dtmf", !.ctl = TRUE]
             b2 == [b1 EXCEPT !.aud = pj[b1.sip].nego]
             b3 == [bridges[c] EXCEPT !.sub = "sip_wait_media", !.ctl = TRUE, !.user = e.user]
  <2>1. /\ calls' = calls /\ sip_events' = sip_events
        /\ pj' = pj \/ \E s : pj' = [pj EXCEPT ![s] = [@ EXCEPT !.st = "confirmed"]]
        /\ \E b \in {b1, b2, b3} : bridges' = [bridges EXCEPT ![c] = b]
    BY <1>2, Throws DEF TgReadyInBridge, BridgeAudio, AnswerSip
  <2>2. \A b \in {b1, b2, b3} : b.sip = bridges[c].sip
    <3>1. b1 \in BridgeType /\ b1.sip = bridges[c].sip /\ b3.sip = bridges[c].sip
      BY DEF TypeOK, BridgeType, Subs
    <3> HIDE DEF b1, b3
    <3> QED
      BY <3>1 DEF BridgeType
  <2> HIDE DEF b1, b2, b3
  <2>3. \A d \in Ctx : bridges'[d].sip = bridges[d].sip
    BY <2>1, <2>2 DEF TypeOK
  <2>4. SlotsGoOn
    <3>1. CASE pj' = pj
      BY <3>1 DEF SlotsGoOn
    <3>2. CASE \E s : pj' = [pj EXCEPT ![s] = [@ EXCEPT !.st = "confirmed"]]
      BY <3>2, MovedSlot
    <3> QED
      BY <2>1, <3>1, <3>2
  <2>5. HonestSip /\ Once(sip_events')
    BY <2>1 DEF HonestSip, SipInv
  <2> QED
    BY <2>1, <2>3, <2>4, <2>5, SipStep
<1> QED
  BY <1>1, <1>2

LEMMA UpdateCallSip ==
    TypeOK /\ TypeOK' /\ ShapeInv /\ SipInv /\ ProcessUpdateCall => SipInv'
<1> SUFFICES ASSUME TypeOK, TypeOK', ShapeInv, SipInv, ProcessUpdateCall PROVE SipInv'
  OBVIOUS
<1> DEFINE e == Head(tg_events)
           q == Tail(tg_events)
           c == First(WithTg(e.id))
<1> HIDE DEF e, q
<1>1. CASE UNCHANGED <<bridges, sip_events, calls, pj>>
  BY <1>1, SipKept
<1>2. CASE DialSip(e, q)
  BY <1>2, DialSipSip
<1>3. CASE /\ CleanUp([NewContext EXCEPT !.tg = e.id], q, sip_events)
           /\ bridges' = bridges
  <2>1. Hangup(NoSip, sip_events)
    BY <1>3 DEF CleanUp, NewContext
  <2>2. NoSip \notin calls
    BY ConstantsAssumption DEF TypeOK
  <2> QED
    BY <1>1, <1>3, <2>1, <2>2 DEF Hangup
<1>4. WithTg(e.id) # {} => c \in Ctx
  BY Matches
<1>5. CASE WithTg(e.id) # {} /\ TgReadyInBridge(c, e, q)
  BY <1>4, <1>5, ReadySip
<1>6. CASE /\ WithTg(e.id) # {}
           /\ Terminate(c, CleanTgId(bridges[c]), internal_events, q, sip_events)
  <2> HIDE DEF c
  <2>1. CleanTgId(bridges[c]).sip = bridges[c].sip
    BY <1>4, <1>6 DEF CleanTgId, TypeOK, BridgeType
  <2> QED
    BY <1>4, <1>6, <2>1, SipTerminates
<1> QED
  <2>1. CASE WithTg(e.id) = {}
    BY <2>1, <1>1, <1>2, <1>3 DEF ProcessUpdateCall, UpdateCallInInit, e, q
  <2>2. CASE WithTg(e.id) # {}
    BY <2>2, <1>1, <1>5, <1>6 DEF ProcessUpdateCall, UpdateCallInBridge, e, q
  <2> QED
    BY <2>1, <2>2

\* The queued incoming call becomes the leg of a new bridge.
LEMMA IncomingCallSip ==
    TypeOK /\ TypeOK' /\ ShapeInv /\ SipInv /\ ProcessIncomingCall => SipInv'
<1> SUFFICES ASSUME TypeOK, TypeOK', ShapeInv, SipInv, ProcessIncomingCall PROVE SipInv'
  OBVIOUS
<1> DEFINE e == Head(sip_events)
           q == Tail(sip_events)
<1>1. /\ sip_events # <<>> /\ sip_events \in Seq(SipEvent) /\ e.type = "IncomingCall"
      /\ e \in SipEvent /\ q \in Seq(SipEvent) /\ Elements(sip_events) = {e} \cup Elements(q)
  BY TailElements DEF ProcessIncomingCall, PollSip, TypeOK
<1>2. Once(q) /\ \A x \in Elements(q) : x.type = "IncomingCall" => x.id # e.id
  BY <1>1, OnceTail DEF SipInv
<1>3. e.id \in SipIds
  BY <1>1, SipEventFields
<1>4. CASE UNCHANGED <<bridges, calls, pj>> /\ sip_events' = q
  BY <1>1, <1>4, SipKept
<1>5. CASE WithSip(e.id) = {} /\ AcceptIncomingSip(e, q)
  <2> HIDE DEF e, q
  <2> DEFINE b == [NewContext EXCEPT !.top = "from_sip", !.sub = "sip_wait_confirm",
                     !.sip = e.id,
                     !.user = IF e.extension \in Users THEN e.extension ELSE NoUser]
             new == CallStateUpdate(e.id, "EARLY")
  <2>1. PICK c \in Ctx : NewCtx(c) /\ bridges' = [bridges EXCEPT ![c] = b]
    BY <1>5 DEF AcceptIncomingSip
  <2>2. b.sip = e.id
    BY DEF NewContext
  <2> HIDE DEF b
  <2>3. bridges'[c].sip = e.id /\ \A d \in Ctx : d # c => bridges'[d] = bridges[d]
    BY <2>1, <2>2 DEF TypeOK
  <2>4. \A d \in Ctx : bridges[d].sip # e.id
    BY <1>5 DEF WithSip
  <2>5. /\ calls' = calls
        /\ pj' = pj \/ \E s : pj' = [pj EXCEPT ![s] = [@ EXCEPT !.st = "ringing"]]
        /\ sip_events' \in {q, Append(q, new)}
    BY <1>5 DEF AcceptIncomingSip
  <2>6. SlotsGoOn
    <3>1. CASE pj' = pj
      BY <3>1 DEF SlotsGoOn
    <3>2. CASE \E s : pj' = [pj EXCEPT ![s] = [@ EXCEPT !.st = "ringing"]]
      BY <3>2, MovedSlot
    <3> QED
      BY <2>5, <3>1, <3>2
  <2>7. new \in SipEvent /\ new.type = "CallStateUpdate" /\ new.id = e.id
    BY <1>3, EventsTyped DEF CallStateUpdate
  <2> HIDE DEF new
  <2>8. /\ Once(sip_events')
        /\ \A x \in Elements(sip_events') : x \in Elements(q) \/ x = new
    <3>1. Once(Append(q, new))
      BY <1>1, <1>2, <2>7, OnceAppend
    <3>2. Elements(Append(q, new)) = Elements(q) \cup {new}
      BY <1>1, <2>7, AppendElements
    <3> QED
      BY <1>2, <2>5, <3>1, <3>2
  <2>9. e \in Elements(sip_events) /\ pj'[e.id].st # "free" /\ e.id \in calls
    BY <1>1, <1>3, <2>6 DEF SipInv, KnownSip, SlotsGoOn, IncomingInTable
  <2>10. UniqueSip'
    BY <2>3, <2>4 DEF SipInv, UniqueSip
  <2>11. KnownSip'
    <3>1. \A x \in Elements(sip_events) : x.id \in SipIds
      BY ElementsTyped, SipEventFields DEF TypeOK
    <3>2. \A d \in Ctx : bridges[d].sip \in SipIds \cup {NoSip}
      BY DEF TypeOK, BridgeType
    <3>3. \A d \in Ctx : bridges'[d].sip # NoSip => pj'[bridges'[d].sip].st # "free"
      BY <2>3, <2>6, <2>9, <3>2 DEF SipInv, KnownSip, SlotsGoOn
    <3>4. \A x \in Elements(sip_events') : pj'[x.id].st # "free"
      BY <1>1, <2>6, <2>7, <2>8, <2>9, <3>1 DEF SipInv, KnownSip, SlotsGoOn
    <3> QED
      BY <3>3, <3>4 DEF KnownSip
  <2>12. InTable'
    BY <2>3, <2>5, <2>9 DEF SipInv, InTable
  <2>13. IncomingInTable'
    BY <1>1, <1>2, <2>3, <2>5, <2>7, <2>8 DEF SipInv, IncomingInTable
  <2> QED
    BY <2>8, <2>10, <2>11, <2>12, <2>13 DEF SipInv
<1> QED
  BY <1>4, <1>5 DEF ProcessIncomingCall

LEMMA CallStateSip ==
    TypeOK /\ TypeOK' /\ ShapeInv /\ SipInv /\ ProcessCallStateUpdate => SipInv'
<1> SUFFICES ASSUME TypeOK, TypeOK', ShapeInv, SipInv, ProcessCallStateUpdate PROVE SipInv'
  OBVIOUS
<1> DEFINE e == Head(sip_events)
           q == Tail(sip_events)
           c == First(WithSip(e.id))
<1>1. e.id \in SipIds /\ sip_events # <<>>
  BY TailElements, SipEventFields DEF ProcessCallStateUpdate, PollSip, TypeOK
<1> HIDE DEF e
<1>2. CASE UNCHANGED <<bridges, calls, pj>> /\ sip_events' = q
  BY <1>1, <1>2, SipKept
<1>3. WithSip(e.id) # {} => c \in Ctx /\ bridges[c] \in BridgeType
  BY <1>1, FoundBySip
<1>4. CASE WithSip(e.id) # {} /\ DialTgReturns(c, q)
  <2> HIDE DEF c
  <2> DEFINE b == [bridges[c] EXCEPT !.sub = "wait_tg"]
  <2>1. /\ b.sip = bridges[c].sip
        /\ \A u : [b EXCEPT !.user = u].sip = bridges[c].sip
        /\ \A u, t : [b EXCEPT !.user = u, !.tg = t].sip = bridges[c].sip
    BY <1>3, <1>4 DEF BridgeType
  <2>2. /\ UNCHANGED <<calls, pj>> /\ sip_events' = q
        /\ \/ bridges' = [bridges EXCEPT ![c] = b]
           \/ \E u : bridges' = [bridges EXCEPT ![c] = [b EXCEPT !.user = u]]
           \/ \E u, t : bridges' = [bridges EXCEPT ![c] = [b EXCEPT !.user = u, !.tg = t]]
    BY <1>4 DEF DialTgReturns
  <2> HIDE DEF b
  <2>3. PICK x : bridges' = [bridges EXCEPT ![c] = x] /\ x.sip = bridges[c].sip
    <3>1. CASE bridges' = [bridges EXCEPT ![c] = b]
      BY <2>1, <3>1
    <3>2. ASSUME NEW u, bridges' = [bridges EXCEPT ![c] = [b EXCEPT !.user = u]]
          PROVE  \E x : bridges' = [bridges EXCEPT ![c] = x] /\ x.sip = bridges[c].sip
      <4> WITNESS [b EXCEPT !.user = u]
      <4> QED
        BY <2>1, <3>2
    <3>3. ASSUME NEW u, NEW t,
                 bridges' = [bridges EXCEPT ![c] = [b EXCEPT !.user = u, !.tg = t]]
          PROVE  \E x : bridges' = [bridges EXCEPT ![c] = x] /\ x.sip = bridges[c].sip
      <4> WITNESS [b EXCEPT !.user = u, !.tg = t]
      <4> QED
        BY <2>1, <3>3
    <3> QED
      BY <2>2, <3>1, <3>2, <3>3
  <2>4. \A d \in Ctx : bridges'[d].sip = bridges[d].sip
    BY <2>3 DEF TypeOK
  <2> QED
    BY <1>1, <2>2, <2>4, SipKept
<1>5. CASE WithSip(e.id) # {}
           /\ Terminate(c, CleanSipId(bridges[c]), internal_events, tg_events, q)
  <2> HIDE DEF c
  <2>1. CleanSipId(bridges[c]).sip = NoSip
    BY <1>3, <1>5 DEF CleanSipId, BridgeType
  <2> QED
    BY <1>1, <1>3, <1>5, <2>1, SipTerminates
<1> QED
  BY <1>2, <1>4, <1>5, Throws, SipAborts DEF ProcessCallStateUpdate, DialTg, e

LEMMA MediaStateSip ==
    TypeOK /\ TypeOK' /\ ShapeInv /\ SipInv /\ ProcessCallMediaStateUpdate => SipInv'
<1> SUFFICES ASSUME TypeOK, TypeOK', ShapeInv, SipInv, ProcessCallMediaStateUpdate PROVE SipInv'
  OBVIOUS
<1> DEFINE e == Head(sip_events)
           c == First(WithSip(e.id))
<1>1. e.id \in SipIds
  BY TailElements, SipEventFields DEF ProcessCallMediaStateUpdate, PollSip, TypeOK
<1>2. /\ sip_events # <<>> /\ sip_events' = Tail(sip_events) /\ UNCHANGED <<calls, pj>>
  BY DEF ProcessCallMediaStateUpdate, PollSip
<1>3. CASE bridges' = bridges
  BY <1>2, <1>3, SipKept
<1>4. CASE /\ WithSip(e.id) # {}
           /\ \/ AnswerTg(c)
              \/ BridgeAudio(c, [bridges[c] EXCEPT !.sub = "wait_dtmf"])
  <2>1. c \in Ctx /\ bridges[c] \in BridgeType
    BY <1>1, <1>4, FoundBySip
  <2> HIDE DEF e, c
  <2> DEFINE b1 == [bridges[c] EXCEPT !.sub = "wait_tg"]
             b2 == [bridges[c] EXCEPT !.sub = "wait_dtmf"]
             b3 == [b2 EXCEPT !.aud = pj[b2.sip].nego]
  <2>2. \E b \in {b1, b2, b3} : bridges' = [bridges EXCEPT ![c] = b]
    BY <1>4 DEF AnswerTg, BridgeAudio
  <2>3. \A b \in {b1, b2, b3} : b.sip = bridges[c].sip
    BY <2>1 DEF BridgeType
  <2> HIDE DEF b1, b2, b3
  <2>4. \A d \in Ctx : bridges'[d].sip = bridges[d].sip
    BY <2>1, <2>2, <2>3 DEF TypeOK
  <2> QED
    BY <1>2, <2>4, SipKept
<1> QED
  BY <1>3, <1>4 DEF ProcessCallMediaStateUpdate

LEMMA InternalErrorSip ==
    TypeOK /\ TypeOK' /\ SipInv /\ ProcessInternalError => SipInv'
<1> SUFFICES ASSUME TypeOK, TypeOK', SipInv, ProcessInternalError PROVE SipInv'
  OBVIOUS
<1> DEFINE c == Head(internal_events).ctx
<1>1. Head(internal_events) \in InternalEvent
  BY TailElements DEF ProcessInternalError, PollInternal, TypeOK
<1>2. c \in Ctx
  BY <1>1 DEF InternalEvent
<1>3. CASE UNCHANGED <<bridges, sip_events, calls, pj>>
  BY <1>3, SipKept
<1>4. CASE Terminate(c, bridges[c], Tail(internal_events), tg_events, sip_events)
  <2> HIDE DEF c
  <2> QED
    BY <1>2, <1>4, SipTerminates
<1> QED
  BY <1>3, <1>4 DEF ProcessInternalError

-----------------------------------------------------------------------------
(* pjsua. *)

\* The slot of a new incoming call is no bridge's yet.
LEMMA SipIncomingSip ==
    ASSUME TypeOK, TypeOK', SipInv, NEW s \in SipIds, NEW x \in Exts, SipIncoming(s, x)
    PROVE  SipInv'
<1> DEFINE new == [type |-> "IncomingCall", id |-> s, extension |-> x]
<1>1. new \in SipEvent /\ new.id = s
  BY DEF SipEvent
<1>2. /\ FreeSlot(s) /\ OpenSip(s, "incoming") /\ bridges' = bridges
      /\ sip_events' = Append(sip_events, new) /\ sip_events \in Seq(SipEvent)
  BY DEF SipIncoming, SipSends, TypeOK
<1> HIDE DEF new
<1>3. /\ \A c \in Ctx : bridges[c].sip # s
      /\ \A e \in Elements(sip_events) : e.id # s
  BY <1>2, FreeIsUnused
<1>4. SlotsGoOn /\ pj'[s].st # "free" /\ calls' = calls \cup {s}
  BY <1>2, OpenFacts
<1>5. Elements(sip_events') = Elements(sip_events) \cup {new}
  BY <1>1, <1>2, AppendElements
<1>6. Once(sip_events')
  <2>1. Once(Append(sip_events, new))
    BY <1>1, <1>2, <1>3, OnceAppend DEF SipInv
  <2> QED
    BY <1>2, <2>1
<1>7. UniqueSip' /\ InTable'
  BY <1>2, <1>4 DEF SipInv, UniqueSip, InTable
<1>8. KnownSip'
  <2>1. \A e \in Elements(sip_events) : e.id \in SipIds
    BY ElementsTyped, SipEventFields DEF TypeOK
  <2>2. \A c \in Ctx : bridges[c].sip \in SipIds \cup {NoSip}
    BY DEF TypeOK, BridgeType
  <2> QED
    BY <1>1, <1>2, <1>4, <1>5, <2>1, <2>2 DEF SipInv, KnownSip, SlotsGoOn
<1>9. IncomingInTable'
  BY <1>1, <1>2, <1>3, <1>4, <1>5 DEF SipInv, IncomingInTable
<1> QED
  BY <1>6, <1>7, <1>8, <1>9 DEF SipInv

\* A session that goes on, or ends, is reported.
LEMMA SipSendsSip ==
    ASSUME TypeOK, TypeOK', SipInv, NEW e \in SipEvent, e.type # "IncomingCall",
           SlotsGoOn, pj'[e.id].st # "free", calls' = calls, SipSends(e)
    PROVE  SipInv'
<1>1. /\ bridges' = bridges /\ sip_events \in Seq(SipEvent)
      /\ sip_events' = Append(sip_events, e)
  BY DEF SipSends, TypeOK
<1>2. Elements(sip_events') = Elements(sip_events) \cup {e}
  BY <1>1, AppendElements
<1>3. Once(sip_events')
  <2>1. Once(Append(sip_events, e))
    BY <1>1, OnceAppend DEF SipInv
  <2> QED
    BY <1>1, <2>1
<1>4. HonestSip
  BY <1>2 DEF HonestSip
<1> QED
  BY <1>1, <1>3, <1>4, SipStep

LEMMA PjsuaSip ==
    ASSUME TypeOK, TypeOK', SipInv, NEW s \in SipIds,
           SipProgress(s) \/ SipDisconnect(s) \/ \E m \in BOOLEAN : SipMedia(s, m)
    PROVE  SipInv'
<1>1. CASE SipProgress(s) \/ SipDisconnect(s)
  <2>1. PICK st \in {"EARLY", "CONFIRMED", "DISCONNECTED"}, n \in {"early", "confirmed", "ended"} :
           /\ SipSends(CallStateUpdate(s, st)) /\ calls' = calls
           /\ pj' = [pj EXCEPT ![s] = [@ EXCEPT !.st = n]]
    BY <1>1 DEF SipProgress, SipDisconnect
  <2>2. SlotsGoOn /\ pj'[s].st # "free"
    <3>1. pj'[s].st = n
      BY <2>1 DEF TypeOK, PjType
    <3>2. SlotsGoOn
      BY <2>1, MovedSlot
    <3> QED
      BY <3>1, <3>2
  <2>3. /\ CallStateUpdate(s, st) \in SipEvent /\ CallStateUpdate(s, st).id = s
        /\ CallStateUpdate(s, st).type # "IncomingCall"
    BY EventsTyped DEF CallStateUpdate
  <2> QED
    BY <2>1, <2>2, <2>3, SipSendsSip
<1>2. ASSUME NEW m \in BOOLEAN, SipMedia(s, m) PROVE SipInv'
  <2> DEFINE new == [type |-> "CallMediaStateUpdate", id |-> s, has_media |-> m]
  <2>1. new \in SipEvent /\ new.id = s /\ new.type # "IncomingCall"
    BY DEF SipEvent
  <2>2. /\ SipSends(new) /\ calls' = calls /\ pj[s].st # "free"
        /\ \/ pj' = pj
           \/ pj' = [pj EXCEPT ![s] = [@ EXCEPT !.media = m, !.nego = pj[s].nego + 1]]
    BY <1>2 DEF SipMedia
  <2> HIDE DEF new
  <2>3. pj'[s].st = pj[s].st /\ \A x \in SipIds : x # s => pj'[x] = pj[x]
    BY <2>2 DEF TypeOK, PjType
  <2>4. SlotsGoOn
    BY <2>3 DEF SlotsGoOn
  <2> QED
    BY <2>1, <2>2, <2>3, <2>4, SipSendsSip
<1> QED
  BY <1>1, <1>2

-----------------------------------------------------------------------------
LEMMA StepSip ==
    TypeOK /\ ShapeInv /\ SipInv /\ [Next]_vars => SipInv'
<1> SUFFICES ASSUME TypeOK, ShapeInv, SipInv, [Next]_vars PROVE SipInv'
  OBVIOUS
<1>1. TypeOK'
  BY StepTyped
<1>2. CASE UNCHANGED <<bridges, sip_events, calls, pj>>
  BY <1>1, <1>2, SipKept
<1>3. CASE Loop
  <2>1. PollEmpty \/ LeaveLoop \/ ProcessSignalingDataEmitted \/ ProcessUpdateNewMessage
        \/ ProcessUpdateNewCallSignalingData => UNCHANGED <<bridges, sip_events, calls, pj>>
    BY DEF PollEmpty, LeaveLoop, ProcessSignalingDataEmitted, ProcessUpdateNewMessage,
           ProcessUpdateNewCallSignalingData, Abort
  <2> QED
    BY <1>1, <1>2, <1>3, <2>1, InternalErrorSip, UpdateCallSip, IncomingCallSip,
       CallStateSip, MediaStateSip DEF Loop
<1>4. CASE Others
  <2>1. \/ \E t \in TgIds : TgReceived(t) \/ TgReady(t) \/ TgEnd(t) \/ TgSignaling(t)
        \/ \E t \in TgIds, u \in Users : TgIncoming(t, u)
        \/ \E u \in Users, x \in Contents : TgMessage(u, x)
        \/ \E c \in Ctx : EmitSignaling(c)
        \/ Signal
        => UNCHANGED <<bridges, sip_events, calls, pj>>
    BY DEF TgReceived, TgReady, TgEnd, TgSignaling, TgIncoming, TgMessage, TgMoves,
           TgSends, EmitSignaling, Signal
  <2> QED
    BY <1>1, <1>2, <1>4, <2>1, SipIncomingSip, PjsuaSip DEF Others
<1>5. CASE Halted \/ UNCHANGED vars
  BY <1>2, <1>5 DEF Halted, vars
<1> QED
  BY <1>3, <1>4, <1>5 DEF Next

LEMMA InitSip == Init => SipInv
<1> SUFFICES ASSUME Init PROVE SipInv
  OBVIOUS
<1>1. Elements(sip_events) = {} /\ Once(sip_events)
  BY DEF Init, Elements, Once
<1>2. \A c \in Ctx : bridges[c].sip = NoSip
  BY DEF Init, NewContext
<1> QED
  BY <1>1, <1>2 DEF SipInv, UniqueSip, KnownSip, InTable, IncomingInTable

\* search_call's first match is the only one: no Telegram call and no pjsua slot
\* belongs to two bridges, whatever ids come back and in whatever order events
\* are handled.
THEOREM CallsHaveOneBridge == Spec => []OneBridgePerCall
<1> DEFINE I == TypeOK /\ ShapeInv /\ TgInv /\ SipInv
<1>1. Init => I
  BY InitTyped, InitShape, InitTg, InitSip
<1>2. I /\ [Next]_vars => I'
  BY StepTyped, StepShape, StepTg, StepSip
<1>3. I => OneBridgePerCall
  BY DEF TgInv, UniqueTg, SipInv, UniqueSip, OneBridgePerCall
<1> QED
  BY <1>1, <1>2, <1>3, PTL DEF Spec

\* A chat message never reaches a call that is not in the table.
LEMMA NoLostDtmf ==
    ASSUME TypeOK, ShapeInv, SipInv, NEW c \in Ctx, TakesDtmf(bridges[c])
    PROVE  bridges[c].sip \in calls
BY DEF TakesDtmf, ShapeInv, Consistent, SipInv, InTable

LEMMA StepFinds ==
    TypeOK /\ ShapeInv /\ SipInv /\ DtmfFindsItsCall /\ [Next]_vars => DtmfFindsItsCall'
<1> SUFFICES ASSUME TypeOK, ShapeInv, SipInv, DtmfFindsItsCall, [Next]_vars
             PROVE  up' # "CALL_NOT_FOUND"
  BY DEF DtmfFindsItsCall
<1>1. CASE Loop
  <2>1. up = "running"
    BY <1>1 DEF Loop, Polls, PollEmpty, LeaveLoop, ProcessInternalError,
       ProcessSignalingDataEmitted, ProcessUpdateCall, ProcessUpdateNewMessage,
       ProcessUpdateNewCallSignalingData, ProcessIncomingCall, ProcessCallStateUpdate,
       ProcessCallMediaStateUpdate, PollInternal, PollTg, PollSip
  <2>2. \A c, b, i, q, r : Terminate(c, b, i, q, r) => up' \in {up, "Stop"}
    BY DEF Terminate, Abort
  <2>3. PollEmpty \/ LeaveLoop \/ ProcessInternalError \/ ProcessSignalingDataEmitted
        \/ ProcessUpdateNewCallSignalingData => up' \in {up, "stopped", "Stop"}
    BY <2>2 DEF PollEmpty, LeaveLoop, ProcessInternalError, ProcessSignalingDataEmitted,
       ProcessUpdateNewCallSignalingData
  <2>4. ProcessUpdateCall => up' \in {up, "Stop", "getUser", "Start"}
    BY <2>2 DEF ProcessUpdateCall, UpdateCallInInit, UpdateCallInBridge, DialSip,
       TgReadyInBridge, Abort
  <2>5. ProcessUpdateNewMessage => up' = up
    BY NoLostDtmf DEF ProcessUpdateNewMessage, WithUser, DialDtmfThrows
  <2>6. ProcessIncomingCall \/ ProcessCallStateUpdate \/ ProcessCallMediaStateUpdate
           => up' \in {up, "Stop", "stoi"}
    BY <2>2 DEF ProcessIncomingCall, AcceptIncomingSip, ProcessCallStateUpdate, DialTg,
       DialTgReturns, ProcessCallMediaStateUpdate, Abort
  <2> QED
    BY <1>1, <2>1, <2>3, <2>4, <2>5, <2>6 DEF Loop
<1>2. Others \/ Halted \/ UNCHANGED vars => up' = up
  BY DEF Others, Halted, vars, loopVars, TgReceived, TgReady, TgEnd, TgSignaling, TgIncoming,
         TgMessage, TgMoves, TgSends, EmitSignaling, SipIncoming, SipProgress,
         SipDisconnect, SipMedia, SipSends, Signal
<1> QED
  BY <1>1, <1>2 DEF Next, DtmfFindsItsCall

\* Whatever fails, and whichever slots come back, the exception that DialDtmf does
\* not catch is never thrown: the call table has the SIP call of every bridge that
\* takes digits.
THEOREM DtmfNeverThrows == Spec => []DtmfFindsItsCall
<1> DEFINE I == TypeOK /\ ShapeInv /\ SipInv /\ DtmfFindsItsCall
<1>1. Init => I
  BY InitTyped, InitShape, InitSip DEF Init, DtmfFindsItsCall
<1>2. I /\ [Next]_vars => I'
  BY StepTyped, StepShape, StepSip, StepFinds
<1> QED
  BY <1>1, <1>2, PTL DEF Spec

-----------------------------------------------------------------------------
(***************************************************************************)
(* Both legs: the inductive invariant.                                     *)
(***************************************************************************)

\* TDLib still has call t, or its end is queued; the same for slot s.
TgServes(t) == td[t].st # "ended" \/ CallQueued(t, {"discarded", "error"})
SipServes(s) == pj[s].st # "ended" \/ StateQueued(s, "DISCONNECTED")

\* TalkingIsLinked for one bridge; a bridge that answered its SIP call has its
\* controller before media comes up.
Linked(c) ==
    /\ bridges[c].sub = "wait_dtmf" => bridges[c].ctl /\ (bridges[c].aud # 0 \/ ErrorQueued(c))
    /\ bridges[c].ctl => bridges[c].tg # NoTg
    /\ bridges[c].top = "from_sip" /\ bridges[c].sub = "sip_wait_media" => bridges[c].ctl

\* NoTgZombie and NoSipZombie for one bridge.
TgServed(c) ==
    Live(c) => \/ ErrorQueued(c)
               \/ /\ bridges[c].tg = NoTg /\ bridges[c].sub = "sip_wait_confirm"
                  /\ StateQueued(bridges[c].sip, "EARLY")
               \/ bridges[c].tg # NoTg /\ TgServes(bridges[c].tg)
SipServed(c) ==
    Live(c) => ErrorQueued(c) \/ (bridges[c].sip # NoSip /\ SipServes(bridges[c].sip))

\* An emplace into the call table fails only for a slot that was used before.
Served(c) == Linked(c) /\ TgServed(c) /\ (ReuseSlots \/ SipServed(c))

\* Every event of D in queue q has an event of E behind it.
Ordered(q, D, E) ==
    \A i \in 1..Len(q) : q[i] \in D => \E j \in 1..Len(q) : j > i /\ q[j] \in E

\* The updates of a call of TDLib that does not end it, and those that do.
Reports(t) == {e \in TgEvent : e.type = "updateCall" /\ e.id = t /\ ~IsTgEnd(e)}
Ends(t) == {e \in TgEvent : e.type = "updateCall" /\ e.id = t /\ IsTgEnd(e)}

\* The end of a call is the last thing the queue says about it, so a bridge
\* that a late update makes still sees it.
TgOrder == \A t \in TgIds : td[t].st = "ended" => Ordered(tg_events, Reports(t), Ends(t))

\* DISCONNECTED is true of the slot it names, which no new session has taken.
DisconnectedIsEnded == \A s \in SipIds : StateQueued(s, "DISCONNECTED") => pj[s].st = "ended"

\* What is in the call table has been handed out by pjsua.
TableIsUsed == \A s \in calls : pj[s].st # "free"

SlotInv == NoOrphanSip /\ DisconnectedIsEnded /\ TableIsUsed

LegInv == (\A c \in Ctx : Served(c)) /\ SlotInv /\ TgOrder

-----------------------------------------------------------------------------
(* Queues in order. *)

LEMMA OrderedTail ==
    ASSUME NEW S, NEW q \in Seq(S), q # <<>>, NEW D, NEW E, Ordered(q, D, E)
    PROVE  /\ Ordered(Tail(q), D, E)
           /\ Head(q) \in D => \E e \in Elements(Tail(q)) : e \in E
<1>1. /\ Len(Tail(q)) = Len(q) - 1 /\ Len(q) \in Nat /\ Len(q) >= 1 /\ Head(q) = q[1]
      /\ \A i \in 1..Len(Tail(q)) : Tail(q)[i] = q[i + 1]
  BY HeadTailProperties, EmptySeq, LenProperties
<1>2. \A j \in 1..Len(q) : j > 1 => j - 1 \in 1..Len(Tail(q)) /\ Tail(q)[j - 1] = q[j]
  BY <1>1
<1>3. ASSUME NEW i \in 1..Len(Tail(q)), Tail(q)[i] \in D
      PROVE  \E j \in 1..Len(Tail(q)) : j > i /\ Tail(q)[j] \in E
  <2>1. i + 1 \in 1..Len(q) /\ q[i + 1] \in D /\ i \in Nat /\ i >= 1
    BY <1>1, <1>3
  <2>2. PICK j \in 1..Len(q) : j > i + 1 /\ q[j] \in E
    BY <2>1 DEF Ordered
  <2>3. j - 1 \in 1..Len(Tail(q)) /\ j - 1 > i /\ Tail(q)[j - 1] = q[j]
    BY <1>1, <1>2, <2>1, <2>2
  <2> QED
    BY <2>2, <2>3
<1>4. ASSUME Head(q) \in D PROVE \E e \in Elements(Tail(q)) : e \in E
  <2>1. 1 \in 1..Len(q) /\ q[1] \in D
    BY <1>1, <1>4
  <2>2. PICK j \in 1..Len(q) : j > 1 /\ q[j] \in E
    BY <2>1 DEF Ordered
  <2> QED
    BY <1>2, <2>2 DEF Elements
<1> QED
  BY <1>3, <1>4 DEF Ordered

LEMMA OrderedAppend ==
    ASSUME NEW S, NEW q \in Seq(S), NEW e \in S, NEW D, NEW E, e \notin D,
           Ordered(q, D, E) \/ e \in E
    PROVE  Ordered(Append(q, e), D, E)
<1> DEFINE r == Append(q, e)
<1>1. /\ Len(q) \in Nat /\ Len(r) = Len(q) + 1 /\ r[Len(q) + 1] = e
      /\ \A i \in 1..Len(q) : r[i] = q[i]
  BY AppendProperties, LenProperties
<1> HIDE DEF r
<1>2. /\ \A i \in 1..Len(r) : i \in 1..Len(q) \/ i = Len(q) + 1
      /\ \A i \in 1..Len(q) : i \in 1..Len(r) /\ Len(q) + 1 > i
      /\ Len(q) + 1 \in 1..Len(r)
  BY <1>1
<1>3. ASSUME NEW i \in 1..Len(r), r[i] \in D
      PROVE  \E j \in 1..Len(r) : j > i /\ r[j] \in E
  <2>1. i \in 1..Len(q) /\ q[i] \in D
    BY <1>1, <1>2, <1>3
  <2>2. CASE e \in E
    BY <1>1, <1>2, <2>1, <2>2
  <2>3. CASE Ordered(q, D, E)
    <3>1. PICK j \in 1..Len(q) : j > i /\ q[j] \in E
      BY <2>1, <2>3 DEF Ordered
    <3> QED
      BY <1>1, <1>2, <3>1
  <2> QED
    BY <2>2, <2>3
<1>4. Ordered(r, D, E)
  BY <1>3 DEF Ordered
<1> QED
  BY <1>4 DEF r

\* Nothing of D is queued.
LEMMA OrderedNone ==
    ASSUME NEW q, NEW D, NEW E, \A e \in Elements(q) : e \notin D
    PROVE  Ordered(q, D, E)
BY DEF Ordered, Elements

\* A queue is as it was, or an event was taken off it.
Popped(q, r) == r = q \/ (q # <<>> /\ r = Tail(q))

LEMMA PoppedElements ==
    ASSUME NEW S, NEW q \in Seq(S), NEW r, Popped(q, r)
    PROVE  /\ r \in Seq(S) /\ Elements(r) \subseteq Elements(q)
           /\ \A e \in Elements(q) : e \in Elements(r) \/ (r # q /\ q # <<>> /\ e = Head(q))
           /\ \A D, E : Ordered(q, D, E) => Ordered(r, D, E)
<1>1. CASE r = q
  BY <1>1
<1>2. CASE q # <<>> /\ r = Tail(q) /\ r # q
  <2>1. \A D, E : Ordered(q, D, E) => Ordered(r, D, E)
    BY <1>2, OrderedTail
  <2> QED
    BY <1>2, <2>1, TailElements
<1> QED
  BY <1>1, <1>2 DEF Popped

-----------------------------------------------------------------------------
(* Steps in general: the bridges. *)

\* What bridge d waits for is still there after the step.
Untouched(d) ==
    /\ ErrorQueued(d) => ErrorQueued(d)'
    /\ \A t \in TgIds : bridges[d].tg = t /\ TgServes(t) => TgServes(t)'
    /\ \A s \in SipIds :
          bridges[d].sip = s =>
             /\ ReuseSlots \/ (SipServes(s) => SipServes(s)')
             /\ bridges[d].sub = "sip_wait_confirm" /\ StateQueued(s, "EARLY")
                   => StateQueued(s, "EARLY")'

LEMMA QueuedIsSlot ==
    ASSUME TypeOK, NEW s, NEW st, StateQueued(s, st)
    PROVE  s \in SipIds
<1>1. CallStateUpdate(s, st) \in SipEvent
  BY ElementsTyped DEF TypeOK, StateQueued
<1> QED
  BY <1>1, SipEventFields DEF CallStateUpdate

\* A bridge that keeps its legs.
LEMMA LegsKept ==
    ASSUME TypeOK, NEW d \in Ctx, Served(d), Untouched(d),
           bridges'[d].top # "none" => Live(d),
           bridges'[d].tg = bridges[d].tg, bridges'[d].sip = bridges[d].sip,
           bridges[d].sub = "sip_wait_confirm" => bridges'[d].sub = "sip_wait_confirm"
    PROVE  TgServed(d)' /\ (ReuseSlots \/ SipServed(d)')
<1>1. bridges[d].tg \in TgIds \cup {NoTg} /\ bridges[d].sip \in SipIds \cup {NoSip}
  BY DEF TypeOK, BridgeType
<1>2. ASSUME Live(d)' PROVE TgServed(d)'
  <2>1. Live(d)
    BY <1>2 DEF Live
  <2>2. CASE ErrorQueued(d)
    BY <2>2 DEF Untouched, TgServed
  <2>3. CASE /\ bridges[d].tg = NoTg /\ bridges[d].sub = "sip_wait_confirm"
             /\ StateQueued(bridges[d].sip, "EARLY")
    <3>1. PICK s \in SipIds : s = bridges[d].sip
      BY <2>3, QueuedIsSlot
    <3>2. StateQueued(s, "EARLY")'
      BY <2>3, <3>1 DEF Untouched
    <3> QED
      BY <2>3, <3>1, <3>2 DEF TgServed
  <2>4. CASE bridges[d].tg # NoTg /\ TgServes(bridges[d].tg)
    <3>1. PICK t \in TgIds : t = bridges[d].tg
      BY <1>1, <2>4
    <3>2. TgServes(t)'
      BY <2>4, <3>1 DEF Untouched
    <3> QED
      BY <2>4, <3>1, <3>2 DEF TgServed
  <2> QED
    BY <2>1, <2>2, <2>3, <2>4 DEF Served, TgServed
<1>3. ASSUME Live(d)', ~ReuseSlots PROVE SipServed(d)'
  <2>1. Live(d)
    BY <1>3 DEF Live
  <2>2. CASE ErrorQueued(d)
    BY <2>2 DEF Untouched, SipServed
  <2>3. CASE bridges[d].sip # NoSip /\ SipServes(bridges[d].sip)
    <3>1. PICK s \in SipIds : s = bridges[d].sip
      BY <1>1, <2>3
    <3>2. SipServes(s)'
      BY <1>3, <2>3, <3>1 DEF Untouched
    <3> QED
      BY <2>3, <3>1, <3>2 DEF SipServed
  <2> QED
    BY <1>3, <2>1, <2>2, <2>3 DEF Served, SipServed
<1> QED
  BY <1>2, <1>3 DEF TgServed, SipServed

\* Every bridge is removed, left alone, or served again after its change.
LEMMA ServedStep ==
    ASSUME TypeOK, \A c \in Ctx : Served(c),
           \A d \in Ctx : \/ bridges'[d] = NewContext
                          \/ bridges'[d] = bridges[d] /\ Untouched(d)
                          \/ Served(d)'
    PROVE  \A c \in Ctx : Served(c)'
<1> SUFFICES ASSUME NEW d \in Ctx PROVE Served(d)'
  OBVIOUS
<1>1. CASE bridges'[d] = NewContext
  BY <1>1 DEF Served, Linked, TgServed, SipServed, Live, NewContext
<1>2. CASE bridges'[d] = bridges[d] /\ Untouched(d)
  <2>1. TgServed(d)' /\ (ReuseSlots \/ SipServed(d)')
    BY <1>2, LegsKept DEF Live
  <2>2. Linked(d)'
    BY <1>2 DEF Served, Linked, Untouched
  <2> QED
    BY <2>1, <2>2 DEF Served
<1> QED
  BY <1>1, <1>2

LEMMA TgServesKept ==
    ASSUME NEW t \in TgIds, TgServes(t),
           td'[t].st = "ended" => td[t].st = "ended" \/ CallQueued(t, {"discarded", "error"})',
           \A e \in Elements(tg_events) :
              e.type = "updateCall" /\ e.id = t /\ e.state \in {"discarded", "error"}
                 => e \in Elements(tg_events')
    PROVE  TgServes(t)'
BY DEF TgServes, CallQueued

LEMMA SipServesKept ==
    ASSUME NEW s \in SipIds, SipServes(s),
           pj'[s].st = "ended" => pj[s].st = "ended" \/ StateQueued(s, "DISCONNECTED")',
           StateQueued(s, "DISCONNECTED") => StateQueued(s, "DISCONNECTED")'
    PROVE  SipServes(s)'
BY DEF SipServes

\* What the step takes off the queues bridge d does not wait for, and a call
\* that ends has its end queued.
LEMMA UntouchedIf ==
    ASSUME TypeOK, NEW d \in Ctx, ErrorQueued(d) => ErrorQueued(d)',
           \A t \in TgIds :
              td'[t].st = "ended" => td[t].st = "ended" \/ CallQueued(t, {"discarded", "error"})',
           \A e \in Elements(tg_events) \ Elements(tg_events') :
              e.type = "updateCall" => ~IsTgEnd(e) \/ bridges[d].tg # e.id,
           \A s \in SipIds :
              pj'[s].st = "ended" => \/ pj[s].st = "ended" \/ StateQueued(s, "DISCONNECTED")'
                                     \/ bridges[d].sip # s,
           \A e \in Elements(sip_events) \ Elements(sip_events') :
              \/ e.type # "CallStateUpdate" \/ e.state = "CONFIRMED"
              \/ bridges[d].sip # e.id
              \/ e.state = "EARLY" /\ bridges[d].sub # "sip_wait_confirm"
    PROVE  Untouched(d)
<1>1. ASSUME NEW t \in TgIds, bridges[d].tg = t, TgServes(t) PROVE TgServes(t)'
  <2>1. \A e \in Elements(tg_events) :
           e.type = "updateCall" /\ e.id = t /\ e.state \in {"discarded", "error"}
              => e \in Elements(tg_events')
    BY <1>1 DEF IsTgEnd
  <2> QED
    BY <1>1, <2>1, TgServesKept
<1>2. ASSUME NEW s \in SipIds, bridges[d].sip = s
      PROVE  /\ SipServes(s) => SipServes(s)'
             /\ bridges[d].sub = "sip_wait_confirm" /\ StateQueued(s, "EARLY")
                   => StateQueued(s, "EARLY")'
  <2>1. \A st : /\ CallStateUpdate(s, st).type = "CallStateUpdate"
                /\ CallStateUpdate(s, st).id = s /\ CallStateUpdate(s, st).state = st
    BY DEF CallStateUpdate
  <2>2. StateQueued(s, "DISCONNECTED") => StateQueued(s, "DISCONNECTED")'
    BY <1>2, <2>1 DEF StateQueued
  <2>3. bridges[d].sub = "sip_wait_confirm" /\ StateQueued(s, "EARLY") => StateQueued(s, "EARLY")'
    BY <1>2, <2>1 DEF StateQueued
  <2> QED
    BY <1>2, <2>2, <2>3, SipServesKept
<1> QED
  BY <1>1, <1>2 DEF Untouched

-----------------------------------------------------------------------------
(* Steps in general: the order of the updates of TDLib. *)

LEMMA TgOrderPop ==
    ASSUME TypeOK, TgOrder, Popped(tg_events, tg_events'),
           \A t \in TgIds : td'[t].st = "ended" => td[t].st = "ended"
    PROVE  TgOrder'
<1> SUFFICES ASSUME NEW t \in TgIds, td'[t].st = "ended"
             PROVE  Ordered(tg_events', Reports(t), Ends(t))
  BY DEF TgOrder, Ordered, Reports, Ends, TgEvent, IsTgEnd
<1>1. Ordered(tg_events, Reports(t), Ends(t))
  BY DEF TgOrder
<1>2. tg_events \in Seq(TgEvent)
  BY DEF TypeOK
<1> QED
  BY <1>1, <1>2, PoppedElements

LEMMA TgOrderSend ==
    ASSUME TypeOK, TgOrder, NEW q, Popped(tg_events, q), NEW e \in TgEvent,
           tg_events' = Append(q, e),
           \A t \in TgIds :
              td'[t].st = "ended" => \/ td[t].st = "ended" /\ e \notin Reports(t)
                                     \/ e \in Ends(t)
    PROVE  TgOrder'
<1> SUFFICES ASSUME NEW t \in TgIds, td'[t].st = "ended"
             PROVE  Ordered(tg_events', Reports(t), Ends(t))
  BY DEF TgOrder, Ordered, Reports, Ends, TgEvent, IsTgEnd
<1>1. q \in Seq(TgEvent) /\ (td[t].st = "ended" => Ordered(q, Reports(t), Ends(t)))
  BY PoppedElements DEF TypeOK, TgOrder
<1>2. e \in Ends(t) => e \notin Reports(t)
  BY DEF Ends, Reports
<1>3. e \notin Reports(t) /\ (Ordered(q, Reports(t), Ends(t)) \/ e \in Ends(t))
  BY <1>1, <1>2
<1>4. Ordered(Append(q, e), Reports(t), Ends(t))
  BY <1>1, <1>3, OrderedAppend
<1> QED
  BY <1>4

-----------------------------------------------------------------------------
(* Steps in general: the slots. *)

\* No session starts, and one that has ended stays so.
NoSessionStarts ==
    \A s \in SipIds :
       /\ pj'[s].st \in ActiveSip /\ ~pj'[s].hung => pj[s].st \in ActiveSip /\ ~pj[s].hung
       /\ pj[s].st = "ended" => pj'[s].st = "ended"
       /\ pj[s].st # "free" => pj'[s].st # "free"

LEMMA SlotsPop ==
    ASSUME TypeOK, SlotInv, NoSessionStarts, calls' \subseteq calls,
           \A c \in Ctx : bridges'[c].sip = bridges[c].sip,
           Popped(sip_events, sip_events'),
           sip_events' # sip_events => Head(sip_events).type # "IncomingCall"
    PROVE  SlotInv'
<1>1. /\ sip_events \in Seq(SipEvent) /\ Elements(sip_events') \subseteq Elements(sip_events)
      /\ \A e \in Elements(sip_events) : e.type = "IncomingCall" => e \in Elements(sip_events')
  BY PoppedElements DEF TypeOK
<1>2. NoOrphanSip'
  BY <1>1 DEF SlotInv, NoOrphanSip, IncomingQueued, NoSessionStarts
<1>3. DisconnectedIsEnded'
  BY <1>1 DEF SlotInv, DisconnectedIsEnded, StateQueued, NoSessionStarts
<1>4. TableIsUsed'
  BY DEF SlotInv, TableIsUsed, NoSessionStarts, TypeOK
<1> QED
  BY <1>2, <1>3, <1>4 DEF SlotInv

\* A session moves on and its event is queued.
LEMMA SlotsSend ==
    ASSUME TypeOK, SlotInv, NoSessionStarts, UNCHANGED <<bridges, calls>>,
           NEW e \in SipEvent, e.type # "IncomingCall", sip_events' = Append(sip_events, e),
           \A s \in SipIds : e = CallStateUpdate(s, "DISCONNECTED") => pj'[s].st = "ended"
    PROVE  SlotInv'
<1>1. /\ sip_events \in Seq(SipEvent)
      /\ Elements(sip_events') = Elements(sip_events) \cup {e}
  BY AppendElements DEF TypeOK
<1>2. NoOrphanSip'
  BY <1>1 DEF SlotInv, NoOrphanSip, IncomingQueued, NoSessionStarts
<1>3. DisconnectedIsEnded'
  <2> SUFFICES ASSUME NEW s \in SipIds, CallStateUpdate(s, "DISCONNECTED") \in Elements(sip_events')
               PROVE  pj'[s].st = "ended"
    BY DEF DisconnectedIsEnded, StateQueued
  <2> QED
    BY <1>1 DEF SlotInv, DisconnectedIsEnded, StateQueued, NoSessionStarts
<1>4. TableIsUsed'
  BY DEF SlotInv, TableIsUsed, NoSessionStarts, TypeOK
<1> QED
  BY <1>2, <1>3, <1>4 DEF SlotInv

\* The parts of LegInv that a step leaves alone.
LEMMA SlotsSame ==
    ASSUME TypeOK, SlotInv, UNCHANGED <<sip_events, calls, pj>>,
           \A c \in Ctx : bridges'[c].sip = bridges[c].sip
    PROVE  SlotInv'
BY SlotsPop DEF NoSessionStarts, Popped

LEMMA TgOrderSame ==
    ASSUME TypeOK, TgOrder, UNCHANGED <<tg_events, td>>
    PROVE  TgOrder'
BY TgOrderPop DEF Popped

LEMMA AbortLegs ==
    ASSUME TypeOK, LegInv, UNCHANGED <<bridges, internal_events, tg_events, sip_events, calls, pj, td>>
    PROVE  LegInv'
<1>1. \A d \in Ctx : Untouched(d)
  BY DEF Untouched, ErrorQueued, TgServes, CallQueued, SipServes, StateQueued
<1>2. \A d \in Ctx : Served(d)'
  BY <1>1, ServedStep DEF LegInv
<1> QED
  BY <1>2, SlotsSame, TgOrderSame DEF LegInv

-----------------------------------------------------------------------------
(* Entry of X. *)

\* What Hangup does to the slots and to the queue.
LEMMA HangupSlots ==
    ASSUME TypeOK, NEW s, NEW q, Hangup(s, q)
    PROVE  /\ \A x \in SipIds : x # s => pj'[x] = pj[x]
           /\ s \notin calls => pj' = pj
           /\ s \in calls => pj'[s].hung
           /\ \A x \in SipIds : pj'[x].st \in {pj[x].st, "ended"}
           /\ calls' \subseteq calls
           /\ \/ sip_events' = q
              \/ /\ sip_events' = Append(q, CallStateUpdate(s, "DISCONNECTED"))
                 /\ s \in SipIds /\ pj'[s].st = "ended"
<1>1. CASE s \notin calls
  BY <1>1 DEF Hangup
<1>2. CASE s \in calls
  <2>1. s \in SipIds /\ pj \in [SipIds -> PjType] /\ pj[s] \in PjType
    BY <1>2 DEF TypeOK
  <2>2. CASE /\ calls' = calls \ {s}
             /\ pj' = [pj EXCEPT ![s] = [@ EXCEPT !.st = "ended", !.hung = TRUE]]
             /\ \/ sip_events' = q
                \/ sip_events' = Append(q, CallStateUpdate(s, "DISCONNECTED"))
    <3>1. /\ pj'[s].st = "ended" /\ pj'[s].hung
          /\ \A x \in SipIds : x # s => pj'[x] = pj[x]
      BY <2>1, <2>2 DEF PjType
    <3> QED
      BY <1>2, <2>1, <2>2, <3>1
  <2>3. CASE /\ pj' = [pj EXCEPT ![s] = [@ EXCEPT !.hung = TRUE]]
             /\ calls' = calls /\ sip_events' = q
    <3>1. /\ pj'[s].st = pj[s].st /\ pj'[s].hung
          /\ \A x \in SipIds : x # s => pj'[x] = pj[x]
      BY <2>1, <2>3 DEF PjType
    <3> QED
      BY <1>2, <2>3, <3>1
  <2> QED
    BY <1>2, <2>2, <2>3 DEF Hangup
<1> QED
  BY <1>1, <1>2

\* DiscardTg ends no call, and queues no end.
LEMMA DiscardOrder ==
    ASSUME TypeOK, TgOrder, NEW t \in TgIds \cup {NoTg}, NEW q, Popped(tg_events, q), DiscardTg(t, q)
    PROVE  /\ TgOrder' /\ Elements(q) \subseteq Elements(tg_events')
           /\ \A x \in TgIds : td'[x].st = "ended" => td[x].st = "ended"
<1>1. q \in Seq(TgEvent)
  BY PoppedElements DEF TypeOK
<1>2. /\ \A x \in TgIds : x # t => td'[x] = td[x]
      /\ t # NoTg => td'[t].st = td[t].st \/ td'[t].st = "hangup"
      /\ Elements(q) \subseteq Elements(tg_events')
  BY <1>1, DiscardFacts
<1>3. \A x \in TgIds : td'[x].st = "ended" => td[x].st = "ended"
  BY <1>2, ConstantsAssumption
<1>4. CASE tg_events' = q
  BY <1>3, <1>4, TgOrderPop
<1>5. CASE /\ t # NoTg /\ td[t].st \in ActiveTg
           /\ td' = [td EXCEPT ![t] = [@ EXCEPT !.st = "hangup", !.asked = TRUE]]
           /\ tg_events' = Append(q, UpdateCall(t, "hangup", td[t].out, td[t].user))
  <2>1. t \in TgIds /\ td[t] \in TdType
    BY <1>5 DEF TypeOK
  <2> DEFINE e == UpdateCall(t, "hangup", td[t].out, td[t].user)
  <2>2. e \in TgEvent /\ e.id = t
    BY <2>1, EventsTyped DEF TdType, UpdateCall
  <2>3. td'[t].st = "hangup"
    BY <1>5, <2>1 DEF TypeOK, TdType
  <2>4. tg_events' = Append(q, e)
    BY <1>5
  <2> HIDE DEF e
  <2>5. \A x \in TgIds : td'[x].st = "ended" => td[x].st = "ended" /\ e \notin Reports(x)
    BY <1>3, <2>2, <2>3 DEF Reports
  <2>6. TgOrder'
    BY <2>2, <2>4, <2>5, TgOrderSend
  <2> QED
    BY <1>2, <1>3, <2>6
<1> QED
  BY <1>2, <1>3, <1>4, <1>5 DEF DiscardTg

\* The SIP side of CleanUp: b.sip is the slot of bridge c, which goes, or was
\* cleared because its session has ended.
LEMMA HangupKeepsSlots ==
    ASSUME TypeOK, TypeOK', SipInv, SlotInv, NEW c \in Ctx, NEW s, NEW q, Hangup(s, q),
           bridges' = [bridges EXCEPT ![c] = NewContext],
           s = bridges[c].sip \/ (s = NoSip /\ pj[bridges[c].sip].st = "ended"),
           Popped(sip_events, q), q # sip_events => Head(sip_events).type # "IncomingCall"
    PROVE  SlotInv'
<1> DEFINE gone == CallStateUpdate(s, "DISCONNECTED")
<1>1. /\ \A x \in SipIds : x # s => pj'[x] = pj[x]
      /\ s \notin calls => pj' = pj
      /\ s \in calls => pj'[s].hung
      /\ \A x \in SipIds : pj'[x].st \in {pj[x].st, "ended"}
      /\ calls' \subseteq calls
      /\ \/ sip_events' = q
         \/ sip_events' = Append(q, gone) /\ s \in SipIds /\ pj'[s].st = "ended"
  BY HangupSlots
<1>2. /\ q \in Seq(SipEvent) /\ Elements(q) \subseteq Elements(sip_events)
      /\ \A e \in Elements(sip_events) : e.type = "IncomingCall" => e \in Elements(q)
  BY PoppedElements DEF TypeOK
<1>3. s \in SipIds => gone \in SipEvent /\ gone.type = "CallStateUpdate" /\ gone.id = s
  BY EventsTyped DEF CallStateUpdate
<1>4. \A x \in SipIds : CallStateUpdate(x, "DISCONNECTED").id = x
  BY DEF CallStateUpdate
<1>5. bridges'[c].sip = NoSip /\ \A d \in Ctx : d # c => bridges'[d] = bridges[d]
  BY DEF TypeOK, NewContext
<1>6. s \in SipIds => s = bridges[c].sip /\ s \in calls
  BY ConstantsAssumption DEF SipInv, InTable
<1> HIDE DEF gone
<1>7. /\ Elements(q) \subseteq Elements(sip_events')
      /\ \A e \in Elements(sip_events') : e \in Elements(q) \/ (e = gone /\ s \in SipIds /\ pj'[s].st = "ended")
  <2>1. CASE sip_events' = q
    BY <2>1
  <2>2. CASE sip_events' = Append(q, gone) /\ s \in SipIds /\ pj'[s].st = "ended"
    BY <1>2, <1>3, <2>2, AppendElements
  <2> QED
    BY <1>1, <2>1, <2>2
<1>8. NoOrphanSip'
  <2> SUFFICES ASSUME NEW x \in SipIds, pj'[x].st \in ActiveSip, ~pj'[x].hung,
                      ~\E d \in Ctx : bridges'[d].sip = x
               PROVE  \E e \in Elements(sip_events') : e.type = "IncomingCall" /\ e.id = x
    BY DEF NoOrphanSip, IncomingQueued
  <2>1. x # s
    BY <1>1, <1>6
  <2>2. pj'[x] = pj[x]
    BY <1>1, <2>1
  <2>3. x # bridges[c].sip
    BY <2>1, <2>2 DEF ActiveSip
  <2>4. ~\E d \in Ctx : bridges[d].sip = x
    BY <1>5, <2>3
  <2>5. IncomingQueued(x)
    BY <2>2, <2>4 DEF SlotInv, NoOrphanSip
  <2> QED
    BY <1>2, <1>7, <2>5 DEF IncomingQueued
<1>9. DisconnectedIsEnded'
  <2> SUFFICES ASSUME NEW x \in SipIds, CallStateUpdate(x, "DISCONNECTED") \in Elements(sip_events')
               PROVE  pj'[x].st = "ended"
    BY DEF DisconnectedIsEnded, StateQueued
  <2>1. CASE CallStateUpdate(x, "DISCONNECTED") \in Elements(q)
    BY <1>1, <1>2, <2>1 DEF SlotInv, DisconnectedIsEnded, StateQueued
  <2>2. CASE CallStateUpdate(x, "DISCONNECTED") = gone /\ s \in SipIds /\ pj'[s].st = "ended"
    BY <1>3, <1>4, <2>2
  <2> QED
    BY <1>7, <2>1, <2>2
<1>10. TableIsUsed'
  BY <1>1 DEF SlotInv, TableIsUsed, TypeOK
<1> QED
  BY <1>8, <1>9, <1>10 DEF SlotInv

LEMMA TerminateLegs ==
    ASSUME TypeOK, TypeOK', TgInv, SipInv, LegInv, NEW c \in Ctx,
           NEW b, NEW intq, NEW tgq, NEW sipq, Terminate(c, b, intq, tgq, sipq),
           b.tg \in {NoTg, bridges[c].tg},
           b.sip = bridges[c].sip \/ (b.sip = NoSip /\ pj[bridges[c].sip].st = "ended"),
           \A d \in Ctx : d # c /\ ErrorQueued(d) => InternalError(d) \in Elements(intq),
           Popped(tg_events, tgq),
           tgq # tg_events => /\ Head(tg_events).type = "updateCall"
                              /\ Head(tg_events).id = bridges[c].tg,
           Popped(sip_events, sipq),
           sipq # sip_events => /\ Head(sip_events).type = "CallStateUpdate"
                                /\ Head(sip_events).id = bridges[c].sip
    PROVE  LegInv'
<1>1. CASE Aborts
  BY <1>1, AbortLegs DEF Aborts, Abort
<1>2. CASE /\ DiscardTg(b.tg, tgq) /\ Hangup(b.sip, sipq)
           /\ bridges' = [bridges EXCEPT ![c] = NewContext] /\ internal_events' = intq
  <2>1. b.tg \in TgIds \cup {NoTg} /\ b.sip \in SipIds \cup {NoSip}
    BY DEF TypeOK, BridgeType
  <2>2. /\ TgOrder' /\ Elements(tgq) \subseteq Elements(tg_events')
        /\ \A x \in TgIds : td'[x].st = "ended" => td[x].st = "ended"
    BY <1>2, <2>1, DiscardOrder DEF LegInv
  <2>3. SlotInv'
    BY <1>2, HangupKeepsSlots DEF LegInv
  <2>4. bridges'[c] = NewContext /\ \A d \in Ctx : d # c => bridges'[d] = bridges[d]
    BY <1>2 DEF TypeOK
  <2>5. ASSUME NEW d \in Ctx, d # c PROVE Untouched(d)
    <3>1. ErrorQueued(d) => ErrorQueued(d)'
      BY <1>2, <2>5 DEF ErrorQueued
    <3>2. ASSUME NEW t \in TgIds, bridges[d].tg = t, TgServes(t) PROVE TgServes(t)'
      <4>1. t # bridges[c].tg
        BY <2>5, <3>2, ConstantsAssumption DEF TgInv, UniqueTg
      <4>2. \A e \in Elements(tg_events) : e.type = "updateCall" /\ e.id = t => e \in Elements(tgq)
        BY <4>1, PoppedElements DEF TypeOK
      <4> QED
        BY <2>2, <3>2, <4>2, TgServesKept
    <3>3. ASSUME NEW s \in SipIds, bridges[d].sip = s
          PROVE  /\ SipServes(s) => SipServes(s)'
                 /\ StateQueued(s, "EARLY") => StateQueued(s, "EARLY")'
      <4>1. s # bridges[c].sip /\ s # b.sip
        BY <2>5, <3>3, ConstantsAssumption DEF SipInv, UniqueSip
      <4>2. \A e \in Elements(sip_events) : e.id = s => e \in Elements(sipq)
        BY <4>1, PoppedElements DEF TypeOK
      <4>3. pj'[s] = pj[s]
        BY <1>2, <4>1, HangupSlots
      <4>4. Elements(sipq) \subseteq Elements(sip_events')
        <5> DEFINE gone == CallStateUpdate(b.sip, "DISCONNECTED")
        <5>1. sipq \in Seq(SipEvent)
          BY PoppedElements DEF TypeOK
        <5>2. sip_events' = sipq \/ (sip_events' = Append(sipq, gone) /\ b.sip \in SipIds)
          BY <1>2, HangupSlots
        <5>3. b.sip \in SipIds => gone \in SipEvent
          BY EventsTyped
        <5> HIDE DEF gone
        <5>4. ASSUME b.sip \in SipIds
              PROVE  Elements(Append(sipq, gone)) = Elements(sipq) \cup {gone}
          BY <5>1, <5>3, <5>4, AppendElements
        <5> QED
          BY <5>2, <5>4
      <4>5. \A st : CallStateUpdate(s, st).id = s
        BY DEF CallStateUpdate
      <4>6. \A st : CallStateUpdate(s, st) \in Elements(sip_events)
                       => CallStateUpdate(s, st) \in Elements(sip_events')
        BY <4>2, <4>4, <4>5
      <4> QED
        BY <4>3, <4>6 DEF SipServes, StateQueued
    <3> QED
      BY <3>1, <3>2, <3>3 DEF Untouched
  <2>6. \A d \in Ctx : Served(d)'
    BY <2>4, <2>5, ServedStep DEF LegInv
  <2> QED
    BY <2>2, <2>3, <2>6 DEF LegInv
<1> QED
  BY <1>1, <1>2, Throws DEF Terminate, CleanUp

-----------------------------------------------------------------------------
(* Handlers that change no call. *)

LEMMA ErrorsKept ==
    ASSUME TypeOK, NEW e \in InternalEvent,
           internal_events' = internal_events \/ internal_events' = Append(internal_events, e)
    PROVE  /\ \A d \in Ctx : ErrorQueued(d) => ErrorQueued(d)'
           /\ internal_events' # internal_events => e \in Elements(internal_events')
<1>1. Elements(Append(internal_events, e)) = Elements(internal_events) \cup {e}
  BY AppendElements DEF TypeOK
<1> QED
  BY <1>1 DEF ErrorQueued

LEMMA ErrorSent ==
    ASSUME TypeOK, NEW c \in Ctx, internal_events' = Append(internal_events, InternalError(c))
    PROVE  ErrorQueued(c)'
<1>1. InternalError(c) \in InternalEvent
  BY EventsTyped
<1>2. Elements(internal_events') = Elements(internal_events) \cup {InternalError(c)}
  BY <1>1, AppendElements DEF TypeOK
<1> QED
  BY <1>2 DEF ErrorQueued

\* An event nobody waits for is taken off a queue.
LEMMA QuietLegs ==
    ASSUME TypeOK, ShapeInv, LegInv, UNCHANGED <<bridges, calls, pj, td>>,
           \A d \in Ctx : Live(d) /\ ErrorQueued(d) => ErrorQueued(d)',
           Popped(tg_events, tg_events'),
           tg_events' # tg_events =>
              LET e == Head(tg_events)
              IN  e.type # "updateCall" \/ ~IsTgEnd(e) \/ \A d \in Ctx : bridges[d].tg # e.id,
           Popped(sip_events, sip_events'),
           sip_events' # sip_events =>
              LET e == Head(sip_events)
              IN  /\ e.type # "IncomingCall"
                  /\ \/ e.type # "CallStateUpdate" \/ e.state = "CONFIRMED"
                     \/ \A d \in Ctx : bridges[d].sip # e.id
                     \/ e.state = "EARLY" /\ \A d \in Ctx : bridges[d].sip = e.id
                                                => bridges[d].sub # "sip_wait_confirm"
    PROVE  LegInv'
<1>1. \A e \in Elements(tg_events) \ Elements(tg_events') : tg_events' # tg_events /\ e = Head(tg_events)
  BY PoppedElements DEF TypeOK
<1>2. \A e \in Elements(sip_events) \ Elements(sip_events') : sip_events' # sip_events /\ e = Head(sip_events)
  BY PoppedElements DEF TypeOK
<1>3. ASSUME NEW d \in Ctx, Live(d) PROVE Untouched(d)
  <2>1. ErrorQueued(d) => ErrorQueued(d)'
    BY <1>3
  <2>2. \A e \in Elements(tg_events) \ Elements(tg_events') :
           e.type = "updateCall" => ~IsTgEnd(e) \/ bridges[d].tg # e.id
    BY <1>1
  <2>3. \A e \in Elements(sip_events) \ Elements(sip_events') :
           \/ e.type # "CallStateUpdate" \/ e.state = "CONFIRMED"
           \/ bridges[d].sip # e.id
           \/ e.state = "EARLY" /\ bridges[d].sub # "sip_wait_confirm"
    BY <1>2
  <2> QED
    BY <2>1, <2>2, <2>3, UntouchedIf
<1>4. ASSUME NEW d \in Ctx, ~Live(d) PROVE bridges'[d] = NewContext
  BY <1>4 DEF ShapeInv, Consistent, Live
<1>5. \A d \in Ctx : Served(d)'
  BY <1>3, <1>4, ServedStep DEF LegInv
<1>6. SlotInv'
  BY SlotsPop DEF LegInv, NoSessionStarts
<1>7. TgOrder'
  BY TgOrderPop DEF LegInv
<1> QED
  BY <1>5, <1>6, <1>7 DEF LegInv

LEMMA QuietHandlers ==
    ASSUME TypeOK, ShapeInv, LegInv,
           \/ PollEmpty \/ LeaveLoop \/ ProcessSignalingDataEmitted
           \/ ProcessUpdateNewMessage \/ ProcessUpdateNewCallSignalingData
    PROVE  LegInv'
<1>1. CASE Aborts \/ PollEmpty \/ LeaveLoop
  BY <1>1, AbortLegs DEF Aborts, Abort, PollEmpty, LeaveLoop
<1>2. CASE ProcessSignalingDataEmitted
  <2>1. /\ internal_events # <<>> /\ internal_events' = Tail(internal_events)
        /\ Head(internal_events).type = "SignalingDataEmitted"
        /\ UNCHANGED <<bridges, tg_events, sip_events, calls, pj, td>>
    BY <1>2 DEF ProcessSignalingDataEmitted, PollInternal
  <2>2. \A d : InternalError(d).type = "InternalError"
    BY DEF InternalError
  <2>3. Elements(internal_events) = {Head(internal_events)} \cup Elements(internal_events')
    BY <2>1, TailElements DEF TypeOK
  <2>4. \A d \in Ctx : ErrorQueued(d) => ErrorQueued(d)'
    BY <2>1, <2>2, <2>3 DEF ErrorQueued
  <2> QED
    BY <2>1, <2>4, QuietLegs DEF Popped
<1>3. CASE ~Aborts /\ (ProcessUpdateNewMessage \/ ProcessUpdateNewCallSignalingData)
  <2>1. /\ tg_events # <<>> /\ tg_events' = Tail(tg_events) /\ Head(tg_events).type # "updateCall"
        /\ UNCHANGED <<bridges, internal_events, sip_events, calls, pj, td>>
    BY <1>3, Throws DEF ProcessUpdateNewMessage, ProcessUpdateNewCallSignalingData, PollTg
  <2>2. \A d \in Ctx : ErrorQueued(d) => ErrorQueued(d)'
    BY <2>1 DEF ErrorQueued
  <2> QED
    BY <2>1, <2>2, QuietLegs DEF Popped
<1> QED
  BY <1>1, <1>2, <1>3

LEMMA InternalErrorLegs ==
    ASSUME TypeOK, TypeOK', ShapeInv, TgInv, SipInv, LegInv, ProcessInternalError
    PROVE  LegInv'
<1>1. PICK e : e = Head(internal_events)
  OBVIOUS
<1>2. PICK c : c = e.ctx
  OBVIOUS
<1>3. /\ internal_events # <<>> /\ e \in InternalEvent
      /\ Elements(internal_events) = {e} \cup Elements(Tail(internal_events))
  BY <1>1, TailElements DEF ProcessInternalError, PollInternal, TypeOK
<1>4. c \in Ctx
  BY <1>2, <1>3 DEF InternalEvent
<1>5. \A d \in Ctx : d # c /\ ErrorQueued(d) => InternalError(d) \in Elements(Tail(internal_events))
  <2>1. \A d : InternalError(d).ctx = d
    BY DEF InternalError
  <2> QED
    BY <1>2, <1>3, <2>1 DEF ErrorQueued
<1>6. CASE Terminate(c, bridges[c], Tail(internal_events), tg_events, sip_events)
  BY <1>4, <1>5, <1>6, TerminateLegs DEF Popped
<1>7. CASE /\ bridges[c].top = "none" /\ internal_events' = Tail(internal_events)
           /\ UNCHANGED <<bridges, tg_events, sip_events, calls, pj, td>>
  <2>1. \A d \in Ctx : Live(d) /\ ErrorQueued(d) => ErrorQueued(d)'
    BY <1>5, <1>7 DEF Live, ErrorQueued
  <2> QED
    BY <1>7, <2>1, QuietLegs DEF Popped
<1> QED
  BY <1>1, <1>2, <1>6, <1>7 DEF ProcessInternalError

-----------------------------------------------------------------------------
(* Handlers of tg_events. *)

\* The bridge c goes on to another state and keeps its legs.
LEMMA BridgeMoves ==
    ASSUME TypeOK, \A d \in Ctx : Served(d) /\ Untouched(d), NEW c \in Ctx, NEW b,
           bridges' = [bridges EXCEPT ![c] = b], b.top = bridges[c].top,
           b.tg = bridges[c].tg, b.sip = bridges[c].sip,
           bridges[c].sub # "sip_wait_confirm",
           b.sub = "wait_dtmf" => b.ctl /\ (b.aud # 0 \/ ErrorQueued(c)'),
           b.ctl => b.tg # NoTg,
           b.top = "from_sip" /\ b.sub = "sip_wait_media" => b.ctl
    PROVE  \A d \in Ctx : Served(d)'
<1>1. bridges'[c] = b /\ \A d \in Ctx : d # c => bridges'[d] = bridges[d]
  BY DEF TypeOK
<1>2. TgServed(c)' /\ (ReuseSlots \/ SipServed(c)')
  BY <1>1, LegsKept DEF Live
<1>3. Linked(c)'
  BY <1>1 DEF Linked
<1>4. Served(c)'
  BY <1>2, <1>3 DEF Served
<1> QED
  BY <1>1, <1>4, ServedStep

\* A session is opened in an unused slot.
LEMMA OpenLegs ==
    ASSUME TypeOK, SipInv, SlotInv, NEW s \in SipIds, FreeSlot(s),
           NEW st \in ActiveSip, OpenSip(s, st)
    PROVE  /\ calls' = calls \cup {s} /\ pj'[s].st # "free"
           /\ \A x \in SipIds : x # s => pj'[x] = pj[x]
           /\ ReuseSlots \/ pj'[s].st = st
           /\ \A c \in Ctx : bridges[c].sip # s
           /\ \A e \in Elements(sip_events) : e.id # s
<1>1. /\ pj'[s].st = (IF s \in calls THEN "ended" ELSE st)
      /\ \A x \in SipIds : x # s => pj'[x] = pj[x]
  BY DEF OpenSip, TypeOK
<1>2. pj[s].st = "free" => s \notin calls
  BY DEF SlotInv, TableIsUsed
<1>3. calls' = calls \cup {s} /\ pj'[s].st # "free"
  BY <1>1 DEF OpenSip, ActiveSip
<1>4. ReuseSlots \/ pj'[s].st = st
  BY <1>1, <1>2 DEF FreeSlot
<1> QED
  BY <1>1, <1>3, <1>4, FreeIsUnused

LEMMA OpenSlots ==
    ASSUME TypeOK, TypeOK', SipInv, SlotInv, NEW s \in SipIds, FreeSlot(s),
           NEW st \in ActiveSip, OpenSip(s, st),
           \A d \in Ctx : bridges[d].sip # NoSip => bridges'[d].sip = bridges[d].sip,
           Elements(sip_events) \subseteq Elements(sip_events'),
           \A e \in Elements(sip_events') : e \in Elements(sip_events) \/ e.type # "CallStateUpdate",
           (\E d \in Ctx : bridges'[d].sip = s) \/ IncomingQueued(s)'
    PROVE  SlotInv'
<1>1. /\ calls' = calls \cup {s} /\ pj'[s].st # "free"
      /\ \A x \in SipIds : x # s => pj'[x] = pj[x]
      /\ \A e \in Elements(sip_events) : e.id # s
  BY OpenLegs
<1>2. \A x : CallStateUpdate(x, "DISCONNECTED").type = "CallStateUpdate" /\ CallStateUpdate(x, "DISCONNECTED").id = x
  BY DEF CallStateUpdate
<1>3. NoOrphanSip'
  <2> SUFFICES ASSUME NEW x \in SipIds, pj'[x].st \in ActiveSip, ~pj'[x].hung, x # s
               PROVE  (\E d \in Ctx : bridges'[d].sip = x) \/ IncomingQueued(x)'
    BY DEF NoOrphanSip
  <2>1. (\E d \in Ctx : bridges[d].sip = x) \/ IncomingQueued(x)
    BY <1>1 DEF SlotInv, NoOrphanSip
  <2>2. CASE \E d \in Ctx : bridges[d].sip = x
    BY <2>2, ConstantsAssumption
  <2>3. CASE IncomingQueued(x)
    BY <2>3 DEF IncomingQueued
  <2> QED
    BY <2>1, <2>2, <2>3
<1>4. DisconnectedIsEnded'
  <2> SUFFICES ASSUME NEW x \in SipIds, CallStateUpdate(x, "DISCONNECTED") \in Elements(sip_events')
               PROVE  pj'[x].st = "ended"
    BY DEF DisconnectedIsEnded, StateQueued
  <2>1. CallStateUpdate(x, "DISCONNECTED") \in Elements(sip_events) /\ x # s
    BY <1>1, <1>2
  <2> QED
    BY <1>1, <2>1 DEF SlotInv, DisconnectedIsEnded, StateQueued
<1>5. TableIsUsed'
  BY <1>1 DEF SlotInv, TableIsUsed, TypeOK
<1> QED
  BY <1>3, <1>4, <1>5 DEF SlotInv

\* A late pending update still finds the end of its call behind it.
LEMMA EndIsBehind ==
    ASSUME TypeOK, TgOrder, tg_events # <<>>, Head(tg_events).type = "updateCall",
           ~IsTgEnd(Head(tg_events)), td' = td, tg_events' = Tail(tg_events),
           NEW t, t = Head(tg_events).id
    PROVE  t \in TgIds /\ TgServes(t)'
<1>1. Head(tg_events) \in TgEvent /\ tg_events \in Seq(TgEvent)
  BY TailElements DEF TypeOK
<1>2. t \in TgIds
  BY <1>1, TgEventFields
<1>3. CASE td[t].st # "ended"
  BY <1>2, <1>3 DEF TgServes
<1>4. CASE td[t].st = "ended"
  <2>1. Ordered(tg_events, Reports(t), Ends(t)) /\ Head(tg_events) \in Reports(t)
    BY <1>1, <1>2, <1>4 DEF TgOrder, Reports
  <2>2. PICK x \in Elements(Tail(tg_events)) : x \in Ends(t)
    BY <1>1, <2>1, OrderedTail
  <2>3. CallQueued(t, {"discarded", "error"})'
    BY <2>2 DEF CallQueued, Ends, IsTgEnd
  <2> QED
    BY <1>2, <2>3 DEF TgServes
<1> QED
  BY <1>2, <1>3, <1>4

LEMMA DialSipLegs ==
    ASSUME TypeOK, TypeOK', ShapeInv, TgInv, SipInv, LegInv, tg_events # <<>>, NEW e,
           e = Head(tg_events), e.type = "updateCall", ~IsTgEnd(e), DialSip(e, Tail(tg_events))
    PROVE  LegInv'
<1>1. CASE Aborts
  BY <1>1, AbortLegs DEF Aborts, Abort
<1>2. CASE ~Aborts
  <2> DEFINE b == [NewContext EXCEPT !.top = "from_tg", !.sub = "sip_wait_media",
                                     !.tg = e.id, !.user = e.user]
  <2>1. PICK c \in Ctx : NewCtx(c) /\ DialCallbackUri(c, b)
    BY <1>2, Throws DEF DialSip
  <2>2. td' = td /\ tg_events' = Tail(tg_events) /\ sip_events' = sip_events
    BY <1>2, Throws DEF DialSip
  <2>3. bridges[c] = NewContext /\ bridges[c].sip = NoSip
    <3>1. bridges[c] = NewContext
      BY <2>1, NewCtxUnused
    <3> QED
      BY <3>1 DEF NewContext
  <2>4. PICK t : t = e.id
    OBVIOUS
  <2>5. t \in TgIds /\ TgServes(t)' /\ t # NoTg
    BY <2>2, <2>4, EndIsBehind, ConstantsAssumption DEF LegInv
  <2>6. TgOrder'
    BY <2>2, TgOrderPop DEF LegInv, Popped
  <2>7. \A e1 \in Elements(tg_events) \ Elements(tg_events') : e1 = e
    BY <2>2, TailElements DEF TypeOK
  <2>8. /\ b.top = "from_tg" /\ b.sub = "sip_wait_media" /\ b.tg = t /\ ~b.ctl /\ b.sip = NoSip
        /\ \A s : LET x == [b EXCEPT !.sip = s]
                  IN  x.top = "from_tg" /\ x.sub = "sip_wait_media" /\ x.tg = t /\ ~x.ctl /\ x.sip = s
    BY <2>4 DEF NewContext
  <2> HIDE DEF b
  <2>9. ASSUME NEW x, bridges' = [bridges EXCEPT ![c] = x], x.top = "from_tg",
               x.sub = "sip_wait_media", x.tg = t, ~x.ctl,
               \A d \in Ctx : d # c => Untouched(d),
               ReuseSlots \/ ErrorQueued(c)' \/ (x.sip # NoSip /\ SipServes(x.sip)')
        PROVE  \A d \in Ctx : Served(d)'
    <3>1. bridges'[c] = x /\ \A d \in Ctx : d # c => bridges'[d] = bridges[d]
      BY <2>9 DEF TypeOK
    <3>2. Linked(c)' /\ TgServed(c)'
      BY <2>5, <2>9, <3>1 DEF Linked, TgServed
    <3>3. ReuseSlots \/ SipServed(c)'
      BY <2>9, <3>1 DEF SipServed
    <3> QED
      BY <2>9, <3>1, <3>2, <3>3, ServedStep DEF LegInv, Served
  <2>10. CASE /\ bridges' = [bridges EXCEPT ![c] = b] /\ UNCHANGED <<calls, pj>>
              /\ internal_events' = Append(internal_events, InternalError(c))
    <3>1. InternalError(c) \in InternalEvent
      BY EventsTyped
    <3>2. ErrorQueued(c)' /\ \A d \in Ctx : ErrorQueued(d) => ErrorQueued(d)'
      BY <2>10, <3>1, ErrorsKept, ErrorSent
    <3>3. \A d \in Ctx : Untouched(d)
      BY <2>2, <2>7, <2>10, <3>2, UntouchedIf
    <3>4. \A d \in Ctx : Served(d)'
      BY <2>8, <2>9, <2>10, <3>2, <3>3
    <3>5. \A d \in Ctx : bridges'[d].sip = bridges[d].sip
      BY <2>3, <2>8, <2>10 DEF TypeOK
    <3>6. SlotInv'
      BY <2>2, <2>10, <3>5, SlotsSame DEF LegInv
    <3> QED
      BY <2>6, <3>4, <3>6 DEF LegInv
  <2>11. ASSUME NEW s \in SipIds, FreeSlot(s), OpenSip(s, "calling"),
                bridges' = [bridges EXCEPT ![c] = [b EXCEPT !.sip = s]],
                internal_events' = internal_events
         PROVE  LegInv'
    <3>1. PICK x : x = [b EXCEPT !.sip = s]
      OBVIOUS
    <3>2. /\ x.top = "from_tg" /\ x.sub = "sip_wait_media" /\ x.tg = t /\ ~x.ctl /\ x.sip = s
          /\ bridges' = [bridges EXCEPT ![c] = x] /\ s # NoSip
      BY <2>8, <2>11, <3>1, ConstantsAssumption
    <3>3. bridges'[c] = x /\ \A d \in Ctx : d # c => bridges'[d] = bridges[d]
      BY <3>2 DEF TypeOK
    <3>4. "calling" \in ActiveSip
      BY DEF ActiveSip
    <3>5. /\ \A y \in SipIds : y # s => pj'[y] = pj[y]
          /\ ReuseSlots \/ pj'[s].st = "calling"
          /\ \A d \in Ctx : bridges[d].sip # s
      BY <2>11, <3>4, OpenLegs DEF LegInv
    <3>6. \A d \in Ctx : ErrorQueued(d) => ErrorQueued(d)'
      BY <2>11 DEF ErrorQueued
    <3>7. \A d \in Ctx : Untouched(d)
      BY <2>2, <2>7, <3>5, <3>6, UntouchedIf
    <3>8. ReuseSlots \/ SipServes(s)'
      BY <3>5 DEF SipServes
    <3>9. \A d \in Ctx : Served(d)'
      BY <2>9, <3>2, <3>7, <3>8
    <3>10. SlotInv'
      BY <2>2, <2>3, <2>11, <3>2, <3>3, <3>4, OpenSlots DEF LegInv
    <3> QED
      BY <2>6, <3>9, <3>10 DEF LegInv
  <2> QED
    BY <2>1, <2>10, <2>11 DEF DialCallbackUri
<1> QED
  BY <1>1, <1>2

LEMMA ReadyLegs ==
    ASSUME TypeOK, TypeOK', SipInv, LegInv, tg_events # <<>>, NEW e, e = Head(tg_events),
           ~IsTgEnd(e), NEW c \in Ctx, bridges[c].sub = "wait_tg", bridges[c].tg # NoTg,
           TgReadyInBridge(c, e, Tail(tg_events))
    PROVE  LegInv'
<1>1. CASE Aborts
  BY <1>1, AbortLegs DEF Aborts, Abort
<1>2. CASE ~Aborts
  <2> DEFINE b1 == [bridges[c] EXCEPT !.sub = "wait_dtmf", !.ctl = TRUE]
             b2 == [b1 EXCEPT !.aud = pj[b1.sip].nego]
             b3 == [bridges[c] EXCEPT !.sub = "sip_wait_media", !.ctl = TRUE, !.user = e.user]
  <2>1. /\ UNCHANGED <<sip_events, calls, td>> /\ tg_events' = Tail(tg_events)
        /\ \/ pj' = pj
           \/ /\ pj[b3.sip].st \in ActiveSip
              /\ pj' = [pj EXCEPT ![b3.sip] = [@ EXCEPT !.st = "confirmed"]]
        /\ \/ /\ bridges' = [bridges EXCEPT ![c] = b2] /\ internal_events' = internal_events
              /\ MediaLinkable(b1)
           \/ /\ bridges' = [bridges EXCEPT ![c] = b1]
              /\ internal_events' = Append(internal_events, InternalError(c))
           \/ /\ bridges' = [bridges EXCEPT ![c] = b3]
              /\ \/ internal_events' = internal_events
                 \/ internal_events' = Append(internal_events, InternalError(c))
    BY <1>2, Throws DEF TgReadyInBridge, BridgeAudio, AnswerSip, Answers
  <2>2. \A b \in {b1, b2, b3} :
           b.top = bridges[c].top /\ b.tg = bridges[c].tg /\ b.sip = bridges[c].sip /\ b.ctl
    <3>1. b1 \in BridgeType
      BY DEF TypeOK, BridgeType, Subs
    <3>2. \A b \in {b1, b3} :
             b.top = bridges[c].top /\ b.tg = bridges[c].tg /\ b.sip = bridges[c].sip /\ b.ctl
      BY DEF TypeOK, BridgeType
    <3> HIDE DEF b1, b3
    <3> QED
      BY <3>1, <3>2 DEF BridgeType
  <2>3. (MediaLinkable(b1) => b2.aud # 0) /\ b3.sub = "sip_wait_media"
    <3>1. b2.aud = pj[b1.sip].nego /\ b3.sub = "sip_wait_media"
      BY DEF TypeOK, BridgeType
    <3> HIDE DEF b1, b2, b3
    <3> QED
      BY <3>1, LinkableHasMedia
  <2> HIDE DEF b1, b2, b3
  <2>4. PICK b \in {b1, b2, b3} :
           /\ bridges' = [bridges EXCEPT ![c] = b]
           /\ \/ b.sub = "sip_wait_media" \/ b.aud # 0
              \/ internal_events' = Append(internal_events, InternalError(c))
    BY <2>1, <2>3
  <2>5. InternalError(c) \in InternalEvent
    BY EventsTyped
  <2>6. /\ \A d \in Ctx : ErrorQueued(d) => ErrorQueued(d)'
        /\ b.sub = "sip_wait_media" \/ b.aud # 0 \/ ErrorQueued(c)'
    BY <2>1, <2>4, <2>5, ErrorsKept, ErrorSent
  <2>7. \A s \in SipIds : /\ pj'[s].st # pj[s].st => pj'[s].st = "confirmed" /\ pj[s].st \in ActiveSip
                          /\ pj'[s].hung = pj[s].hung
    <3>1. CASE pj' = pj
      BY <3>1
    <3>2. ASSUME NEW x, pj[x].st \in ActiveSip, pj' = [pj EXCEPT ![x] = [@ EXCEPT !.st = "confirmed"]],
                 NEW s \in SipIds
          PROVE  /\ pj'[s].st # pj[s].st => pj'[s].st = "confirmed" /\ pj[s].st \in ActiveSip
                 /\ pj'[s].hung = pj[s].hung
      BY <3>2 DEF TypeOK, PjType
    <3> QED
      BY <2>1, <3>1, <3>2
  <2>8. \A x \in Elements(tg_events) \ Elements(tg_events') : x = e
    BY <2>1, TailElements DEF TypeOK
  <2>9. \A d \in Ctx : Untouched(d)
    BY <2>1, <2>6, <2>7, <2>8, UntouchedIf
  <2>10. \A d \in Ctx : Served(d)'
    BY <2>2, <2>3, <2>4, <2>6, <2>9, BridgeMoves DEF LegInv
  <2>11. TgOrder'
    BY <2>1, TgOrderPop DEF LegInv, Popped
  <2>12. NoSessionStarts
    BY <2>7 DEF NoSessionStarts, ActiveSip
  <2>13. \A d \in Ctx : bridges'[d].sip = bridges[d].sip
    BY <2>2, <2>4 DEF TypeOK
  <2>14. SlotInv'
    BY <2>1, <2>12, <2>13, SlotsPop DEF LegInv, Popped
  <2> QED
    BY <2>10, <2>11, <2>14 DEF LegInv
<1> QED
  BY <1>1, <1>2

LEMMA UpdateCallLegs ==
    ASSUME TypeOK, TypeOK', ShapeInv, TgInv, SipInv, LegInv, ProcessUpdateCall
    PROVE  LegInv'
<1>1. PICK e, q, c : e = Head(tg_events) /\ q = Tail(tg_events) /\ c = First(WithTg(e.id))
  OBVIOUS
<1>2. /\ tg_events # <<>> /\ e \in TgEvent /\ e.type = "updateCall" /\ Popped(tg_events, q)
      /\ Elements(tg_events) = {e} \cup Elements(q)
  BY <1>1, TailElements DEF ProcessUpdateCall, PollTg, TypeOK, Popped
<1>3. e.id \in TgIds
  BY <1>2, TgEventFields
<1>4. ASSUME tg_events' = q, UNCHANGED <<bridges, internal_events, sip_events, calls, pj, td>>,
             ~IsTgEnd(e) \/ WithTg(e.id) = {}
      PROVE  LegInv'
  <2>1. \A d \in Ctx : ErrorQueued(d) => ErrorQueued(d)'
    BY <1>4 DEF ErrorQueued
  <2>2. ~IsTgEnd(e) \/ \A d \in Ctx : bridges[d].tg # e.id
    BY <1>4 DEF WithTg
  <2> QED
    BY <1>1, <1>2, <1>4, <2>1, <2>2, QuietLegs DEF Popped
<1>5. CASE e.state = "pending" /\ DialSip(e, q)
  BY <1>1, <1>2, <1>5, DialSipLegs DEF IsTgEnd
<1>6. CASE /\ CleanUp([NewContext EXCEPT !.tg = e.id], q, sip_events)
           /\ UNCHANGED <<bridges, internal_events>> /\ WithTg(e.id) = {}
  <2>1. DiscardTg(e.id, q) /\ Hangup(NoSip, sip_events) /\ NoSip \notin calls
    BY <1>6, ConstantsAssumption DEF CleanUp, NewContext, TypeOK
  <2>2. UNCHANGED <<sip_events, calls, pj>>
    BY <2>1 DEF Hangup
  <2>3. /\ TgOrder' /\ Elements(q) \subseteq Elements(tg_events')
        /\ \A x \in TgIds : td'[x].st = "ended" => td[x].st = "ended"
    BY <1>2, <1>3, <2>1, DiscardOrder DEF LegInv
  <2>4. \A d \in Ctx : bridges[d].tg # e.id
    BY <1>6 DEF WithTg
  <2>5. \A d \in Ctx : ErrorQueued(d) => ErrorQueued(d)'
    BY <1>6 DEF ErrorQueued
  <2>6. \A d \in Ctx : Untouched(d)
    BY <1>2, <2>2, <2>3, <2>4, <2>5, UntouchedIf
  <2>7. \A d \in Ctx : Served(d)'
    BY <1>6, <2>6, ServedStep DEF LegInv
  <2>8. SlotInv'
    BY <1>6, <2>2, SlotsSame DEF LegInv
  <2> QED
    BY <2>3, <2>7, <2>8 DEF LegInv
<1>7. WithTg(e.id) # {} => c \in Ctx /\ bridges[c] \in BridgeType /\ bridges[c].tg = e.id
  BY <1>1, <1>3, FoundByTg
<1>8. CASE /\ WithTg(e.id) # {} /\ bridges[c].sub = "wait_tg" /\ e.state = "ready"
           /\ TgReadyInBridge(c, e, q)
  <2>1. ~IsTgEnd(e) /\ bridges[c].tg # NoTg
    BY <1>3, <1>7, <1>8, ConstantsAssumption DEF IsTgEnd
  <2> QED
    BY <1>1, <1>2, <1>7, <1>8, <2>1, ReadyLegs
<1>9. CASE /\ WithTg(e.id) # {}
           /\ Terminate(c, CleanTgId(bridges[c]), internal_events, q, sip_events)
  <2>1. CleanTgId(bridges[c]).tg = NoTg /\ CleanTgId(bridges[c]).sip = bridges[c].sip
    BY <1>7, <1>9 DEF CleanTgId, BridgeType
  <2>2. \A d \in Ctx : ErrorQueued(d) => InternalError(d) \in Elements(internal_events)
    BY DEF ErrorQueued
  <2> QED
    BY <1>1, <1>2, <1>7, <1>9, <2>1, <2>2, TerminateLegs DEF Popped
<1> QED
  <2>1. CASE WithTg(e.id) = {}
    BY <2>1, <1>1, <1>4, <1>5, <1>6 DEF ProcessUpdateCall, UpdateCallInInit, IsPending
  <2>2. CASE WithTg(e.id) # {}
    BY <2>2, <1>1, <1>4, <1>8, <1>9 DEF ProcessUpdateCall, UpdateCallInBridge
  <2> QED
    BY <2>1, <2>2

-----------------------------------------------------------------------------
(* Handlers of sip_events. *)

\* The queued incoming call becomes the leg of a new bridge.
LEMMA AcceptLegs ==
    ASSUME TypeOK, TypeOK', ShapeInv, SipInv, LegInv, sip_events # <<>>, NEW e,
           e = Head(sip_events), e.type = "IncomingCall", AcceptIncomingSip(e, Tail(sip_events))
    PROVE  LegInv'
<1> DEFINE q == Tail(sip_events)
           b == [NewContext EXCEPT !.top = "from_sip", !.sub = "sip_wait_confirm", !.sip = e.id,
                   !.user = IF e.extension \in Users THEN e.extension ELSE NoUser]
<1>1. PICK s, early : s = e.id /\ early = CallStateUpdate(s, "EARLY")
  OBVIOUS
<1>2. /\ q \in Seq(SipEvent) /\ e \in SipEvent /\ Elements(sip_events) = {e} \cup Elements(q)
      /\ sip_events \in Seq(SipEvent)
  BY TailElements DEF TypeOK
<1>3. s \in SipIds /\ s # NoSip
  BY <1>1, <1>2, SipEventFields, ConstantsAssumption
<1>4. /\ early \in SipEvent /\ early.type = "CallStateUpdate" /\ early.id = s /\ early.state = "EARLY"
  BY <1>1, <1>3, EventsTyped DEF CallStateUpdate
<1>5. PICK c \in Ctx : NewCtx(c) /\ bridges' = [bridges EXCEPT ![c] = b]
                       /\ \/ /\ pj[s].st \in ActiveSip
                             /\ pj' = [pj EXCEPT ![s] = [@ EXCEPT !.st = "ringing"]]
                             /\ sip_events' = Append(q, early) /\ internal_events' = internal_events
                          \/ /\ internal_events' = Append(internal_events, InternalError(c))
                             /\ sip_events' = q /\ pj' = pj
  BY <1>1 DEF AcceptIncomingSip, Answers
<1>6. UNCHANGED <<tg_events, calls, td>>
  BY DEF AcceptIncomingSip
<1>7. b.sub = "sip_wait_confirm" /\ b.tg = NoTg /\ b.sip = s /\ ~b.ctl
  BY <1>1 DEF NewContext
<1>8. bridges[c] = NewContext
  BY <1>5, NewCtxUnused
<1>9. bridges[c].sip = NoSip
  BY <1>8 DEF NewContext
<1> HIDE DEF b, q
<1>10. bridges'[c] = b /\ \A d \in Ctx : d # c => bridges'[d] = bridges[d]
  BY <1>5 DEF TypeOK
<1>11. /\ \A x \in SipIds : x # s => pj'[x] = pj[x]
       /\ \A x \in SipIds : pj'[x].st # pj[x].st => pj'[x].st = "ringing" /\ pj[x].st \in ActiveSip
       /\ pj' = pj \/ pj'[s].st = "ringing"
  <2>1. CASE pj' = pj
    BY <2>1
  <2>2. CASE pj[s].st \in ActiveSip /\ pj' = [pj EXCEPT ![s] = [@ EXCEPT !.st = "ringing"]]
    BY <1>3, <2>2 DEF TypeOK, PjType
  <2> QED
    BY <1>5, <2>1, <2>2
<1>12. /\ Elements(q) \subseteq Elements(sip_events')
       /\ \A x \in Elements(sip_events') : x \in Elements(q) \/ x = early
       /\ sip_events' = Append(q, early) => early \in Elements(sip_events')
  <2>1. Elements(Append(q, early)) = Elements(q) \cup {early}
    BY <1>2, <1>4, AppendElements
  <2> QED
    BY <1>5, <2>1
<1>13. /\ \A d \in Ctx : ErrorQueued(d) => ErrorQueued(d)'
       /\ internal_events' = Append(internal_events, InternalError(c)) => ErrorQueued(c)'
  <2>1. InternalError(c) \in InternalEvent
    BY EventsTyped
  <2> QED
    BY <1>5, <2>1, ErrorsKept, ErrorSent
<1>14. \A d \in Ctx : Untouched(d)
  <2>1. \A x \in SipIds : pj'[x].st = "ended" => pj[x].st = "ended"
    BY <1>11
  <2>2. \A x \in Elements(sip_events) \ Elements(sip_events') : x.type # "CallStateUpdate"
    BY <1>2, <1>12
  <2> QED
    BY <1>6, <1>13, <2>1, <2>2, UntouchedIf
<1>15. Served(c)'
  <2>1. CASE /\ pj[s].st \in ActiveSip
             /\ pj' = [pj EXCEPT ![s] = [@ EXCEPT !.st = "ringing"]]
             /\ sip_events' = Append(q, early)
    <3>1. StateQueued(s, "EARLY")'
      BY <1>1, <1>12, <2>1 DEF StateQueued
    <3>2. pj'[s].st = "ringing"
      BY <1>3, <2>1 DEF TypeOK, PjType
    <3>3. SipServes(s)'
      BY <3>2 DEF SipServes
    <3> QED
      BY <1>3, <1>7, <1>10, <3>1, <3>3 DEF Served, Linked, TgServed, SipServed
  <2>2. CASE internal_events' = Append(internal_events, InternalError(c))
    BY <1>7, <1>10, <1>13, <2>2 DEF Served, Linked, TgServed, SipServed
  <2> QED
    BY <1>5, <2>1, <2>2
<1>16. \A d \in Ctx : Served(d)'
  BY <1>10, <1>14, <1>15, ServedStep DEF LegInv
<1>17. NoOrphanSip'
  <2> SUFFICES ASSUME NEW x \in SipIds, pj'[x].st \in ActiveSip, ~pj'[x].hung, x # s
               PROVE  (\E d \in Ctx : bridges'[d].sip = x) \/ IncomingQueued(x)'
    BY <1>7, <1>10 DEF NoOrphanSip
  <2>1. (\E d \in Ctx : bridges[d].sip = x) \/ IncomingQueued(x)
    BY <1>11 DEF LegInv, SlotInv, NoOrphanSip
  <2>2. CASE \E d \in Ctx : bridges[d].sip = x
    BY <1>9, <1>10, <2>2, ConstantsAssumption
  <2>3. CASE IncomingQueued(x)
    BY <1>1, <1>2, <1>12, <2>3 DEF IncomingQueued
  <2> QED
    BY <2>1, <2>2, <2>3
<1>18. DisconnectedIsEnded'
  <2> SUFFICES ASSUME NEW x \in SipIds, CallStateUpdate(x, "DISCONNECTED") \in Elements(sip_events')
               PROVE  pj'[x].st = "ended"
    BY DEF DisconnectedIsEnded, StateQueued
  <2>1. CallStateUpdate(x, "DISCONNECTED") # early
    BY <1>4 DEF CallStateUpdate
  <2>2. pj[x].st = "ended"
    BY <1>2, <1>12, <2>1 DEF LegInv, SlotInv, DisconnectedIsEnded, StateQueued
  <2> QED
    BY <1>11, <2>2 DEF ActiveSip
<1>19. TableIsUsed'
  BY <1>6, <1>11 DEF LegInv, SlotInv, TableIsUsed, TypeOK
<1>20. TgOrder'
  BY <1>6, TgOrderSame DEF LegInv
<1> QED
  BY <1>16, <1>17, <1>18, <1>19, <1>20 DEF LegInv, SlotInv

LEMMA IncomingCallLegs ==
    ASSUME TypeOK, TypeOK', ShapeInv, SipInv, LegInv, ProcessIncomingCall
    PROVE  LegInv'
<1>1. PICK e : e = Head(sip_events)
  OBVIOUS
<1>2. /\ sip_events # <<>> /\ e.type = "IncomingCall" /\ e \in Elements(sip_events)
  BY <1>1, TailElements DEF ProcessIncomingCall, PollSip, TypeOK
<1>3. WithSip(e.id) = {}
  BY <1>2 DEF WithSip, SipInv, IncomingInTable
<1>4. AcceptIncomingSip(e, Tail(sip_events))
  BY <1>1, <1>3 DEF ProcessIncomingCall
<1> QED
  BY <1>1, <1>2, <1>4, AcceptLegs

\* createCall: bridge c takes the EARLY it waited for, and gets a call or an error.
LEMMA DialTgLegs ==
    ASSUME TypeOK, TypeOK', ShapeInv, SipInv, LegInv, sip_events # <<>>, NEW e,
           e = Head(sip_events), e.state = "EARLY", NEW c \in Ctx,
           bridges[c].sip = e.id, bridges[c].sub = "sip_wait_confirm", Live(c),
           DialTgReturns(c, Tail(sip_events)), e.type = "CallStateUpdate"
    PROVE  LegInv'
<1> DEFINE b == [bridges[c] EXCEPT !.sub = "wait_tg"]
<1>1. bridges[c].tg = NoTg /\ bridges[c].sip # NoSip
  <2>1. e \in SipEvent
    BY TailElements DEF TypeOK
  <2> QED
    BY <2>1, SipEventFields, ConstantsAssumption DEF ShapeInv, Consistent
<1>2. ~bridges[c].ctl
  BY <1>1 DEF LegInv, Served, Linked
<1>3. UNCHANGED <<calls, pj>> /\ sip_events' = Tail(sip_events)
  BY DEF DialTgReturns
<1>4. \A x \in Elements(sip_events) \ Elements(sip_events') : x = e
  BY <1>3, TailElements DEF TypeOK
<1>5. ASSUME NEW x, bridges' = [bridges EXCEPT ![c] = x], x.sub = "wait_tg", ~x.ctl,
             x.sip = bridges[c].sip, ErrorQueued(c)' \/ (x.tg # NoTg /\ TgServes(x.tg)'),
             \A d \in Ctx : ErrorQueued(d) => ErrorQueued(d)',
             \A t \in TgIds : td'[t].st = "ended" => td[t].st = "ended",
             Elements(tg_events) \subseteq Elements(tg_events'), TgOrder'
      PROVE  LegInv'
  <2>1. bridges'[c] = x /\ \A d \in Ctx : d # c => bridges'[d] = bridges[d]
    BY <1>5 DEF TypeOK
  <2>2. ASSUME NEW d \in Ctx, d # c PROVE Untouched(d)
    <3>1. bridges[d].sip # e.id
      BY <1>1, <2>2 DEF SipInv, UniqueSip
    <3> QED
      BY <1>3, <1>4, <1>5, <3>1, UntouchedIf
  <2>3. Linked(c)' /\ TgServed(c)'
    BY <1>5, <2>1 DEF Linked, TgServed
  <2>4. ReuseSlots \/ SipServed(c)'
    <3>1. PICK s : s = bridges[c].sip
      OBVIOUS
    <3>2. s \in SipIds
      BY <1>1, <3>1 DEF TypeOK, BridgeType
    <3>3. StateQueued(s, "DISCONNECTED") => StateQueued(s, "DISCONNECTED")'
      <4>1. CallStateUpdate(s, "DISCONNECTED") # e
        BY DEF CallStateUpdate
      <4> QED
        BY <1>4, <4>1 DEF StateQueued
    <3>4. SipServes(s) => SipServes(s)'
      BY <1>3, <3>2, <3>3, SipServesKept
    <3>5. ReuseSlots \/ ErrorQueued(c) \/ SipServes(s)
      BY <3>1 DEF LegInv, Served, SipServed
    <3> QED
      BY <1>1, <1>5, <2>1, <3>1, <3>4, <3>5 DEF SipServed
  <2>5. \A d \in Ctx : Served(d)'
    BY <2>1, <2>2, <2>3, <2>4, ServedStep DEF LegInv, Served
  <2>6. \A d \in Ctx : bridges'[d].sip = bridges[d].sip
    BY <1>5, <2>1
  <2>7. SlotInv'
    BY <1>3, <2>6, SlotsPop DEF LegInv, NoSessionStarts, Popped
  <2> QED
    BY <1>5, <2>5, <2>7 DEF LegInv
<1>6. /\ b.sub = "wait_tg" /\ ~b.ctl /\ b.sip = bridges[c].sip
      /\ \A u : LET x == [b EXCEPT !.user = u]
                IN  x.sub = "wait_tg" /\ ~x.ctl /\ x.sip = bridges[c].sip
      /\ \A u, t : LET x == [b EXCEPT !.user = u, !.tg = t]
                   IN  x.sub = "wait_tg" /\ ~x.ctl /\ x.sip = bridges[c].sip /\ x.tg = t
  BY <1>2 DEF TypeOK, BridgeType
<1>7. bridges[c].user \in Users \cup {NoUser} /\ b.user = bridges[c].user
  BY DEF TypeOK, BridgeType
<1>8. \A u : u \in (IF b.user = NoUser THEN Users ELSE {b.user}) => u \in Users \cup {NoUser}
  BY <1>7
<1>9. \/ /\ \/ bridges' = [bridges EXCEPT ![c] = b]
            \/ \E u : bridges' = [bridges EXCEPT ![c] = [b EXCEPT !.user = u]]
         /\ internal_events' = Append(internal_events, InternalError(c))
         /\ UNCHANGED <<td, tg_events>>
      \/ \E u \in Users \cup {NoUser}, t \in TgIds :
              /\ td[t].st = "idle"
              /\ td' = [td EXCEPT ![t] = [st |-> "pending", out |-> TRUE,
                          user |-> u, asked |-> FALSE, received |-> FALSE]]
              /\ tg_events' = Append(tg_events, UpdateCall(t, "pending", TRUE, u))
              /\ bridges' = [bridges EXCEPT ![c] = [b EXCEPT !.user = u, !.tg = t]]
              /\ internal_events' = internal_events
  BY <1>8 DEF DialTgReturns
<1> HIDE DEF b
<1>10. ASSUME internal_events' = Append(internal_events, InternalError(c)), UNCHANGED <<td, tg_events>>,
              NEW x, bridges' = [bridges EXCEPT ![c] = x], x.sub = "wait_tg", ~x.ctl,
              x.sip = bridges[c].sip
       PROVE  LegInv'
  <2>1. InternalError(c) \in InternalEvent
    BY EventsTyped
  <2>2. ErrorQueued(c)' /\ \A d \in Ctx : ErrorQueued(d) => ErrorQueued(d)'
    BY <1>10, <2>1, ErrorsKept, ErrorSent
  <2>3. TgOrder'
    BY <1>10, TgOrderSame DEF LegInv
  <2> QED
    BY <1>5, <1>10, <2>2, <2>3
<1>11. ASSUME NEW u \in Users \cup {NoUser}, NEW t \in TgIds, td[t].st = "idle",
              td' = [td EXCEPT ![t] = [st |-> "pending", out |-> TRUE,
                          user |-> u, asked |-> FALSE, received |-> FALSE]],
              tg_events' = Append(tg_events, UpdateCall(t, "pending", TRUE, u)),
              bridges' = [bridges EXCEPT ![c] = [b EXCEPT !.user = u, !.tg = t]],
              internal_events' = internal_events
       PROVE  LegInv'
  <2>1. td'[t].st = "pending" /\ \A x \in TgIds : x # t => td'[x] = td[x]
    BY <1>11 DEF TypeOK
  <2>2. PICK new : new = UpdateCall(t, "pending", TRUE, u)
    OBVIOUS
  <2>3. new \in TgEvent /\ new.id = t /\ tg_events' = Append(tg_events, new)
    BY <1>11, <2>2, EventsTyped DEF UpdateCall
  <2>4. Elements(tg_events') = Elements(tg_events) \cup {new}
    BY <2>3, AppendElements DEF TypeOK
  <2>5. \A x \in TgIds : td'[x].st = "ended" => td[x].st = "ended" /\ new \notin Reports(x)
    BY <2>1, <2>3 DEF Reports
  <2>6. TgOrder'
    BY <2>3, <2>5, TgOrderSend DEF LegInv, Popped
  <2>7. TgServes(t)'
    BY <2>1 DEF TgServes
  <2>8. \A d \in Ctx : ErrorQueued(d) => ErrorQueued(d)'
    BY <1>11 DEF ErrorQueued
  <2>9. PICK x : x = [b EXCEPT !.user = u, !.tg = t]
    OBVIOUS
  <2>10. /\ bridges' = [bridges EXCEPT ![c] = x] /\ x.sub = "wait_tg" /\ ~x.ctl
         /\ x.sip = bridges[c].sip /\ x.tg = t /\ t # NoTg
    BY <1>6, <1>11, <2>9, ConstantsAssumption
  <2> QED
    BY <1>5, <2>4, <2>5, <2>6, <2>7, <2>8, <2>10
<1>12. CASE /\ \/ bridges' = [bridges EXCEPT ![c] = b]
               \/ \E u : bridges' = [bridges EXCEPT ![c] = [b EXCEPT !.user = u]]
            /\ internal_events' = Append(internal_events, InternalError(c))
            /\ UNCHANGED <<td, tg_events>>
  <2>1. CASE bridges' = [bridges EXCEPT ![c] = b]
    BY <1>6, <1>10, <1>12, <2>1
  <2>2. ASSUME NEW u, bridges' = [bridges EXCEPT ![c] = [b EXCEPT !.user = u]] PROVE LegInv'
    <3>1. PICK x : x = [b EXCEPT !.user = u]
      OBVIOUS
    <3>2. /\ bridges' = [bridges EXCEPT ![c] = x] /\ x.sub = "wait_tg" /\ ~x.ctl
          /\ x.sip = bridges[c].sip
      BY <1>6, <2>2, <3>1
    <3> QED
      BY <1>10, <1>12, <3>2
  <2> QED
    BY <1>12, <2>1, <2>2
<1> QED
  BY <1>9, <1>11, <1>12

LEMMA CallStateLegs ==
    ASSUME TypeOK, TypeOK', ShapeInv, TgInv, SipInv, LegInv, ProcessCallStateUpdate
    PROVE  LegInv'
<1>1. PICK e, q, c : e = Head(sip_events) /\ q = Tail(sip_events) /\ c = First(WithSip(e.id))
  OBVIOUS
<1>2. /\ sip_events # <<>> /\ e \in SipEvent /\ e.type = "CallStateUpdate" /\ Popped(sip_events, q)
      /\ e \in Elements(sip_events)
  BY <1>1, TailElements DEF ProcessCallStateUpdate, PollSip, TypeOK, Popped
<1>3. e.id \in SipIds /\ e.state \in {"EARLY", "CONFIRMED", "DISCONNECTED"}
  BY <1>2 DEF SipEvent
<1>4. WithSip(e.id) # {} => c \in Ctx /\ bridges[c] \in BridgeType /\ bridges[c].sip = e.id /\ Live(c)
  BY <1>1, <1>3, FoundBySip
<1>5. CASE WithSip(e.id) # {} /\ DialsOnEarly(bridges[c], e) /\ DialTgReturns(c, q)
  BY <1>1, <1>2, <1>4, <1>5, DialTgLegs DEF DialsOnEarly
<1>6. CASE /\ WithSip(e.id) # {} /\ e.state = "DISCONNECTED"
           /\ Terminate(c, CleanSipId(bridges[c]), internal_events, tg_events, q)
  <2>1. CleanSipId(bridges[c]).tg = bridges[c].tg /\ CleanSipId(bridges[c]).sip = NoSip
    BY <1>4, <1>6 DEF CleanSipId, BridgeType
  <2>2. e = CallStateUpdate(e.id, "DISCONNECTED")
    BY <1>2, <1>6 DEF SipEvent, CallStateUpdate
  <2>3. pj[bridges[c].sip].st = "ended"
    BY <1>2, <1>3, <1>4, <1>6, <2>2 DEF LegInv, SlotInv, DisconnectedIsEnded, StateQueued
  <2>4. \A d \in Ctx : ErrorQueued(d) => InternalError(d) \in Elements(internal_events)
    BY DEF ErrorQueued
  <2> QED
    BY <1>1, <1>2, <1>4, <1>6, <2>1, <2>3, <2>4, TerminateLegs DEF Popped
<1>7. CASE /\ sip_events' = q /\ UNCHANGED <<bridges, internal_events, tg_events, calls, pj, td>>
           /\ \/ WithSip(e.id) = {}
              \/ WithSip(e.id) # {} /\ ~DialsOnEarly(bridges[c], e) /\ e.state # "DISCONNECTED"
  <2>1. \/ \A d \in Ctx : bridges[d].sip # e.id
        \/ e.state = "CONFIRMED"
        \/ e.state = "EARLY" /\ \A d \in Ctx : bridges[d].sip = e.id => bridges[d].sub # "sip_wait_confirm"
    <3>1. CASE WithSip(e.id) = {}
      BY <3>1 DEF WithSip
    <3>2. CASE WithSip(e.id) # {} /\ e.state = "EARLY" /\ ~DialsOnEarly(bridges[c], e)
      <4>1. \A d \in Ctx : bridges[d].sip = e.id => d = c
        BY <1>3, <1>4, <3>2, ConstantsAssumption DEF SipInv, UniqueSip
      <4> QED
        BY <3>2, <4>1 DEF DialsOnEarly
    <3> QED
      BY <1>3, <1>7, <3>1, <3>2
  <2>2. \A d \in Ctx : ErrorQueued(d) => ErrorQueued(d)'
    BY <1>7 DEF ErrorQueued
  <2> QED
    BY <1>1, <1>2, <1>7, <2>1, <2>2, QuietLegs DEF Popped
<1>8. CASE Abort("stoi")
  BY <1>8, AbortLegs DEF Abort
<1> QED
  BY <1>1, <1>5, <1>6, <1>7, <1>8 DEF ProcessCallStateUpdate, DialTg

LEMMA MediaStateLegs ==
    ASSUME TypeOK, TypeOK', ShapeInv, SipInv, LegInv, ProcessCallMediaStateUpdate
    PROVE  LegInv'
<1>1. PICK e, c : e = Head(sip_events) /\ c = First(WithSip(e.id))
  OBVIOUS
<1>2. /\ sip_events # <<>> /\ e.type = "CallMediaStateUpdate" /\ sip_events' = Tail(sip_events)
      /\ UNCHANGED <<tg_events, calls, pj>> /\ e \in SipEvent
      /\ Elements(sip_events) = {e} \cup Elements(sip_events')
  BY <1>1, TailElements DEF ProcessCallMediaStateUpdate, PollSip, TypeOK
<1>3. e.id \in SipIds
  BY <1>2, SipEventFields
<1>4. CASE UNCHANGED <<bridges, internal_events, td>>
  <2>1. \A d \in Ctx : ErrorQueued(d) => ErrorQueued(d)'
    BY <1>4 DEF ErrorQueued
  <2> QED
    BY <1>1, <1>2, <1>4, <2>1, QuietLegs DEF Popped
<1>5. CASE /\ WithSip(e.id) # {} /\ bridges[c].sub = "sip_wait_media"
           /\ \/ AnswerTg(c)
              \/ /\ bridges[c].top = "from_sip" /\ td' = td
                 /\ BridgeAudio(c, [bridges[c] EXCEPT !.sub = "wait_dtmf"])
  <2>1. c \in Ctx /\ bridges[c] \in BridgeType
    BY <1>1, <1>3, <1>5, FoundBySip
  <2> DEFINE b1 == [bridges[c] EXCEPT !.sub = "wait_tg"]
             b2 == [bridges[c] EXCEPT !.sub = "wait_dtmf"]
             b3 == [b2 EXCEPT !.aud = pj[b2.sip].nego]
  <2>2. /\ \/ bridges' = [bridges EXCEPT ![c] = b1]
           \/ /\ bridges' = [bridges EXCEPT ![c] = b2] /\ bridges[c].top = "from_sip"
              /\ internal_events' = Append(internal_events, InternalError(c))
           \/ /\ bridges' = [bridges EXCEPT ![c] = b3] /\ bridges[c].top = "from_sip"
              /\ MediaLinkable(b2)
        /\ internal_events' \in {internal_events, Append(internal_events, InternalError(c))}
        /\ \/ td' = td
           \/ td' = [td EXCEPT ![bridges[c].tg] = [@ EXCEPT !.st = "accepted"]]
    BY <1>5 DEF AnswerTg, BridgeAudio
  <2>3. /\ \A b \in {b1, b2, b3} : /\ b.top = bridges[c].top /\ b.tg = bridges[c].tg
                                   /\ b.sip = bridges[c].sip /\ b.ctl = bridges[c].ctl
        /\ b1.sub = "wait_tg" /\ b2.sub = "wait_dtmf" /\ b3.sub = "wait_dtmf"
        /\ b3.aud = pj[b2.sip].nego
    BY <2>1 DEF BridgeType
  <2> HIDE DEF b1, b2, b3
  <2>4. PICK b \in {b1, b2, b3} :
           /\ bridges' = [bridges EXCEPT ![c] = b] /\ b.sub # "sip_wait_media"
           /\ \/ b.sub = "wait_tg"
              \/ /\ bridges[c].top = "from_sip"
                 /\ b.aud # 0 \/ internal_events' = Append(internal_events, InternalError(c))
    BY <2>2, <2>3, LinkableHasMedia
  <2>5. InternalError(c) \in InternalEvent
    BY <2>1, EventsTyped
  <2>6. /\ \A d \in Ctx : ErrorQueued(d) => ErrorQueued(d)'
        /\ internal_events' = Append(internal_events, InternalError(c)) => ErrorQueued(c)'
    BY <2>1, <2>2, <2>5, ErrorsKept, ErrorSent
  <2>7. \A t \in TgIds : td'[t].st = "ended" => td[t].st = "ended"
    <3>1. CASE td' = td
      BY <3>1
    <3>2. ASSUME NEW x, td' = [td EXCEPT ![x] = [@ EXCEPT !.st = "accepted"]], NEW t \in TgIds,
                 td'[t].st = "ended"
          PROVE  td[t].st = "ended"
      BY <3>2 DEF TypeOK, TdType
    <3> QED
      BY <2>2, <3>1, <3>2
  <2>8. \A d \in Ctx : Untouched(d)
    BY <1>2, <2>6, <2>7, UntouchedIf
  <2>9. /\ bridges[c].ctl => bridges[c].tg # NoTg
        /\ bridges[c].top = "from_sip" => bridges[c].ctl
    BY <1>5, <2>1 DEF LegInv, Served, Linked
  <2>10. \A d \in Ctx : Served(d)'
    BY <1>5, <2>1, <2>3, <2>4, <2>6, <2>8, <2>9, BridgeMoves DEF LegInv
  <2>11. TgOrder'
    BY <1>2, <2>7, TgOrderPop DEF LegInv, Popped
  <2>12. \A d \in Ctx : bridges'[d].sip = bridges[d].sip
    BY <2>1, <2>3, <2>4 DEF TypeOK
  <2>13. SlotInv'
    BY <1>1, <1>2, <2>12, SlotsPop DEF LegInv, NoSessionStarts, Popped
  <2> QED
    BY <2>10, <2>11, <2>13 DEF LegInv
<1> QED
  BY <1>1, <1>4, <1>5 DEF ProcessCallMediaStateUpdate

-----------------------------------------------------------------------------
(* The other threads. *)

\* TDLib reports: the end of a call when it ends, and nothing about it later.
LEMMA TgSendsLegs ==
    ASSUME TypeOK, LegInv, NEW e \in TgEvent, TgSends(e),
           \A t \in TgIds :
              td'[t].st = "ended" => \/ td[t].st = "ended" /\ e \notin Reports(t)
                                     \/ e \in Ends(t)
    PROVE  LegInv'
<1>1. /\ tg_events' = Append(tg_events, e)
      /\ UNCHANGED <<bridges, internal_events, sip_events, calls, pj>>
  BY DEF TgSends
<1>2. Elements(tg_events') = Elements(tg_events) \cup {e}
  BY <1>1, AppendElements DEF TypeOK
<1>3. \A t \in TgIds :
         td'[t].st = "ended" => td[t].st = "ended" \/ CallQueued(t, {"discarded", "error"})'
  BY <1>2 DEF CallQueued, Ends, IsTgEnd
<1>4. \A d \in Ctx : ErrorQueued(d) => ErrorQueued(d)'
  BY <1>1 DEF ErrorQueued
<1>5. \A d \in Ctx : Untouched(d)
  BY <1>1, <1>2, <1>3, <1>4, UntouchedIf
<1>6. \A d \in Ctx : Served(d)'
  BY <1>1, <1>5, ServedStep DEF LegInv
<1>7. SlotInv'
  BY <1>1, SlotsSame DEF LegInv
<1>8. TgOrder'
  BY <1>1, TgOrderSend DEF LegInv, Popped
<1> QED
  BY <1>6, <1>7, <1>8 DEF LegInv

LEMMA TgMovesLegs ==
    ASSUME TypeOK, LegInv, NEW t \in TgIds, NEW r \in TdType, td[t].st # "ended",
           NEW s \in {"pending", "ready", "discarded", "error"}, TgMoves(t, r, s),
           r.st = "ended" => s \in {"discarded", "error"}
    PROVE  LegInv'
<1>1. PICK e : e = UpdateCall(t, s, r.out, r.user)
  OBVIOUS
<1>2. e \in TgEvent /\ e.type = "updateCall" /\ e.id = t /\ e.state = s
  BY <1>1, EventsTyped DEF UpdateCall, TdType
<1>3. TgSends(e) /\ td'[t] = r /\ \A x \in TgIds : x # t => td'[x] = td[x]
  BY <1>1 DEF TgMoves, TypeOK
<1>4. \A x \in TgIds :
         td'[x].st = "ended" => \/ td[x].st = "ended" /\ e \notin Reports(x)
                                \/ e \in Ends(x)
  BY <1>2, <1>3 DEF Reports, Ends, IsTgEnd
<1> QED
  BY <1>2, <1>3, <1>4, TgSendsLegs

LEMMA TgLegs ==
    ASSUME TypeOK, LegInv,
           \/ \E t \in TgIds : TgReceived(t) \/ TgReady(t) \/ TgEnd(t) \/ TgSignaling(t)
           \/ \E t \in TgIds, u \in Users : TgIncoming(t, u)
           \/ \E u \in Users, x \in Contents : TgMessage(u, x)
    PROVE  LegInv'
<1>1. \A t \in TgIds : td[t] \in TdType
  BY DEF TypeOK
<1>2. ASSUME NEW t \in TgIds, TgReceived(t) PROVE LegInv'
  <2>1. PICK r : r = [td[t] EXCEPT !.received = TRUE]
    OBVIOUS
  <2>2. r \in TdType /\ r.st = td[t].st
    BY <1>1, <2>1 DEF TdType
  <2> QED
    BY <1>2, <2>1, <2>2, TgMovesLegs DEF TgReceived
<1>3. ASSUME NEW t \in TgIds, TgReady(t) PROVE LegInv'
  <2>1. PICK r : r = [td[t] EXCEPT !.st = "ready"]
    OBVIOUS
  <2>2. r \in TdType /\ r.st = "ready"
    BY <1>1, <2>1 DEF TdType, ActiveTg
  <2> QED
    BY <1>3, <2>1, <2>2, TgMovesLegs DEF TgReady
<1>4. ASSUME NEW t \in TgIds, TgEnd(t) PROVE LegInv'
  <2>1. PICK r : r = [td[t] EXCEPT !.st = "ended"]
    OBVIOUS
  <2>2. r \in TdType
    BY <1>1, <2>1 DEF TdType
  <2>3. PICK s \in {"discarded", "error"} : TgMoves(t, r, s)
    BY <1>4, <2>1 DEF TgEnd
  <2> QED
    BY <1>4, <2>2, <2>3, TgMovesLegs DEF TgEnd, ActiveTg
<1>5. ASSUME NEW t \in TgIds, NEW u \in Users, TgIncoming(t, u) PROVE LegInv'
  <2>1. PICK r : r = [st |-> "pending", out |-> FALSE, user |-> u, asked |-> FALSE, received |-> FALSE]
    OBVIOUS
  <2>2. r \in TdType /\ r.st = "pending"
    BY <2>1 DEF TdType, ActiveTg
  <2> QED
    BY <1>5, <2>1, <2>2, TgMovesLegs DEF TgIncoming
<1>6. ASSUME NEW e \in TgEvent, e.type # "updateCall", td' = td, TgSends(e) PROVE LegInv'
  BY <1>6, TgSendsLegs DEF Reports
<1>7. ASSUME NEW t \in TgIds, TgSignaling(t) PROVE LegInv'
  <2>1. PICK e : e = [type |-> "updateNewCallSignalingData", id |-> t]
    OBVIOUS
  <2>2. e \in TgEvent /\ e.type # "updateCall"
    BY <2>1 DEF TgEvent
  <2> QED
    BY <1>6, <1>7, <2>1, <2>2 DEF TgSignaling
<1>8. ASSUME NEW u \in Users, NEW x \in Contents, TgMessage(u, x) PROVE LegInv'
  <2>1. PICK e : e = [type |-> "updateNewMessage", user |-> u, content |-> x]
    OBVIOUS
  <2>2. e \in TgEvent /\ e.type # "updateCall"
    BY <2>1 DEF TgEvent
  <2> QED
    BY <1>6, <1>8, <2>1, <2>2 DEF TgMessage
<1> QED
  BY <1>2, <1>3, <1>4, <1>5, <1>7, <1>8

LEMMA EmitLegs ==
    ASSUME TypeOK, ShapeInv, LegInv, NEW c \in Ctx, EmitSignaling(c)
    PROVE  LegInv'
<1>1. PICK e : e = [type |-> "SignalingDataEmitted", ctx |-> c]
  OBVIOUS
<1>2. e \in InternalEvent /\ internal_events' = Append(internal_events, e)
      /\ UNCHANGED <<bridges, tg_events, sip_events, calls, pj, td>>
  BY <1>1 DEF InternalEvent, EmitSignaling
<1>3. \A d \in Ctx : ErrorQueued(d) => ErrorQueued(d)'
  BY <1>2, ErrorsKept
<1> QED
  BY <1>2, <1>3, QuietLegs DEF Popped

\* pjsua reports: DISCONNECTED when a session ends, and only then.
LEMMA SipSendsLegs ==
    ASSUME TypeOK, LegInv, NEW e \in SipEvent, SipSends(e), e.type # "IncomingCall",
           calls' = calls, NoSessionStarts,
           \A s \in SipIds : /\ e = CallStateUpdate(s, "DISCONNECTED") => pj'[s].st = "ended"
                             /\ pj'[s].st = "ended" => \/ pj[s].st = "ended"
                                                       \/ e = CallStateUpdate(s, "DISCONNECTED")
    PROVE  LegInv'
<1>1. /\ sip_events' = Append(sip_events, e)
      /\ UNCHANGED <<bridges, internal_events, tg_events, td>>
  BY DEF SipSends
<1>2. Elements(sip_events') = Elements(sip_events) \cup {e}
  BY <1>1, AppendElements DEF TypeOK
<1>3. \A s \in SipIds :
         pj'[s].st = "ended" => pj[s].st = "ended" \/ StateQueued(s, "DISCONNECTED")'
  BY <1>2 DEF StateQueued
<1>4. \A d \in Ctx : ErrorQueued(d) => ErrorQueued(d)'
  BY <1>1 DEF ErrorQueued
<1>5. \A d \in Ctx : Untouched(d)
  BY <1>1, <1>2, <1>3, <1>4, UntouchedIf
<1>6. \A d \in Ctx : Served(d)'
  BY <1>1, <1>5, ServedStep DEF LegInv
<1>7. SlotInv'
  BY <1>1, SlotsSend DEF LegInv
<1>8. TgOrder'
  BY <1>1, TgOrderSame DEF LegInv
<1> QED
  BY <1>6, <1>7, <1>8 DEF LegInv

LEMMA PjsuaLegs ==
    ASSUME TypeOK, LegInv, NEW s \in SipIds,
           SipProgress(s) \/ SipDisconnect(s) \/ \E m \in BOOLEAN : SipMedia(s, m)
    PROVE  LegInv'
<1>1. CASE SipProgress(s) \/ SipDisconnect(s)
  <2>1. PICK st \in {"EARLY", "CONFIRMED", "DISCONNECTED"}, n \in {"early", "confirmed", "ended"} :
           /\ SipSends(CallStateUpdate(s, st)) /\ calls' = calls /\ pj[s].st \in ActiveSip
           /\ pj' = [pj EXCEPT ![s] = [@ EXCEPT !.st = n]] /\ (n = "ended" <=> st = "DISCONNECTED")
    BY <1>1 DEF SipProgress, SipDisconnect, ActiveSip
  <2>2. PICK e : e = CallStateUpdate(s, st)
    OBVIOUS
  <2>3. e \in SipEvent /\ e.type # "IncomingCall" /\ e.id = s /\ e.state = st
    BY <2>2, EventsTyped DEF CallStateUpdate
  <2>4. pj'[s].st = n /\ pj'[s].hung = pj[s].hung /\ \A x \in SipIds : x # s => pj'[x] = pj[x]
    BY <2>1 DEF TypeOK, PjType
  <2>5. NoSessionStarts
    BY <2>1, <2>4 DEF NoSessionStarts, ActiveSip
  <2>6. \A x \in SipIds : e = CallStateUpdate(x, "DISCONNECTED") => pj'[x].st = "ended"
    BY <2>1, <2>3, <2>4 DEF CallStateUpdate
  <2>7. \A x \in SipIds : pj'[x].st = "ended" => pj[x].st = "ended" \/ e = CallStateUpdate(x, "DISCONNECTED")
    BY <2>1, <2>2, <2>4
  <2> QED
    BY <2>1, <2>2, <2>3, <2>5, <2>6, <2>7, SipSendsLegs
<1>2. ASSUME NEW m \in BOOLEAN, SipMedia(s, m) PROVE LegInv'
  <2>1. PICK e : e = [type |-> "CallMediaStateUpdate", id |-> s, has_media |-> m]
    OBVIOUS
  <2>2. e \in SipEvent /\ e.type # "IncomingCall" /\ e.type # "CallStateUpdate"
    BY <2>1 DEF SipEvent
  <2>3. /\ SipSends(e) /\ calls' = calls
        /\ \/ pj' = pj
           \/ pj' = [pj EXCEPT ![s] = [@ EXCEPT !.media = m, !.nego = pj[s].nego + 1]]
    BY <1>2, <2>1 DEF SipMedia
  <2>4. \A x \in SipIds : pj'[x].st = pj[x].st /\ pj'[x].hung = pj[x].hung
    <3>1. CASE pj' = pj
      BY <3>1
    <3>2. CASE pj' # pj
      <4>1. PICK n : n = [pj[s] EXCEPT !.media = m, !.nego = pj[s].nego + 1]
        OBVIOUS
      <4>2. n.st = pj[s].st /\ n.hung = pj[s].hung
        BY <4>1 DEF TypeOK, PjType
      <4> QED
        BY <2>3, <3>2, <4>1, <4>2 DEF TypeOK
    <3> QED
      BY <3>1, <3>2
  <2>5. NoSessionStarts
    BY <2>4 DEF NoSessionStarts
  <2>6. \A x \in SipIds : e # CallStateUpdate(x, "DISCONNECTED")
    BY <2>2 DEF CallStateUpdate
  <2> QED
    BY <2>2, <2>3, <2>4, <2>5, <2>6, SipSendsLegs
<1> QED
  BY <1>1, <1>2

LEMMA SipIncomingLegs ==
    ASSUME TypeOK, TypeOK', SipInv, LegInv, NEW s \in SipIds, NEW x \in Exts, SipIncoming(s, x)
    PROVE  LegInv'
<1>1. PICK e : e = [type |-> "IncomingCall", id |-> s, extension |-> x]
  OBVIOUS
<1>2. e \in SipEvent /\ e.type = "IncomingCall" /\ e.id = s /\ "incoming" \in ActiveSip
  BY <1>1 DEF SipEvent, ActiveSip
<1>3. /\ FreeSlot(s) /\ OpenSip(s, "incoming") /\ sip_events' = Append(sip_events, e)
      /\ UNCHANGED <<bridges, internal_events, tg_events, td>>
  BY <1>1 DEF SipIncoming, SipSends
<1>4. /\ \A y \in SipIds : y # s => pj'[y] = pj[y]
      /\ \A d \in Ctx : bridges[d].sip # s
  BY <1>2, <1>3, OpenLegs DEF LegInv
<1>5. Elements(sip_events') = Elements(sip_events) \cup {e}
  BY <1>2, <1>3, AppendElements DEF TypeOK
<1>6. \A d \in Ctx : ErrorQueued(d) => ErrorQueued(d)'
  BY <1>3 DEF ErrorQueued
<1>7. \A d \in Ctx : Untouched(d)
  BY <1>3, <1>4, <1>5, <1>6, UntouchedIf
<1>8. \A d \in Ctx : Served(d)'
  BY <1>3, <1>7, ServedStep DEF LegInv
<1>9. IncomingQueued(s)'
  BY <1>2, <1>5 DEF IncomingQueued
<1>10. SlotInv'
  BY <1>2, <1>3, <1>5, <1>9, OpenSlots DEF LegInv
<1>11. TgOrder'
  BY <1>3, TgOrderSame DEF LegInv
<1> QED
  BY <1>8, <1>10, <1>11 DEF LegInv

-----------------------------------------------------------------------------
LEMMA StepLegs ==
    TypeOK /\ ShapeInv /\ TgInv /\ SipInv /\ LegInv /\ [Next]_vars => LegInv'
<1> SUFFICES ASSUME TypeOK, ShapeInv, TgInv, SipInv, LegInv, [Next]_vars PROVE LegInv'
  OBVIOUS
<1>1. TypeOK'
  BY StepTyped
<1>2. CASE Loop
  BY <1>1, <1>2, QuietHandlers, InternalErrorLegs, UpdateCallLegs, IncomingCallLegs,
     CallStateLegs, MediaStateLegs DEF Loop
<1>3. CASE Signal \/ Halted \/ UNCHANGED vars
  BY <1>3, AbortLegs DEF Signal, Halted, vars
<1>4. CASE Others
  BY <1>1, <1>3, <1>4, TgLegs, EmitLegs, PjsuaLegs, SipIncomingLegs DEF Others
<1> QED
  BY <1>2, <1>3, <1>4 DEF Next

LEMMA InitLegs == Init => LegInv
<1> SUFFICES ASSUME Init PROVE LegInv
  OBVIOUS
<1>1. Elements(sip_events) = {}
  BY DEF Init, Elements
<1>2. \A c \in Ctx : bridges[c].top = "none" /\ bridges[c].sub = "none" /\ ~bridges[c].ctl
  BY DEF Init, NewContext
<1>3. \A c \in Ctx : Served(c)
  BY <1>2 DEF Served, Linked, TgServed, SipServed, Live
<1>4. \A s \in SipIds : pj[s].st = "free"
  BY DEF Init
<1>5. SlotInv
  BY <1>1, <1>4 DEF Init, SlotInv, NoOrphanSip, DisconnectedIsEnded, StateQueued, TableIsUsed, ActiveSip
<1>6. TgOrder
  BY DEF Init, TgOrder
<1> QED
  BY <1>3, <1>5, <1>6 DEF LegInv

LegsInv == TypeOK /\ ShapeInv /\ TgInv /\ SipInv /\ LegInv

LEMMA LegsHold == Spec => []LegsInv
<1>1. Init => LegsInv
  BY InitTyped, InitShape, InitTg, InitSip, InitLegs DEF LegsInv
<1>2. LegsInv /\ [Next]_vars => LegsInv'
  BY StepTyped, StepShape, StepTg, StepSip, StepLegs DEF LegsInv
<1> QED
  BY <1>1, <1>2, PTL DEF Spec

\* CleanUp leaves no SIP session behind: whatever the order in which the two legs
\* of a bridge end, a session that pjsua still has and the gateway did not hang
\* up has a bridge, or its IncomingCall is still queued.
THEOREM SipCallsAreHeld == Spec => []NoOrphanSip
<1>1. LegsInv => NoOrphanSip
  BY DEF LegsInv, LegInv, SlotInv
<1> QED
  BY <1>1, LegsHold, PTL

\* A bridge whose Telegram call ended always has the event still queued that
\* removes it, also when a late pending update of that call made the bridge: the
\* end of a call is the last thing TDLib's receiver puts into tg_events.
THEOREM TgEndsAreSeen == Spec => []NoTgZombie
<1>1. LegsInv => NoTgZombie
  BY DEF LegsInv, LegInv, Served, TgServed, TgServes, NoTgZombie
<1> QED
  BY <1>1, LegsHold, PTL

\* The same for the SIP leg, as long as pjsua does not hand out the slot of an
\* ended call again.  When it does, sip::Client's emplace may drop the session of
\* a redirected call without an event, which is the finding of GatewayRedirect.
THEOREM SipEndsAreSeen ==
    ASSUME ~ReuseSlots
    PROVE  Spec => []NoSipZombie
<1>1. LegsInv => NoSipZombie
  BY DEF LegsInv, LegInv, Served, SipServed, SipServes, NoSipZombie
<1> QED
  BY <1>1, LegsHold, PTL

-----------------------------------------------------------------------------
(* The audio of a bridge: what it was linked with is not newer than what its *)
(* session has.                                                              *)

AudioInv ==
    \A c \in Ctx :
       bridges[c].aud # 0
          => bridges[c].sip \in SipIds /\ bridges[c].aud <= pj[bridges[c].sip].nego

\* A step links no ports, and starts no session in a slot a bridge has.
LinksKept ==
    \A c \in Ctx : \/ bridges'[c].aud = 0
                   \/ bridges'[c].aud = bridges[c].aud /\ bridges'[c].sip = bridges[c].sip
MediaGoesOn ==
    \A c \in Ctx : bridges[c].sip \in SipIds
                      => pj[bridges[c].sip].nego <= pj'[bridges[c].sip].nego

LEMMA AudioStep ==
    ASSUME TypeOK, TypeOK', AudioInv, LinksKept, MediaGoesOn
    PROVE  AudioInv'
<1> SUFFICES ASSUME NEW c \in Ctx, bridges'[c].aud # 0
             PROVE  bridges'[c].sip \in SipIds /\ bridges'[c].aud <= pj'[bridges'[c].sip].nego
  BY DEF AudioInv
<1>1. /\ bridges'[c].aud = bridges[c].aud /\ bridges'[c].sip = bridges[c].sip
      /\ bridges[c].sip \in SipIds /\ bridges[c].aud <= pj[bridges[c].sip].nego
      /\ pj[bridges[c].sip].nego <= pj'[bridges[c].sip].nego
  BY DEF LinksKept, MediaGoesOn, AudioInv
<1>2. /\ bridges[c].aud \in Nat /\ pj[bridges[c].sip].nego \in Nat
      /\ pj'[bridges[c].sip].nego \in Nat
  BY <1>1, ConstantsAssumption DEF TypeOK, BridgeType, PjType
<1> QED
  BY <1>1, <1>2

LEMMA AudioSame ==
    ASSUME TypeOK, TypeOK', AudioInv, UNCHANGED <<bridges, pj>>
    PROVE  AudioInv'
BY DEF AudioInv

LEMMA LinkKept ==
    ASSUME TypeOK, NEW c \in Ctx, NEW b, bridges' = [bridges EXCEPT ![c] = b],
           b.aud = 0 \/ (b.aud = bridges[c].aud /\ b.sip = bridges[c].sip)
    PROVE  LinksKept
<1>1. bridges'[c] = b /\ \A d \in Ctx : d # c => bridges'[d] = bridges[d]
  BY DEF TypeOK
<1> QED
  BY <1>1 DEF LinksKept

\* A new bridge, or none any more, has no links.
LEMMA NoLink ==
    ASSUME TypeOK, NEW c \in Ctx, NEW b, bridges' = [bridges EXCEPT ![c] = b], b.aud = 0
    PROVE  LinksKept
<1>1. bridges'[c] = b /\ \A d \in Ctx : d # c => bridges'[d] = bridges[d]
  BY DEF TypeOK
<1> QED
  BY <1>1 DEF LinksKept

\* One slot gets another state, none goes back to older media.
LEMMA MediaKept ==
    ASSUME TypeOK, NEW s, NEW r, pj' = [pj EXCEPT ![s] = r] \/ pj' = pj,
           r.nego = pj[s].nego
    PROVE  MediaGoesOn
<1>1. \A x \in SipIds : pj'[x].nego = pj[x].nego /\ pj[x].nego \in Nat
  BY ConstantsAssumption DEF TypeOK, PjType
<1> QED
  BY <1>1 DEF MediaGoesOn

LEMMA HangupAudio ==
    ASSUME TypeOK, NEW s, NEW q, Hangup(s, q)
    PROVE  MediaGoesOn
<1>1. CASE pj' = pj
  BY <1>1, MediaKept
<1>2. CASE pj' # pj
  <2>1. PICK r : /\ pj' = [pj EXCEPT ![s] = r] /\ s \in SipIds
                 /\ r \in {[pj[s] EXCEPT !.st = "ended", !.hung = TRUE], [pj[s] EXCEPT !.hung = TRUE]}
    BY <1>2 DEF Hangup, TypeOK
  <2>2. r.nego = pj[s].nego
    BY <2>1 DEF TypeOK, PjType
  <2> QED
    BY <2>1, <2>2, MediaKept
<1> QED
  BY <1>1, <1>2

LEMMA OpenAudio ==
    ASSUME TypeOK, SipInv, NEW s \in SipIds, NEW st, FreeSlot(s), OpenSip(s, st)
    PROVE  MediaGoesOn
<1>1. \A c \in Ctx : bridges[c].sip # s
  BY FreeIsUnused
<1>2. \A x \in SipIds : x # s => pj'[x] = pj[x]
  BY DEF OpenSip, TypeOK
<1>3. \A x \in SipIds : pj[x].nego \in Nat
  BY ConstantsAssumption DEF TypeOK, PjType
<1> QED
  BY <1>1, <1>2, <1>3 DEF MediaGoesOn

\* BridgeAudio links with the media of this moment.
LEMMA LinksAudio ==
    ASSUME TypeOK, TypeOK', AudioInv, NEW c \in Ctx, NEW b \in BridgeType, BridgeAudio(c, b),
           pj' = pj, b.aud = bridges[c].aud, b.sip = bridges[c].sip
    PROVE  AudioInv'
<1>1. CASE bridges' = [bridges EXCEPT ![c] = b]
  BY <1>1, LinkKept, MediaKept, AudioStep
<1>2. CASE /\ MediaLinkable(b)
           /\ bridges' = [bridges EXCEPT ![c] = [b EXCEPT !.aud = pj[b.sip].nego]]
  <2>1. b.sip \in SipIds /\ pj[b.sip].nego \in Nat
    BY <1>2, LinkableHasMedia, ConstantsAssumption DEF TypeOK, PjType
  <2>2. bridges'[c].sip = b.sip /\ bridges'[c].aud = pj[b.sip].nego
    BY <1>2 DEF TypeOK, BridgeType
  <2>3. \A d \in Ctx : d # c => bridges'[d] = bridges[d]
    BY <1>2 DEF TypeOK
  <2> QED
    BY <2>1, <2>2, <2>3 DEF AudioInv
<1> QED
  BY <1>1, <1>2 DEF BridgeAudio

LEMMA TerminateAudio ==
    ASSUME TypeOK, TypeOK', AudioInv, NEW c \in Ctx, NEW b, NEW i, NEW q, NEW r,
           Terminate(c, b, i, q, r)
    PROVE  AudioInv'
<1>1. CASE Aborts
  BY <1>1, AudioSame DEF Aborts, Abort
<1>2. CASE Hangup(b.sip, r) /\ bridges' = [bridges EXCEPT ![c] = NewContext]
  <2>1. NewContext.aud = 0
    BY DEF NewContext
  <2>2. LinksKept /\ MediaGoesOn
    BY <1>2, <2>1, NoLink, HangupAudio
  <2> QED
    BY <2>2, AudioStep
<1> QED
  BY <1>1, <1>2, Throws DEF Terminate, CleanUp

LEMMA DialSipAudio ==
    ASSUME TypeOK, TypeOK', SipInv, AudioInv, NEW e, NEW q, DialSip(e, q)
    PROVE  AudioInv'
<1>1. CASE Aborts
  BY <1>1, AudioSame DEF Aborts, Abort
<1>2. CASE ~Aborts
  <2>1. PICK b : b = [NewContext EXCEPT !.top = "from_tg", !.sub = "sip_wait_media",
                                        !.tg = e.id, !.user = e.user]
    OBVIOUS
  <2>2. PICK c \in Ctx : DialCallbackUri(c, b)
    BY <1>2, <2>1, Throws DEF DialSip
  <2>3. b.aud = 0 /\ \A s : [b EXCEPT !.sip = s].aud = 0
    BY <2>1 DEF NewContext
  <2>4. CASE bridges' = [bridges EXCEPT ![c] = b] /\ pj' = pj
    <3>1. LinksKept /\ MediaGoesOn
      BY <2>3, <2>4, NoLink, MediaKept
    <3> QED
      BY <3>1, AudioStep
  <2>5. ASSUME NEW s \in SipIds, FreeSlot(s), OpenSip(s, "calling"),
               bridges' = [bridges EXCEPT ![c] = [b EXCEPT !.sip = s]]
        PROVE  AudioInv'
    <3>1. PICK n : n = [b EXCEPT !.sip = s]
      OBVIOUS
    <3>2. LinksKept /\ MediaGoesOn
      BY <2>3, <2>5, <3>1, NoLink, OpenAudio
    <3> QED
      BY <3>2, AudioStep
  <2> QED
    BY <2>2, <2>4, <2>5 DEF DialCallbackUri
<1> QED
  BY <1>1, <1>2

LEMMA ReadyAudio ==
    ASSUME TypeOK, TypeOK', AudioInv, NEW c \in Ctx, NEW e, NEW q, TgReadyInBridge(c, e, q)
    PROVE  AudioInv'
<1>1. CASE Aborts
  BY <1>1, AudioSame DEF Aborts, Abort
<1>2. CASE BridgeAudio(c, [bridges[c] EXCEPT !.sub = "wait_dtmf", !.ctl = TRUE]) /\ pj' = pj
  <2>1. PICK b : b = [bridges[c] EXCEPT !.sub = "wait_dtmf", !.ctl = TRUE]
    OBVIOUS
  <2>2. b \in BridgeType /\ b.aud = bridges[c].aud /\ b.sip = bridges[c].sip
    BY <2>1 DEF TypeOK, BridgeType, Subs
  <2> QED
    BY <1>2, <2>1, <2>2, LinksAudio
<1>3. CASE AnswerSip(c, [bridges[c] EXCEPT !.sub = "sip_wait_media", !.ctl = TRUE,
                                           !.user = e.user])
  <2>1. PICK b : b = [bridges[c] EXCEPT !.sub = "sip_wait_media", !.ctl = TRUE, !.user = e.user]
    OBVIOUS
  <2>2. b.aud = bridges[c].aud /\ b.sip = bridges[c].sip
    BY <2>1 DEF TypeOK, BridgeType
  <2>3. PICK r : /\ pj' = [pj EXCEPT ![b.sip] = r] \/ pj' = pj
                 /\ r = [pj[b.sip] EXCEPT !.st = "confirmed"]
                 /\ bridges' = [bridges EXCEPT ![c] = b]
    BY <1>3, <2>1 DEF AnswerSip
  <2>4. MediaGoesOn
    <3>1. CASE b.sip \in SipIds
      <4>1. r.nego = pj[b.sip].nego
        BY <2>3, <3>1 DEF TypeOK, PjType
      <4> QED
        BY <2>3, <4>1, MediaKept
    <3>2. CASE b.sip \notin SipIds
      <4>1. pj' = pj
        BY <2>3, <3>2 DEF TypeOK
      <4> QED
        BY <4>1, MediaKept
    <3> QED
      BY <3>1, <3>2
  <2> QED
    BY <2>2, <2>3, <2>4, LinkKept, AudioStep
<1> QED
  BY <1>1, <1>2, <1>3, Throws DEF TgReadyInBridge

LEMMA UpdateCallAudio ==
    ASSUME TypeOK, TypeOK', ShapeInv, SipInv, AudioInv, ProcessUpdateCall
    PROVE  AudioInv'
<1>1. PICK e, q, c : e = Head(tg_events) /\ q = Tail(tg_events) /\ c = First(WithTg(e.id))
  OBVIOUS
<1>2. e \in TgEvent /\ e.type = "updateCall"
  BY <1>1, TailElements DEF ProcessUpdateCall, PollTg, TypeOK
<1>3. e.id \in TgIds
  BY <1>2, TgEventFields
<1>4. CASE UNCHANGED <<bridges, pj>>
  BY <1>4, AudioSame
<1>5. CASE CleanUp([NewContext EXCEPT !.tg = e.id], q, sip_events) /\ bridges' = bridges
  <2>1. MediaGoesOn
    BY <1>5, HangupAudio DEF CleanUp
  <2> QED
    BY <1>5, <2>1, AudioStep DEF LinksKept
<1>6. ASSUME WithTg(e.id) # {} PROVE c \in Ctx
  BY <1>1, <1>3, <1>6, FoundByTg, ConstantsAssumption
<1> QED
  <2>1. CASE WithTg(e.id) = {}
    BY <2>1, <1>1, <1>4, <1>5, DialSipAudio DEF ProcessUpdateCall, UpdateCallInInit
  <2>2. CASE WithTg(e.id) # {}
    BY <2>2, <1>1, <1>4, <1>6, ReadyAudio, TerminateAudio
       DEF ProcessUpdateCall, UpdateCallInBridge
  <2> QED
    BY <2>1, <2>2

LEMMA SipEventsAudio ==
    ASSUME TypeOK, TypeOK', ShapeInv, SipInv, AudioInv,
           ProcessIncomingCall \/ ProcessCallStateUpdate \/ ProcessCallMediaStateUpdate
    PROVE  AudioInv'
<1>1. PICK e, q, c : e = Head(sip_events) /\ q = Tail(sip_events) /\ c = First(WithSip(e.id))
  OBVIOUS
<1>2. e \in SipEvent /\ e.id \in SipIds
  BY <1>1, TailElements, SipEventFields
     DEF ProcessIncomingCall, ProcessCallStateUpdate, ProcessCallMediaStateUpdate, PollSip, TypeOK
<1>3. CASE UNCHANGED <<bridges, pj>>
  BY <1>3, AudioSame
<1>4. ASSUME WithSip(e.id) # {} PROVE c \in Ctx
  BY <1>1, <1>2, <1>4, FoundBySip
<1>5. CASE AcceptIncomingSip(e, q)
  <2>1. PICK b : b = [NewContext EXCEPT !.top = "from_sip", !.sub = "sip_wait_confirm",
                         !.sip = e.id,
                         !.user = IF e.extension \in Users THEN e.extension ELSE NoUser]
    OBVIOUS
  <2>2. PICK d, r : /\ d \in Ctx /\ bridges' = [bridges EXCEPT ![d] = b]
                    /\ pj' = [pj EXCEPT ![e.id] = r] \/ pj' = pj
                    /\ r = [pj[e.id] EXCEPT !.st = "ringing"]
    BY <1>5, <2>1 DEF AcceptIncomingSip
  <2>3. b.aud = 0 /\ r.nego = pj[e.id].nego
    BY <1>2, <2>1, <2>2 DEF NewContext, TypeOK, PjType
  <2>4. LinksKept /\ MediaGoesOn
    BY <2>2, <2>3, NoLink, MediaKept
  <2> QED
    BY <2>4, AudioStep
<1>6. CASE ProcessCallStateUpdate
  <2>1. CASE DialTgReturns(c, q) /\ WithSip(e.id) # {}
    <3>1. PICK b : b = [bridges[c] EXCEPT !.sub = "wait_tg"]
      OBVIOUS
    <3>2. /\ \/ bridges' = [bridges EXCEPT ![c] = b]
             \/ \E u : bridges' = [bridges EXCEPT ![c] = [b EXCEPT !.user = u]]
             \/ \E u, t : bridges' = [bridges EXCEPT ![c] = [b EXCEPT !.user = u, !.tg = t]]
          /\ pj' = pj
      BY <2>1, <3>1, Zenon DEF DialTgReturns
    <3>3. b.aud = bridges[c].aud /\ b.sip = bridges[c].sip /\ b \in BridgeType
      BY <1>4, <2>1, <3>1 DEF TypeOK, BridgeType, Subs
    <3>4. \A u, t : LET n == [b EXCEPT !.user = u]
                        m == [b EXCEPT !.user = u, !.tg = t]
                    IN /\ n.aud = bridges[c].aud /\ n.sip = bridges[c].sip
                       /\ m.aud = bridges[c].aud /\ m.sip = bridges[c].sip
      BY <3>3 DEF BridgeType
    <3>5. CASE bridges' = [bridges EXCEPT ![c] = b]
      BY <1>4, <2>1, <3>2, <3>3, <3>5, LinkKept, MediaKept, AudioStep
    <3>6. ASSUME NEW u, NEW n, n = [b EXCEPT !.user = u], bridges' = [bridges EXCEPT ![c] = n]
          PROVE  AudioInv'
      BY <1>4, <2>1, <3>2, <3>4, <3>6, LinkKept, MediaKept, AudioStep
    <3>7. ASSUME NEW u, NEW t, NEW n, n = [b EXCEPT !.user = u, !.tg = t],
                 bridges' = [bridges EXCEPT ![c] = n]
          PROVE  AudioInv'
      <4>1. n.aud = bridges[c].aud /\ n.sip = bridges[c].sip
        BY <3>4, <3>7
      <4> QED
        BY <1>4, <2>1, <3>2, <3>7, <4>1, LinkKept, MediaKept, AudioStep
    <3> QED
      BY <3>2, <3>5, <3>6, <3>7
  <2>2. CASE Abort("stoi")
    BY <2>2, <1>3 DEF Abort
  <2>3. CASE /\ WithSip(e.id) # {}
             /\ Terminate(c, CleanSipId(bridges[c]), internal_events, tg_events, q)
    BY <1>4, <2>3, TerminateAudio
  <2> QED
    BY <1>1, <1>3, <1>6, <2>1, <2>2, <2>3 DEF ProcessCallStateUpdate, DialTg
<1>7. CASE ProcessCallMediaStateUpdate
  <2>1. pj' = pj
    BY <1>7 DEF ProcessCallMediaStateUpdate
  <2>2. CASE WithSip(e.id) # {} /\ AnswerTg(c)
    <3>1. PICK b : b = [bridges[c] EXCEPT !.sub = "wait_tg"]
      OBVIOUS
    <3>2. b.aud = bridges[c].aud /\ b.sip = bridges[c].sip
      BY <1>4, <2>2, <3>1 DEF TypeOK, BridgeType
    <3>3. bridges' = [bridges EXCEPT ![c] = b]
      BY <2>2, <3>1 DEF AnswerTg
    <3> QED
      BY <1>4, <2>1, <2>2, <3>2, <3>3, LinkKept, MediaKept, AudioStep
  <2>3. CASE WithSip(e.id) # {} /\ BridgeAudio(c, [bridges[c] EXCEPT !.sub = "wait_dtmf"])
    <3>1. PICK b : b = [bridges[c] EXCEPT !.sub = "wait_dtmf"]
      OBVIOUS
    <3>2. b \in BridgeType /\ b.aud = bridges[c].aud /\ b.sip = bridges[c].sip
      BY <1>4, <2>3, <3>1 DEF TypeOK, BridgeType, Subs
    <3> QED
      BY <1>4, <2>1, <2>3, <3>1, <3>2, LinksAudio
  <2> QED
    BY <1>1, <1>3, <1>7, <2>1, <2>2, <2>3 DEF ProcessCallMediaStateUpdate
<1> QED
  BY <1>1, <1>3, <1>5, <1>6, <1>7 DEF ProcessIncomingCall

LEMMA PjsuaAudio ==
    ASSUME TypeOK, TypeOK', SipInv, AudioInv, NEW s \in SipIds,
           \/ SipProgress(s) \/ SipDisconnect(s)
           \/ \E m \in BOOLEAN : SipMedia(s, m)
           \/ \E x \in Exts : SipIncoming(s, x)
    PROVE  AudioInv'
<1>1. LinksKept
  BY DEF SipProgress, SipDisconnect, SipMedia, SipIncoming, SipSends, LinksKept
<1>2. CASE SipProgress(s) \/ SipDisconnect(s)
  <2>1. PICK st, r : pj' = [pj EXCEPT ![s] = r] /\ r = [pj[s] EXCEPT !.st = st]
    BY <1>2 DEF SipProgress, SipDisconnect
  <2>2. r.nego = pj[s].nego
    BY <2>1 DEF TypeOK, PjType
  <2> QED
    BY <1>1, <2>1, <2>2, MediaKept, AudioStep
<1>3. ASSUME NEW m \in BOOLEAN, SipMedia(s, m) PROVE AudioInv'
  <2>1. PICK r : /\ pj' = [pj EXCEPT ![s] = r] \/ pj' = pj
                 /\ r = [pj[s] EXCEPT !.media = m, !.nego = pj[s].nego + 1]
    BY <1>3 DEF SipMedia
  <2>2. r.nego = pj[s].nego + 1
    BY <2>1 DEF TypeOK, PjType
  <2>3. \A x \in SipIds : /\ pj'[x].nego = pj[x].nego \/ pj'[x].nego = pj[x].nego + 1
                          /\ pj[x].nego \in Nat
    <3>1. \A x \in SipIds : pj'[x] = pj[x] \/ (x = s /\ pj'[x] = r)
      <4>1. CASE pj' = pj
        BY <4>1
      <4>2. CASE pj' = [pj EXCEPT ![s] = r]
        BY <4>2 DEF TypeOK
      <4> QED
        BY <2>1, <4>1, <4>2
    <3>2. \A x \in SipIds : pj[x].nego \in Nat
      BY ConstantsAssumption DEF TypeOK, PjType
    <3> QED
      BY <2>2, <3>1, <3>2
  <2>4. MediaGoesOn
    BY <2>3 DEF MediaGoesOn
  <2> QED
    BY <1>1, <2>4, AudioStep
<1>4. ASSUME NEW x \in Exts, SipIncoming(s, x) PROVE AudioInv'
  BY <1>1, <1>4, OpenAudio, AudioStep DEF SipIncoming
<1> QED
  BY <1>2, <1>3, <1>4

LEMMA StepAudio ==
    LegsInv /\ AudioInv /\ [Next]_vars => AudioInv'
<1> SUFFICES ASSUME LegsInv, AudioInv, [Next]_vars PROVE AudioInv'
  OBVIOUS
<1>1. TypeOK /\ TypeOK' /\ ShapeInv /\ SipInv
  BY StepTyped DEF LegsInv
<1>2. CASE UNCHANGED <<bridges, pj>>
  BY <1>1, <1>2, AudioSame
<1>3. CASE Loop
  <2>1. PollEmpty \/ LeaveLoop \/ ProcessSignalingDataEmitted \/ ProcessUpdateNewMessage
        \/ ProcessUpdateNewCallSignalingData => UNCHANGED <<bridges, pj>>
    BY DEF PollEmpty, LeaveLoop, ProcessSignalingDataEmitted, ProcessUpdateNewMessage,
           ProcessUpdateNewCallSignalingData, Abort
  <2>2. CASE ProcessInternalError
    <3>1. Head(internal_events) \in InternalEvent
      BY <1>1, <2>2, TailElements DEF ProcessInternalError, PollInternal, TypeOK
    <3>2. Head(internal_events).ctx \in Ctx
      BY <3>1 DEF InternalEvent
    <3> QED
      BY <1>1, <1>2, <2>2, <3>2, TerminateAudio DEF ProcessInternalError
  <2> QED
    BY <1>1, <1>2, <1>3, <2>1, <2>2, UpdateCallAudio, SipEventsAudio DEF Loop
<1>4. CASE Others
  <2>1. \/ \E t \in TgIds : TgReceived(t) \/ TgReady(t) \/ TgEnd(t) \/ TgSignaling(t)
        \/ \E t \in TgIds, u \in Users : TgIncoming(t, u)
        \/ \E u \in Users, x \in Contents : TgMessage(u, x)
        \/ \E c \in Ctx : EmitSignaling(c)
        \/ Signal
        => UNCHANGED <<bridges, pj>>
    BY DEF TgReceived, TgReady, TgEnd, TgSignaling, TgIncoming, TgMessage, TgMoves,
           TgSends, EmitSignaling, Signal
  <2> QED
    BY <1>1, <1>2, <1>4, <2>1, PjsuaAudio DEF Others
<1>5. CASE Halted \/ UNCHANGED vars
  BY <1>2, <1>5 DEF Halted, vars
<1> QED
  BY <1>3, <1>4, <1>5 DEF Next

\* A bridge that takes digits has a controller and was linked with media of its
\* present SIP session, the latest one unless that was renegotiated since, or the
\* failure of BridgeAudio is queued and ends the bridge; and a controller, whose
\* signalling data goes out for tg_call_id, never outlives that id.
THEOREM TalkingIsHeard == Spec => []TalkingIsLinked
<1>1. Init => AudioInv
  BY DEF Init, NewContext, AudioInv
<1>2. LegsInv /\ AudioInv => TalkingIsLinked
  <2> SUFFICES ASSUME LegsInv, AudioInv, NEW c \in Ctx, bridges[c].aud # 0
               PROVE  LinkedNow(c) \/ Renegotiated(c)
    BY DEF LegsInv, LegInv, Served, Linked, TalkingIsLinked
  <2>1. /\ bridges[c].aud \in Nat /\ pj[bridges[c].sip].nego \in Nat
        /\ bridges[c].aud <= pj[bridges[c].sip].nego
    BY ConstantsAssumption DEF AudioInv, LegsInv, TypeOK, BridgeType, PjType
  <2> QED
    BY <2>1 DEF LinkedNow, Renegotiated
<1> QED
  BY <1>1, <1>2, StepAudio, LegsHold, PTL DEF Spec

(***************************************************************************)
(* The refinement of Switchboard: every step is one of it, or none.        *)
(***************************************************************************)

\* The variables of Switchboard, and a step of it.
Mapped ==
    <<[c \in Ctx |-> BoardOf(c)], [t \in TgIds |-> TgLine(td[t])],
      [s \in SipIds |-> SipLine(pj[s])]>>
BoardStep == [Board!Next]_Mapped

\* The step gives bridge c another entry, a call another line, or nothing.
Puts(c, e) == \A d \in Ctx : BoardOf(d)' = IF d = c THEN e ELSE BoardOf(d)
TgGets(t, v) == \A x \in TgIds : TgLine(td[x])' = IF x = t THEN v ELSE TgLine(td[x])
SipGets(s, v) == \A x \in SipIds : SipLine(pj[x])' = IF x = s THEN v ELSE SipLine(pj[x])
SameBoard == \A c \in Ctx : BoardOf(c)' = BoardOf(c)
SameTg == \A t \in TgIds : TgLine(td[t])' = TgLine(td[t])
SameSip == \A s \in SipIds : SipLine(pj[s])' = SipLine(pj[s])

LEMMA MappedStep ==
    /\ SameBoard => [c \in Ctx |-> BoardOf(c)]' = [c \in Ctx |-> BoardOf(c)]
    /\ SameTg => [t \in TgIds |-> TgLine(td[t])]' = [t \in TgIds |-> TgLine(td[t])]
    /\ SameSip => [s \in SipIds |-> SipLine(pj[s])]' = [s \in SipIds |-> SipLine(pj[s])]
    /\ \A c \in Ctx : \A e : Puts(c, e) =>
          [d \in Ctx |-> BoardOf(d)]' = [[d \in Ctx |-> BoardOf(d)] EXCEPT ![c] = e]
    /\ \A t \in TgIds : \A v : TgGets(t, v) =>
          [x \in TgIds |-> TgLine(td[x])]' = [[x \in TgIds |-> TgLine(td[x])] EXCEPT ![t] = v]
    /\ \A s \in SipIds : \A v : SipGets(s, v) =>
          [x \in SipIds |-> SipLine(pj[x])]' = [[x \in SipIds |-> SipLine(pj[x])] EXCEPT ![s] = v]
BY DEF SameBoard, SameTg, SameSip, Puts, TgGets, SipGets

LEMMA Stutters ==
    ASSUME SameBoard, SameTg, SameSip
    PROVE  BoardStep
BY MappedStep DEF BoardStep, Mapped

LEMMA StepsTgLine ==
    ASSUME NEW t \in TgIds, SameBoard, SameSip,
           \/ TgLine(td[t]) = "idle" /\ TgGets(t, "open")
           \/ TgLine(td[t]) = "open" /\ TgGets(t, "over")
           \/ /\ TgLine(td[t]) # "idle" /\ TgGets(t, "left")
              /\ \A c \in Ctx : BoardOf(c).tg # t
    PROVE  BoardStep
<1>1. Board!TgRings(t) \/ Board!TgEnds(t) \/ Board!Refuse(t)
  BY MappedStep DEF Board!TgRings, Board!TgEnds, Board!Refuse, Board!Set, Board!TgHeld
<1> QED
  BY <1>1 DEF BoardStep, Board!Next

LEMMA StepsSipLine ==
    ASSUME NEW s \in SipIds, SameBoard, SameTg,
           \/ /\ SipLine(pj[s]) # "open" /\ (SipGets(s, "open") \/ SipGets(s, "over"))
              /\ \A c \in Ctx : BoardOf(c).sip # s
           \/ SipLine(pj[s]) = "open" /\ SipGets(s, "over")
    PROVE  BoardStep
<1>1. Board!SipRings(s) \/ Board!SipEnds(s)
  BY MappedStep DEF Board!SipRings, Board!SipEnds, Board!Set, Board!SipHeld, Board!OpensSip
<1> QED
  BY <1>1 DEF BoardStep, Board!Next

LEMMA StepsTakeTg ==
    ASSUME NEW c \in Ctx, NEW t \in TgIds, BoardOf(c).stage = "unused", SameTg,
           TgLine(td[t]) # "idle", \A d \in Ctx : BoardOf(d).tg # t,
           \/ Puts(c, Board!Entry("setup", t, NoSip)) /\ SameSip
           \/ \E s \in SipIds :
                /\ Puts(c, Board!Entry("setup", t, s))
                /\ SipLine(pj[s]) # "open" /\ (SipGets(s, "open") \/ SipGets(s, "over"))
                /\ \A d \in Ctx : BoardOf(d).sip # s
    PROVE  BoardStep
<1>1. Board!TakeTg(c, t)
  <2>1. CASE Puts(c, Board!Entry("setup", t, NoSip)) /\ SameSip
    BY <2>1, MappedStep DEF Board!TakeTg, Board!TgHeld
  <2>2. CASE ~(Puts(c, Board!Entry("setup", t, NoSip)) /\ SameSip)
    <3>1. PICK s \in SipIds :
             /\ Puts(c, Board!Entry("setup", t, s))
             /\ SipLine(pj[s]) # "open" /\ (SipGets(s, "open") \/ SipGets(s, "over"))
             /\ \A d \in Ctx : BoardOf(d).sip # s
      BY <2>2
    <3>2. Board!OpensSip(s)
      BY <3>1, MappedStep DEF Board!OpensSip, Board!SipHeld, Board!Set
    <3> QED
      BY <3>1, <3>2, MappedStep DEF Board!TakeTg, Board!TgHeld
  <2> QED
    BY <2>1, <2>2
<1> QED
  BY <1>1 DEF BoardStep, Board!Next

LEMMA StepsTakeSip ==
    ASSUME NEW c \in Ctx, NEW s \in SipIds, BoardOf(c).stage = "unused", SameTg, SameSip,
           SipLine(pj[s]) # "idle", \A d \in Ctx : BoardOf(d).sip # s,
           Puts(c, Board!Entry("setup", NoTg, s))
    PROVE  BoardStep
<1>1. Board!TakeSip(c, s)
  BY MappedStep DEF Board!TakeSip, Board!SipHeld
<1> QED
  BY <1>1 DEF BoardStep, Board!Next

LEMMA StepsDial ==
    ASSUME NEW c \in Ctx, NEW t \in TgIds, BoardOf(c).stage = "setup", BoardOf(c).tg = NoTg,
           TgLine(td[t]) = "idle", TgGets(t, "open"), SameSip,
           Puts(c, Board!Entry("setup", t, BoardOf(c).sip))
    PROVE  BoardStep
<1>1. Board!Dial(c, t)
  BY MappedStep DEF Board!Dial, Board!Set
<1> QED
  BY <1>1 DEF BoardStep, Board!Next

LEMMA StepsTalk ==
    ASSUME NEW c \in Ctx, BoardOf(c).stage = "setup", BoardOf(c).tg # NoTg,
           BoardOf(c).sip # NoSip, SameTg, SameSip,
           Puts(c, Board!Entry("talking", BoardOf(c).tg, BoardOf(c).sip))
    PROVE  BoardStep
<1>1. Board!Talk(c)
  BY MappedStep DEF Board!Talk
<1> QED
  BY <1>1 DEF BoardStep, Board!Next

LEMMA StepsRemove ==
    ASSUME NEW c \in Ctx, BoardOf(c).stage \in {"setup", "talking"},
           \/ TgGets(BoardOf(c).tg, "left")
           \/ SameTg /\ \A t \in TgIds : t = BoardOf(c).tg => TgLine(td[t]) # "open",
           \/ SipGets(BoardOf(c).sip, "left")
           \/ SameSip /\ \A s \in SipIds : s = BoardOf(c).sip => SipLine(pj[s]) # "open",
           Puts(c, Board!Entry("gone", NoTg, NoSip))
    PROVE  BoardStep
<1>1. [x \in TgIds |-> TgLine(td[x])]' \in Board!LetGo([x \in TgIds |-> TgLine(td[x])], BoardOf(c).tg)
  BY MappedStep DEF Board!LetGo, TgGets
<1>2. [x \in SipIds |-> SipLine(pj[x])]' \in Board!LetGo([x \in SipIds |-> SipLine(pj[x])], BoardOf(c).sip)
  BY MappedStep DEF Board!LetGo, SipGets
<1>3. Board!Remove(c)
  BY <1>1, <1>2, MappedStep DEF Board!Remove
<1> QED
  BY <1>3 DEF BoardStep, Board!Next

-----------------------------------------------------------------------------
(* What the gateway's variables say of the mapped ones. *)

LEMMA EntryOf ==
    ASSUME TypeOK, NEW c \in Ctx
    PROVE  /\ BoardOf(c).tg = bridges[c].tg /\ BoardOf(c).sip = bridges[c].sip
           /\ c = ctx_counter + 1 => BoardOf(c).stage = "unused"
           /\ Live(c) /\ c <= ctx_counter =>
                 BoardOf(c).stage = IF bridges[c].sub = "wait_dtmf" THEN "talking" ELSE "setup"
<1>1. c \in Nat /\ ctx_counter \in Nat
  BY ConstantsAssumption DEF Ctx, TypeOK
<1> QED
  BY <1>1 DEF BoardOf, Stage

LEMMA SameEntries ==
    ASSUME UNCHANGED <<bridges, ctx_counter>>
    PROVE  SameBoard
BY DEF SameBoard, BoardOf, Stage, Live

\* Bridge c is new or goes on, with context b.
LEMMA PutsBridge ==
    ASSUME TypeOK, NEW c \in Ctx, NEW b, b.top # "none",
           bridges' = [bridges EXCEPT ![c] = b],
           (ctx_counter' = ctx_counter /\ c <= ctx_counter) \/ NewCtx(c)
    PROVE  Puts(c, Board!Entry(IF b.sub = "wait_dtmf" THEN "talking" ELSE "setup", b.tg, b.sip))
<1>1. /\ bridges'[c] = b
      /\ \A d \in Ctx : d # c => bridges'[d] = bridges[d]
  BY DEF TypeOK
<1>2. /\ ~(ctx_counter' < c)
      /\ \A d \in Ctx : d # c => (ctx_counter' < d <=> ctx_counter < d)
  BY ConstantsAssumption DEF TypeOK, Ctx, NewCtx
<1>3. BoardOf(c)' = Board!Entry(IF b.sub = "wait_dtmf" THEN "talking" ELSE "setup", b.tg, b.sip)
  BY <1>1, <1>2 DEF BoardOf, Stage, Live, Board!Entry
<1>4. \A d \in Ctx : d # c => BoardOf(d)' = BoardOf(d)
  BY <1>1, <1>2 DEF BoardOf, Stage, Live
<1> QED
  BY <1>3, <1>4 DEF Puts

LEMMA PutsGone ==
    ASSUME TypeOK, NEW c \in Ctx, c <= ctx_counter, ctx_counter' = ctx_counter,
           bridges' = [bridges EXCEPT ![c] = NewContext]
    PROVE  Puts(c, Board!Entry("gone", NoTg, NoSip))
<1>1. /\ bridges'[c] = NewContext
      /\ \A d \in Ctx : d # c => bridges'[d] = bridges[d]
  BY DEF TypeOK
<1>2. ~(ctx_counter' < c)
  BY ConstantsAssumption DEF TypeOK, Ctx
<1>3. BoardOf(c)' = Board!Entry("gone", NoTg, NoSip)
  BY <1>1, <1>2 DEF BoardOf, Stage, Live, Board!Entry, NewContext
<1>4. \A d \in Ctx : d # c => BoardOf(d)' = BoardOf(d)
  BY <1>1 DEF BoardOf, Stage, Live
<1> QED
  BY <1>3, <1>4 DEF Puts

\* Bridge c goes on and keeps its legs and its stage.
LEMMA GoesOn ==
    ASSUME TypeOK, NEW c \in Ctx, NEW b, Live(c), c <= ctx_counter, ctx_counter' = ctx_counter,
           bridges' = [bridges EXCEPT ![c] = b], b.top = bridges[c].top,
           b.tg = bridges[c].tg, b.sip = bridges[c].sip,
           bridges[c].sub # "wait_dtmf", b.sub # "wait_dtmf"
    PROVE  SameBoard
<1>1. /\ bridges'[c] = b
      /\ \A d \in Ctx : d # c => bridges'[d] = bridges[d]
  BY DEF TypeOK
<1> QED
  BY <1>1 DEF SameBoard, BoardOf, Stage, Live

\* A library changes the record of one call.
LEMMA TgMove ==
    ASSUME TypeOK, NEW t \in TgIds, NEW r, td' = [td EXCEPT ![t] = r]
    PROVE  /\ TgGets(t, TgLine(r))
           /\ TgLine(r) = TgLine(td[t]) => SameTg
<1>1. td'[t] = r /\ \A x \in TgIds : x # t => td'[x] = td[x]
  BY DEF TypeOK
<1> QED
  BY <1>1 DEF TgGets, SameTg

LEMMA SipMove ==
    ASSUME TypeOK, NEW s \in SipIds, NEW r, pj' = [pj EXCEPT ![s] = r]
    PROVE  /\ SipGets(s, SipLine(r))
           /\ SipLine(r) = SipLine(pj[s]) => SameSip
<1>1. pj'[s] = r /\ \A x \in SipIds : x # s => pj'[x] = pj[x]
  BY DEF TypeOK
<1> QED
  BY <1>1 DEF SipGets, SameSip

LEMMA SameLines ==
    /\ td' = td => SameTg
    /\ pj' = pj => SameSip
BY DEF SameTg, SameSip

LEMMA QuietStep ==
    ASSUME UNCHANGED <<bridges, ctx_counter, pj, td>>
    PROVE  BoardStep
BY SameEntries, SameLines, Stutters

-----------------------------------------------------------------------------
(* The libraries. *)

LEMMA TdLibSteps ==
    ASSUME TypeOK, NEW t \in TgIds,
           \/ TgReceived(t) \/ TgReady(t) \/ TgEnd(t) \/ \E u \in Users : TgIncoming(t, u)
    PROVE  BoardStep
<1>1. td[t] \in TdType /\ SameBoard /\ SameSip
  BY SameEntries, SameLines DEF TypeOK, TgReceived, TgReady, TgEnd, TgIncoming, TgMoves, TgSends
<1>2. CASE TgReceived(t) \/ TgReady(t)
  <2>1. PICK r : /\ td' = [td EXCEPT ![t] = r]
                 /\ r \in {[td[t] EXCEPT !.received = TRUE], [td[t] EXCEPT !.st = "ready"]}
                 /\ td[t].st \in {"pending", "accepted"}
    BY <1>2 DEF TgReceived, TgReady, TgMoves
  <2>2. TgLine(r) = TgLine(td[t])
    BY <1>1, <2>1 DEF TgLine, TdType
  <2> QED
    BY <1>1, <2>1, <2>2, TgMove, Stutters
<1>3. CASE TgEnd(t)
  <2>1. PICK r : /\ td' = [td EXCEPT ![t] = r] /\ r = [td[t] EXCEPT !.st = "ended"]
                 /\ td[t].st \in ActiveTg \cup {"hangup"}
    BY <1>3 DEF TgEnd, TgMoves
  <2>2. CASE td[t].asked
    <3>1. TgLine(r) = TgLine(td[t])
      BY <1>1, <2>1, <2>2 DEF TgLine, TdType, ActiveTg
    <3> QED
      BY <1>1, <2>1, <3>1, TgMove, Stutters
  <2>3. CASE ~td[t].asked
    <3>1. TgLine(r) = "over" /\ TgLine(td[t]) = "open"
      BY <1>1, <2>1, <2>3 DEF TgLine, TdType, ActiveTg
    <3>2. TgGets(t, "over")
      BY <2>1, <3>1, TgMove
    <3> QED
      BY <1>1, <3>1, <3>2, StepsTgLine
  <2> QED
    BY <2>2, <2>3
<1>4. CASE \E u \in Users : TgIncoming(t, u)
  <2>1. PICK u \in Users : TgIncoming(t, u)
    BY <1>4
  <2>2. PICK r : /\ td' = [td EXCEPT ![t] = r] /\ td[t].st = "idle"
                 /\ r = [st |-> "pending", out |-> FALSE, user |-> u, asked |-> FALSE,
                         received |-> FALSE]
    BY <2>1 DEF TgIncoming, TgMoves
  <2>3. TgLine(r) = "open" /\ TgLine(td[t]) = "idle"
    BY <2>2 DEF TgLine
  <2>4. TgGets(t, "open")
    BY <2>2, <2>3, TgMove
  <2> QED
    BY <1>1, <2>3, <2>4, StepsTgLine
<1> QED
  BY <1>2, <1>3, <1>4

\* A slot that is handed out is nobody's, and its session is open or, where the
\* call table has an old entry, over at once.
LEMMA OpensLine ==
    ASSUME TypeOK, SipInv, NEW s \in SipIds, NEW st \in ActiveSip, FreeSlot(s), OpenSip(s, st)
    PROVE  /\ SipLine(pj[s]) # "open" /\ (SipGets(s, "open") \/ SipGets(s, "over"))
           /\ \A c \in Ctx : BoardOf(c).sip # s
<1>1. SipLine(pj[s]) # "open"
  BY DEF FreeSlot, SipLine, TypeOK, PjType
<1>2. PICK r : /\ pj' = [pj EXCEPT ![s] = r]
               /\ r = [st |-> IF s \in calls THEN "ended" ELSE st, media |-> FALSE,
                       nego |-> 1, hung |-> FALSE]
  BY DEF OpenSip
<1>3. SipLine(r) \in {"open", "over"}
  BY <1>2 DEF SipLine, ActiveSip
<1>4. SipGets(s, "open") \/ SipGets(s, "over")
  BY <1>2, <1>3, SipMove
<1>5. \A c \in Ctx : BoardOf(c).sip # s
  BY FreeIsUnused, EntryOf
<1> QED
  BY <1>1, <1>4, <1>5

LEMMA PjsuaSteps ==
    ASSUME TypeOK, SipInv, NEW s \in SipIds,
           \/ SipProgress(s) \/ SipDisconnect(s)
           \/ \E m \in BOOLEAN : SipMedia(s, m)
           \/ \E x \in Exts : SipIncoming(s, x)
    PROVE  BoardStep
<1>1. pj[s] \in PjType /\ SameBoard /\ SameTg
  BY SameEntries, SameLines DEF TypeOK, SipProgress, SipDisconnect, SipMedia, SipIncoming, SipSends
<1>2. CASE SipProgress(s) \/ \E m \in BOOLEAN : SipMedia(s, m)
  <2>1. PICK r : /\ pj' = [pj EXCEPT ![s] = r]
                 /\ \/ r \in {[pj[s] EXCEPT !.st = "early"], [pj[s] EXCEPT !.st = "confirmed"]}
                    \/ r = pj[s]
                    \/ \E m, n : r = [pj[s] EXCEPT !.media = m, !.nego = n]
                 /\ pj[s].st \in ActiveSip
    BY <1>1, <1>2 DEF SipProgress, SipMedia, ActiveSip, TypeOK
  <2>2. SipLine(r) = SipLine(pj[s])
    BY <1>1, <2>1 DEF SipLine, PjType, ActiveSip
  <2> QED
    BY <1>1, <2>1, <2>2, SipMove, Stutters
<1>3. CASE SipDisconnect(s)
  <2>1. PICK r : /\ pj' = [pj EXCEPT ![s] = r] /\ r = [pj[s] EXCEPT !.st = "ended"]
                 /\ pj[s].st \in ActiveSip
    BY <1>3 DEF SipDisconnect
  <2>2. CASE pj[s].hung
    <3>1. SipLine(r) = SipLine(pj[s])
      BY <1>1, <2>1, <2>2 DEF SipLine, PjType, ActiveSip
    <3> QED
      BY <1>1, <2>1, <3>1, SipMove, Stutters
  <2>3. CASE ~pj[s].hung
    <3>1. SipLine(r) = "over" /\ SipLine(pj[s]) = "open"
      BY <1>1, <2>1, <2>3 DEF SipLine, PjType, ActiveSip
    <3>2. SipGets(s, "over")
      BY <2>1, <3>1, SipMove
    <3> QED
      BY <1>1, <3>1, <3>2, StepsSipLine
  <2> QED
    BY <2>2, <2>3
<1>4. CASE \E x \in Exts : SipIncoming(s, x)
  <2>1. FreeSlot(s) /\ OpenSip(s, "incoming") /\ "incoming" \in ActiveSip
    BY <1>4 DEF SipIncoming, ActiveSip
  <2> QED
    BY <1>1, <2>1, OpensLine, StepsSipLine
<1> QED
  BY <1>2, <1>3, <1>4

-----------------------------------------------------------------------------
(* The handlers. *)

\* discardCall leaves a call that TDLib knows, Hangup one that is in the table.
LEMMA DiscardLeaves ==
    ASSUME TypeOK, NEW t \in TgIds, NEW q \in Seq(TgEvent), DiscardTg(t, q), td[t].st # "idle"
    PROVE  TgGets(t, "left")
<1>1. /\ \A x \in TgIds : x # t => td'[x] = td[x]
      /\ td'[t].asked
      /\ td'[t].st = td[t].st \/ td'[t].st = "hangup"
  BY ConstantsAssumption, DiscardFacts
<1>2. TgLine(td'[t]) = "left"
  BY <1>1 DEF TgLine
<1> QED
  BY <1>1, <1>2 DEF TgGets

LEMMA HangupLeaves ==
    ASSUME TypeOK, NEW s \in SipIds, NEW q, Hangup(s, q), s \in calls, pj[s].st # "free"
    PROVE  SipGets(s, "left")
<1>1. pj[s] \in PjType
  BY DEF TypeOK
<1>2. PICK r : /\ pj' = [pj EXCEPT ![s] = r]
               /\ r \in {[pj[s] EXCEPT !.st = "ended", !.hung = TRUE], [pj[s] EXCEPT !.hung = TRUE]}
  BY DEF Hangup
<1>3. SipLine(r) = "left"
  BY <1>1, <1>2 DEF SipLine, PjType
<1> QED
  BY <1>2, <1>3, SipMove

\* A bridge that enters X takes both its calls with it.
LEMMA TerminateSteps ==
    ASSUME LegsInv, NEW c \in Ctx, Live(c), NEW b, NEW i, NEW q \in Seq(TgEvent), NEW r,
           Terminate(c, b, i, q, r),
           \/ b.tg = bridges[c].tg
           \/ b.tg = NoTg /\ \A t \in TgIds : bridges[c].tg = t => td[t].st = "ended",
           \/ b.sip = bridges[c].sip
           \/ b.sip = NoSip /\ \A s \in SipIds : bridges[c].sip = s => pj[s].st = "ended"
    PROVE  BoardStep
<1>1. CASE Aborts
  BY <1>1, QuietStep DEF Aborts, Abort
<1>2. CASE /\ DiscardTg(b.tg, q) /\ Hangup(b.sip, r) /\ ctx_counter' = ctx_counter
           /\ bridges' = [bridges EXCEPT ![c] = NewContext]
  <2>1. /\ TypeOK /\ bridges[c].tg \in TgIds \cup {NoTg} /\ bridges[c].sip \in SipIds \cup {NoSip}
        /\ c <= ctx_counter
    <3>1. ~(c > ctx_counter)
      BY DEF LegsInv, ShapeInv, Live, NewContext
    <3> QED
      BY <3>1, ConstantsAssumption DEF LegsInv, TypeOK, BridgeType, Ctx
  <2>2. /\ BoardOf(c).tg = bridges[c].tg /\ BoardOf(c).sip = bridges[c].sip
        /\ BoardOf(c).stage \in {"setup", "talking"}
    BY <2>1, EntryOf
  <2>3. \/ TgGets(bridges[c].tg, "left")
        \/ SameTg /\ \A t \in TgIds : t = bridges[c].tg => TgLine(td[t]) # "open"
    <3>1. CASE b.tg = NoTg
      <4>1. SameTg
        BY <1>2, <3>1, SameLines DEF DiscardTg
      <4>2. \A t \in TgIds : t = bridges[c].tg => TgLine(td[t]) # "open"
        BY <3>1, ConstantsAssumption DEF TgLine
      <4> QED
        BY <4>1, <4>2
    <3>2. CASE b.tg # NoTg
      <4>1. b.tg = bridges[c].tg /\ b.tg \in TgIds /\ td[b.tg].st # "idle"
        BY <2>1, <3>2 DEF LegsInv, TgInv, KnownTg
      <4> QED
        BY <1>2, <2>1, <4>1, DiscardLeaves
    <3> QED
      BY <3>1, <3>2
  <2>4. \/ SipGets(bridges[c].sip, "left")
        \/ SameSip /\ \A s \in SipIds : s = bridges[c].sip => SipLine(pj[s]) # "open"
    <3>1. CASE b.sip = NoSip
      <4>1. SameSip
        BY <1>2, <2>1, <3>1, SameLines, ConstantsAssumption DEF Hangup, TypeOK
      <4>2. \A s \in SipIds : s = bridges[c].sip => SipLine(pj[s]) # "open"
        BY <3>1, ConstantsAssumption DEF SipLine
      <4> QED
        BY <4>1, <4>2
    <3>2. CASE b.sip # NoSip
      <4>1. b.sip = bridges[c].sip /\ b.sip \in SipIds /\ b.sip \in calls /\ pj[b.sip].st # "free"
        BY <2>1, <3>2 DEF LegsInv, SipInv, InTable, KnownSip
      <4> QED
        BY <1>2, <2>1, <4>1, HangupLeaves
    <3> QED
      BY <3>1, <3>2
  <2>5. Puts(c, Board!Entry("gone", NoTg, NoSip))
    BY <1>2, <2>1, PutsGone
  <2> QED
    BY <2>2, <2>3, <2>4, <2>5, StepsRemove
<1> QED
  BY <1>1, <1>2, Throws DEF Terminate, CleanUp

LEMMA InternalErrorSteps ==
    ASSUME LegsInv, ProcessInternalError
    PROVE  BoardStep
<1>1. PICK c : c = Head(internal_events).ctx
  OBVIOUS
<1>2. Head(internal_events) \in InternalEvent /\ tg_events \in Seq(TgEvent)
  BY TailElements DEF ProcessInternalError, PollInternal, LegsInv, TypeOK
<1>3. c \in Ctx
  BY <1>1, <1>2 DEF InternalEvent
<1>4. CASE UNCHANGED <<bridges, ctx_counter, pj, td>>
  BY <1>4, QuietStep
<1>5. CASE /\ bridges[c].top # "none"
           /\ Terminate(c, bridges[c], Tail(internal_events), tg_events, sip_events)
  <2>1. Live(c)
    BY <1>5 DEF Live
  <2> QED
    BY <1>2, <1>3, <1>5, <2>1, TerminateSteps
<1> QED
  BY <1>1, <1>4, <1>5 DEF ProcessInternalError

LEMMA DialSipSteps ==
    ASSUME LegsInv, NEW e \in TgEvent, e.type = "updateCall", e \in Elements(tg_events),
           WithTg(e.id) = {}, NEW q, DialSip(e, q)
    PROVE  BoardStep
<1>1. CASE Aborts
  BY <1>1, QuietStep DEF Aborts, Abort
<1>2. CASE ~Aborts
  <2>1. PICK b : b = [NewContext EXCEPT !.top = "from_tg", !.sub = "sip_wait_media",
                                        !.tg = e.id, !.user = e.user]
    OBVIOUS
  <2>2. PICK c \in Ctx : NewCtx(c) /\ DialCallbackUri(c, b) /\ td' = td
    BY <1>2, <2>1, Throws DEF DialSip
  <2>3. /\ TypeOK /\ SipInv /\ e.id \in TgIds /\ td[e.id].st # "idle"
        /\ \A d \in Ctx : bridges[d].tg # e.id
    BY TgEventFields DEF LegsInv, TgInv, KnownTg, WithTg
  <2>4. /\ BoardOf(c).stage = "unused" /\ SameTg /\ TgLine(td[e.id]) # "idle"
        /\ \A d \in Ctx : BoardOf(d).tg # e.id
    BY <2>2, <2>3, EntryOf, SameLines DEF NewCtx, TgLine
  <2>5. /\ b.top # "none" /\ b.sub # "wait_dtmf" /\ b.tg = e.id /\ b.sip = NoSip
        /\ \A s : /\ [b EXCEPT !.sip = s].top # "none" /\ [b EXCEPT !.sip = s].sub # "wait_dtmf"
                  /\ [b EXCEPT !.sip = s].tg = e.id /\ [b EXCEPT !.sip = s].sip = s
    BY <2>1 DEF NewContext
  <2>6. CASE bridges' = [bridges EXCEPT ![c] = b] /\ pj' = pj
    <3>1. Puts(c, Board!Entry("setup", e.id, NoSip))
      BY <2>2, <2>3, <2>5, <2>6, PutsBridge
    <3> QED
      BY <2>3, <2>4, <2>6, <3>1, SameLines, StepsTakeTg
  <2>7. CASE \E s \in SipIds : /\ FreeSlot(s) /\ OpenSip(s, "calling")
                               /\ bridges' = [bridges EXCEPT ![c] = [b EXCEPT !.sip = s]]
    <3>1. PICK s \in SipIds : /\ FreeSlot(s) /\ OpenSip(s, "calling")
                              /\ bridges' = [bridges EXCEPT ![c] = [b EXCEPT !.sip = s]]
      BY <2>7
    <3>2. Puts(c, Board!Entry("setup", e.id, s))
      BY <2>2, <2>3, <2>5, <3>1, PutsBridge
    <3>3. /\ SipLine(pj[s]) # "open" /\ (SipGets(s, "open") \/ SipGets(s, "over"))
          /\ \A d \in Ctx : BoardOf(d).sip # s
      BY <2>3, <3>1, OpensLine DEF ActiveSip
    <3> QED
      BY <2>3, <2>4, <3>2, <3>3, StepsTakeTg
  <2> QED
    BY <2>2, <2>6, <2>7 DEF DialCallbackUri
<1> QED
  BY <1>1, <1>2

\* The voice call of a bridge goes on; pjsua and TDLib change the state of a
\* call that stays open.
LEMMA ReadySteps ==
    ASSUME LegsInv, NEW c \in Ctx, Live(c), c <= ctx_counter, bridges[c].sub = "wait_tg",
           bridges[c].tg # NoTg, NEW e, NEW q, TgReadyInBridge(c, e, q)
    PROVE  BoardStep
<1>1. CASE Aborts
  BY <1>1, QuietStep DEF Aborts, Abort
<1>2. CASE ~Aborts
  <2>1. TypeOK /\ bridges[c] \in BridgeType /\ bridges[c].sip # NoSip
    BY DEF LegsInv, TypeOK, ShapeInv, Consistent
  <2>2. td' = td /\ ctx_counter' = ctx_counter
    BY <1>2, Throws DEF TgReadyInBridge
  <2>3. CASE BridgeAudio(c, [bridges[c] EXCEPT !.sub = "wait_dtmf", !.ctl = TRUE]) /\ pj' = pj
    <3>1. PICK d : d = [bridges[c] EXCEPT !.sub = "wait_dtmf", !.ctl = TRUE]
      OBVIOUS
    <3>2. PICK b, n : /\ b = d \/ b = [d EXCEPT !.aud = n]
                      /\ bridges' = [bridges EXCEPT ![c] = b] /\ pj' = pj
      BY <2>3, <3>1 DEF BridgeAudio
    <3>3. /\ d \in BridgeType /\ d.top # "none" /\ d.sub = "wait_dtmf" /\ d.tg = bridges[c].tg
          /\ d.sip = bridges[c].sip
      BY <2>1, <3>1 DEF BridgeType, Live, Subs
    <3>4. /\ b.top # "none" /\ b.sub = "wait_dtmf" /\ b.tg = bridges[c].tg
          /\ b.sip = bridges[c].sip
      BY <3>2, <3>3 DEF BridgeType
    <3>5. Puts(c, Board!Entry("talking", bridges[c].tg, bridges[c].sip))
      BY <2>1, <2>2, <3>2, <3>4, PutsBridge
    <3> QED
      BY <2>1, <2>2, <3>2, <3>5, EntryOf, SameLines, StepsTalk
  <2>4. CASE AnswerSip(c, [bridges[c] EXCEPT !.sub = "sip_wait_media", !.ctl = TRUE,
                                             !.user = e.user])
    <3>1. PICK b : b = [bridges[c] EXCEPT !.sub = "sip_wait_media", !.ctl = TRUE, !.user = e.user]
      OBVIOUS
    <3>2. /\ b.top = bridges[c].top /\ b.sub = "sip_wait_media" /\ b.tg = bridges[c].tg
          /\ b.sip = bridges[c].sip /\ b.sip \in SipIds
      BY <2>1, <3>1 DEF BridgeType
    <3>3. /\ bridges' = [bridges EXCEPT ![c] = b]
          /\ \/ pj' = pj
             \/ /\ pj[b.sip].st \in ActiveSip
                /\ pj' = [pj EXCEPT ![b.sip] = [pj[b.sip] EXCEPT !.st = "confirmed"]]
      BY <2>4, <3>1 DEF AnswerSip, Answers
    <3>4. SameBoard
      BY <2>1, <2>2, <3>2, <3>3, GoesOn
    <3>5. pj[b.sip].st \in ActiveSip
             => SipLine([pj[b.sip] EXCEPT !.st = "confirmed"]) = SipLine(pj[b.sip])
      BY <2>1, <3>2 DEF TypeOK, PjType, SipLine, ActiveSip
    <3>6. SameSip
      BY <2>1, <3>2, <3>3, <3>5, SipMove, SameLines
    <3> QED
      BY <2>2, <3>4, <3>6, SameLines, Stutters
  <2> QED
    BY <1>2, <2>3, <2>4, Throws DEF TgReadyInBridge
<1> QED
  BY <1>1, <1>2

LEMMA UpdateCallSteps ==
    ASSUME LegsInv, ProcessUpdateCall
    PROVE  BoardStep
<1>1. PICK e, q, c : e = Head(tg_events) /\ q = Tail(tg_events) /\ c = First(WithTg(e.id))
  OBVIOUS
<1>2. /\ TypeOK /\ ShapeInv /\ e \in TgEvent /\ e.type = "updateCall" /\ q \in Seq(TgEvent)
      /\ e \in Elements(tg_events)
  BY <1>1, TailElements DEF ProcessUpdateCall, PollTg, LegsInv, TypeOK
<1>3. /\ e.id \in TgIds /\ td[e.id].st # "idle"
      /\ IsTgEnd(e) => td[e.id].st = "ended"
  BY <1>2, TgEventFields DEF LegsInv, TgInv, KnownTg, EndsAreEnds
<1>4. CASE UNCHANGED <<bridges, ctx_counter, pj, td>>
  BY <1>4, QuietStep
<1>5. CASE WithTg(e.id) = {} /\ DialSip(e, q)
  BY <1>2, <1>5, DialSipSteps
<1>6. CASE /\ CleanUp([NewContext EXCEPT !.tg = e.id], q, sip_events)
           /\ UNCHANGED <<bridges, ctx_counter>> /\ WithTg(e.id) = {}
  <2>1. DiscardTg(e.id, q) /\ Hangup(NoSip, sip_events) /\ NoSip \notin calls
    BY <1>2, <1>6, ConstantsAssumption DEF CleanUp, NewContext, TypeOK
  <2>2. SameSip /\ SameBoard
    BY <1>6, <2>1, SameLines, SameEntries DEF Hangup
  <2>3. TgGets(e.id, "left") /\ TgLine(td[e.id]) # "idle"
    BY <1>2, <1>3, <2>1, DiscardLeaves DEF TgLine
  <2>4. \A d \in Ctx : BoardOf(d).tg # e.id
    BY <1>2, <1>6, EntryOf DEF WithTg
  <2> QED
    BY <1>3, <2>2, <2>3, <2>4, StepsTgLine
<1>7. ASSUME WithTg(e.id) # {}
      PROVE  /\ c \in Ctx /\ bridges[c] \in BridgeType /\ bridges[c].tg = e.id
             /\ Live(c) /\ c <= ctx_counter /\ bridges[c].tg # NoTg
  BY <1>1, <1>2, <1>3, <1>7, FoundByTg, ConstantsAssumption
<1>8. CASE WithTg(e.id) # {} /\ bridges[c].sub = "wait_tg" /\ TgReadyInBridge(c, e, q)
  BY <1>7, <1>8, ReadySteps
<1>9. CASE /\ WithTg(e.id) # {} /\ IsTgEnd(e)
           /\ Terminate(c, CleanTgId(bridges[c]), internal_events, q, sip_events)
  <2>1. CleanTgId(bridges[c]).tg = NoTg /\ CleanTgId(bridges[c]).sip = bridges[c].sip
    BY <1>7, <1>9 DEF CleanTgId, BridgeType
  <2>2. \A t \in TgIds : bridges[c].tg = t => td[t].st = "ended"
    BY <1>3, <1>7, <1>9
  <2> QED
    BY <1>2, <1>7, <1>9, <2>1, <2>2, TerminateSteps
<1> QED
  <2>1. CASE WithTg(e.id) = {}
    BY <2>1, <1>1, <1>4, <1>5, <1>6 DEF ProcessUpdateCall, UpdateCallInInit
  <2>2. CASE WithTg(e.id) # {}
    BY <2>2, <1>1, <1>4, <1>8, <1>9 DEF ProcessUpdateCall, UpdateCallInBridge
  <2> QED
    BY <2>1, <2>2

LEMMA IncomingCallSteps ==
    ASSUME LegsInv, ProcessIncomingCall
    PROVE  BoardStep
<1>1. PICK e, q : e = Head(sip_events) /\ q = Tail(sip_events)
  OBVIOUS
<1>2. TypeOK /\ e \in SipEvent /\ e \in Elements(sip_events)
  BY <1>1, TailElements DEF ProcessIncomingCall, PollSip, LegsInv, TypeOK
<1>3. e.id \in SipIds /\ pj[e.id] \in PjType /\ pj[e.id].st # "free"
  BY <1>2, SipEventFields DEF LegsInv, TypeOK, SipInv, KnownSip
<1>4. CASE UNCHANGED <<bridges, ctx_counter, pj, td>>
  BY <1>4, QuietStep
<1>5. CASE WithSip(e.id) = {} /\ AcceptIncomingSip(e, q)
  <2>1. PICK b : b = [NewContext EXCEPT !.top = "from_sip", !.sub = "sip_wait_confirm",
                         !.sip = e.id,
                         !.user = IF e.extension \in Users THEN e.extension ELSE NoUser]
    OBVIOUS
  <2>2. PICK c \in Ctx :
           /\ NewCtx(c) /\ bridges' = [bridges EXCEPT ![c] = b] /\ td' = td
           /\ \/ pj' = pj
              \/ /\ pj[e.id].st \in ActiveSip
                 /\ pj' = [pj EXCEPT ![e.id] = [pj[e.id] EXCEPT !.st = "ringing"]]
    BY <1>5, <2>1 DEF AcceptIncomingSip, Answers
  <2>3. b.top # "none" /\ b.sub # "wait_dtmf" /\ b.tg = NoTg /\ b.sip = e.id
    BY <2>1 DEF NewContext
  <2>4. Puts(c, Board!Entry("setup", NoTg, e.id))
    BY <1>2, <2>2, <2>3, PutsBridge
  <2>5. pj[e.id].st \in ActiveSip
           => SipLine([pj[e.id] EXCEPT !.st = "ringing"]) = SipLine(pj[e.id])
    BY <1>3 DEF PjType, SipLine, ActiveSip
  <2>6. SameSip /\ SameTg
    BY <1>2, <1>3, <2>2, <2>5, SipMove, SameLines
  <2>7. SipLine(pj[e.id]) # "idle" /\ BoardOf(c).stage = "unused"
    BY <1>2, <1>3, <2>2, EntryOf DEF SipLine, NewCtx
  <2>8. \A d \in Ctx : BoardOf(d).sip # e.id
    BY <1>2, <1>5, EntryOf DEF WithSip
  <2> QED
    BY <1>3, <2>4, <2>6, <2>7, <2>8, StepsTakeSip
<1> QED
  BY <1>1, <1>4, <1>5 DEF ProcessIncomingCall

LEMMA DialTgSteps ==
    ASSUME LegsInv, NEW c \in Ctx, Live(c), c <= ctx_counter,
           bridges[c].sub = "sip_wait_confirm", NEW q, DialTgReturns(c, q)
    PROVE  BoardStep
<1>1. TypeOK /\ bridges[c] \in BridgeType /\ bridges[c].tg = NoTg
  BY DEF LegsInv, TypeOK, ShapeInv, Consistent
<1>2. PICK b : b = [bridges[c] EXCEPT !.sub = "wait_tg"]
  OBVIOUS
<1>3. /\ b.top = bridges[c].top /\ b.sub = "wait_tg" /\ b.tg = NoTg /\ b.sip = bridges[c].sip
      /\ b \in BridgeType
  BY <1>1, <1>2 DEF BridgeType, Subs
<1>4. ctx_counter' = ctx_counter /\ pj' = pj
  BY DEF DialTgReturns
<1>5. CASE \E t \in TgIds, u \in Users :
             /\ td[t].st = "idle"
             /\ td' = [td EXCEPT ![t] = [st |-> "pending", out |-> TRUE, user |-> u,
                                         asked |-> FALSE, received |-> FALSE]]
             /\ bridges' = [bridges EXCEPT ![c] = [b EXCEPT !.user = u, !.tg = t]]
  <2>1. PICK t \in TgIds, u \in Users :
             /\ td[t].st = "idle"
             /\ td' = [td EXCEPT ![t] = [st |-> "pending", out |-> TRUE, user |-> u,
                                         asked |-> FALSE, received |-> FALSE]]
             /\ bridges' = [bridges EXCEPT ![c] = [b EXCEPT !.user = u, !.tg = t]]
    BY <1>5
  <2>2. PICK n : n = [b EXCEPT !.user = u, !.tg = t]
    OBVIOUS
  <2>3. n.top # "none" /\ n.sub # "wait_dtmf" /\ n.tg = t /\ n.sip = bridges[c].sip
    BY <1>3, <2>2 DEF BridgeType, Live
  <2>4. Puts(c, Board!Entry("setup", t, bridges[c].sip))
    BY <1>1, <1>4, <2>1, <2>2, <2>3, PutsBridge
  <2>5. /\ TgLine(td[t]) = "idle"
        /\ TgLine([st |-> "pending", out |-> TRUE, user |-> u, asked |-> FALSE,
                   received |-> FALSE]) = "open"
    BY <2>1 DEF TgLine
  <2>6. TgGets(t, "open")
    BY <1>1, <2>1, <2>5, TgMove
  <2> QED
    BY <1>1, <1>4, <2>4, <2>5, <2>6, EntryOf, SameLines, StepsDial
<1>6. CASE /\ td' = td
           /\ \/ bridges' = [bridges EXCEPT ![c] = b]
              \/ \E u : bridges' = [bridges EXCEPT ![c] = [b EXCEPT !.user = u]]
  <2>1. PICK n : /\ bridges' = [bridges EXCEPT ![c] = n]
                 /\ n = b \/ \E u : n = [b EXCEPT !.user = u]
    BY <1>6
  <2>2. /\ n.top = bridges[c].top /\ n.sub = "wait_tg" /\ n.tg = bridges[c].tg
        /\ n.sip = bridges[c].sip
    BY <1>1, <1>3, <2>1 DEF BridgeType
  <2>3. SameBoard
    BY <1>1, <1>4, <2>1, <2>2, GoesOn
  <2> QED
    BY <1>4, <1>6, <2>3, SameLines, Stutters
<1>7. PICK U : U = IF b.user = NoUser THEN Users ELSE {b.user}
  OBVIOUS
<1>8. U \subseteq Users
  BY <1>3, <1>7 DEF BridgeType
<1> QED
  BY <1>2, <1>5, <1>6, <1>7, <1>8 DEF DialTgReturns

LEMMA CallStateSteps ==
    ASSUME LegsInv, ProcessCallStateUpdate
    PROVE  BoardStep
<1>1. PICK e, q, c : e = Head(sip_events) /\ q = Tail(sip_events) /\ c = First(WithSip(e.id))
  OBVIOUS
<1>2. /\ TypeOK /\ ShapeInv /\ e \in SipEvent /\ e \in Elements(sip_events)
      /\ e.type = "CallStateUpdate" /\ tg_events \in Seq(TgEvent)
  BY <1>1, TailElements DEF ProcessCallStateUpdate, PollSip, LegsInv, TypeOK
<1>3. e.id \in SipIds
  BY <1>2, SipEventFields
<1>4. CASE UNCHANGED <<bridges, ctx_counter, pj, td>>
  BY <1>4, QuietStep
<1>5. ASSUME WithSip(e.id) # {}
      PROVE  /\ c \in Ctx /\ bridges[c] \in BridgeType /\ bridges[c].sip = e.id
             /\ Live(c) /\ c <= ctx_counter
  BY <1>1, <1>2, <1>3, <1>5, FoundBySip
<1>6. CASE WithSip(e.id) # {} /\ DialsOnEarly(bridges[c], e) /\ DialTgReturns(c, q)
  BY <1>5, <1>6, DialTgSteps DEF DialsOnEarly
<1>7. CASE /\ WithSip(e.id) # {} /\ e.state = "DISCONNECTED"
           /\ Terminate(c, CleanSipId(bridges[c]), internal_events, tg_events, q)
  <2>1. CleanSipId(bridges[c]).sip = NoSip /\ CleanSipId(bridges[c]).tg = bridges[c].tg
    BY <1>5, <1>7 DEF CleanSipId, BridgeType
  <2>2. e = CallStateUpdate(e.id, "DISCONNECTED")
    BY <1>2, <1>7 DEF SipEvent, CallStateUpdate
  <2>3. pj[e.id].st = "ended"
    BY <1>2, <1>3, <2>2 DEF LegsInv, LegInv, SlotInv, DisconnectedIsEnded, StateQueued
  <2> QED
    BY <1>2, <1>5, <1>7, <2>1, <2>3, TerminateSteps
<1>8. CASE Abort("stoi")
  BY <1>8, QuietStep DEF Abort
<1> QED
  BY <1>1, <1>4, <1>6, <1>7, <1>8 DEF ProcessCallStateUpdate, DialTg

LEMMA MediaStateSteps ==
    ASSUME LegsInv, ProcessCallMediaStateUpdate
    PROVE  BoardStep
<1>1. PICK e, c : e = Head(sip_events) /\ c = First(WithSip(e.id))
  OBVIOUS
<1>2. TypeOK /\ ShapeInv /\ e \in SipEvent
  BY <1>1, TailElements DEF ProcessCallMediaStateUpdate, PollSip, LegsInv, TypeOK
<1>3. e.id \in SipIds
  BY <1>2, SipEventFields
<1>4. ctx_counter' = ctx_counter /\ pj' = pj
  BY DEF ProcessCallMediaStateUpdate
<1>5. CASE UNCHANGED <<bridges, td>>
  BY <1>4, <1>5, QuietStep
<1>6. ASSUME WithSip(e.id) # {}
      PROVE  /\ c \in Ctx /\ bridges[c] \in BridgeType /\ bridges[c].sip = e.id
             /\ Live(c) /\ c <= ctx_counter /\ bridges[c].sip # NoSip
  BY <1>1, <1>2, <1>3, <1>6, FoundBySip, ConstantsAssumption
<1>7. CASE WithSip(e.id) # {} /\ bridges[c].sub = "sip_wait_media" /\ AnswerTg(c)
  <2>1. PICK b : b = [bridges[c] EXCEPT !.sub = "wait_tg"]
    OBVIOUS
  <2>2. /\ b.top = bridges[c].top /\ b.sub = "wait_tg" /\ b.tg = bridges[c].tg
        /\ b.sip = bridges[c].sip
    BY <1>6, <1>7, <2>1 DEF BridgeType
  <2>3. /\ bridges' = [bridges EXCEPT ![c] = b]
        /\ \/ td' = td
           \/ /\ td[bridges[c].tg].st = "pending"
              /\ td' = [td EXCEPT ![bridges[c].tg] =
                          [td[bridges[c].tg] EXCEPT !.st = "accepted"]]
    BY <1>7, <2>1 DEF AnswerTg
  <2>4. SameBoard
    BY <1>2, <1>4, <1>6, <1>7, <2>2, <2>3, GoesOn
  <2>5. SameTg
    <3>1. CASE td' = td
      BY <3>1, SameLines
    <3>2. CASE td' # td
      <4>1. PICK t : t = bridges[c].tg
        OBVIOUS
      <4>2. t \in TgIds /\ td[t] \in TdType /\ td[t].st = "pending"
        BY <1>2, <1>6, <1>7, <2>3, <3>2, <4>1 DEF TypeOK, BridgeType
      <4>3. TgLine([td[t] EXCEPT !.st = "accepted"]) = TgLine(td[t])
        BY <4>2 DEF TgLine, TdType
      <4> QED
        BY <1>2, <2>3, <3>2, <4>1, <4>2, <4>3, TgMove
    <3> QED
      BY <3>1, <3>2
  <2> QED
    BY <1>4, <2>4, <2>5, SameLines, Stutters
<1>8. CASE /\ WithSip(e.id) # {} /\ bridges[c].sub = "sip_wait_media"
           /\ bridges[c].top = "from_sip" /\ td' = td
           /\ BridgeAudio(c, [bridges[c] EXCEPT !.sub = "wait_dtmf"])
  <2>1. bridges[c].tg # NoTg
    BY <1>6, <1>8 DEF LegsInv, LegInv, Served, Linked
  <2>2. PICK b, n : /\ bridges' = [bridges EXCEPT ![c] = b]
                    /\ b \in {[bridges[c] EXCEPT !.sub = "wait_dtmf"],
                              [[bridges[c] EXCEPT !.sub = "wait_dtmf"] EXCEPT !.aud = n]}
    BY <1>8 DEF BridgeAudio
  <2>3. /\ b.top # "none" /\ b.sub = "wait_dtmf" /\ b.tg = bridges[c].tg
        /\ b.sip = bridges[c].sip
    BY <1>6, <1>8, <2>2 DEF BridgeType, Live
  <2>4. Puts(c, Board!Entry("talking", bridges[c].tg, bridges[c].sip))
    BY <1>2, <1>4, <1>6, <1>8, <2>2, <2>3, PutsBridge
  <2> QED
    BY <1>2, <1>4, <1>6, <1>8, <2>1, <2>4, EntryOf, SameLines, StepsTalk
<1> QED
  BY <1>1, <1>5, <1>7, <1>8 DEF ProcessCallMediaStateUpdate

-----------------------------------------------------------------------------

LEMMA StepBoard ==
    LegsInv /\ [Next]_vars => BoardStep
<1> SUFFICES ASSUME LegsInv, [Next]_vars PROVE BoardStep
  OBVIOUS
<1>1. TypeOK /\ SipInv
  BY DEF LegsInv
<1>2. CASE UNCHANGED <<bridges, ctx_counter, pj, td>>
  BY <1>2, QuietStep
<1>3. CASE Loop
  <2>1. PollEmpty \/ LeaveLoop \/ ProcessSignalingDataEmitted \/ ProcessUpdateNewMessage
        \/ ProcessUpdateNewCallSignalingData => UNCHANGED <<bridges, ctx_counter, pj, td>>
    BY DEF PollEmpty, LeaveLoop, ProcessSignalingDataEmitted, ProcessUpdateNewMessage,
           ProcessUpdateNewCallSignalingData, Abort
  <2> QED
    BY <1>2, <1>3, <2>1, InternalErrorSteps, UpdateCallSteps, IncomingCallSteps,
       CallStateSteps, MediaStateSteps DEF Loop
<1>4. CASE Others
  <2>1. ASSUME \/ \E t \in TgIds : TgSignaling(t)
               \/ \E u \in Users, x \in Contents : TgMessage(u, x)
               \/ \E c \in Ctx : EmitSignaling(c)
               \/ Signal
        PROVE  UNCHANGED <<bridges, ctx_counter, pj, td>>
    BY <2>1 DEF TgSignaling, TgMessage, TgSends, EmitSignaling, Signal
  <2> QED
    BY <1>1, <1>2, <1>4, <2>1, TdLibSteps, PjsuaSteps DEF Others
<1>5. CASE Halted \/ UNCHANGED vars
  BY <1>2, <1>5 DEF Halted, vars
<1> QED
  BY <1>3, <1>4, <1>5 DEF Next

\* The gateway keeps the promises of Switchboard, for every number of calls,
\* contexts and slots, with failing requests, reused slots and a shutdown: a
\* handler maps to one step of the board or to none.
THEOREM KeepsTheBoard == Spec => ImplementsSwitchboard
<1>1. Init => Board!Init
  <2> SUFFICES ASSUME Init PROVE Board!Init
    OBVIOUS
  <2>1. \A c \in Ctx : BoardOf(c) = Board!Entry("unused", NoTg, NoSip)
    BY ConstantsAssumption DEF Init, BoardOf, Stage, Ctx, NewContext, Board!Entry
  <2>2. \A t \in TgIds : TgLine(td[t]) = "idle"
    BY DEF Init, TgLine
  <2>3. \A s \in SipIds : SipLine(pj[s]) = "idle"
    BY DEF Init, SipLine
  <2> QED
    BY <2>1, <2>2, <2>3 DEF Board!Init
<1>2. LegsInv /\ [Next]_vars => [Board!Next]_Mapped
  BY StepBoard DEF BoardStep
<1> QED
  BY <1>1, <1>2, LegsHold, PTL DEF Spec, ImplementsSwitchboard, Board!Spec, Mapped

=============================================================================
