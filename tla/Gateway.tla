------------------------------ MODULE Gateway ------------------------------
(***************************************************************************)
(* The call gateway of tg2sip (src/tg2sip/gateway.cpp, gateway.h, queue.h  *)
(* and the call table of src/tg2sip/sip.cpp).                              *)
(*                                                                         *)
(* One thread, the Gateway loop, owns a vector of bridges.  A bridge joins *)
(* a Telegram call and a SIP call and is driven by a Boost.SML state       *)
(* machine.  Other threads (TDLib's receiver, PJSIP's workers, ntgcalls'   *)
(* workers) only append to three FIFO queues, which the loop polls once    *)
(* each per tick in the order internal, tg, sip.  A handler is one action  *)
(* here: it runs on the loop thread to its end, and while it waits for a   *)
(* TDLib answer the other threads only append to queues and move their own *)
(* calls, which commutes with the part of the handler before the wait.     *)
(*                                                                         *)
(* TDLib and pjsua2 are external: td and pj are what the gateway's source  *)
(* relies on about them.                                                   *)
(***************************************************************************)
EXTENDS Naturals, Sequences, FiniteSets

CONSTANTS
    TgIds,        \* TDLib call ids; TDLib never reuses one
    SipIds,       \* pjsua call slots
    Users,        \* Telegram users
    NoTg,         \* tg_call_id = 0
    NoSip,        \* sip_call_id = PJSUA_INVALID_ID
    NoUser,       \* user_id = 0
    MaxCtx,       \* bound: contexts that become a bridge
    MaxQueue,     \* bound: the other threads append only to shorter queues
    MaxMedia,     \* bound: media states of a SIP session, the first one included
    CallbackUri,  \* TRUE iff settings.callback_uri() is not empty
    Exts,         \* extensions SIP callers dial: users, "name", "invalid"
    Contents,     \* contents of chat messages: "dtmf", "text", "other"
    Signals,      \* TRUE iff signalling data flows
    Stops,        \* TRUE iff SIGINT or SIGTERM may arrive
    Faults,       \* TRUE iff the calls that nothing expects to fail may fail
    ReuseSlots    \* TRUE iff pjsua hands out the slot of an ended call again

ASSUME ConstantsAssumption ==
    /\ NoTg \notin TgIds /\ NoSip \notin SipIds /\ NoUser \notin Users
    /\ MaxCtx \in Nat /\ MaxQueue \in Nat /\ MaxMedia \in Nat \ {0}
    /\ {CallbackUri, Signals, Stops, Faults, ReuseSlots} \subseteq BOOLEAN
    /\ Exts \subseteq Users \cup {"name", "invalid"}
    /\ {"name", "invalid"} \cap Users = {}
    /\ Contents \subseteq {"dtmf", "text", "other"}

VARIABLES
    up,              \* "running", "stopped" (loop left) or what was thrown
    e_flag,          \* set by the signal handler
    phase,           \* the queue the loop polls next
    bridges,         \* Gateway::bridges, by context id, hence in vector order
    ctx_counter,     \* contexts that became a bridge so far
    internal_events, tg_events, sip_events,
    calls,           \* keys of sip::Client::calls
    pj,              \* pjsua's view of each slot
    td               \* TDLib's view of each call

loopVars == <<up, e_flag, phase>>
vars == <<loopVars, bridges, ctx_counter, internal_events, tg_events,
          sip_events, calls, pj, td>>

-----------------------------------------------------------------------------
(* Data. *)

Ctx == 1..MaxCtx

Tops == {"none", "from_tg", "from_sip"}
Subs == {"none", "sip_wait_confirm", "sip_wait_media", "wait_tg", "wait_dtmf"}

\* A Bridge with its Context: the state of the machine and of the composite
\* it is in, the two call ids, the user, whether the voip controller exists
\* and the media of the SIP session its ports were linked with (0: none).
BridgeType ==
    [top : Tops, sub : Subs, tg : TgIds \cup {NoTg}, sip : SipIds \cup {NoSip},
     user : Users \cup {NoUser}, ctl : BOOLEAN, aud : 0..MaxMedia]

\* MUTANT: the SIP id starts as 0 like the Telegram id.
NewContext_ZeroSip ==
    [top |-> "none", sub |-> "none", tg |-> NoTg, sip |-> NoTg,
     user |-> NoUser, ctl |-> FALSE, aud |-> 0]

\* A default constructed Context; also what stands for "no such bridge".
NewContext ==
    [top |-> "none", sub |-> "none", tg |-> NoTg, sip |-> NoSip,
     user |-> NoUser, ctl |-> FALSE, aud |-> 0]

\* pjsua: an outgoing session is calling, early, confirmed; an incoming one
\* incoming, ringing, confirmed.  media: there is audio; nego counts the media
\* states: a renegotiated one has a new conference port, which has no links.
\* hung: the gateway asked to hang it up.
ActiveSip == {"calling", "early", "incoming", "ringing", "confirmed"}
PjType ==
    [st : {"free", "ended"} \cup ActiveSip, media : BOOLEAN,
     nego : 1..MaxMedia, hung : BOOLEAN]

\* TDLib: exchanging keys is "accepted"; asked: discardCall was sent;
\* received: the second update of a pending call (is_received) was sent.
ActiveTg == {"pending", "accepted", "ready"}
TdType ==
    [st : {"idle", "hangup", "ended"} \cup ActiveTg, out : BOOLEAN,
     user : Users \cup {NoUser}, asked : BOOLEAN, received : BOOLEAN]

InternalEvent == [type : {"InternalError", "SignalingDataEmitted"}, ctx : Ctx]
TgEvent ==
    [type : {"updateCall"}, id : TgIds, out : BOOLEAN,
     user : Users \cup {NoUser},
     state : {"pending", "ready", "hangup", "discarded", "error"}]
    \cup [type : {"updateNewMessage"}, user : Users, content : Contents]
    \cup [type : {"updateNewCallSignalingData"}, id : TgIds]
SipEvent ==
    [type : {"IncomingCall"}, id : SipIds, extension : Exts]
    \cup [type : {"CallStateUpdate"}, id : SipIds,
          state : {"EARLY", "CONFIRMED", "DISCONNECTED"}]
    \cup [type : {"CallMediaStateUpdate"}, id : SipIds, has_media : BOOLEAN]

InternalError(c) == [type |-> "InternalError", ctx |-> c]
UpdateCall(t, s, o, u) ==
    [type |-> "updateCall", id |-> t, out |-> o, user |-> u, state |-> s]
CallStateUpdate(s, st) ==
    [type |-> "CallStateUpdate", id |-> s, state |-> st]

Elements(q) == {q[i] : i \in 1..Len(q)}

\* What ends the process when it throws: getUser's answer is taken for a user,
\* Start and Stop of the controller, stoi of a delay that is no int, and the
\* call table's CALL_NOT_FOUND.
Thrown == {"getUser", "Start", "Stop", "stoi", "CALL_NOT_FOUND"}

TypeOK ==
    /\ up \in {"running", "stopped"} \cup Thrown
    /\ e_flag \in BOOLEAN
    /\ phase \in {"internal", "tg", "sip"}
    /\ bridges \in [Ctx -> BridgeType]
    /\ ctx_counter \in 0..MaxCtx
    /\ internal_events \in Seq(InternalEvent)
    /\ tg_events \in Seq(TgEvent)
    /\ sip_events \in Seq(SipEvent)
    /\ calls \subseteq SipIds
    /\ pj \in [SipIds -> PjType]
    /\ td \in [TgIds -> TdType]

Init ==
    /\ up = "running" /\ e_flag = FALSE /\ phase = "internal"
    /\ bridges = [c \in Ctx |-> NewContext]
    /\ ctx_counter = 0
    /\ internal_events = <<>> /\ tg_events = <<>> /\ sip_events = <<>>
    /\ calls = {}
    /\ pj = [s \in SipIds |-> [st |-> "free", media |-> FALSE, nego |-> 1,
                               hung |-> FALSE]]
    /\ td = [t \in TgIds |-> [st |-> "idle", out |-> FALSE, user |-> NoUser,
                              asked |-> FALSE, received |-> FALSE]]

-----------------------------------------------------------------------------
(* Pieces of handlers.  A piece that appends to the queue it was popped    *)
(* from takes the rest of that queue as a parameter.                       *)

\* An exception leaves an action of the state machine: process_event is
\* noexcept there, so the process ends in std::terminate.
Abort(why) ==
    /\ up' = why
    /\ UNCHANGED <<bridges, ctx_counter, internal_events, tg_events,
                   sip_events, calls, pj, td>>

\* A slot for a new session.  pjsua goes round its PJSUA_MAX_CALLS slots.  It is
\* an assumption that the slot of an ended call comes round again only when the
\* events of that call were handled and no bridge has it: a bridge whose session
\* was lost (OpenSip) has no event, and has it until Telegram ends the call that
\* rings unanswered.
FreeSlot(s) ==
    \/ pj[s].st = "free"
    \/ /\ ReuseSlots /\ pj[s].st = "ended"
       /\ \A c \in Ctx : bridges[c].sip # s
       /\ \A e \in Elements(sip_events) : e.id # s

\* pjsua takes slot s for a new session in state st and the new sip::Call
\* goes into calls.  emplace keeps an entry that is already there; then the
\* new Call is destroyed at once, and with it the session, without an event.
OpenSip(s, st) ==
    /\ calls' = calls \cup {s}
    /\ pj' = [pj EXCEPT ![s] = [st |-> IF s \in calls THEN "ended" ELSE st,
                                media |-> FALSE, nego |-> 1, hung |-> FALSE]]

\* discardCall and its answer; an error answer is only logged.
DiscardTg(t, tgq) ==
    \/ t = NoTg /\ td' = td /\ tg_events' = tgq
    \/ /\ t # NoTg /\ td[t].st \in ActiveTg
       /\ td' = [td EXCEPT ![t] = [@ EXCEPT !.st = "hangup", !.asked = TRUE]]
       /\ tg_events' = Append(tgq, UpdateCall(t, "hangup", td[t].out, td[t].user))
    \/ /\ t # NoTg /\ (Faults \/ td[t].st \notin ActiveTg)
       /\ td' = [td EXCEPT ![t] = [@ EXCEPT !.asked = TRUE]]
       /\ tg_events' = tgq

\* sip::Client::Hangup.  hangup() of an ended session throws before the entry
\* is erased; of an active one it ends the session, and pjsua may or may not
\* report DISCONNECTED before the Call object is gone.
Hangup(s, sipq) ==
    \/ s \notin calls /\ UNCHANGED <<calls, pj>> /\ sip_events' = sipq
    \/ /\ s \in calls /\ pj[s].st \in ActiveSip
       /\ calls' = calls \ {s}
       /\ pj' = [pj EXCEPT ![s] = [@ EXCEPT !.st = "ended", !.hung = TRUE]]
       /\ \/ sip_events' = sipq
          \/ sip_events' = Append(sipq, CallStateUpdate(s, "DISCONNECTED"))
    \/ /\ s \in calls /\ (Faults \/ pj[s].st \notin ActiveSip)
       /\ pj' = [pj EXCEPT ![s] = [@ EXCEPT !.hung = TRUE]]
       /\ calls' = calls /\ sip_events' = sipq

\* MUTANT: the SIP leg is left alone.
CleanUp_NoHangup(b, tgq, sipq) ==
    DiscardTg(b.tg, tgq) /\ UNCHANGED <<calls, pj>> /\ sip_events' = sipq
\* MUTANT: the Telegram leg is discarded only once the controller exists.
CleanUp_DiscardIfController(b, tgq, sipq) ==
    /\ DiscardTg(IF b.ctl THEN b.tg ELSE NoTg, tgq)
    /\ Hangup(b.sip, sipq)

\* CleanUp after Stop(): drop both legs the context still names.
CleanUp(b, tgq, sipq) == DiscardTg(b.tg, tgq) /\ Hangup(b.sip, sipq)

\* Entry of X by bridge c, whose context is b by then, and its removal from
\* the vector; intq, tgq and sipq are the queues after the pop.  Stop() throws
\* when ntgcalls reports an error.
Terminate(c, b, intq, tgq, sipq) ==
    \/ /\ CleanUp(b, tgq, sipq)
       /\ bridges' = [bridges EXCEPT ![c] = NewContext]
       /\ internal_events' = intq
       /\ UNCHANGED <<up, ctx_counter>>
    \/ Faults /\ b.ctl /\ Abort("Stop")

\* The context a new bridge gets.  Contexts that enter X within the handler
\* that created them use up an id too, which nothing can refer to.
NewCtx(c) == c = ctx_counter + 1 /\ ctx_counter' = c

\* search_call: the first bridge of the vector among the matches M.
First(M) == CHOOSE c \in M : \A d \in M : c <= d

\* MUTANT: bridges that do not wait for Telegram are not searched.
WithTg_Waiting(t) == {c \in Ctx : bridges[c].tg = t /\ bridges[c].sub = "wait_tg"}

WithTg(t) == {c \in Ctx : bridges[c].tg = t}
WithSip(s) == {c \in Ctx : bridges[c].sip = s}
WithUser(u) == {c \in Ctx : bridges[c].user = u}

\* One iteration of the loop polls each queue once: the handler of an event
\* at queue p leaves the loop at queue n.
Polls(p, n) == up = "running" /\ phase = p /\ phase' = n /\ e_flag' = e_flag
PollInternal(type) ==
    /\ Polls("internal", "tg") /\ ~e_flag
    /\ internal_events # <<>> /\ Head(internal_events).type = type
PollTg(type) ==
    Polls("tg", "sip") /\ tg_events # <<>> /\ Head(tg_events).type = type
PollSip(type) ==
    /\ Polls("sip", "internal")
    /\ sip_events # <<>> /\ Head(sip_events).type = type

\* pop() of an empty queue.
PollEmpty ==
    /\ \/ Polls("internal", "tg") /\ ~e_flag /\ internal_events = <<>>
       \/ Polls("tg", "sip") /\ tg_events = <<>>
       \/ Polls("sip", "internal") /\ sip_events = <<>>
    /\ UNCHANGED <<up, bridges, ctx_counter, internal_events, tg_events,
                   sip_events, calls, pj, td>>

\* while (!e_flag) is left; nothing is cleaned up.
LeaveLoop ==
    /\ up = "running" /\ phase = "internal" /\ e_flag
    /\ up' = "stopped"
    /\ UNCHANGED <<e_flag, phase, bridges, ctx_counter, internal_events,
                   tg_events, sip_events, calls, pj, td>>

-----------------------------------------------------------------------------
(* internal_events *)

ProcessInternalError ==
    /\ PollInternal("InternalError")
    /\ LET c == Head(internal_events).ctx
           q == Tail(internal_events)
       IN \/ /\ bridges[c].top # "none"
             /\ Terminate(c, bridges[c], q, tg_events, sip_events)
          \/ /\ bridges[c].top = "none"
             /\ internal_events' = q
             /\ UNCHANGED <<up, bridges, ctx_counter, tg_events, sip_events,
                            calls, pj, td>>

\* Forwarded to TDLib without waiting, or dropped: no state of the gateway.
ProcessSignalingDataEmitted ==
    /\ PollInternal("SignalingDataEmitted")
    /\ internal_events' = Tail(internal_events)
    /\ UNCHANGED <<up, bridges, ctx_counter, tg_events, sip_events, calls,
                   pj, td>>

-----------------------------------------------------------------------------
(* tg_events *)

\* MUTANT: a failed Dial is only logged.
DialCallbackUri_Silent(c, b) ==
    /\ internal_events' = internal_events
    /\ \/ bridges' = [bridges EXCEPT ![c] = b] /\ UNCHANGED <<calls, pj>>
       \/ \E s \in SipIds :
            /\ FreeSlot(s) /\ OpenSip(s, "calling")
            /\ bridges' = [bridges EXCEPT ![c] = [b EXCEPT !.sip = s]]

\* sip::Client::Dial for the new bridge c with context b.
DialCallbackUri(c, b) ==
    \/ /\ bridges' = [bridges EXCEPT ![c] = b]
       /\ internal_events' = Append(internal_events, InternalError(c))
       /\ UNCHANGED <<calls, pj>>
    \/ \E s \in SipIds :
         /\ FreeSlot(s) /\ OpenSip(s, "calling")
         /\ bridges' = [bridges EXCEPT ![c] = [b EXCEPT !.sip = s]]
         /\ internal_events' = internal_events

\* The first transition out of init: StoreTgId, StoreTgUserId and DialSip.
DialSip(e, q) ==
    \/ Faults /\ Abort("getUser")
    \/ \E c \in Ctx :
         /\ NewCtx(c)
         /\ DialCallbackUri(c, [NewContext EXCEPT !.top = "from_tg",
              !.sub = "sip_wait_media", !.tg = e.id, !.user = e.user])
         /\ tg_events' = q
         /\ UNCHANGED <<up, sip_events, td>>

\* Call::audio_media finds a medium.
audio_media(s) == pj[s].media

\* sip::Client::BridgeAudio works for the SIP call of b.
MediaLinkable(b) ==
    b.sip \in calls /\ pj[b.sip].st \in ActiveSip /\ audio_media(b.sip)

\* MUTANT: a failure of BridgeAudio is only logged.
BridgeAudio_Silent(c, b) ==
    /\ \/ MediaLinkable(b) /\ bridges' = [bridges EXCEPT ![c] = [b EXCEPT !.aud = pj[b.sip].nego]]
       \/ bridges' = [bridges EXCEPT ![c] = b]
    /\ internal_events' = internal_events

\* BridgeAudio of bridge c, whose context is b by then.
BridgeAudio(c, b) ==
    \/ /\ MediaLinkable(b)
       /\ bridges' = [bridges EXCEPT ![c] = [b EXCEPT !.aud = pj[b.sip].nego]]
       /\ internal_events' = internal_events
    \/ /\ bridges' = [bridges EXCEPT ![c] = b]
       /\ internal_events' = Append(internal_events, InternalError(c))

\* sip::Client::Answer of slot s works: the table has it and it did not end.
Answers(s) == s \in calls /\ pj[s].st \in ActiveSip

\* AnswerSip (200 OK) of bridge c, whose context is b by then.
AnswerSip(c, b) ==
    /\ bridges' = [bridges EXCEPT ![c] = b]
    /\ \/ /\ Answers(b.sip)
          /\ pj' = [pj EXCEPT ![b.sip] = [@ EXCEPT !.st = "confirmed"]]
          /\ internal_events' = internal_events
       \/ /\ internal_events' = Append(internal_events, InternalError(c))
          /\ pj' = pj

\* Another bridge has a controller for user u: ntgcalls keeps one call per user
\* and Start() of a second one throws.
Engaged(c, u) == \E d \in Ctx : d # c /\ bridges[d].ctl /\ bridges[d].user = u

\* wait_tg and the call is ready.  Start() throws when ntgcalls reports an error.
TgReadyInBridge(c, e, q) ==
    LET b == bridges[c]
        engaged == Engaged(c, IF b.top = "from_tg" THEN b.user ELSE e.user)
    IN
    \/ (Faults \/ engaged) /\ Abort("Start")
    \/ /\ ~engaged /\ b.top = "from_tg"       \* CreateTgVoip, BridgeAudio
       /\ BridgeAudio(c, [b EXCEPT !.sub = "wait_dtmf", !.ctl = TRUE])
       /\ tg_events' = q
       /\ UNCHANGED <<up, ctx_counter, sip_events, calls, pj, td>>
    \/ /\ ~engaged /\ b.top = "from_sip"
       \* StoreTgUserId, CreateTgVoip, AnswerSip
       /\ AnswerSip(c, [b EXCEPT !.sub = "sip_wait_media", !.ctl = TRUE,
                                 !.user = e.user])
       /\ tg_events' = q
       /\ UNCHANGED <<up, ctx_counter, sip_events, calls, td>>

\* MUTANT: callStateError does not end a bridge.
IsTgEnd_NoError(e) == e.state = "discarded"

IsTgEnd(e) == e.state \in {"discarded", "error"}

CleanTgId(b) == [b EXCEPT !.tg = NoTg]

\* updateCall of a call that has a bridge: the composite state first, then
\* the transitions of the machine around it, else it is ignored.
UpdateCallInBridge(c, e, q) ==
    \/ /\ bridges[c].sub = "wait_tg" /\ e.state = "ready"
       /\ TgReadyInBridge(c, e, q)
    \/ /\ IsTgEnd(e)
       /\ Terminate(c, CleanTgId(bridges[c]), internal_events, q, sip_events)
    \/ /\ ~(bridges[c].sub = "wait_tg" /\ e.state = "ready") /\ ~IsTgEnd(e)
       /\ tg_events' = q
       /\ UNCHANGED <<up, bridges, ctx_counter, internal_events, sip_events,
                      calls, pj, td>>

\* IsIncoming and IsInState of init.
IsPending(e) == ~e.out /\ e.state = "pending"

\* updateCall of a call that has none: init of a new context, which is gone
\* at once unless the call is incoming, pending and has a callback URI.
UpdateCallInInit(e, q) ==
    \/ IsPending(e) /\ CallbackUri /\ DialSip(e, q)
    \/ /\ IsPending(e) /\ ~CallbackUri            \* StoreTgId, then X
       /\ CleanUp([NewContext EXCEPT !.tg = e.id], q, sip_events)
       /\ UNCHANGED <<up, bridges, ctx_counter, internal_events>>
    \/ /\ ~IsPending(e)
       /\ tg_events' = q
       /\ UNCHANGED <<up, bridges, ctx_counter, internal_events, sip_events,
                      calls, pj, td>>

ProcessUpdateCall ==
    /\ PollTg("updateCall")
    /\ LET e == Head(tg_events)
           q == Tail(tg_events)
           M == WithTg(e.id)
       IN IF M = {} THEN UpdateCallInInit(e, q)
                    ELSE UpdateCallInBridge(First(M), e, q)

\* MUTANT: digits are dialled in any state of a bridge.
TakesDtmf_Always(b) == b.top # "none"

TakesDtmf(b) == b.sub = "wait_dtmf"

IsDtmfString(e) == e.content = "dtmf"

\* DialDtmf lets the CALL_NOT_FOUND of sip::Client::DialDtmf escape.
DialDtmfThrows(b) == b.sip \notin calls

\* A chat message goes to the one bridge of its sender.
ProcessUpdateNewMessage ==
    /\ PollTg("updateNewMessage")
    /\ LET e == Head(tg_events)
           Lost == \E c \in WithUser(e.user) :
                      /\ WithUser(e.user) = {c} /\ IsDtmfString(e)
                      /\ TakesDtmf(bridges[c]) /\ DialDtmfThrows(bridges[c])
       IN \/ Lost /\ Abort("CALL_NOT_FOUND")
          \/ /\ ~Lost
             /\ tg_events' = Tail(tg_events)
             /\ UNCHANGED <<up, bridges, ctx_counter, internal_events,
                            sip_events, calls, pj, td>>

\* Handed to the controller of the call's bridge, or dropped.
ProcessUpdateNewCallSignalingData ==
    /\ PollTg("updateNewCallSignalingData")
    /\ tg_events' = Tail(tg_events)
    /\ UNCHANGED <<up, bridges, ctx_counter, internal_events, sip_events,
                   calls, pj, td>>

-----------------------------------------------------------------------------
(* sip_events *)

\* StoreSipId and AcceptIncomingSip: an extension that is no user name, phone
\* number or id is an error; else the call is set ringing, which pjsua
\* reports as EARLY at once.
AcceptIncomingSip(e, q) ==
    \E c \in Ctx :
      /\ NewCtx(c)
      /\ bridges' = [bridges EXCEPT ![c] =
             [NewContext EXCEPT !.top = "from_sip", !.sub = "sip_wait_confirm",
                !.sip = e.id,
                !.user = IF e.extension \in Users THEN e.extension ELSE NoUser]]
      /\ \/ /\ e.extension # "invalid"
            /\ Answers(e.id)
            /\ pj' = [pj EXCEPT ![e.id] = [@ EXCEPT !.st = "ringing"]]
            /\ sip_events' = Append(q, CallStateUpdate(e.id, "EARLY"))
            /\ internal_events' = internal_events
         \/ /\ internal_events' = Append(internal_events, InternalError(c))
            /\ sip_events' = q /\ pj' = pj
      /\ UNCHANGED <<up, tg_events, calls, td>>

\* IncomingCall has no transition in a bridge that already has the slot.
ProcessIncomingCall ==
    /\ PollSip("IncomingCall")
    /\ LET e == Head(sip_events)
           q == Tail(sip_events)
       IN \/ WithSip(e.id) = {} /\ AcceptIncomingSip(e, q)
          \/ /\ WithSip(e.id) # {} /\ sip_events' = q
             /\ UNCHANGED <<up, bridges, ctx_counter, internal_events,
                            tg_events, calls, pj, td>>

\* DialTg: the user id comes from the extension, or a lookup of the phone
\* number or user name finds it; createCall answers with a new call.  Every
\* failure, a flood block included, is an InternalError.
DialTgReturns(c, q) ==
    LET b == [bridges[c] EXCEPT !.sub = "wait_tg"] IN
    /\ sip_events' = q
    /\ \E u \in IF b.user = NoUser THEN Users ELSE {b.user} :
         \/ \E t \in TgIds :
              /\ td[t].st = "idle"
              /\ td' = [td EXCEPT ![t] = [st |-> "pending", out |-> TRUE,
                          user |-> u, asked |-> FALSE, received |-> FALSE]]
              /\ tg_events' = Append(tg_events, UpdateCall(t, "pending", TRUE, u))
              /\ bridges' = [bridges EXCEPT ![c] = [b EXCEPT !.user = u, !.tg = t]]
              /\ internal_events' = internal_events
         \/ /\ \/ bridges' = [bridges EXCEPT ![c] = b]
               \/ bridges' = [bridges EXCEPT ![c] = [b EXCEPT !.user = u]]
            /\ internal_events' = Append(internal_events, InternalError(c))
            /\ UNCHANGED <<td, tg_events>>
    /\ UNCHANGED <<up, ctx_counter, calls, pj>>

\* The delay in an error of the lookup or of createCall may be no int.
DialTg(c, q) == DialTgReturns(c, q) \/ Abort("stoi")

\* MUTANT: the state of the bridge is not looked at.
DialsOnEarly_AnyState(b, e) == e.state = "EARLY"

DialsOnEarly(b, e) == b.sub = "sip_wait_confirm" /\ e.state = "EARLY"

CleanSipId(b) == [b EXCEPT !.sip = NoSip]

ProcessCallStateUpdate ==
    /\ PollSip("CallStateUpdate")
    /\ LET e == Head(sip_events)
           q == Tail(sip_events)
           c == First(WithSip(e.id))
           dial == DialsOnEarly(bridges[c], e)
       IN \/ WithSip(e.id) # {} /\ dial /\ DialTg(c, q)
          \/ /\ WithSip(e.id) # {} /\ e.state = "DISCONNECTED"
             /\ Terminate(c, CleanSipId(bridges[c]), internal_events, tg_events, q)
          \/ /\ \/ WithSip(e.id) = {}
                \/ WithSip(e.id) # {} /\ ~dial /\ e.state # "DISCONNECTED"
             /\ sip_events' = q
             /\ UNCHANGED <<up, bridges, ctx_counter, internal_events,
                            tg_events, calls, pj, td>>

\* AnswerTg of bridge c: acceptCall, which TDLib refuses unless it is pending.
AnswerTg(c) ==
    LET b == bridges[c] IN
    /\ bridges' = [bridges EXCEPT ![c] = [b EXCEPT !.sub = "wait_tg"]]
    /\ \/ /\ td[b.tg].st = "pending"
          /\ td' = [td EXCEPT ![b.tg] = [@ EXCEPT !.st = "accepted"]]
          /\ internal_events' = internal_events
       \/ /\ internal_events' = Append(internal_events, InternalError(c))
          /\ td' = td

ProcessCallMediaStateUpdate ==
    /\ PollSip("CallMediaStateUpdate")
    /\ LET e == Head(sip_events)
           c == First(WithSip(e.id))
           ready == /\ WithSip(e.id) # {} /\ e.has_media
                    /\ bridges[c].sub = "sip_wait_media"
       IN \/ ready /\ bridges[c].top = "from_tg" /\ AnswerTg(c)
          \/ /\ ready /\ bridges[c].top = "from_sip"
             /\ BridgeAudio(c, [bridges[c] EXCEPT !.sub = "wait_dtmf"])
             /\ td' = td
          \/ ~ready /\ UNCHANGED <<bridges, internal_events, td>>
    /\ sip_events' = Tail(sip_events)
    /\ UNCHANGED <<up, ctx_counter, tg_events, calls, pj>>

Loop ==
    \/ PollEmpty \/ LeaveLoop
    \/ ProcessInternalError \/ ProcessSignalingDataEmitted
    \/ ProcessUpdateCall \/ ProcessUpdateNewMessage
    \/ ProcessUpdateNewCallSignalingData
    \/ ProcessIncomingCall \/ ProcessCallStateUpdate
    \/ ProcessCallMediaStateUpdate

-----------------------------------------------------------------------------
(* The other threads.  They append to a queue shorter than MaxQueue. *)

TgSends(e) ==
    /\ up = "running" /\ Len(tg_events) < MaxQueue
    /\ tg_events' = Append(tg_events, e)
    /\ UNCHANGED <<loopVars, bridges, ctx_counter, internal_events,
                   sip_events, calls, pj>>
TgMoves(t, r, s) ==
    td' = [td EXCEPT ![t] = r] /\ TgSends(UpdateCall(t, s, r.out, r.user))

\* A Telegram user calls the gateway's account.
TgIncoming(t, u) ==
    /\ td[t].st = "idle"
    /\ TgMoves(t, [st |-> "pending", out |-> FALSE, user |-> u,
                   asked |-> FALSE, received |-> FALSE], "pending")

\* A pending call is reported a second time once the server has it.
TgReceived(t) ==
    /\ td[t].st = "pending" /\ ~td[t].received
    /\ TgMoves(t, [td[t] EXCEPT !.received = TRUE], "pending")

TgReady(t) ==
    /\ td[t].st = (IF td[t].out THEN "pending" ELSE "accepted")
    /\ TgMoves(t, [td[t] EXCEPT !.st = "ready"], "ready")

\* Hung up by either side, declined, missed, or failed.
TgEnd(t) ==
    /\ td[t].st \in ActiveTg \cup {"hangup"}
    /\ \E s \in {"discarded", "error"} : TgMoves(t, [td[t] EXCEPT !.st = "ended"], s)

TgMessage(u, x) ==
    /\ td' = td
    /\ TgSends([type |-> "updateNewMessage", user |-> u, content |-> x])

TgSignaling(t) ==
    /\ Signals /\ td[t].st \in {"accepted", "ready"} /\ td' = td
    /\ TgSends([type |-> "updateNewCallSignalingData", id |-> t])

\* The ntgcalls callback of bridge c's controller.
EmitSignaling(c) ==
    /\ up = "running" /\ Signals /\ bridges[c].ctl
    /\ Len(internal_events) < MaxQueue
    /\ internal_events' = Append(internal_events,
                                 [type |-> "SignalingDataEmitted", ctx |-> c])
    /\ UNCHANGED <<loopVars, bridges, ctx_counter, tg_events, sip_events,
                   calls, pj, td>>

SipSends(e) ==
    /\ up = "running" /\ Len(sip_events) < MaxQueue
    /\ sip_events' = Append(sip_events, e)
    /\ UNCHANGED <<loopVars, bridges, ctx_counter, internal_events,
                   tg_events, td>>

\* Bound: with the new contexts that this call, queued events and Telegram calls
\* still to come or to be reported again can make, MaxCtx is not exceeded.
RoomForCalls ==
    ctx_counter + 1 + Len(SelectSeq(sip_events, LAMBDA e : e.type = "IncomingCall"))
    + Len(SelectSeq(tg_events, LAMBDA e : e.type = "updateCall" /\ e.state = "pending"))
    + 2 * Cardinality({t \in TgIds : td[t].st = "idle"})
    + Cardinality({t \in TgIds : td[t].st = "pending" /\ ~td[t].received}) <= MaxCtx

\* The onIncomingCall handler of sip::Client.
SipIncoming(s, x) ==
    /\ FreeSlot(s) /\ OpenSip(s, "incoming") /\ (ReuseSlots => RoomForCalls)
    /\ SipSends([type |-> "IncomingCall", id |-> s, extension |-> x])

\* The callback URI rings, and answers.
SipProgress(s) ==
    /\ calls' = calls
    /\ \/ /\ pj[s].st = "calling"
          /\ pj' = [pj EXCEPT ![s] = [@ EXCEPT !.st = "early"]]
          /\ SipSends(CallStateUpdate(s, "EARLY"))
       \/ /\ pj[s].st \in {"calling", "early"}
          /\ pj' = [pj EXCEPT ![s] = [@ EXCEPT !.st = "confirmed"]]
          /\ SipSends(CallStateUpdate(s, "CONFIRMED"))

\* Media is negotiated, renegotiated later, or reported again as it is.
SipMedia(s, m) ==
    /\ pj[s].st \in {"early", "confirmed"}
    /\ \/ /\ pj[s].nego < MaxMedia
          /\ pj' = [pj EXCEPT ![s] = [@ EXCEPT !.media = m, !.nego = pj[s].nego + 1]]
       \/ pj[s].media = m /\ pj' = pj
    /\ calls' = calls
    /\ SipSends([type |-> "CallMediaStateUpdate", id |-> s, has_media |-> m])

\* The SIP peer ends the call; its Call object stays in calls.
SipDisconnect(s) ==
    /\ pj[s].st \in ActiveSip
    /\ pj' = [pj EXCEPT ![s] = [@ EXCEPT !.st = "ended"]]
    /\ calls' = calls
    /\ SipSends(CallStateUpdate(s, "DISCONNECTED"))

\* SIGINT or SIGTERM.
Signal ==
    /\ Stops /\ up = "running" /\ ~e_flag /\ e_flag' = TRUE
    /\ UNCHANGED <<up, phase, bridges, ctx_counter, internal_events,
                   tg_events, sip_events, calls, pj, td>>

Others ==
    \/ \E t \in TgIds : TgReceived(t) \/ TgReady(t) \/ TgEnd(t) \/ TgSignaling(t)
    \/ \E t \in TgIds, u \in Users : TgIncoming(t, u)
    \/ \E u \in Users, x \in Contents : TgMessage(u, x)
    \/ \E c \in Ctx : EmitSignaling(c)
    \/ \E s \in SipIds, x \in Exts : SipIncoming(s, x)
    \/ \E s \in SipIds : SipProgress(s) \/ SipDisconnect(s)
    \/ \E s \in SipIds, m \in BOOLEAN : SipMedia(s, m)
    \/ Signal

\* The process is gone.
Halted == up # "running" /\ UNCHANGED vars

Next == Loop \/ Others \/ Halted

Spec == Init /\ [][Next]_vars

\* The loop thread is always scheduled again.
FairSpec == Spec /\ WF_vars(Loop)
-----------------------------------------------------------------------------
(* Properties. *)

Live(c) == bridges[c].top # "none"
ErrorQueued(c) == InternalError(c) \in Elements(internal_events)
CallQueued(t, states) ==
    \E e \in Elements(tg_events) :
       e.type = "updateCall" /\ e.id = t /\ e.state \in states
IncomingQueued(s) ==
    \E e \in Elements(sip_events) : e.type = "IncomingCall" /\ e.id = s
StateQueued(s, st) == CallStateUpdate(s, st) \in Elements(sip_events)

\* No call, Telegram or SIP, has two bridges: search_call's first match is the
\* only match, so no bridge is hidden from the events of its own call.
OneBridgePerCall ==
    \A c, d \in Ctx :
       c # d => /\ bridges[c].tg = NoTg \/ bridges[c].tg # bridges[d].tg
                /\ bridges[c].sip = NoSip \/ bridges[c].sip # bridges[d].sip

\* Every Telegram call that TDLib still has and that the gateway did not ask
\* TDLib to discard belongs to a bridge, or its pending update is still
\* queued: in whatever order the two legs end and the state machine enters X,
\* CleanUp leaves no caller ringing or connected to nothing.
NoOrphanTg ==
    \A t \in TgIds :
       td[t].st \in ActiveTg /\ ~td[t].asked
          => (\E c \in Ctx : bridges[c].tg = t) \/ CallQueued(t, {"pending"})

\* The same for SIP sessions, which CleanUp hangs up.
NoOrphanSip ==
    \A s \in SipIds :
       pj[s].st \in ActiveSip /\ ~pj[s].hung
          => (\E c \in Ctx : bridges[c].sip = s) \/ IncomingQueued(s)

\* A bridge whose Telegram leg is gone has the event queued that removes it:
\* the end of the call (also when a late pending update of a discarded call
\* made the bridge) or an InternalError.  One that has no such leg yet has
\* EARLY queued, on which DialTg makes one, or an InternalError.
NoTgZombie ==
    \A c \in Ctx :
       Live(c) => \/ ErrorQueued(c)
                  \/ /\ bridges[c].tg = NoTg /\ bridges[c].sub = "sip_wait_confirm"
                     /\ StateQueued(bridges[c].sip, "EARLY")
                  \/ /\ bridges[c].tg # NoTg
                     /\ \/ td[bridges[c].tg].st # "ended"
                        \/ CallQueued(bridges[c].tg, {"discarded", "error"})

\* A bridge has a SIP session, or DISCONNECTED or an InternalError that
\* removes it is queued.
NoSipZombie ==
    \A c \in Ctx :
       Live(c) => \/ ErrorQueued(c)
                  \/ /\ bridges[c].sip # NoSip
                     /\ \/ pj[bridges[c].sip].st # "ended"
                        \/ StateQueued(bridges[c].sip, "DISCONNECTED")

\* README: a Telegram call the gateway took is redirected to callback_uri.  Its
\* SIP call is under way, or the gateway has yet to handle its end or failure.
RedirectedToCallbackUri ==
    \A c \in Ctx :
       bridges[c].top = "from_tg"
          => \/ ErrorQueued(c)
             \/ /\ bridges[c].sip # NoSip
                /\ \/ pj[bridges[c].sip].st \in ActiveSip
                   \/ StateQueued(bridges[c].sip, "DISCONNECTED")

\* A bridge in wait_dtmf has its ports linked with the audio its SIP session
\* has now (or had when it ended), or an InternalError that ends it is queued,
\* or the audio was renegotiated after BridgeAudio linked it: such a bridge
\* stays without sound, as wait_dtmf ignores CallMediaStateUpdate.  A
\* controller, whose signalling data is sent for ctx.tg_call_id, only exists
\* while that id is one.
LinkedNow(c) == bridges[c].aud = pj[bridges[c].sip].nego
Renegotiated(c) == bridges[c].aud \in 1..(pj[bridges[c].sip].nego - 1)
TalkingIsLinked ==
    \A c \in Ctx :
       /\ bridges[c].sub = "wait_dtmf"
             => bridges[c].ctl /\ (LinkedNow(c) \/ Renegotiated(c) \/ ErrorQueued(c))
       /\ bridges[c].ctl => bridges[c].tg # NoTg

\* Of the exceptions that end the process, the CALL_NOT_FOUND that DialDtmf does
\* not catch is never thrown: the call table keeps the SIP call of a bridge for
\* as long as the bridge takes digits, also when its slot was used before.
DtmfFindsItsCall == up # "CALL_NOT_FOUND"

\* A bridge never exchanges a leg for another one, and loses a leg only
\* together with its place in the vector.
KeepsLegs ==
    \A c \in Ctx :
       Live(c) /\ bridges'[c].top # "none"
          => /\ bridges[c].tg # NoTg => bridges'[c].tg = bridges[c].tg
             /\ bridges'[c].sip = bridges[c].sip
LegsAreStable == [][KeepsLegs]_vars

\* A bridge one of whose legs has ended is removed in the end, however many
\* other events the three queues hold, unless the loop ends before.
EndedLegRemovesBridge ==
    \A c \in Ctx :
       (Live(c) /\ \/ \E t \in TgIds : bridges[c].tg = t /\ td[t].st = "ended"
                   \/ \E s \in SipIds : bridges[c].sip = s /\ pj[s].st = "ended")
          ~> (~Live(c) \/ up # "running")
\* What Switchboard sees of the state: a context is unused up to NewCtx, and
\* gone once its bridge left the vector; a call that discardCall or Hangup was
\* called for is "left", whatever the library makes of it.
Stage(c) ==
    IF ctx_counter < c THEN "unused"
    ELSE IF ~Live(c) THEN "gone"
    ELSE IF bridges[c].sub = "wait_dtmf" THEN "talking" ELSE "setup"
BoardOf(c) == [stage |-> Stage(c), tg |-> bridges[c].tg, sip |-> bridges[c].sip]
TgLine(r) ==
    IF r.st = "idle" THEN "idle"
    ELSE IF r.asked THEN "left" ELSE IF r.st = "ended" THEN "over" ELSE "open"
SipLine(r) ==
    IF r.st = "free" THEN "idle"
    ELSE IF r.hung THEN "left" ELSE IF r.st = "ended" THEN "over" ELSE "open"

Board == INSTANCE Switchboard WITH
             board <- [c \in Ctx |-> BoardOf(c)],
             tgLine <- [t \in TgIds |-> TgLine(td[t])],
             sipLine <- [s \in SipIds |-> SipLine(pj[s])]

\* In whatever order the events of the two legs are handled, a context becomes
\* a bridge once, with calls no other bridge has, talks only with both, and
\* takes exactly its own two calls with it when it enters X (CleanUp); no other
\* handler hangs up or discards a call, but for a refused one without a bridge.
ImplementsSwitchboard == Board!Spec
=============================================================================
