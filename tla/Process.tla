------------------------------ MODULE Process ------------------------------
(***************************************************************************)
(* The life of the process (main.cpp): which objects exist when, and which *)
(* threads may use them.  main builds the objects, waits for Telegram, runs*)
(* the gateway loop and destroys the objects in the reverse order, while   *)
(* PJSIP, TDLib and ntgcalls call back from their own threads.  A call is  *)
(* no more here than a SIP leg and a Telegram leg; Gateway has the rest.   *)
(***************************************************************************)
EXTENDS Naturals, Sequences, FiniteSets

CONSTANT Calls       \* SIP calls that come in

ASSUME ProcessAssumption == IsFiniteSet(Calls)

VARIABLES
    pc,              \* where main is
    object,          \* which of the shared objects are constructed
    account,         \* the SIP account, as PJSIP sees it
    td,              \* the thread of the Telegram client
    sip_events,      \* the incoming calls in the queue of that name
    sip,             \* the SIP leg of each call
    tg,              \* the Telegram leg of each call
    handled,         \* SIGINT and SIGTERM have a handler
    e_flag,
    signalled,       \* the process was asked to stop
    misused          \* ghost: <<callback, object>>: it used the object outside its lifetime

vars == <<pc, object, account, td, sip_events, sip, tg, handled, e_flag, signalled, misused>>
legs == <<sip_events, sip, tg>>
signals == <<handled, e_flag, signalled>>

Objects == {"sip_events", "sip_client", "tg_events", "internal_events"}
Ended == {"done", "crashed", "aborted", "killed"}

Init ==
    /\ pc = "init_logging"
    /\ object = [o \in Objects |-> "unborn"]
    /\ account = "none"
    /\ td = "none"
    /\ sip_events = <<>>
    /\ sip = [c \in Calls |-> "none"]
    /\ tg = [c \in Calls |-> "none"]
    /\ handled = FALSE
    /\ e_flag = FALSE
    /\ signalled = FALSE
    /\ misused = {}

Uses(callback, objects) ==
    misused' = misused \cup {<<callback, o>> : o \in {x \in objects : object[x] # "alive"}}

Goto(from, to) == pc = from /\ pc' = to

-----------------------------------------------------------------------------
(* main: construction *)

\* A sink that cannot be opened is reported and passed over, and then
\* spdlog::get("core") is null.
init_logging ==
    /\ Goto("init_logging", "sip_client") \/ Goto("init_logging", "crashed")
    /\ UNCHANGED <<object, account, td, legs, signals, misused>>

\* sip_events, the endpoint with its transport, and the client with its handler of
\* incoming calls.  A pj::Error ends in the terminate handler.
MakeSipClient ==
    /\ \/ /\ Goto("sip_client", "sip_start")
          /\ object' = [object EXCEPT !["sip_events"] = "alive", !["sip_client"] = "alive"]
       \/ Goto("sip_client", "aborted") /\ UNCHANGED object
    /\ UNCHANGED <<account, td, legs, signals, misused>>

\* sip::Client::start: from here on calls come in.
StartSip ==
    /\ \/ Goto("sip_start", "tg_client") /\ account' = "registered"
       \/ Goto("sip_start", "aborted") /\ UNCHANGED account
    /\ UNCHANGED <<object, td, legs, signals, misused>>

\* tg_events, and tg::Client::start with its thread.
StartTg ==
    /\ Goto("tg_client", "wait_for")
    /\ object' = [object EXCEPT !["tg_events"] = "alive"]
    /\ td' = "running"
    /\ UNCHANGED <<account, legs, signals, misused>>

\* Five seconds for the authorization: the gateway is made, or main returns 1.
WaitFor ==
    /\ \/ /\ Goto("wait_for", "load_cache")
          /\ object' = [object EXCEPT !["internal_events"] = "alive"]
       \/ Goto("wait_for", "~tg_client") /\ UNCHANGED object
    /\ UNCHANGED <<account, td, legs, signals, misused>>

\* Gateway::start up to its loop: until the cache is loaded a signal kills.
LoadCache ==
    /\ Goto("load_cache", "loop")
    /\ handled' = TRUE
    /\ UNCHANGED <<object, account, td, legs, e_flag, signalled, misused>>

-----------------------------------------------------------------------------
(* main: the loop *)

\* Client::Hangup, or the end of the table: a call whose handler runs lives until it
\* is through.
HungUp(c) == IF sip[c] = "up" THEN "over" ELSE sip[c]

\* An incoming call gets a Telegram leg, even if the caller is gone by now, or is
\* refused.
ServeSip ==
    /\ pc = "loop" /\ ~e_flag
    /\ sip_events # <<>>
    /\ sip_events' = Tail(sip_events)
    /\ LET c == Head(sip_events) IN
       \/ tg' = [tg EXCEPT ![c] = "up"] /\ UNCHANGED sip
       \/ sip' = [sip EXCEPT ![c] = HungUp(c)] /\ UNCHANGED tg
    /\ UNCHANGED <<pc, object, account, td, signals, misused>>

\* CleanUp of a bridge: both legs are ended.
CleanUp(c) ==
    /\ pc = "loop" /\ ~e_flag
    /\ tg[c] = "up"
    /\ tg' = [tg EXCEPT ![c] = "over"]
    /\ sip' = [sip EXCEPT ![c] = HungUp(c)]
    /\ UNCHANGED <<pc, object, account, td, sip_events, signals, misused>>

\* An exception leaves an action of the state machine, whichever event it handles.
Throw ==
    /\ Goto("loop", "aborted")
    /\ UNCHANGED <<object, account, td, legs, signals, misused>>

\* Mutant: the loop goes on while there are calls.
LeaveLoop_Drained ==
    /\ e_flag /\ \A c \in Calls : tg[c] # "up"
    /\ Goto("loop", "~gateway")
    /\ UNCHANGED <<object, account, td, legs, signals, misused>>

LeaveLoop ==
    /\ e_flag
    /\ Goto("loop", "~gateway")
    /\ UNCHANGED <<object, account, td, legs, signals, misused>>

-----------------------------------------------------------------------------
(* main: destruction, in the reverse order of the declarations *)

Destroy(objects) == object' = [o \in Objects |-> IF o \in objects THEN "dead" ELSE object[o]]

\* The bridges are raw pointers and are not deleted: their legs, controllers and
\* sinks stay.
DestroyGateway ==
    /\ Goto("~gateway", "~tg_client")
    /\ Destroy({"internal_events"})
    /\ UNCHANGED <<account, td, legs, signals, misused>>

\* ~Client joins its thread, then the queue goes.
DestroyTg ==
    /\ Goto("~tg_client", "~calls")
    /\ td = "ended"
    /\ Destroy({"tg_events"})
    /\ UNCHANGED <<account, td, legs, signals, misused>>

\* Mutant: the queue is declared after the client and destroyed before it.
DestroyCalls_QueueFirst ==
    /\ Goto("~calls", "~account")
    /\ Destroy({"sip_client", "sip_events"})
    /\ sip' = [c \in Calls |-> HungUp(c)]
    /\ UNCHANGED <<account, td, sip_events, tg, signals, misused>>

\* ~Client of sip: calls is declared behind account and is destroyed before it; a
\* pj::Call that is destroyed hangs up.
DestroyCalls ==
    /\ Goto("~calls", "~account")
    /\ Destroy({"sip_client"})
    /\ sip' = [c \in Calls |-> HungUp(c)]
    /\ UNCHANGED <<account, td, sip_events, tg, signals, misused>>

DestroyAccount ==
    /\ Goto("~account", "~sip_events")
    /\ account' = "deleted"
    /\ UNCHANGED <<object, td, legs, signals, misused>>

DestroySipEvents ==
    /\ Goto("~sip_events", "exit")
    /\ Destroy({"sip_events"})
    /\ UNCHANGED <<account, td, legs, signals, misused>>

\* After main the endpoint is destroyed, a static: until then its threads call back.
DestroyEndpoint ==
    /\ Goto("exit", "done")
    /\ \A c \in Calls : sip[c] # "reporting"
    /\ UNCHANGED <<object, account, td, legs, signals, misused>>

-----------------------------------------------------------------------------
(* The other threads *)

\* The handler of Account::onIncomingCall.  With the table destroyed its emplace
\* keeps the call object, loses it (which hangs up), or crashes.
onIncomingCall(c) ==
    /\ account = "registered" /\ pc \notin Ended
    /\ sip[c] = "none"
    /\ \/ sip' = [sip EXCEPT ![c] = "up"] /\ UNCHANGED pc
       \/ /\ object["sip_client"] = "dead"
          /\ sip' = [sip EXCEPT ![c] = "over"]
          /\ pc' \in {pc, "crashed"}
    /\ sip_events' = Append(sip_events, c)
    /\ Uses("onIncomingCall", {"sip_client", "sip_events"})
    /\ UNCHANGED <<object, account, td, tg, signals>>

\* The caller hangs up: the default handler locks the call object, if there is one.
onCallState(c) ==
    /\ sip[c] = "up" /\ pc \notin Ended
    /\ sip' = [sip EXCEPT ![c] = "reporting"]
    /\ UNCHANGED <<pc, object, account, td, sip_events, tg, signals, misused>>

\* And tells the gateway: the queue is a member of the client, a reference.
Report(c) ==
    /\ sip[c] = "reporting" /\ pc \notin Ended
    /\ sip' = [sip EXCEPT ![c] = "over"]
    /\ Uses("onCallState", {"sip_client", "sip_events"})
    /\ UNCHANGED <<pc, object, account, td, sip_events, tg, signals>>

\* process_update on the Telegram client's thread.
ProcessUpdate ==
    /\ td = "running" /\ pc \notin Ended
    /\ Uses("process_update", {"tg_events"})
    /\ UNCHANGED <<pc, object, account, td, legs, signals>>

\* The thread sees that the client is closed (TgClient has the steps).
TdEnds ==
    /\ td = "running" /\ pc = "~tg_client"
    /\ td' = "ended"
    /\ UNCHANGED <<pc, object, account, legs, signals, misused>>

\* ntgcalls emits signalling data of a call that has a controller.
OnSignalingData(c) ==
    /\ tg[c] = "up" /\ pc \notin Ended
    /\ Uses("onSignalingData", {"internal_events"})
    /\ UNCHANGED <<pc, object, account, td, legs, signals>>

\* SIGINT or SIGTERM.
Signal ==
    /\ ~signalled /\ pc \notin Ended
    /\ signalled' = TRUE
    /\ \/ handled /\ e_flag' = TRUE /\ UNCHANGED pc
       \/ ~handled /\ pc' = "killed" /\ UNCHANGED e_flag
    /\ UNCHANGED <<object, account, td, legs, handled, misused>>

-----------------------------------------------------------------------------
Main ==
    \/ init_logging \/ MakeSipClient \/ StartSip \/ StartTg \/ WaitFor \/ LoadCache
    \/ LeaveLoop
    \/ DestroyGateway \/ DestroyTg \/ DestroyCalls \/ DestroyAccount \/ DestroySipEvents
    \/ DestroyEndpoint

Next ==
    \/ Main
    \/ ServeSip \/ Throw \/ ProcessUpdate \/ TdEnds \/ Signal
    \/ \E c \in Calls : CleanUp(c) \/ OnSignalingData(c)
    \/ \E c \in Calls : onIncomingCall(c) \/ onCallState(c) \/ Report(c)

Spec == Init /\ [][Next]_vars

\* main is scheduled, and what it waits for comes: wait_for has its time limit,
\* TDLib answers the requests of load_cache, the client's thread notices the flag, a
\* handler that runs returns.
FairSpec ==
    /\ Spec /\ WF_vars(Main) /\ WF_vars(TdEnds)
    /\ \A c \in Calls : WF_vars(Report(c))

-----------------------------------------------------------------------------
(* Properties *)

\* No callback uses an object before it is made, the thread of the Telegram client
\* never misses its queue, and an incoming call never misses the queue of SIP events.
\* What can be missed, and only once it is destroyed: the gateway's queue by a
\* signalling callback; the call table by a call that comes in between ~calls and
\* ~account; the client and its queue by the handler of such a call, or by one that
\* ran when ~calls began (main.cpp:56-89, sip.h:131-137, sip.cpp:106-124, 250-262).
Missed ==
    {<<"onSignalingData", "internal_events">>, <<"onIncomingCall", "sip_client">>,
     <<"onCallState", "sip_client">>, <<"onCallState", "sip_events">>}
OnlyKnownMisses ==
    misused \subseteq {m \in Missed : object[m[2]] = "dead"}

\* A process that is asked to stop ends, whatever the calls do
\* (gateway.cpp:764-767, main.cpp:84-89).
StopsWhenAsked == signalled ~> pc \in Ended
=============================================================================
