---------------------------- MODULE VoipRuntime ----------------------------
(***************************************************************************)
(* The set-up and teardown of calls with ntgcalls (src/tg2sip/voip:        *)
(* controller.cpp, ntgcalls_runtime.h, ntgcalls_runtime.cpp,               *)
(* audio_bridge.cpp).                                                      *)
(*                                                                         *)
(* The gateway thread starts, stops and destroys controllers.  ntgcalls'   *)
(* workers complete the blocking calls of that thread and run the          *)
(* callbacks: a trampoline takes the runtime's mutex, looks the user's     *)
(* sink up and calls into its controller with the mutex held.  Each        *)
(* started controller has a feeder thread that sends a frame every 10 ms.  *)
(* PJSIP's clock thread calls the two audio ports of every controller with *)
(* the mutex of the conference bridge held, which adding and removing a    *)
(* port take too.  The ports are alike and independent: the model has one. *)
(***************************************************************************)
EXTENDS Naturals, FiniteSets

CONSTANTS
    Ctls,      \* TgCallsController objects
    Users,     \* Telegram users, ntgcalls' key for a call
    Workers,   \* ntgcalls' threads
    NoCtl, NoUser, NoWorker,
    Faults     \* TRUE iff a call of ntgcalls may fail for no known reason

ASSUME VoipAssumption ==
    /\ NoCtl \notin Ctls /\ NoUser \notin Users /\ NoWorker \notin Workers
    /\ Faults \in BOOLEAN

VARIABLES
    up,        \* FALSE once an exception has ended the process
    gw,        \* the gateway thread: where it is, and the controller it is in
    ctl,       \* the controllers
    feeder,    \* where the mic_feeder_thread_ of each controller is
    sinks_,    \* NtgCallsRuntime::sinks_
    mutex_,    \* the worker that holds the runtime's mutex
    worker,    \* ntgcalls' threads
    conn,      \* users with a call in ntgcalls
    clock      \* PJSIP's clock thread; it holds the bridge's mutex unless idle

vars == <<up, gw, ctl, feeder, sinks_, mutex_, worker, conn, clock>>

\* Blocking calls of Start, in order, and that of Stop.
SetUp == {"create", "capture", "playback", "skip", "connect"}
Blocking == SetUp \cup {"ntg_stop"}
AfterCall ==
    [create |-> "capture", capture |-> "playback", playback |-> "skip",
     skip |-> "connect", connect |-> "register", ntg_stop |-> "unplug"]

GwPc == Blocking \cup {"idle", "register", "ports", "flag", "join",
                       "unregister", "unplug", "destroy"}
CtlType == [life : {"none", "live", "gone"}, user : Users \cup {NoUser},
            created : BOOLEAN, registered : BOOLEAN, active : BOOLEAN,
            running : BOOLEAN, plugged : BOOLEAN]
WorkerType == [pc : {"idle", "lock", "dispatch"}, user : Users \cup {NoUser},
               ctl : Ctls \cup {NoCtl}]
ClockType == [pc : {"idle", "port", "buffer"}, ctl : Ctls \cup {NoCtl}]

TypeOK ==
    /\ up \in BOOLEAN
    /\ gw \in [pc : GwPc, ctl : Ctls \cup {NoCtl}]
    /\ gw.pc # "idle" => gw.ctl \in Ctls
    /\ ctl \in [Ctls -> CtlType]
    /\ feeder \in [Ctls -> {"none", "loop", "send", "done"}]
    /\ sinks_ \in [Users -> Ctls \cup {NoCtl}]
    /\ mutex_ \in Workers \cup {NoWorker}
    /\ worker \in [Workers -> WorkerType]
    /\ conn \subseteq Users
    /\ clock \in ClockType

IdleWorker == [pc |-> "idle", user |-> NoUser, ctl |-> NoCtl]
IdleClock == [pc |-> "idle", ctl |-> NoCtl]

Init ==
    /\ up = TRUE /\ gw = [pc |-> "idle", ctl |-> NoCtl]
    /\ ctl = [c \in Ctls |-> [life |-> "none", user |-> NoUser,
                              created |-> FALSE, registered |-> FALSE,
                              active |-> FALSE, running |-> FALSE,
                              plugged |-> FALSE]]
    /\ feeder = [c \in Ctls |-> "none"]
    /\ sinks_ = [u \in Users |-> NoCtl]
    /\ mutex_ = NoWorker
    /\ worker = [w \in Workers |-> IdleWorker]
    /\ conn = {}
    /\ clock = IdleClock

At(pc) == up /\ gw.pc = pc
Goes(pc) == gw' = [gw EXCEPT !.pc = pc]

-----------------------------------------------------------------------------
(* The gateway thread: Start. *)

\* CreateTgVoip makes the controller of a call with user u, whose ports are
\* added to the conference bridge.
Start(c, u) ==
    /\ At("idle") /\ ctl[c].life = "none" /\ clock.pc = "idle"
    /\ ctl' = [ctl EXCEPT ![c] = [@ EXCEPT !.life = "live", !.user = u,
                                           !.plugged = TRUE]]
    /\ gw' = [pc |-> "create", ctl |-> c]
    /\ UNCHANGED <<up, feeder, sinks_, mutex_, worker, conn, clock>>

\* CallBlocking: an idle worker runs the promise, which wakes the gateway
\* thread.  ntgcalls refuses a second call with the same user.
CallReturns ==
    LET c == gw.ctl  u == ctl[c].user IN
    /\ up /\ gw.pc \in Blocking
    /\ \E w \in Workers : worker[w].pc = "idle"
    /\ gw.pc = "create" => u \notin conn
    /\ conn' = (CASE gw.pc = "create" -> conn \cup {u}
                  [] gw.pc = "ntg_stop" -> conn \ {u}
                  [] OTHER -> conn)
    /\ ctl' = [ctl EXCEPT ![c] = [@ EXCEPT !.created = (gw.pc # "ntg_stop")]]
    /\ Goes(AfterCall[gw.pc])
    /\ UNCHANGED <<up, feeder, sinks_, mutex_, worker, clock>>

\* CallBlocking throws, out of the state machine: the process ends.
CallThrows ==
    /\ up /\ gw.pc \in Blocking
    /\ \E w \in Workers : worker[w].pc = "idle"
    /\ Faults \/ (gw.pc = "create" /\ ctl[gw.ctl].user \in conn)
    /\ up' = FALSE
    /\ UNCHANGED <<gw, ctl, feeder, sinks_, mutex_, worker, conn, clock>>

Register ==
    LET c == gw.ctl IN
    /\ At("register") /\ mutex_ = NoWorker
    /\ sinks_' = [sinks_ EXCEPT ![ctl[c].user] = c]
    /\ ctl' = [ctl EXCEPT ![c] = [@ EXCEPT !.registered = TRUE]]
    /\ Goes("ports")
    /\ UNCHANGED <<up, feeder, mutex_, worker, conn, clock>>

\* Both ports and the feeder thread are started, and Start returns.
StartPorts ==
    LET c == gw.ctl IN
    /\ At("ports")
    /\ ctl' = [ctl EXCEPT ![c] = [@ EXCEPT !.active = TRUE, !.running = TRUE]]
    /\ feeder' = [feeder EXCEPT ![c] = "loop"]
    /\ Goes("idle")
    /\ UNCHANGED <<up, sinks_, mutex_, worker, conn, clock>>

-----------------------------------------------------------------------------
(* The gateway thread: Stop, and the end of the bridge. *)

\* CleanUp of the bridge that owns c.
Stop(c) ==
    /\ At("idle") /\ ctl[c].life = "live"
    /\ gw' = [pc |-> "flag", ctl |-> c]
    /\ UNCHANGED <<up, ctl, feeder, sinks_, mutex_, worker, conn, clock>>

\* MUTANT: the flag is left set.
StopFeeder_NoFlag ==
    /\ At("flag") /\ Goes("join")
    /\ UNCHANGED <<up, ctl, feeder, sinks_, mutex_, worker, conn, clock>>

StopFeeder ==
    /\ At("flag")
    /\ ctl' = [ctl EXCEPT ![gw.ctl] = [@ EXCEPT !.running = FALSE]]
    /\ Goes("join")
    /\ UNCHANGED <<up, feeder, sinks_, mutex_, worker, conn, clock>>

\* The join returns and the ports are stopped.
JoinFeeder ==
    /\ At("join") /\ feeder[gw.ctl] = "done"
    /\ ctl' = [ctl EXCEPT ![gw.ctl] = [@ EXCEPT !.active = FALSE]]
    /\ Goes("unregister")
    /\ UNCHANGED <<up, feeder, sinks_, mutex_, worker, conn, clock>>

\* MUTANT: the map is changed without the mutex.
Unregister_NoLock ==
    LET c == gw.ctl IN
    /\ At("unregister")
    /\ sinks_' = [sinks_ EXCEPT ![ctl[c].user] = NoCtl]
    /\ ctl' = [ctl EXCEPT ![c] = [@ EXCEPT !.registered = FALSE]]
    /\ Goes("ntg_stop")
    /\ UNCHANGED <<up, feeder, mutex_, worker, conn, clock>>

\* MUTANT: registered_ is not reset.
Unregister_KeepsFlag ==
    /\ At("unregister") /\ mutex_ = NoWorker
    /\ sinks_' = [sinks_ EXCEPT ![ctl[gw.ctl].user] = NoCtl]
    /\ Goes("ntg_stop")
    /\ UNCHANGED <<up, ctl, feeder, mutex_, worker, conn, clock>>

Unregister ==
    LET c == gw.ctl IN
    /\ At("unregister") /\ mutex_ = NoWorker
    /\ sinks_' = [sinks_ EXCEPT ![ctl[c].user] = NoCtl]
    /\ ctl' = [ctl EXCEPT ![c] = [@ EXCEPT !.registered = FALSE]]
    /\ Goes("ntg_stop")
    /\ UNCHANGED <<up, feeder, mutex_, worker, conn, clock>>

\* MUTANT: the ports are freed without being removed from the bridge.
Unplug_Forgotten ==
    /\ At("unplug") /\ Goes("destroy")
    /\ UNCHANGED <<up, ctl, feeder, sinks_, mutex_, worker, conn, clock>>

\* The bridge is deleted and its controller with it.  created_ is false by
\* then, so the destructor does not stop it again; its ports go first.
Unplug ==
    /\ At("unplug") /\ clock.pc = "idle"
    /\ ctl' = [ctl EXCEPT ![gw.ctl] = [@ EXCEPT !.plugged = FALSE]]
    /\ Goes("destroy")
    /\ UNCHANGED <<up, feeder, sinks_, mutex_, worker, conn, clock>>

\* The memory of the controller and of its ports and buffers is freed.
Destroy ==
    /\ At("destroy")
    /\ ctl' = [ctl EXCEPT ![gw.ctl] = [@ EXCEPT !.life = "gone"]]
    /\ gw' = [pc |-> "idle", ctl |-> NoCtl]
    /\ UNCHANGED <<up, feeder, sinks_, mutex_, worker, conn, clock>>

-----------------------------------------------------------------------------
(* The feeder thread of c. *)

\* The loop condition.
FeederChecks(c) ==
    /\ up /\ feeder[c] = "loop"
    /\ feeder' = [feeder EXCEPT ![c] = IF ctl[c].running THEN "send" ELSE "done"]
    /\ UNCHANGED <<up, gw, ctl, sinks_, mutex_, worker, conn, clock>>

\* A frame is taken from mic_buffer_ and sent with CallDetached.
FeederSends(c) ==
    /\ up /\ feeder[c] = "send"
    /\ feeder' = [feeder EXCEPT ![c] = "loop"]
    /\ UNCHANGED <<up, gw, ctl, sinks_, mutex_, worker, conn, clock>>

-----------------------------------------------------------------------------
(* PJSIP's clock thread. *)

\* It calls a port of c, one that is in the conference bridge.
ClockEnters(c) ==
    /\ up /\ clock.pc = "idle" /\ ctl[c].plugged
    /\ clock' = [pc |-> "port", ctl |-> c]
    /\ UNCHANGED <<up, gw, ctl, feeder, sinks_, mutex_, worker, conn>>

\* PutFrameCallback of the input, GetFrameCallback of the output: active_ is
\* read while Start or Stop may be writing it.
ClockReads ==
    /\ up /\ clock.pc = "port"
    /\ clock' = IF ctl[clock.ctl].active THEN [clock EXCEPT !.pc = "buffer"]
                                         ELSE IdleClock
    /\ UNCHANGED <<up, gw, ctl, feeder, sinks_, mutex_, worker, conn>>

\* The samples have been pushed to mic_buffer_ or popped from playout_buffer_.
ClockReturns ==
    /\ up /\ clock.pc = "buffer"
    /\ clock' = IdleClock
    /\ UNCHANGED <<up, gw, ctl, feeder, sinks_, mutex_, worker, conn>>

-----------------------------------------------------------------------------
(* ntgcalls' workers. *)

\* A callback for user u; it may be late, after the call was stopped.
CallbackBegins(w, u) ==
    /\ up /\ worker[w].pc = "idle"
    /\ worker' = [worker EXCEPT ![w] = [@ EXCEPT !.pc = "lock", !.user = u]]
    /\ UNCHANGED <<up, gw, ctl, feeder, sinks_, mutex_, conn, clock>>

\* MUTANT: the mutex covers the lookup only.
CallbackLocks_LookupOnly(w) ==
    /\ up /\ worker[w].pc = "lock" /\ mutex_ = NoWorker
    /\ worker' = [worker EXCEPT ![w] =
          [@ EXCEPT !.pc = "dispatch", !.ctl = sinks_[worker[w].user]]]
    /\ UNCHANGED <<up, gw, ctl, feeder, sinks_, mutex_, conn, clock>>

CallbackLocks(w) ==
    /\ up /\ worker[w].pc = "lock" /\ mutex_ = NoWorker
    /\ mutex_' = w
    /\ worker' = [worker EXCEPT ![w] =
          [@ EXCEPT !.pc = "dispatch", !.ctl = sinks_[worker[w].user]]]
    /\ UNCHANGED <<up, gw, ctl, feeder, sinks_, conn, clock>>

\* OnSignalingData has queued its event or OnFrames has pushed its samples, or
\* there was no sink; the trampoline returns and the mutex is released.
CallbackReturns(w) ==
    /\ up /\ worker[w].pc = "dispatch"
    /\ worker' = [worker EXCEPT ![w] = IdleWorker]
    /\ mutex_' = NoWorker
    /\ UNCHANGED <<up, gw, ctl, feeder, sinks_, conn, clock>>

-----------------------------------------------------------------------------
Gateway ==
    \/ \E c \in Ctls, u \in Users : Start(c, u)
    \/ CallReturns \/ CallThrows \/ Register \/ StartPorts
    \/ \E c \in Ctls : Stop(c)
    \/ StopFeeder \/ JoinFeeder \/ Unregister \/ Unplug \/ Destroy

Feeder(c) == FeederChecks(c) \/ FeederSends(c)
Clock == ClockReads \/ ClockReturns
Callback(w) == CallbackLocks(w) \/ CallbackReturns(w)

Next ==
    \/ Gateway
    \/ \E c \in Ctls : Feeder(c)
    \/ \E c \in Ctls : ClockEnters(c)
    \/ Clock
    \/ \E w \in Workers : Callback(w)
    \/ \E w \in Workers, u \in Users : CallbackBegins(w, u)
    \/ ~up /\ UNCHANGED vars

Spec == Init /\ [][Next]_vars

\* Threads are scheduled again, a mutex is granted in the end to a thread
\* that waits for it, and ntgcalls finishes what the gateway thread waits for.
StopSteps == \/ CallReturns \/ StopFeeder \/ JoinFeeder \/ Unregister
             \/ Unplug \/ Destroy
FairSpec ==
    /\ Spec
    /\ SF_vars(StopSteps)
    /\ \A c \in Ctls : WF_vars(Feeder(c))
    /\ WF_vars(Clock)
    /\ \A w \in Workers : SF_vars(Callback(w))

-----------------------------------------------------------------------------
(* Properties. *)

Dispatching(w, c) == worker[w].pc = "dispatch" /\ worker[w].ctl = c

\* No thread is inside a controller that has been destroyed: neither a
\* callback that found the sink before Unregister, nor the feeder thread, nor
\* the clock thread, which may be in a port after Stop has cleared active_.
NoUseAfterFree ==
    \A c \in Ctls :
       ctl[c].life = "gone"
          => /\ \A w \in Workers : ~Dispatching(w, c)
             /\ feeder[c] \in {"none", "done"}
             /\ clock.ctl # c

\* controller.cpp: once ntg_stop is issued ntgcalls cannot call back into the
\* controller, nor find its sink, nor be sent frames by it.
QuietOnceStopped ==
    \A c \in Ctls :
       gw.pc = "ntg_stop" /\ gw.ctl = c
          => /\ \A w \in Workers : ~Dispatching(w, c)
             /\ \A u \in Users : sinks_[u] # c
             /\ feeder[c] = "done"

\* A started controller is the one that receives its user's callbacks: no other
\* controller of that user replaces or removes its sink.
OwnSink ==
    \A c \in Ctls : ctl[c].registered => sinks_[ctl[c].user] = c

\* At most one worker pushes into a controller's playout_buffer_: the ring
\* buffer is made for a single producer.
SingleProducer ==
    \A c \in Ctls : \A v, w \in Workers :
       Dispatching(v, c) /\ Dispatching(w, c) => v = w

\* Stop returns, whatever callbacks are waiting or running.
StopReturns ==
    \A c \in Ctls : (gw.pc = "flag" /\ gw.ctl = c) ~> (ctl[c].life = "gone" \/ ~up)
=============================================================================
