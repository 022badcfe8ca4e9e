------------------------- MODULE VoipRuntimeProofs -------------------------
(***************************************************************************)
(* Teardown of calls is safe for any number of calls, users and threads.   *)
(***************************************************************************)
EXTENDS VoipRuntime, TLAPS

(***************************************************************************)
(* The inductive invariant.                                                *)
(***************************************************************************)

\* A worker that dispatches holds the mutex; one that waits for it has a user.
LockInv ==
    \A w \in Workers : /\ worker[w].pc = "dispatch" => mutex_ = w
                       /\ worker[w].pc = "lock" => worker[w].user \in Users

\* A sink belongs to a registered controller of that user, and the one that a
\* worker dispatches to is still registered.
SinkInv ==
    /\ \A u \in Users : sinks_[u] # NoCtl =>
          ctl[sinks_[u]].registered /\ ctl[sinks_[u]].user = u
    /\ \A w \in Workers : \A c \in Ctls : Dispatching(w, c) => ctl[c].registered

\* What a controller has been through.
LifeInv ==
    \A c \in Ctls :
       /\ ctl[c].registered => ctl[c].created
       /\ ctl[c].created => ctl[c].life = "live"
       /\ ctl[c].life = "live" /\ ~ctl[c].created
             => gw.ctl = c /\ gw.pc \in {"create", "unplug", "destroy"}
       /\ feeder[c] \in {"loop", "send"} => ctl[c].life = "live"
       /\ ctl[c].life = "none" => feeder[c] = "none"
       /\ ctl[c].life # "none" => ctl[c].user \in Users

\* Calls of ntgcalls that exist at the same time have different users.
ConnInv ==
    /\ \A c \in Ctls : ctl[c].created => ctl[c].user \in conn
    /\ \A c, d \in Ctls : ctl[c].created /\ ctl[d].created /\ c # d
                             => ctl[c].user # ctl[d].user

\* What the gateway thread has already done to the controller it is in.
GwInv ==
    gw.pc # "idle" =>
       LET b == ctl[gw.ctl] IN
       /\ b.life = "live"
       /\ gw.pc \in SetUp \cup {"register"} => ~b.registered
       /\ gw.pc \in (SetUp \ {"create"}) \cup {"register", "ports"} => b.created
       /\ gw.pc \in {"ntg_stop", "unplug", "destroy"} => ~b.registered
       /\ gw.pc \in {"unplug", "destroy"} => ~b.created
       /\ gw.pc \in {"unregister", "ntg_stop", "unplug", "destroy"}
             => feeder[gw.ctl] = "done"
       /\ gw.pc = "destroy" => ~b.plugged

\* The clock thread is in a port only while that is in the conference bridge,
\* and the port is not there longer than its controller.
ClockInv ==
    /\ clock.pc # "idle" => clock.ctl \in Ctls /\ ctl[clock.ctl].plugged
    /\ clock.pc = "idle" => clock.ctl = NoCtl
    /\ \A c \in Ctls : ctl[c].plugged => ctl[c].life = "live"

IInv == TypeOK /\ LockInv /\ SinkInv /\ LifeInv /\ ConnInv /\ GwInv /\ ClockInv

-----------------------------------------------------------------------------
LEMMA InitIInv == Init => IInv
BY VoipAssumption DEF Init, IInv, TypeOK, LockInv, SinkInv, LifeInv, ConnInv,
   GwInv, ClockInv, GwPc, CtlType, WorkerType, ClockType, IdleWorker,
   IdleClock, Dispatching

LEMMA StartKeeps ==
    ASSUME IInv, NEW c \in Ctls, NEW u \in Users, Start(c, u) PROVE IInv'
<1> USE DEF IInv, Start, At, Goes
<1>1. TypeOK'
  <2>1. c \in Ctls /\ ctl[c] \in CtlType
    BY VoipAssumption DEF TypeOK, GwPc, Blocking, SetUp
  <2>2. [ctl[c] EXCEPT !.life = "live", !.user = u, !.plugged = TRUE] \in CtlType
    BY <2>1 DEF CtlType
  <2>3. ctl' \in [Ctls -> CtlType]
    BY <2>1, <2>2 DEF TypeOK
  <2>4. gw' \in [pc : GwPc, ctl : Ctls \cup {NoCtl}] /\ (gw'.pc # "idle" => gw'.ctl \in Ctls)
    BY <2>1 DEF TypeOK, GwPc, Blocking, SetUp
  <2> QED
    BY <2>1, <2>3, <2>4 DEF TypeOK, LifeInv, GwInv
<1>2. LockInv'
  BY DEF LockInv
<1>3. SinkInv'
  BY VoipAssumption DEF TypeOK, SinkInv, Dispatching, CtlType, LifeInv
<1>4. LifeInv'
  BY DEF LifeInv
<1>5. ConnInv'
  BY DEF TypeOK, ConnInv, CtlType, LifeInv
<1>6. GwInv'
  BY DEF TypeOK, GwInv, LifeInv, CtlType, SetUp
<1>7. ClockInv'
  BY DEF TypeOK, ClockInv, CtlType, GwInv
<1> QED
  BY <1>1, <1>2, <1>3, <1>4, <1>5, <1>6, <1>7

LEMMA CallReturnsKeeps ==
    ASSUME IInv, CallReturns PROVE IInv'
<1> USE DEF IInv, CallReturns, At, Goes
<1>1. TypeOK'
  <2>1. gw.ctl \in Ctls /\ ctl[gw.ctl] \in CtlType
    BY VoipAssumption DEF TypeOK, GwPc, Blocking, SetUp
  <2>2. [ctl[gw.ctl] EXCEPT !.created = (gw.pc # "ntg_stop")] \in CtlType
    BY <2>1 DEF CtlType
  <2>3. ctl' \in [Ctls -> CtlType]
    BY <2>1, <2>2 DEF TypeOK
  <2>4. gw' \in [pc : GwPc, ctl : Ctls \cup {NoCtl}] /\ (gw'.pc # "idle" => gw'.ctl \in Ctls)
    BY <2>1 DEF TypeOK, GwPc, Blocking, SetUp, AfterCall
  <2> QED
    BY <2>1, <2>3, <2>4 DEF TypeOK, LifeInv, GwInv
<1>2. LockInv'
  BY DEF LockInv
<1>3. SinkInv'
  BY DEF SinkInv, Dispatching
<1> DEFINE c == gw.ctl
<1>a. c \in Ctls /\ ctl[c].life = "live" /\ ctl[c] \in CtlType
  BY DEF TypeOK, GwInv, Blocking, SetUp
<1>b. /\ \A d \in Ctls : d # c => ctl'[d] = ctl[d]
      /\ ctl'[c] = [ctl[c] EXCEPT !.created = (gw.pc # "ntg_stop")]
  BY <1>a DEF TypeOK
<1>c. /\ ctl'[c].user = ctl[c].user /\ ctl'[c].life = "live"
      /\ ctl'[c].registered = ctl[c].registered
      /\ ctl'[c].created = (gw.pc # "ntg_stop")
  BY <1>a, <1>b DEF CtlType
<1>d. gw'.ctl = c /\ gw'.pc = AfterCall[gw.pc] /\ feeder' = feeder
  BY DEF TypeOK
<1> HIDE DEF c
<1>4. LifeInv'
  <2>1. gw.pc = "ntg_stop" => gw'.pc = "unplug" /\ ~ctl[c].registered
    BY <1>d DEF AfterCall, GwInv, c
  <2>2. \A d \in Ctls : d # c /\ ctl[d].life = "live" => ctl[d].created
    BY DEF LifeInv, c
  <2> SUFFICES ASSUME NEW d \in Ctls
               PROVE  /\ ctl'[d].registered => ctl'[d].created
                      /\ ctl'[d].created => ctl'[d].life = "live"
                      /\ ctl'[d].life = "live" /\ ~ctl'[d].created
                            => gw'.ctl = d /\ gw'.pc \in {"create", "unplug", "destroy"}
                      /\ feeder'[d] \in {"loop", "send"} => ctl'[d].life = "live"
                      /\ ctl'[d].life = "none" => feeder'[d] = "none"
                      /\ ctl'[d].life # "none" => ctl'[d].user \in Users
    BY DEF LifeInv
  <2>3. CASE d = c
    <3>1. ctl[c].registered => gw.pc # "ntg_stop"
      BY <2>1
    <3>2. ctl[c].user \in Users
      BY <1>a DEF LifeInv
    <3>3. ~ctl'[c].created => gw'.ctl = c /\ gw'.pc = "unplug"
      BY <1>c, <1>d, <2>1
    <3>4. ctl'[c].registered => ctl'[c].created
      BY <1>c, <3>1
    <3> QED
      BY <1>c, <2>3, <3>2, <3>3, <3>4
  <2>4. CASE d # c
    BY <1>b, <1>d, <2>2, <2>4 DEF LifeInv
  <2> QED
    BY <2>3, <2>4
<1>5. ConnInv'
  <2>1. CASE gw.pc = "create"
    <3>1. ctl[c].user \notin conn /\ conn' = conn \cup {ctl[c].user}
      BY <2>1 DEF c
    <3> QED
      BY <1>a, <1>b, <1>c, <2>1, <3>1 DEF ConnInv
  <2>2. CASE gw.pc = "ntg_stop"
    <3>1. conn' = conn \ {ctl[c].user} /\ ~ctl'[c].created
      BY <1>c, <2>2 DEF c
    <3>2. gw.pc = "ntg_stop" => ctl[c].created
      BY <1>a, <2>2 DEF LifeInv
    <3> QED
      BY <1>a, <1>b, <1>c, <3>1, <2>2, <3>2 DEF ConnInv
  <2>3. CASE gw.pc \in SetUp \ {"create"}
    <3>1. conn' = conn /\ ctl[c].created
      BY <2>3 DEF SetUp, GwInv, c
    <3>2. ctl'[c].created
      BY <1>c, <2>3 DEF SetUp
    <3>3. \A d \in Ctls : /\ ctl'[d].user = ctl[d].user
                           /\ ctl'[d].created => ctl[d].created
      BY <1>b, <1>c, <3>1, <3>2
    <3> QED
      BY <3>1, <3>3 DEF ConnInv
  <2> QED
    BY <2>1, <2>2, <2>3 DEF Blocking
<1>6. GwInv'
  <2>1. /\ gw.pc \in SetUp => gw'.pc \in (SetUp \ {"create"}) \cup {"register"}
        /\ gw.pc = "ntg_stop" => gw'.pc = "unplug"
    BY <1>d DEF SetUp, AfterCall
  <2>2. /\ gw.pc \in SetUp => ~ctl[c].registered
        /\ gw.pc = "ntg_stop" => ~ctl[c].registered /\ feeder[c] = "done"
    BY DEF GwInv, c, SetUp
  <2> QED
    BY <1>c, <1>d, <2>1, <2>2 DEF GwInv, Blocking, SetUp
<1>7. ClockInv'
  BY DEF TypeOK, ClockInv, CtlType, GwInv
<1> QED
  BY <1>1, <1>2, <1>3, <1>4, <1>5, <1>6, <1>7

LEMMA CallThrowsKeeps ==
    ASSUME IInv, CallThrows PROVE IInv'
<1> USE DEF IInv, CallThrows, At, Goes
<1>1. TypeOK'
  BY DEF TypeOK
<1>2. LockInv'
  BY DEF LockInv
<1>3. SinkInv'
  BY DEF SinkInv, Dispatching
<1>4. LifeInv'
  BY DEF LifeInv
<1>5. ConnInv'
  BY DEF ConnInv
<1>6. GwInv'
  BY DEF GwInv
<1>7. ClockInv'
  BY DEF TypeOK, ClockInv, CtlType, GwInv
<1> QED
  BY <1>1, <1>2, <1>3, <1>4, <1>5, <1>6, <1>7

LEMMA RegisterKeeps ==
    ASSUME IInv, Register PROVE IInv'
<1> USE DEF IInv, Register, At, Goes
<1>1. TypeOK'
  <2>1. gw.ctl \in Ctls /\ ctl[gw.ctl] \in CtlType
    BY VoipAssumption DEF TypeOK, GwPc, Blocking, SetUp
  <2>2. [ctl[gw.ctl] EXCEPT !.registered = TRUE] \in CtlType
    BY <2>1 DEF CtlType
  <2>3. ctl' \in [Ctls -> CtlType]
    BY <2>1, <2>2 DEF TypeOK
  <2>4. gw' \in [pc : GwPc, ctl : Ctls \cup {NoCtl}] /\ (gw'.pc # "idle" => gw'.ctl \in Ctls)
    BY <2>1 DEF TypeOK, GwPc, Blocking, SetUp
  <2> QED
    BY <2>1, <2>3, <2>4 DEF TypeOK, LifeInv, GwInv
<1>2. LockInv'
  BY DEF LockInv
<1>3. SinkInv'
  BY DEF TypeOK, SinkInv, Dispatching
<1>4. LifeInv'
  BY DEF TypeOK, LifeInv, CtlType, GwInv
<1>5. ConnInv'
  BY DEF ConnInv
<1>6. GwInv'
  BY DEF TypeOK, GwInv, CtlType, SetUp
<1>7. ClockInv'
  BY DEF TypeOK, ClockInv, CtlType, GwInv
<1> QED
  BY <1>1, <1>2, <1>3, <1>4, <1>5, <1>6, <1>7

LEMMA StartPortsKeeps ==
    ASSUME IInv, StartPorts PROVE IInv'
<1> USE DEF IInv, StartPorts, At, Goes
<1>1. TypeOK'
  <2>1. gw.ctl \in Ctls /\ ctl[gw.ctl] \in CtlType
    BY VoipAssumption DEF TypeOK, GwPc, Blocking, SetUp
  <2>2. [ctl[gw.ctl] EXCEPT !.active = TRUE, !.running = TRUE] \in CtlType
    BY <2>1 DEF CtlType
  <2>3. ctl' \in [Ctls -> CtlType]
    BY <2>1, <2>2 DEF TypeOK
  <2>4. gw' \in [pc : GwPc, ctl : Ctls \cup {NoCtl}] /\ (gw'.pc # "idle" => gw'.ctl \in Ctls)
    BY <2>1 DEF TypeOK, GwPc, Blocking, SetUp
  <2> QED
    BY <2>1, <2>3, <2>4 DEF TypeOK, LifeInv, GwInv
<1>2. LockInv'
  BY DEF LockInv
<1>3. SinkInv'
  BY DEF SinkInv, Dispatching
<1>4. LifeInv'
  BY DEF TypeOK, LifeInv, CtlType, GwInv
<1>5. ConnInv'
  BY DEF ConnInv
<1>6. GwInv'
  BY DEF GwInv
<1>7. ClockInv'
  BY DEF TypeOK, ClockInv, CtlType, GwInv
<1> QED
  BY <1>1, <1>2, <1>3, <1>4, <1>5, <1>6, <1>7

LEMMA StopKeeps ==
    ASSUME IInv, NEW c \in Ctls, Stop(c) PROVE IInv'
<1> USE DEF IInv, Stop, At, Goes
<1>1. TypeOK'
  BY DEF TypeOK, GwPc
<1>2. LockInv'
  BY DEF LockInv
<1>3. SinkInv'
  BY DEF SinkInv, Dispatching
<1>4. LifeInv'
  BY DEF LifeInv
<1>5. ConnInv'
  BY DEF ConnInv
<1>6. GwInv'
  BY DEF TypeOK, GwInv, CtlType, SetUp
<1>7. ClockInv'
  BY DEF TypeOK, ClockInv, CtlType, GwInv
<1> QED
  BY <1>1, <1>2, <1>3, <1>4, <1>5, <1>6, <1>7

LEMMA StopFeederKeeps ==
    ASSUME IInv, StopFeeder PROVE IInv'
<1> USE DEF IInv, StopFeeder, At, Goes
<1>1. TypeOK'
  <2>1. gw.ctl \in Ctls /\ ctl[gw.ctl] \in CtlType
    BY VoipAssumption DEF TypeOK, GwPc, Blocking, SetUp
  <2>2. [ctl[gw.ctl] EXCEPT !.running = FALSE] \in CtlType
    BY <2>1 DEF CtlType
  <2>3. ctl' \in [Ctls -> CtlType]
    BY <2>1, <2>2 DEF TypeOK
  <2>4. gw' \in [pc : GwPc, ctl : Ctls \cup {NoCtl}] /\ (gw'.pc # "idle" => gw'.ctl \in Ctls)
    BY <2>1 DEF TypeOK, GwPc, Blocking, SetUp
  <2> QED
    BY <2>1, <2>3, <2>4 DEF TypeOK, LifeInv, GwInv
<1>2. LockInv'
  BY DEF LockInv
<1>3. SinkInv'
  BY DEF SinkInv, Dispatching
<1>4. LifeInv'
  BY DEF LifeInv
<1>5. ConnInv'
  BY DEF ConnInv
<1>6. GwInv'
  BY DEF TypeOK, GwInv, CtlType, SetUp
<1>7. ClockInv'
  BY DEF TypeOK, ClockInv, CtlType, GwInv
<1> QED
  BY <1>1, <1>2, <1>3, <1>4, <1>5, <1>6, <1>7

LEMMA JoinFeederKeeps ==
    ASSUME IInv, JoinFeeder PROVE IInv'
<1> USE DEF IInv, JoinFeeder, At, Goes
<1>1. TypeOK'
  <2>1. gw.ctl \in Ctls /\ ctl[gw.ctl] \in CtlType
    BY VoipAssumption DEF TypeOK, GwPc, Blocking, SetUp
  <2>2. [ctl[gw.ctl] EXCEPT !.active = FALSE] \in CtlType
    BY <2>1 DEF CtlType
  <2>3. ctl' \in [Ctls -> CtlType]
    BY <2>1, <2>2 DEF TypeOK
  <2>4. gw' \in [pc : GwPc, ctl : Ctls \cup {NoCtl}] /\ (gw'.pc # "idle" => gw'.ctl \in Ctls)
    BY <2>1 DEF TypeOK, GwPc, Blocking, SetUp
  <2> QED
    BY <2>1, <2>3, <2>4 DEF TypeOK, LifeInv, GwInv
<1>2. LockInv'
  BY DEF LockInv
<1>3. SinkInv'
  BY DEF SinkInv, Dispatching
<1>4. LifeInv'
  BY DEF LifeInv
<1>5. ConnInv'
  BY DEF ConnInv
<1>6. GwInv'
  BY DEF TypeOK, GwInv, CtlType, SetUp
<1>7. ClockInv'
  BY DEF TypeOK, ClockInv, CtlType, GwInv
<1> QED
  BY <1>1, <1>2, <1>3, <1>4, <1>5, <1>6, <1>7

LEMMA UnregisterKeeps ==
    ASSUME IInv, Unregister PROVE IInv'
<1> USE DEF IInv, Unregister, At, Goes
<1>1. TypeOK'
  <2>1. gw.ctl \in Ctls /\ ctl[gw.ctl] \in CtlType
    BY VoipAssumption DEF TypeOK, GwPc, Blocking, SetUp
  <2>2. [ctl[gw.ctl] EXCEPT !.registered = FALSE] \in CtlType
    BY <2>1 DEF CtlType
  <2>3. ctl' \in [Ctls -> CtlType]
    BY <2>1, <2>2 DEF TypeOK
  <2>4. gw' \in [pc : GwPc, ctl : Ctls \cup {NoCtl}] /\ (gw'.pc # "idle" => gw'.ctl \in Ctls)
    BY <2>1 DEF TypeOK, GwPc, Blocking, SetUp
  <2> QED
    BY <2>1, <2>3, <2>4 DEF TypeOK, LifeInv, GwInv
<1>2. LockInv'
  BY DEF LockInv
<1>3. SinkInv'
  BY VoipAssumption DEF TypeOK, SinkInv, LockInv, Dispatching, CtlType, LifeInv
<1>4. LifeInv'
  BY DEF LifeInv
<1>5. ConnInv'
  BY DEF ConnInv
<1>6. GwInv'
  BY DEF TypeOK, GwInv, CtlType, SetUp
<1>7. ClockInv'
  BY DEF TypeOK, ClockInv, CtlType, GwInv
<1> QED
  BY <1>1, <1>2, <1>3, <1>4, <1>5, <1>6, <1>7

LEMMA UnplugKeeps ==
    ASSUME IInv, Unplug PROVE IInv'
<1> USE DEF IInv, Unplug, At, Goes
<1>1. TypeOK'
  <2>1. gw.ctl \in Ctls /\ ctl[gw.ctl] \in CtlType
    BY VoipAssumption DEF TypeOK, GwPc, Blocking, SetUp
  <2>2. [ctl[gw.ctl] EXCEPT !.plugged = FALSE] \in CtlType
    BY <2>1 DEF CtlType
  <2>3. ctl' \in [Ctls -> CtlType]
    BY <2>1, <2>2 DEF TypeOK
  <2>4. gw' \in [pc : GwPc, ctl : Ctls \cup {NoCtl}] /\ (gw'.pc # "idle" => gw'.ctl \in Ctls)
    BY <2>1 DEF TypeOK, GwPc, Blocking, SetUp
  <2> QED
    BY <2>1, <2>3, <2>4 DEF TypeOK, LifeInv, GwInv
<1>2. LockInv'
  BY DEF LockInv
<1>3. SinkInv'
  BY DEF SinkInv, Dispatching
<1>4. LifeInv'
  BY DEF LifeInv
<1>5. ConnInv'
  BY DEF ConnInv
<1>6. GwInv'
  BY DEF TypeOK, GwInv, CtlType, SetUp
<1>7. ClockInv'
  BY DEF TypeOK, ClockInv, CtlType, GwInv
<1> QED
  BY <1>1, <1>2, <1>3, <1>4, <1>5, <1>6, <1>7

LEMMA DestroyKeeps ==
    ASSUME IInv, Destroy PROVE IInv'
<1> USE DEF IInv, Destroy, At, Goes
<1>1. TypeOK'
  <2>1. gw' \in [pc : GwPc, ctl : Ctls \cup {NoCtl}] /\ gw'.pc = "idle"
    BY DEF GwPc
  <2>2. gw.ctl \in Ctls /\ ctl[gw.ctl] \in CtlType
    BY DEF TypeOK
  <2>3. [ctl[gw.ctl] EXCEPT !.life = "gone"] \in CtlType
    BY <2>2 DEF CtlType
  <2>4. ctl' \in [Ctls -> CtlType]
    BY <2>2, <2>3 DEF TypeOK
  <2> QED
    BY <2>1, <2>4 DEF TypeOK
<1>2. LockInv'
  BY DEF LockInv
<1>3. SinkInv'
  BY DEF SinkInv, Dispatching
<1>4. LifeInv'
  BY DEF TypeOK, LifeInv, CtlType, GwInv
<1>5. ConnInv'
  BY DEF ConnInv
<1>6. GwInv'
  BY DEF GwInv
<1>7. ClockInv'
  BY DEF TypeOK, ClockInv, CtlType, GwInv
<1> QED
  BY <1>1, <1>2, <1>3, <1>4, <1>5, <1>6, <1>7

LEMMA FeederChecksKeeps ==
    ASSUME IInv, NEW c \in Ctls, FeederChecks(c) PROVE IInv'
<1> USE DEF IInv, FeederChecks, At, Goes
<1>1. TypeOK'
  BY DEF TypeOK
<1>2. LockInv'
  BY DEF LockInv
<1>3. SinkInv'
  BY DEF SinkInv, Dispatching
<1>4. LifeInv'
  BY DEF LifeInv
<1>5. ConnInv'
  BY DEF ConnInv
<1>6. GwInv'
  BY DEF GwInv
<1>7. ClockInv'
  BY DEF TypeOK, ClockInv, CtlType, GwInv
<1> QED
  BY <1>1, <1>2, <1>3, <1>4, <1>5, <1>6, <1>7

LEMMA FeederSendsKeeps ==
    ASSUME IInv, NEW c \in Ctls, FeederSends(c) PROVE IInv'
<1> USE DEF IInv, FeederSends, At, Goes
<1>1. TypeOK'
  BY DEF TypeOK
<1>2. LockInv'
  BY DEF LockInv
<1>3. SinkInv'
  BY DEF SinkInv, Dispatching
<1>4. LifeInv'
  BY DEF LifeInv
<1>5. ConnInv'
  BY DEF ConnInv
<1>6. GwInv'
  BY DEF GwInv
<1>7. ClockInv'
  BY DEF TypeOK, ClockInv, CtlType, GwInv
<1> QED
  BY <1>1, <1>2, <1>3, <1>4, <1>5, <1>6, <1>7

LEMMA ClockEntersKeeps ==
    ASSUME IInv, NEW c \in Ctls, ClockEnters(c) PROVE IInv'
<1> USE DEF IInv, ClockEnters, At, Goes
<1>1. TypeOK'
  BY DEF TypeOK, ClockType, IdleClock
<1>2. LockInv'
  BY DEF LockInv
<1>3. SinkInv'
  BY DEF SinkInv, Dispatching
<1>4. LifeInv'
  BY DEF LifeInv
<1>5. ConnInv'
  BY DEF ConnInv
<1>6. GwInv'
  BY DEF GwInv
<1>7. ClockInv'
  BY VoipAssumption DEF TypeOK, ClockInv, ClockType, IdleClock, CtlType
<1> QED
  BY <1>1, <1>2, <1>3, <1>4, <1>5, <1>6, <1>7

LEMMA ClockReadsKeeps ==
    ASSUME IInv, ClockReads PROVE IInv'
<1> USE DEF IInv, ClockReads, At, Goes
<1>1. TypeOK'
  BY DEF TypeOK, ClockType, IdleClock
<1>2. LockInv'
  BY DEF LockInv
<1>3. SinkInv'
  BY DEF SinkInv, Dispatching
<1>4. LifeInv'
  BY DEF LifeInv
<1>5. ConnInv'
  BY DEF ConnInv
<1>6. GwInv'
  BY DEF GwInv
<1>7. ClockInv'
  BY VoipAssumption DEF TypeOK, ClockInv, ClockType, IdleClock, CtlType
<1> QED
  BY <1>1, <1>2, <1>3, <1>4, <1>5, <1>6, <1>7

LEMMA ClockReturnsKeeps ==
    ASSUME IInv, ClockReturns PROVE IInv'
<1> USE DEF IInv, ClockReturns, At, Goes
<1>1. TypeOK'
  BY DEF TypeOK, ClockType, IdleClock
<1>2. LockInv'
  BY DEF LockInv
<1>3. SinkInv'
  BY DEF SinkInv, Dispatching
<1>4. LifeInv'
  BY DEF LifeInv
<1>5. ConnInv'
  BY DEF ConnInv
<1>6. GwInv'
  BY DEF GwInv
<1>7. ClockInv'
  BY VoipAssumption DEF TypeOK, ClockInv, ClockType, IdleClock, CtlType
<1> QED
  BY <1>1, <1>2, <1>3, <1>4, <1>5, <1>6, <1>7

LEMMA CallbackBeginsKeeps ==
    ASSUME IInv, NEW w \in Workers, NEW u \in Users, CallbackBegins(w, u) PROVE IInv'
<1> USE DEF IInv, CallbackBegins, At, Goes
<1>1. TypeOK'
  <2>1. worker[w] \in WorkerType
    BY DEF TypeOK
  <2>2. [worker[w] EXCEPT !.pc = "lock", !.user = u] \in WorkerType
    BY <2>1 DEF WorkerType, TypeOK
  <2>3. worker' \in [Workers -> WorkerType]
    BY <2>2 DEF TypeOK
  <2> QED
    BY <2>3 DEF TypeOK
<1>2. LockInv'
  BY DEF LockInv
<1>3. SinkInv'
  BY DEF SinkInv, Dispatching
<1>4. LifeInv'
  BY DEF LifeInv
<1>5. ConnInv'
  BY DEF ConnInv
<1>6. GwInv'
  BY DEF GwInv
<1>7. ClockInv'
  BY DEF TypeOK, ClockInv, CtlType, GwInv
<1> QED
  BY <1>1, <1>2, <1>3, <1>4, <1>5, <1>6, <1>7

LEMMA CallbackLocksKeeps ==
    ASSUME IInv, NEW w \in Workers, CallbackLocks(w) PROVE IInv'
<1> USE DEF IInv, CallbackLocks, At, Goes
<1> DEFINE k == sinks_[worker[w].user]
<1>a. worker[w] \in WorkerType /\ worker[w].user \in Users /\ k \in Ctls \cup {NoCtl}
  BY DEF TypeOK, LockInv
<1>b. /\ worker'[w] = [worker[w] EXCEPT !.pc = "dispatch", !.ctl = k]
      /\ \A v \in Workers : v # w => worker'[v] = worker[v]
  BY <1>a DEF TypeOK
<1> HIDE DEF k
<1>c. worker'[w] \in WorkerType /\ worker'[w].pc = "dispatch" /\ worker'[w].ctl = k
  <2>1. [worker[w] EXCEPT !.pc = "dispatch", !.ctl = k] \in WorkerType
    BY <1>a DEF WorkerType
  <2>2. /\ [worker[w] EXCEPT !.pc = "dispatch", !.ctl = k].pc = "dispatch"
        /\ [worker[w] EXCEPT !.pc = "dispatch", !.ctl = k].ctl = k
    BY <1>a DEF WorkerType
  <2> QED
    BY <1>b, <2>1, <2>2
<1>1. TypeOK'
  BY <1>b, <1>c DEF TypeOK
<1>2. LockInv'
  BY <1>b, <1>c, VoipAssumption DEF LockInv
<1>3. SinkInv'
  BY <1>a, <1>b, <1>c, VoipAssumption DEF SinkInv, LockInv, Dispatching, k
<1>4. LifeInv'
  BY DEF LifeInv
<1>5. ConnInv'
  BY DEF ConnInv
<1>6. GwInv'
  BY DEF GwInv
<1>7. ClockInv'
  BY DEF TypeOK, ClockInv, CtlType, GwInv
<1> QED
  BY <1>1, <1>2, <1>3, <1>4, <1>5, <1>6, <1>7

LEMMA CallbackReturnsKeeps ==
    ASSUME IInv, NEW w \in Workers, CallbackReturns(w) PROVE IInv'
<1> USE DEF IInv, CallbackReturns, At, Goes
<1>1. TypeOK'
  BY DEF TypeOK, WorkerType, IdleWorker
<1>2. LockInv'
  BY DEF TypeOK, LockInv, WorkerType, IdleWorker
<1>3. SinkInv'
  BY DEF TypeOK, SinkInv, Dispatching, WorkerType, IdleWorker
<1>4. LifeInv'
  BY DEF LifeInv
<1>5. ConnInv'
  BY DEF ConnInv
<1>6. GwInv'
  BY DEF GwInv
<1>7. ClockInv'
  BY DEF TypeOK, ClockInv, CtlType, GwInv
<1> QED
  BY <1>1, <1>2, <1>3, <1>4, <1>5, <1>6, <1>7

-----------------------------------------------------------------------------
LEMMA StepKeeps == IInv /\ [Next]_vars => IInv'
<1> SUFFICES ASSUME IInv, [Next]_vars PROVE IInv'
  OBVIOUS
<1>1. CASE Gateway
  BY <1>1, StartKeeps, CallReturnsKeeps, CallThrowsKeeps, RegisterKeeps,
     StartPortsKeeps, StopKeeps, StopFeederKeeps, JoinFeederKeeps,
     UnregisterKeeps, UnplugKeeps, DestroyKeeps DEF Gateway
<1>2. CASE \E c \in Ctls : Feeder(c)
  BY <1>2, FeederChecksKeeps, FeederSendsKeeps DEF Feeder
<1>3. CASE \E w \in Workers : Callback(w)
  BY <1>3, CallbackLocksKeeps, CallbackReturnsKeeps DEF Callback
<1>4. CASE \E w \in Workers, u \in Users : CallbackBegins(w, u)
  BY <1>4, CallbackBeginsKeeps
<1>5. CASE \E c \in Ctls : ClockEnters(c)
  BY <1>5, ClockEntersKeeps
<1>6. CASE Clock
  BY <1>6, ClockReadsKeeps, ClockReturnsKeeps DEF Clock
<1>7. CASE UNCHANGED vars
  BY <1>7 DEF vars, IInv, TypeOK, LockInv, SinkInv, LifeInv, ConnInv, GwInv,
     ClockInv, Dispatching
<1> QED
  BY <1>1, <1>2, <1>3, <1>4, <1>5, <1>6, <1>7 DEF Next

LEMMA Inductive == Spec => []IInv
<1>1. Init => IInv
  BY InitIInv
<1>2. IInv /\ [Next]_vars => IInv'
  BY StepKeeps
<1> QED
  BY <1>1, <1>2, PTL DEF Spec

\* No thread is ever inside a destroyed controller: Stop joins the feeder,
\* Unregister waits for the callback that holds the runtime's mutex and the
\* destructor of a port for the clock thread that holds the bridge's.
THEOREM TeardownIsSafe == Spec => []NoUseAfterFree
<1>1. IInv => NoUseAfterFree
  BY VoipAssumption DEF IInv, TypeOK, SinkInv, LifeInv, ClockInv, ClockType,
     NoUseAfterFree
<1> QED
  BY <1>1, Inductive, PTL

\* Once ntg_stop is issued nothing of ntgcalls reaches the controller.
THEOREM StoppedIsQuiet == Spec => []QuietOnceStopped
<1>1. IInv => QuietOnceStopped
  BY VoipAssumption DEF IInv, TypeOK, SinkInv, GwInv, QuietOnceStopped
<1> QED
  BY <1>1, Inductive, PTL

\* The callbacks of a started call reach its own controller.  The converse of
\* SinkInv needs its own induction: Register writes the key of no other
\* registered controller because ConnInv keeps the users of calls apart.
THEOREM SinkIsOwn == Spec => []OwnSink
<1>1. Init => OwnSink
  BY DEF Init, OwnSink
<1>2. IInv /\ OwnSink /\ [Next]_vars => OwnSink'
  <2> SUFFICES ASSUME IInv, OwnSink, [Next]_vars PROVE OwnSink'
    OBVIOUS
  <2>1. CASE Register \/ Unregister
    <3>1. /\ gw.ctl \in Ctls /\ ctl[gw.ctl] \in CtlType
          /\ ctl[gw.ctl].life = "live" /\ ctl[gw.ctl].user \in Users
          /\ ctl[gw.ctl].created
      BY <2>1 DEF Register, Unregister, At, IInv, TypeOK, GwInv, LifeInv
    <3>2. \A d \in Ctls : /\ d # gw.ctl => ctl'[d] = ctl[d]
                           /\ ctl'[d].user = ctl[d].user
      BY <2>1, <3>1 DEF Register, Unregister, IInv, TypeOK, CtlType
    <3>3. \A d \in Ctls : d # gw.ctl /\ ctl[d].registered
                             => ctl[d].user # ctl[gw.ctl].user
      BY <3>1 DEF IInv, ConnInv, LifeInv
    <3>4. \A u \in Users : u # ctl[gw.ctl].user => sinks_'[u] = sinks_[u]
      BY <2>1, <3>1 DEF Register, Unregister, IInv, TypeOK
    <3>5. /\ ctl'[gw.ctl].registered => sinks_'[ctl[gw.ctl].user] = gw.ctl
          /\ ctl'[gw.ctl].user = ctl[gw.ctl].user
      BY <2>1, <3>1 DEF Register, Unregister, IInv, TypeOK, CtlType
    <3>6. \A d \in Ctls : ctl[d].registered => ctl[d].user \in Users
      BY DEF IInv, LifeInv
    <3> SUFFICES ASSUME NEW d \in Ctls, ctl'[d].registered
                 PROVE  sinks_'[ctl'[d].user] = d
      BY DEF OwnSink
    <3>7. CASE d = gw.ctl
      <4>1. ctl'[gw.ctl].registered
        BY <3>7, Zenon
      <4>2. sinks_'[ctl'[gw.ctl].user] = gw.ctl
        BY <3>5, <4>1
      <4> QED
        BY <3>7, <4>2, Zenon
    <3>8. CASE d # gw.ctl
      BY <3>2, <3>3, <3>4, <3>6, <3>8 DEF OwnSink
    <3> QED
      BY <3>7, <3>8
  <2>2. CASE UNCHANGED <<ctl, sinks_>>
    BY <2>2 DEF OwnSink
  <2>3. CASE \E c \in Ctls, u \in Users : Start(c, u)
    BY <2>3 DEF Start, At, IInv, TypeOK, CtlType, OwnSink, LifeInv
  <2>4. CASE \/ CallReturns \/ StartPorts \/ StopFeeder
              \/ JoinFeeder \/ Unplug \/ Destroy
    <3>1. gw.ctl \in Ctls /\ ctl[gw.ctl] \in CtlType
      BY <2>4 DEF CallReturns, StartPorts, StopFeeder, JoinFeeder, Unplug, Destroy, At,
         IInv, TypeOK, Blocking, SetUp
    <3>2. \A d \in Ctls : /\ ctl'[d].user = ctl[d].user
                           /\ ctl'[d].registered = ctl[d].registered
      <4>1. CASE CallReturns
        BY <3>1, <4>1 DEF CallReturns, IInv, TypeOK, CtlType
      <4>2. CASE StartPorts
        BY <3>1, <4>2 DEF StartPorts, IInv, TypeOK, CtlType
      <4>3. CASE StopFeeder \/ JoinFeeder \/ Unplug \/ Destroy
        BY <3>1, <4>3 DEF StopFeeder, JoinFeeder, Unplug, Destroy, IInv, TypeOK, CtlType
      <4> QED
        BY <2>4, <4>1, <4>2, <4>3
    <3>3. sinks_' = sinks_
      BY <2>4 DEF CallReturns, StartPorts, StopFeeder, JoinFeeder, Unplug, Destroy
    <3> QED
      BY <3>2, <3>3 DEF OwnSink
  <2> QED
    BY <2>1, <2>2, <2>3, <2>4 DEF Next, Gateway, CallThrows, Stop, Feeder,
       FeederChecks, FeederSends, ClockEnters, Clock, ClockReads,
       ClockReturns, Callback, CallbackLocks, CallbackReturns,
       CallbackBegins, vars
<1> QED
  BY <1>1, <1>2, Inductive, PTL DEF Spec

\* The ring buffer for incoming sound has a single producer at any time.
THEOREM ProducersAreSingle == Spec => []SingleProducer
<1>1. IInv => SingleProducer
  BY DEF IInv, LockInv, SingleProducer, Dispatching
<1> QED
  BY <1>1, Inductive, PTL
=============================================================================
