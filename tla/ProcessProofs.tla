--------------------------- MODULE ProcessProofs ---------------------------
(***************************************************************************)
(* The order of construction and destruction in main, for any number of    *)
(* calls: which callbacks may come too late, and for what.                 *)
(***************************************************************************)
EXTENDS Process, TLAPS

(***************************************************************************)
(* The inductive invariant.                                                *)
(***************************************************************************)

Types ==
    /\ object \in [Objects -> {"unborn", "alive", "dead"}]
    /\ sip \in [Calls -> {"none", "up", "reporting", "over"}]
    /\ tg \in [Calls -> {"none", "up", "over"}]

\* A source of callbacks has what its callbacks use.
SourceInv ==
    /\ account = "registered" => object["sip_events"] = "alive" /\ object["sip_client"] # "unborn"
    /\ object["sip_client"] = "alive" => object["sip_events"] = "alive"
    /\ object["sip_client"] # "unborn" => object["sip_events"] # "unborn"
    /\ td = "running" => object["tg_events"] = "alive"
    /\ \A c \in Calls : sip[c] \in {"up", "reporting"} => object["sip_client"] # "unborn"
    /\ \A c \in Calls : tg[c] = "up" => object["internal_events"] # "unborn"

\* What main has built before it gets somewhere.
Starting == {"init_logging", "sip_client"}
BuildInv ==
    /\ pc \in Starting => /\ object["sip_client"] = "unborn" /\ object["sip_events"] = "unborn"
                         /\ account # "registered"
    /\ pc \in Starting \cup {"sip_start", "tg_client"} => td # "running"
    /\ pc \in Starting \cup {"sip_start", "tg_client", "wait_for"}
          => object["internal_events"] = "unborn"
    /\ pc \in {"load_cache", "loop", "~gateway"} => object["internal_events"] = "alive"

\* What is left on the way out.
DestroyInv ==
    /\ pc \in {"sip_start", "tg_client", "wait_for", "load_cache", "loop",
               "~gateway", "~tg_client", "~calls"}
          => object["sip_events"] = "alive" /\ object["sip_client"] = "alive"
    /\ pc \in {"~calls", "~account", "~sip_events"} => td # "running"
    /\ pc \in {"~account", "~sip_events"} => object["sip_client"] = "dead"
    /\ pc = "~account" => object["sip_events"] = "alive"
    /\ pc = "~sip_events" => account # "registered"

LifeInv == Types /\ SourceInv /\ BuildInv /\ DestroyInv /\ OnlyKnownMisses

-----------------------------------------------------------------------------
LEMMA InitLife == Init => LifeInv
BY DEF Init, LifeInv, Types, SourceInv, BuildInv, DestroyInv, OnlyKnownMisses, Missed,
       Objects, Starting

\* A step of main that makes objects, or none; each is made once.
LEMMA BuildLife ==
    ASSUME LifeInv,
           init_logging \/ MakeSipClient \/ StartSip \/ StartTg \/ WaitFor \/ LoadCache \/ LeaveLoop
    PROVE  LifeInv'
<1> USE DEF LifeInv, Types, SourceInv, BuildInv, DestroyInv, OnlyKnownMisses, Missed,
            Objects, Starting, Goto, legs, signals
<1>1. CASE init_logging
  BY <1>1 DEF init_logging
<1>2. CASE MakeSipClient
  BY <1>2 DEF MakeSipClient
<1>3. CASE StartSip
  BY <1>3 DEF StartSip
<1>4. CASE StartTg
  BY <1>4 DEF StartTg
<1>5. CASE WaitFor
  BY <1>5 DEF WaitFor
<1>6. CASE LoadCache \/ LeaveLoop
  BY <1>6 DEF LoadCache, LeaveLoop
<1> QED
  BY <1>1, <1>2, <1>3, <1>4, <1>5, <1>6

\* A step of main that destroys objects: who may still use them is gone.
LEMMA DestroyLife ==
    ASSUME LifeInv,
           DestroyGateway \/ DestroyTg \/ DestroyCalls \/ DestroyAccount \/ DestroySipEvents
           \/ DestroyEndpoint
    PROVE  LifeInv'
<1> USE DEF LifeInv, Types, SourceInv, BuildInv, DestroyInv, OnlyKnownMisses, Missed,
            Objects, Starting, Goto, Destroy, HungUp, legs, signals
<1>1. CASE DestroyGateway
  BY <1>1 DEF DestroyGateway
<1>2. CASE DestroyTg
  BY <1>2 DEF DestroyTg
<1>3. CASE DestroyCalls
  BY <1>3 DEF DestroyCalls
<1>4. CASE DestroyAccount
  BY <1>4 DEF DestroyAccount
<1>5. CASE DestroySipEvents
  BY <1>5 DEF DestroySipEvents
<1>6. CASE DestroyEndpoint
  BY <1>6 DEF DestroyEndpoint
<1> QED
  BY <1>1, <1>2, <1>3, <1>4, <1>5, <1>6

\* The handlers of the loop.
LEMMA LoopLife ==
    ASSUME LifeInv, ServeSip \/ Throw \/ \E c \in Calls : CleanUp(c)
    PROVE  LifeInv'
<1> USE DEF LifeInv, Types, SourceInv, BuildInv, DestroyInv, OnlyKnownMisses, Missed,
            Objects, Starting, Goto, HungUp, legs, signals
<1>1. CASE ServeSip
  BY <1>1 DEF ServeSip
<1>2. CASE Throw
  BY <1>2 DEF Throw
<1>3. CASE \E c \in Calls : CleanUp(c)
  BY <1>3 DEF CleanUp
<1> QED
  BY <1>1, <1>2, <1>3

\* A callback misses at most what OnlyKnownMisses says.
LEMMA CallbackLife ==
    ASSUME LifeInv,
           \/ ProcessUpdate \/ TdEnds \/ Signal
           \/ \E c \in Calls : onIncomingCall(c) \/ onCallState(c) \/ Report(c)
                               \/ OnSignalingData(c)
    PROVE  LifeInv'
<1> USE DEF LifeInv, Types, SourceInv, BuildInv, DestroyInv, OnlyKnownMisses, Missed,
            Objects, Starting, Uses, Ended, legs, signals
<1>1. CASE ProcessUpdate
  BY <1>1 DEF ProcessUpdate
<1>2. CASE TdEnds
  BY <1>2 DEF TdEnds
<1>3. CASE Signal
  BY <1>3 DEF Signal
<1>4. ASSUME NEW c \in Calls, onIncomingCall(c) PROVE LifeInv'
  <2>1. misused' \subseteq misused \cup {m \in Missed : object[m[2]] = "dead"}
    BY <1>4 DEF onIncomingCall
  <2> QED
    BY <1>4, <2>1 DEF onIncomingCall
<1>5. ASSUME NEW c \in Calls, onCallState(c) PROVE LifeInv'
  BY <1>5 DEF onCallState
<1>6. ASSUME NEW c \in Calls, Report(c) PROVE LifeInv'
  <2>1. misused' \subseteq misused \cup {m \in Missed : object[m[2]] = "dead"}
    BY <1>6 DEF Report
  <2> QED
    BY <1>6, <2>1 DEF Report
<1>7. ASSUME NEW c \in Calls, OnSignalingData(c) PROVE LifeInv'
  <2>1. misused' \subseteq misused \cup {m \in Missed : object[m[2]] = "dead"}
    BY <1>7 DEF OnSignalingData
  <2> QED
    BY <1>7, <2>1 DEF OnSignalingData
<1> QED
  BY <1>1, <1>2, <1>3, <1>4, <1>5, <1>6, <1>7

LEMMA StepLife == LifeInv /\ [Next]_vars => LifeInv'
<1> SUFFICES ASSUME LifeInv, [Next]_vars PROVE LifeInv'
  OBVIOUS
<1>1. CASE UNCHANGED vars
  BY <1>1 DEF vars, LifeInv, Types, SourceInv, BuildInv, DestroyInv, OnlyKnownMisses, Missed
<1>2. CASE Next
  BY <1>2, BuildLife, DestroyLife, LoopLife, CallbackLife DEF Next, Main
<1> QED
  BY <1>1, <1>2

\* Whatever PJSIP, TDLib and ntgcalls call back, from the first call until the
\* endpoint is destroyed after main: the Telegram thread has its queue, an incoming
\* call has the queue of SIP events, and the callbacks that may come too late are
\* those that OnlyKnownMisses names, each for the object it names.
THEOREM MissesAreKnown == Spec => []OnlyKnownMisses
<1>1. LifeInv => OnlyKnownMisses
  BY DEF LifeInv
<1> QED
  BY <1>1, InitLife, StepLife, PTL DEF Spec

=============================================================================
