------------------------------ MODULE TgClient ------------------------------
(***************************************************************************)
(* tg::Client (tg.cpp): queries and their answers, updates, authorization  *)
(* at start-up and the end of the client, between main's thread (which     *)
(* becomes the gateway's loop), the client's own thread and TDLib.         *)
(*                                                                         *)
(* handlers is a std::map that both threads use without a lock.  With Racy *)
(* an emplace while the other thread is inside the map may lose its entry  *)
(* or the one looked up, or end the process; without it every operation on *)
(* the map is atomic.                                                      *)
(***************************************************************************)
EXTENDS Naturals, Sequences, FiniteSets

CONSTANTS
    MaxQueries,   \* bound: queries sent in a behaviour
    MaxPending,   \* bound: futures the gateway holds at once (load_cache)
    MaxUpdates,   \* bound: call and message updates TDLib reports
    MaxResponses, \* bound: responses that wait for receive
    Racy          \* a race on the map has its effects

ASSUME TgAssumption ==
    /\ MaxQueries \in Nat /\ MaxQueries >= 3
    /\ MaxPending \in Nat \ {0} /\ MaxUpdates \in Nat
    /\ Racy \in BOOLEAN

VARIABLES
    main,              \* where main's thread is: start-up, gateway loop, destructors
    gw,                \* the gateway's use of the client: a query being sent, a future waited for
    thr,               \* the thread that runs Client::loop
    is_closed,
    current_query_id,
    handlers,          \* the keys of handlers
    futures,           \* the promises of send_query_async and what they were set to
    is_ready_,
    events,            \* updates emplaced in the gateway's queue
    td,                \* TDLib: authorization state, requests it has not answered, updates reported (external)
    responses,         \* what client->receive will return (external)
    raced              \* ids emplaced while the other thread was inside the map

vars == <<main, gw, thr, is_closed, current_query_id, handlers, futures,
          is_ready_, events, td, responses, raced>>

Ids == 1..MaxQueries

\* The fields of a response: the id of the query, or 0 and the kind of update.
Response(id, kind) == [id |-> id, kind |-> kind]

\* A session that is there or needs a login, and one that ends: "closing" also
\* stands for logging out, which the code does not tell from it.
Entry == {"ready", "sign_on"}
Ending == {"closing", "closed"}
AuthStates == {"wait_parameters"} \cup Entry \cup Ending
Kinds == AuthStates \cup {"answer", "event", "other"}

TypeOK ==
    /\ main \in {"start", "wait", "run", "join", "gone", "aborted"}
    /\ gw \in [mode : {"free", "sending", "getting"}, id : 0..MaxQueries,
               pend : SUBSET Ids]
    /\ thr \in [pc : {"off", "receive", "find", "erase", "ended"}, id : 0..MaxQueries]
    /\ is_closed \in BOOLEAN
    /\ current_query_id \in 0..MaxQueries
    /\ handlers \subseteq Ids
    /\ futures \in [Ids -> [st : {"none", "waiting", "ready"}, of : 0..MaxQueries]]
    /\ is_ready_ \in {"unset", "true", "false"}
    /\ events \in Nat
    /\ td \in [auth : AuthStates \cup {"start"}, asked : SUBSET Ids, reported : Nat]
    /\ responses \in Seq([id : 0..MaxQueries, kind : Kinds])
    /\ raced \subseteq Ids

Init ==
    /\ main = "start"
    /\ gw = [mode |-> "free", id |-> 0, pend |-> {}]
    /\ thr = [pc |-> "off", id |-> 0]
    /\ is_closed = FALSE
    /\ current_query_id = 0
    /\ handlers = {}
    /\ futures = [q \in Ids |-> [st |-> "none", of |-> 0]]
    /\ is_ready_ = "unset"
    /\ events = 0
    /\ td = [auth |-> "start", asked |-> {}, reported |-> 0]
    /\ responses = <<>>
    /\ raced = {}

-----------------------------------------------------------------------------
(* main: start-up and shutdown *)

\* The client is made and its thread started.
Start ==
    /\ main = "start"
    /\ main' = "wait"
    /\ thr' = [pc |-> "receive", id |-> 0]
    /\ UNCHANGED <<gw, is_closed, current_query_id, handlers, futures, is_ready_,
                   events, td, responses, raced>>

\* Mutant: the flag is not set.
Close_NoFlag ==
    /\ main' = "join"
    /\ UNCHANGED is_closed

\* ~Client sets is_closed and joins the thread.
Close ==
    /\ main' = "join"
    /\ is_closed' = TRUE

\* wait_for and get of the ready future.  A wait that times out, and an
\* authorization that did not succeed, end main with 1.
Ready ==
    /\ main = "wait"
    /\ \/ /\ is_ready_ = "true"
          /\ main' = "run"
          /\ UNCHANGED is_closed
       \/ /\ is_ready_ # "true"
          /\ Close
    /\ UNCHANGED <<gw, thr, current_query_id, handlers, futures, is_ready_, events,
                   td, responses, raced>>

\* Gateway::start has returned between two handlers.
LeaveGateway ==
    /\ main = "run"
    /\ gw.mode = "free"
    /\ Close
    /\ UNCHANGED <<gw, thr, current_query_id, handlers, futures, is_ready_, events,
                   td, responses, raced>>

\* The join; what main owned before the client, the queue included, goes after it.
Joined ==
    /\ main = "join"
    /\ thr.pc = "ended"
    /\ main' = "gone"
    /\ UNCHANGED <<gw, thr, is_closed, current_query_id, handlers, futures,
                   is_ready_, events, td, responses, raced>>

-----------------------------------------------------------------------------
(* The gateway thread: send_query_async and get *)

\* Mutant: the counter is advanced after its value was taken.
next_query_id_Post == current_query_id

next_query_id == current_query_id + 1

\* Mutant: the query is sent without its handler.
SendQueryAsync_NoHandler ==
    /\ main = "run"
    /\ gw.mode = "free"
    /\ current_query_id < MaxQueries
    /\ Cardinality(gw.pend) < MaxPending
    /\ current_query_id' = next_query_id
    /\ futures' = [futures EXCEPT ![next_query_id].st = "waiting"]
    /\ gw' = [gw EXCEPT !.mode = "sending", !.id = next_query_id]
    /\ UNCHANGED <<main, thr, is_closed, handlers, is_ready_, events, td, responses, raced>>

\* send_query_async up to the emplace in send_query: promise, id, handler.
SendQueryAsync ==
    /\ main = "run"
    /\ gw.mode = "free"
    /\ current_query_id < MaxQueries
    /\ Cardinality(gw.pend) < MaxPending
    /\ LET id == next_query_id
           overlap == thr.pc \in {"find", "erase"} IN
       /\ current_query_id' = id
       /\ futures' = [futures EXCEPT ![id].st = "waiting"]
       /\ \E lost \in SUBSET {id, thr.id} :
             /\ lost # {} => Racy /\ overlap
             /\ handlers' = (handlers \cup {id}) \ lost
       /\ \/ UNCHANGED main
          \/ Racy /\ overlap /\ main' = "aborted"
       /\ raced' = IF Racy /\ overlap THEN raced \cup {id, thr.id} ELSE raced
       /\ gw' = [gw EXCEPT !.mode = "sending", !.id = id]
    /\ UNCHANGED <<thr, is_closed, is_ready_, events, td, responses>>

\* client->send.  The caller keeps the future, or drops it
\* (sendCallSignalingData does).
Send ==
    /\ gw.mode = "sending"
    /\ td' = [td EXCEPT !.asked = @ \cup {gw.id}]
    /\ \E kept \in {{}, {gw.id}} :
          gw' = [mode |-> "free", id |-> 0, pend |-> gw.pend \cup kept]
    /\ UNCHANGED <<main, thr, is_closed, current_query_id, handlers, futures,
                   is_ready_, events, responses, raced>>

\* future.get() blocks the gateway thread until its promise is set.
Get ==
    /\ main = "run"
    /\ gw.mode = "free"
    /\ \E q \in gw.pend : gw' = [gw EXCEPT !.mode = "getting", !.id = q]
    /\ UNCHANGED <<main, thr, is_closed, current_query_id, handlers, futures,
                   is_ready_, events, td, responses, raced>>

GetReturns ==
    /\ gw.mode = "getting"
    /\ futures[gw.id].st = "ready"
    /\ gw' = [mode |-> "free", id |-> 0, pend |-> gw.pend \ {gw.id}]
    /\ UNCHANGED <<main, thr, is_closed, current_query_id, handlers, futures,
                   is_ready_, events, td, responses, raced>>

-----------------------------------------------------------------------------
(* The client's thread *)

\* Where Client::loop goes once a response is processed.
Looped == [pc |-> IF is_closed THEN "ended" ELSE "receive", id |-> 0]

\* is_ready_.set_value: a second call throws out of the thread.
SetReady(value) ==
    \/ /\ is_ready_ = "unset"
       /\ is_ready_' = value
       /\ UNCHANGED main
    \/ /\ is_ready_ # "unset"
       /\ main' = "aborted"
       /\ UNCHANGED is_ready_

\* The ids of the two queries that the constructor prepares: init_lib_parameters
\* and init_proxy, which sets a proxy or disables it.
PreparedQueries == {next_query_id, next_query_id + 1}

\* Mutant: a missing break after WaitTdlibParameters.
OnAuthorizationState_FallsThrough(state) ==
    LET ids == IF state = "wait_parameters" THEN PreparedQueries ELSE {} IN
    /\ SetReady(IF state = "ready" THEN "true" ELSE "false")
    /\ current_query_id' = current_query_id + Cardinality(ids)
    /\ handlers' = handlers \cup ids
    /\ td' = [td EXCEPT !.asked = @ \cup ids]

\* on_authorization_state_update.  The two queries of WaitTdlibParameters are
\* sent by the client's own thread; no other thread uses the client yet.
OnAuthorizationState(state) ==
    CASE state = "ready" ->
            SetReady("true") /\ UNCHANGED <<current_query_id, handlers, td>>
      [] state = "wait_parameters" ->
            /\ current_query_id' = current_query_id + Cardinality(PreparedQueries)
            /\ handlers' = handlers \cup PreparedQueries
            /\ td' = [td EXCEPT !.asked = @ \cup PreparedQueries]
            /\ UNCHANGED <<main, is_ready_>>
      [] OTHER ->
            SetReady("false") /\ UNCHANGED <<current_query_id, handlers, td>>

\* process_update.
ProcessUpdate(kind) ==
    CASE kind \in AuthStates ->
            OnAuthorizationState(kind) /\ UNCHANGED events
      [] kind = "event" ->
            /\ events' = events + 1
            /\ UNCHANGED <<main, is_ready_, current_query_id, handlers, td>>
      [] OTHER ->
            UNCHANGED <<main, is_ready_, current_query_id, handlers, td, events>>

\* receive returned something: an update is processed, an answer looked up next.
Receive ==
    /\ thr.pc = "receive"
    /\ responses # <<>>
    /\ responses' = Tail(responses)
    /\ LET r == Head(responses) IN
       IF r.id = 0
       THEN ProcessUpdate(r.kind) /\ thr' = Looped
       ELSE /\ thr' = [pc |-> "find", id |-> r.id]
            /\ UNCHANGED <<main, is_ready_, current_query_id, handlers, td, events>>
    /\ UNCHANGED <<gw, is_closed, futures, raced>>

\* receive returned nothing within WAIT_TIMEOUT and the loop ends.
ReceiveTimesOut ==
    /\ thr.pc = "receive"
    /\ responses = <<>>
    /\ is_closed
    /\ thr' = Looped
    /\ UNCHANGED <<main, gw, is_closed, current_query_id, handlers, futures,
                   is_ready_, events, td, responses, raced>>

\* Mutant: the handler refers to the counter and not to its own query.
RunHandler_Latest ==
    /\ thr.pc = "find"
    /\ thr.id \in handlers
    /\ futures' = IF futures[thr.id].st = "waiting"
                  THEN [futures EXCEPT ![thr.id] = [st |-> "ready", of |-> current_query_id]]
                  ELSE futures
    /\ thr' = [thr EXCEPT !.pc = "erase"]
    /\ UNCHANGED <<main, gw, is_closed, current_query_id, handlers, is_ready_, events,
                   td, responses, raced>>

\* process_response: find and, where there is one, the handler.  It sets the
\* promise of a query of send_query_async; that of an authorization query logs.
RunHandler ==
    /\ thr.pc = "find"
    /\ \/ /\ thr.id \in handlers
          /\ futures' = IF futures[thr.id].st = "waiting"
                        THEN [futures EXCEPT ![thr.id] = [st |-> "ready", of |-> thr.id]]
                        ELSE futures
          /\ thr' = [thr EXCEPT !.pc = "erase"]
       \/ /\ thr.id \notin handlers
          /\ thr' = Looped
          /\ UNCHANGED futures
    /\ UNCHANGED <<main, gw, is_closed, current_query_id, handlers, is_ready_, events,
                   td, responses, raced>>

\* Mutants: the entries up to the answered one are erased; none is.
EraseHandler_Range ==
    /\ thr.pc = "erase"
    /\ handlers' = {q \in handlers : q > thr.id}
    /\ thr' = Looped
    /\ UNCHANGED <<main, gw, is_closed, current_query_id, futures, is_ready_, events,
                   td, responses, raced>>

EraseHandler_Kept ==
    /\ thr.pc = "erase"
    /\ thr' = Looped
    /\ UNCHANGED <<main, gw, is_closed, current_query_id, handlers, futures, is_ready_,
                   events, td, responses, raced>>

\* handlers.erase, after the handler has woken who waits for the future.
EraseHandler ==
    /\ thr.pc = "erase"
    /\ handlers' = handlers \ {thr.id}
    /\ thr' = Looped
    /\ UNCHANGED <<main, gw, is_closed, current_query_id, futures, is_ready_, events,
                   td, responses, raced>>

-----------------------------------------------------------------------------
(* TDLib (external): it answers every query once, in any order, and reports *)
(* authorization states in their order.                                     *)

TdAnswers ==
    /\ Len(responses) < MaxResponses
    /\ \E q \in td.asked :
          /\ td' = [td EXCEPT !.asked = @ \ {q}]
          /\ responses' = Append(responses, Response(q, "answer"))
    /\ UNCHANGED <<main, gw, thr, is_closed, current_query_id, handlers, futures,
                   is_ready_, events, raced>>

\* The states that may follow: parameters are needed before there is a session, and
\* one may end at any time after that, also before it was ready.
Follows ==
    CASE td.auth = "start" -> {"wait_parameters"}
      [] td.auth = "wait_parameters" ->
            IF current_query_id >= 2 THEN Entry \cup {"closing"} ELSE {}
      [] td.auth \in Entry -> {"closing"}
      [] td.auth = "closing" -> {"closed"}
      [] OTHER -> {}

TdAuthorizes ==
    /\ Len(responses) < MaxResponses
    /\ \E state \in Follows :
          /\ td' = [td EXCEPT !.auth = state]
          /\ responses' = Append(responses, Response(0, state))
    /\ UNCHANGED <<main, gw, thr, is_closed, current_query_id, handlers, futures,
                   is_ready_, events, raced>>

TdUpdates ==
    /\ Len(responses) < MaxResponses
    /\ td.auth = "ready"
    /\ td.reported < MaxUpdates
    /\ td' = [td EXCEPT !.reported = @ + 1]
    /\ \E kind \in {"event", "other"} :
          responses' = Append(responses, Response(0, kind))
    /\ UNCHANGED <<main, gw, thr, is_closed, current_query_id, handlers, futures,
                   is_ready_, events, raced>>

-----------------------------------------------------------------------------
Main == Start \/ Ready \/ LeaveGateway \/ Joined
Caller == SendQueryAsync \/ Send \/ Get \/ GetReturns
Thread == Receive \/ ReceiveTimesOut \/ RunHandler \/ EraseHandler
Tdlib == TdAnswers \/ TdAuthorizes \/ TdUpdates

Next == main # "aborted" /\ (Main \/ Caller \/ Thread \/ Tdlib)

Spec == Init /\ [][Next]_vars

\* The threads are scheduled again and again, and TDLib answers what it is
\* asked; it need not authorize or report anything.
FairSpec ==
    /\ Spec
    /\ WF_vars(main # "aborted" /\ (Start \/ Joined))
    /\ WF_vars(main # "aborted" /\ (Send \/ GetReturns))
    /\ WF_vars(main # "aborted" /\ Thread)
    /\ WF_vars(main # "aborted" /\ TdAnswers)

-----------------------------------------------------------------------------
(* Properties *)

\* A query whose future is not set is still on its way: its handler is in the
\* map, and exactly one of the sender, TDLib, the queue of responses and the
\* client's thread has it.  Only an entry lost to a race (tg.cpp:138 against
\* tg.cpp:106-109) makes an exception.
Holders(q) ==
    (IF gw.mode = "sending" /\ gw.id = q THEN 1 ELSE 0)
    + (IF q \in td.asked THEN 1 ELSE 0)
    + Cardinality({i \in 1..Len(responses) : responses[i].id = q})
    + (IF thr.pc = "find" /\ thr.id = q THEN 1 ELSE 0)

NoLostQuery ==
    \A q \in Ids : futures[q].st = "waiting" /\ q \notin raced =>
        q \in handlers /\ Holders(q) = 1

\* Entries do not pile up in the map (tg.cpp:109): what is in it is a query
\* that has not been answered, or the one being erased.
NoLeakedHandler ==
    \A q \in handlers :
        \/ Holders(q) = 1
        \/ thr.pc = "erase" /\ thr.id = q

\* The process aborts in is_ready_.set_value (tg.cpp:187, 196) only in a state in
\* which the session ends and only when an earlier state has set the promise, be it
\* at start-up or later; else only by a race on the map (tg.cpp:106-109, 138).  A
\* start-up whose session does not end sets it once, whether it is ready or needs a
\* login.
AbortsOnlyOnEnding ==
    [][main' = "aborted" =>
         \/ main = "aborted"
         \/ is_ready_ # "unset" /\ responses # <<>> /\ Head(responses).kind \in Ending
         \/ Racy /\ thr.pc \in {"find", "erase"}]_vars

Promise == INSTANCE QueryService WITH Queries <- Ids

\* The client implements QueryService: each future gets its own answer, once.
ImplementsQueryService == Promise!Spec

\* A get of the gateway returns (tg.cpp:146), unless the process is aborted or the
\* handler of its query is one of those that met in the map.
GetIsAnswered ==
    gw.mode = "getting" ~> (gw.mode = "free" \/ main = "aborted" \/ gw.id \in raced)

\* The destructor returns (tg.cpp:36).
CloseReturns == main = "join" ~> main \in {"gone", "aborted"}

=============================================================================
