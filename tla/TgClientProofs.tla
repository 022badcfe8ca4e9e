--------------------------- MODULE TgClientProofs ---------------------------
(***************************************************************************)
(* Every query of tg::Client is in one place at a time and reaches its own *)
(* future, for any number of queries, futures and updates.                 *)
(***************************************************************************)
EXTENDS TgClient, SequenceTheorems, FiniteSetTheorems, TLAPS

-----------------------------------------------------------------------------
(* The inductive invariant.                                                 *)

\* Where a query can be: with the gateway thread, in TDLib (td.asked), in a
\* response, with the client's thread.
Sending(q) == gw.mode = "sending" /\ gw.id = q
Answering(q) == \E i \in 1..Len(responses) : responses[i].id = q
InThread(q) == thr.pc \in {"find", "erase"} /\ thr.id = q
Underway(q) == Sending(q) \/ q \in td.asked \/ Answering(q) \/ InThread(q)

\* Ids that name a query are not 0, and what has no id is an update.
IdInv ==
    /\ thr.pc \in {"find", "erase"} => thr.id # 0
    /\ gw.mode # "free" => gw.id # 0
    /\ \A i \in 1..Len(responses) : responses[i].id # 0 => responses[i].kind = "answer"

\* No query is answered twice or is in two places.
PlaceInv ==
    /\ \A i, j \in 1..Len(responses) :
          responses[i].id = responses[j].id /\ responses[i].id # 0 => i = j
    /\ \A q \in Ids :
          /\ Sending(q) => q \notin td.asked /\ ~Answering(q) /\ ~InThread(q)
          /\ q \in td.asked => ~Answering(q) /\ ~InThread(q)
          /\ Answering(q) => ~InThread(q)

\* Only queries that were sent are under way or have a handler.
SentInv ==
    \A q \in Ids : /\ Underway(q) => q <= current_query_id
                   /\ q \in handlers => Underway(q)

\* What the promises are set to, and why a promise will be set.
FutureInv ==
    \A q \in Ids :
       /\ futures[q] \in {[st |-> "none", of |-> 0], [st |-> "waiting", of |-> 0],
                          [st |-> "ready", of |-> q]}
       /\ futures[q].st # "none" => q <= current_query_id
       /\ futures[q].st = "waiting" /\ q \notin raced => q \in handlers
       /\ thr.pc = "erase" /\ thr.id = q => futures[q].st # "waiting"

\* How far the authorization is: the first states are reported once, in order, the
\* entry into a session before its end, and the promise is unset until one of these
\* is processed.
AuthInv ==
    /\ td.auth \in {"start", "wait_parameters"} => is_ready_ = "unset"
    /\ td.auth = "start" => current_query_id = 0
    /\ td.auth \in Entry \cup Ending => current_query_id >= 2
    /\ main = "run" => is_ready_ = "true"
    /\ main = "start" => thr.pc = "off"
    /\ \A i \in 1..Len(responses) :
          /\ responses[i].kind = "wait_parameters"
                => current_query_id = 0 /\ td.auth # "start"
          /\ responses[i].kind \in Entry
                => is_ready_ = "unset" /\ td.auth \in Entry \cup Ending
          /\ responses[i].kind \in Ending => td.auth \in Ending
    /\ \A i, j \in 1..Len(responses) :
          /\ responses[i].kind = "wait_parameters" /\ responses[j].kind = "wait_parameters"
                => i = j
          /\ responses[i].kind \in Entry /\ responses[j].kind \in Entry => i = j
          /\ responses[i].kind \in Entry /\ responses[j].kind \in Ending => i < j

IInv ==
    TypeOK /\ IdInv /\ PlaceInv /\ SentInv /\ FutureInv /\ AuthInv

-----------------------------------------------------------------------------
LEMMA InitIInv == Init => IInv
<1> SUFFICES ASSUME Init PROVE IInv
  OBVIOUS
<1>1. TypeOK
  <2>1. 0 \in 0..MaxQueries
    BY TgAssumption
  <2>2. futures \in [Ids -> [st : {"none", "waiting", "ready"}, of : 0..MaxQueries]]
    BY <2>1 DEF Init
  <2>3. /\ gw \in [mode : {"free", "sending", "getting"}, id : 0..MaxQueries, pend : SUBSET Ids]
        /\ thr \in [pc : {"off", "receive", "find", "erase", "ended"}, id : 0..MaxQueries]
    BY <2>1 DEF Init
  <2>4. td \in [auth : AuthStates \cup {"start"}, asked : SUBSET Ids, reported : Nat]
    BY DEF Init
  <2>5. responses \in Seq([id : 0..MaxQueries, kind : Kinds])
    BY DEF Init
  <2> QED
    BY <2>1, <2>2, <2>3, <2>4, <2>5 DEF Init, TypeOK
<1>2. IdInv /\ PlaceInv /\ SentInv
  BY DEF Init, IdInv, PlaceInv, SentInv, Underway, Sending, Answering, InThread
<1>3. FutureInv
  BY DEF Init, FutureInv
<1>4. AuthInv
  BY DEF Init, AuthInv, Entry, Ending
<1> QED
  BY <1>1, <1>2, <1>3, <1>4 DEF IInv

LEMMA StartKeeps ==
    ASSUME IInv, main # "aborted", Start PROVE IInv'
<1> USE DEF IInv, Start
<1>1. TypeOK'
  BY TgAssumption DEF TypeOK
<1>2. IdInv'
  BY DEF IdInv
<1>3. PlaceInv'
  BY DEF TypeOK, PlaceInv, Sending, Answering, InThread
<1>4. SentInv'
  BY DEF TypeOK, AuthInv, SentInv, Underway, Sending, Answering, InThread
<1>5. FutureInv'
  BY DEF TypeOK, FutureInv
<1>6. AuthInv'
  BY DEF AuthInv
<1> QED
  BY <1>1, <1>2, <1>3, <1>4, <1>5, <1>6

LEMMA ReadyKeeps ==
    ASSUME IInv, main # "aborted", Ready PROVE IInv'
<1> USE DEF IInv, Ready
<1> USE DEF Close
<1>1. TypeOK'
  BY DEF TypeOK
<1>2. IdInv'
  BY DEF IdInv
<1>3. PlaceInv'
  BY DEF PlaceInv, Sending, Answering, InThread
<1>4. SentInv'
  BY DEF SentInv, Underway, Sending, Answering, InThread
<1>5. FutureInv'
  BY DEF FutureInv
<1>6. AuthInv'
  BY DEF AuthInv
<1> QED
  BY <1>1, <1>2, <1>3, <1>4, <1>5, <1>6

LEMMA LeaveGatewayKeeps ==
    ASSUME IInv, main # "aborted", LeaveGateway PROVE IInv'
<1> USE DEF IInv, LeaveGateway
<1> USE DEF Close
<1>1. TypeOK'
  BY DEF TypeOK
<1>2. IdInv'
  BY DEF IdInv
<1>3. PlaceInv'
  BY DEF PlaceInv, Sending, Answering, InThread
<1>4. SentInv'
  BY DEF SentInv, Underway, Sending, Answering, InThread
<1>5. FutureInv'
  BY DEF FutureInv
<1>6. AuthInv'
  BY DEF AuthInv
<1> QED
  BY <1>1, <1>2, <1>3, <1>4, <1>5, <1>6

LEMMA JoinedKeeps ==
    ASSUME IInv, main # "aborted", Joined PROVE IInv'
<1> USE DEF IInv, Joined
<1>1. TypeOK'
  BY DEF TypeOK
<1>2. IdInv'
  BY DEF IdInv
<1>3. PlaceInv'
  BY DEF PlaceInv, Sending, Answering, InThread
<1>4. SentInv'
  BY DEF SentInv, Underway, Sending, Answering, InThread
<1>5. FutureInv'
  BY DEF FutureInv
<1>6. AuthInv'
  BY DEF AuthInv
<1> QED
  BY <1>1, <1>2, <1>3, <1>4, <1>5, <1>6

\* send_query_async takes an id that no query has had.
LEMMA SendQueryAsyncAsks ==
    ASSUME IInv, SendQueryAsync, NEW id, id = current_query_id + 1
    PROVE  /\ id \in Ids /\ futures[id] = [st |-> "none", of |-> 0]
           /\ futures' = [futures EXCEPT ![id] = [st |-> "waiting", of |-> 0]]
<1>1. id \in Ids /\ ~(id <= current_query_id)
  BY TgAssumption DEF IInv, TypeOK, SendQueryAsync, Ids
<1>2. futures[id] = [st |-> "none", of |-> 0]
  BY <1>1 DEF IInv, FutureInv
<1>3. [futures[id] EXCEPT !.st = "waiting"] = [st |-> "waiting", of |-> 0]
  BY <1>2
<1>4. futures' = [futures EXCEPT ![id] = [futures[id] EXCEPT !.st = "waiting"]]
  BY DEF SendQueryAsync, next_query_id
<1> QED
  BY <1>1, <1>2, <1>3, <1>4

LEMMA SendQueryAsyncKeeps ==
    ASSUME IInv, main # "aborted", SendQueryAsync PROVE IInv'
<1> DEFINE id == current_query_id + 1
<1>a. /\ id \in Ids /\ id \in 0..MaxQueries /\ current_query_id \in Nat /\ current_query_id' = id
      /\ gw.mode = "free" /\ main = "run"
      /\ UNCHANGED <<thr, is_closed, is_ready_, events, td, responses>>
  BY TgAssumption DEF IInv, TypeOK, SendQueryAsync, next_query_id, Ids
<1>b. /\ gw' = [gw EXCEPT !.mode = "sending", !.id = id]
      /\ futures' = [futures EXCEPT ![id].st = "waiting"]
      /\ raced' = (IF Racy /\ thr.pc \in {"find", "erase"} THEN raced \cup {id, thr.id} ELSE raced)
      /\ \E lost \in SUBSET {id, thr.id} :
            /\ lost # {} => Racy /\ thr.pc \in {"find", "erase"}
            /\ handlers' = (handlers \cup {id}) \ lost
      /\ main' = main \/ (Racy /\ thr.pc \in {"find", "erase"} /\ main' = "aborted")
  BY DEF SendQueryAsync, next_query_id
<1> HIDE DEF id
<1>c. /\ handlers' \subseteq handlers \cup {id}
      /\ \A q \in Ids : q \in handlers \cup {id} /\ q \notin raced' => q \in handlers'
  BY <1>b
<1>d. /\ thr.pc \in {"find", "erase"} => thr.id \in Ids
      /\ raced' \subseteq Ids /\ raced \subseteq raced'
      /\ main' = "aborted" => raced' # {} /\ main' # main
      /\ main' \in {main, "aborted"}
  <2>1. thr.pc \in {"find", "erase"} => thr.id \in Ids
    BY TgAssumption DEF IInv, TypeOK, IdInv, Ids
  <2> QED
    BY <1>a, <1>b, <2>1 DEF IInv, TypeOK
<1>e. /\ gw' \in [mode : {"free", "sending", "getting"}, id : 0..MaxQueries, pend : SUBSET Ids]
      /\ gw'.mode = "sending" /\ gw'.id = id
  BY <1>a, <1>b DEF IInv, TypeOK
<1>f. \A q \in Ids : Underway(q) \/ futures[q].st # "none" => q # id
  <2>1. \A q \in Ids : Underway(q) \/ futures[q].st # "none" => q <= current_query_id
    BY DEF IInv, SentInv, FutureInv
  <2> QED
    BY <1>a, <2>1 DEF id, Ids
<1>g. /\ futures' \in [Ids -> [st : {"none", "waiting", "ready"}, of : 0..MaxQueries]]
      /\ futures'[id] = [st |-> "waiting", of |-> 0]
      /\ \A q \in Ids : q # id => futures'[q] = futures[q]
  <2>1. futures \in [Ids -> [st : {"none", "waiting", "ready"}, of : 0..MaxQueries]]
    BY DEF IInv, TypeOK
  <2>3. futures' = [futures EXCEPT ![id] = [st |-> "waiting", of |-> 0]]
    BY SendQueryAsyncAsks DEF id
  <2>4. 0 \in 0..MaxQueries
    BY TgAssumption
  <2> QED
    BY <1>a, <2>1, <2>3, <2>4
<1>h. \A q \in Ids : Underway(q)' <=> Underway(q) \/ q = id
  BY <1>a, <1>e DEF Underway, Sending, Answering, InThread
<1>1. TypeOK'
  BY <1>a, <1>b, <1>c, <1>d, <1>e, <1>g DEF IInv, TypeOK
<1>2. IdInv'
  BY <1>a, <1>e DEF IInv, IdInv, Ids
<1>3. PlaceInv'
  BY <1>a, <1>e, <1>f DEF IInv, PlaceInv, Underway, Sending, Answering, InThread
<1>4. SentInv'
  <2>1. \A q \in Ids : q <= current_query_id \/ q = id => q <= id
    BY <1>a DEF id, Ids
  <2> QED
    BY <1>a, <1>c, <1>h, <2>1 DEF IInv, SentInv
<1>5. FutureInv'
  <2>1. \A q \in Ids : q <= current_query_id \/ q = id => q <= id
    BY <1>a DEF id, Ids
  <2>2. thr.pc = "erase" => thr.id # id
    BY <1>a, <1>d, <1>f DEF Underway, InThread
  <2> SUFFICES ASSUME NEW q \in Ids
               PROVE  /\ futures'[q] \in {[st |-> "none", of |-> 0],
                             [st |-> "waiting", of |-> 0], [st |-> "ready", of |-> q]}
                      /\ futures'[q].st # "none" => q <= current_query_id'
                      /\ futures'[q].st = "waiting" /\ q \notin raced' => q \in handlers'
                      /\ thr'.pc = "erase" /\ thr'.id = q => futures'[q].st # "waiting"
    BY DEF FutureInv
  <2>3. CASE q = id
    BY <1>a, <1>c, <1>g, <2>1, <2>2, <2>3
  <2>4. CASE q # id
    BY <1>a, <1>c, <1>d, <1>g, <2>1, <2>4 DEF IInv, FutureInv
  <2> QED
    BY <2>3, <2>4
<1>6. AuthInv'
  <2>1. td.auth # "start" /\ is_ready_ = "true" /\ current_query_id >= 2
    BY <1>a DEF IInv, AuthInv, TypeOK, AuthStates
  <2>2. id >= 2 /\ \A i \in 1..Len(responses) : responses[i].kind # "wait_parameters"
    BY <1>a, <2>1 DEF IInv, AuthInv, id
  <2> QED
    BY <1>a, <1>d, <2>1, <2>2 DEF IInv, AuthInv
<1> QED
  BY <1>1, <1>2, <1>3, <1>4, <1>5, <1>6 DEF IInv

LEMMA SendKeeps ==
    ASSUME IInv, main # "aborted", Send PROVE IInv'
<1> USE DEF IInv, Send
<1>a. /\ gw.id \in Ids /\ gw'.mode = "free" /\ gw'.id = 0 /\ gw.mode = "sending"
      /\ gw' \in [mode : {"free", "sending", "getting"}, id : 0..MaxQueries, pend : SUBSET Ids]
  BY TgAssumption DEF TypeOK, IdInv, Ids
<1>b. /\ td' = [td EXCEPT !.asked = td.asked \cup {gw.id}]
      /\ td' \in [auth : AuthStates \cup {"start"}, asked : SUBSET Ids, reported : Nat]
      /\ td'.asked = td.asked \cup {gw.id} /\ td'.auth = td.auth
  BY <1>a DEF TypeOK
<1>1. TypeOK'
  BY <1>a, <1>b DEF TypeOK
<1>2. IdInv'
  BY <1>a DEF IdInv
<1>3. PlaceInv'
  BY <1>a, <1>b DEF PlaceInv, Sending, Answering, InThread
<1>4. SentInv'
  BY <1>a, <1>b DEF SentInv, Underway, Sending, Answering, InThread
<1>5. FutureInv'
  BY DEF FutureInv
<1>6. AuthInv'
  BY <1>b DEF AuthInv
<1> QED
  BY <1>1, <1>2, <1>3, <1>4, <1>5, <1>6

LEMMA GetKeeps ==
    ASSUME IInv, main # "aborted", Get PROVE IInv'
<1> USE DEF IInv, Get
<1>a. /\ gw'.id \in Ids /\ gw'.mode = "getting" /\ gw.mode = "free"
      /\ gw' \in [mode : {"free", "sending", "getting"}, id : 0..MaxQueries, pend : SUBSET Ids]
  <2>1. PICK q \in gw.pend : gw' = [gw EXCEPT !.mode = "getting", !.id = q]
    OBVIOUS
  <2>2. q \in Ids /\ q \in 0..MaxQueries
    BY TgAssumption DEF TypeOK, Ids
  <2> QED
    BY <2>1, <2>2 DEF TypeOK
<1>1. TypeOK'
  BY <1>a DEF TypeOK
<1>2. IdInv'
  BY <1>a DEF IdInv, Ids
<1>3. PlaceInv'
  BY <1>a DEF PlaceInv, Sending, Answering, InThread
<1>4. SentInv'
  BY <1>a DEF SentInv, Underway, Sending, Answering, InThread
<1>5. FutureInv'
  BY DEF FutureInv
<1>6. AuthInv'
  BY DEF AuthInv
<1> QED
  BY <1>1, <1>2, <1>3, <1>4, <1>5, <1>6

LEMMA GetReturnsKeeps ==
    ASSUME IInv, main # "aborted", GetReturns PROVE IInv'
<1> USE DEF IInv, GetReturns
<1>a. /\ gw'.mode = "free" /\ gw.mode = "getting"
      /\ gw' \in [mode : {"free", "sending", "getting"}, id : 0..MaxQueries, pend : SUBSET Ids]
  BY TgAssumption DEF TypeOK, Ids
<1>1. TypeOK'
  BY <1>a DEF TypeOK
<1>2. IdInv'
  BY <1>a DEF IdInv, Ids
<1>3. PlaceInv'
  BY <1>a DEF PlaceInv, Sending, Answering, InThread
<1>4. SentInv'
  BY <1>a DEF SentInv, Underway, Sending, Answering, InThread
<1>5. FutureInv'
  BY DEF FutureInv
<1>6. AuthInv'
  BY DEF AuthInv
<1> QED
  BY <1>1, <1>2, <1>3, <1>4, <1>5, <1>6

LEMMA ReceiveTimesOutKeeps ==
    ASSUME IInv, main # "aborted", ReceiveTimesOut PROVE IInv'
<1> USE DEF IInv, ReceiveTimesOut
<1>a. /\ thr'.pc \in {"ended", "receive"} /\ thr'.id = 0
      /\ thr' \in [pc : {"off", "receive", "find", "erase", "ended"}, id : 0..MaxQueries]
  BY TgAssumption DEF Looped
<1>1. TypeOK'
  BY <1>a DEF TypeOK
<1>2. IdInv'
  BY <1>a DEF IdInv
<1>3. PlaceInv'
  BY <1>a DEF PlaceInv, Sending, Answering, InThread
<1>4. SentInv'
  BY <1>a DEF SentInv, Underway, Sending, Answering, InThread
<1>5. FutureInv'
  BY <1>a DEF FutureInv
<1>6. AuthInv'
  BY DEF AuthInv
<1> QED
  BY <1>1, <1>2, <1>3, <1>4, <1>5, <1>6

LEMMA RunHandlerKeeps ==
    ASSUME IInv, main # "aborted", RunHandler PROVE IInv'
<1> USE DEF IInv
<1>a. /\ thr.pc = "find" /\ thr.id \in Ids
      /\ UNCHANGED <<main, gw, is_closed, current_query_id, handlers, is_ready_, events,
                     td, responses, raced>>
  BY TgAssumption DEF RunHandler, TypeOK, IdInv, Ids
<1>b. CASE thr.id \in handlers
  <2>1. /\ thr' = [thr EXCEPT !.pc = "erase"]
        /\ thr'.pc = "erase" /\ thr'.id = thr.id
        /\ thr' \in [pc : {"off", "receive", "find", "erase", "ended"}, id : 0..MaxQueries]
    BY <1>a, <1>b DEF RunHandler, TypeOK
  <2>2. futures' = IF futures[thr.id].st = "waiting"
                   THEN [futures EXCEPT ![thr.id] = [st |-> "ready", of |-> thr.id]]
                   ELSE futures
    BY <1>b DEF RunHandler
  <2>3. futures' \in [Ids -> [st : {"none", "waiting", "ready"}, of : 0..MaxQueries]]
    <3>1. thr.id \in 0..MaxQueries
      BY DEF TypeOK
    <3> QED
      BY <1>a, <2>2, <3>1 DEF TypeOK
  <2>4. TypeOK'
    BY <1>a, <2>1, <2>3 DEF TypeOK
  <2>5. FutureInv'
    <3>1. /\ futures'[thr.id].st # "waiting"
          /\ futures'[thr.id].st # "none" => futures[thr.id].st # "none"
          /\ futures'[thr.id] \in {futures[thr.id], [st |-> "ready", of |-> thr.id]}
          /\ \A q \in Ids : q # thr.id => futures'[q] = futures[q]
      BY <1>a, <2>2 DEF TypeOK
    <3> QED
      BY <1>a, <2>1, <3>1 DEF FutureInv
  <2>6. IdInv' /\ PlaceInv' /\ SentInv'
    BY <1>a, <2>1 DEF IdInv, PlaceInv, SentInv, Underway, Sending, Answering, InThread
  <2>7. AuthInv'
    BY <1>a, <2>1 DEF AuthInv
  <2> QED
    BY <2>4, <2>5, <2>6, <2>7
<1>c. CASE thr.id \notin handlers
  <2>1. /\ thr'.pc \in {"ended", "receive"} /\ thr'.id = 0 /\ futures' = futures
        /\ thr' \in [pc : {"off", "receive", "find", "erase", "ended"}, id : 0..MaxQueries]
    BY <1>c, TgAssumption DEF RunHandler, Looped
  <2>2. TypeOK'
    BY <1>a, <2>1 DEF TypeOK
  <2>3. IdInv' /\ PlaceInv'
    BY <1>a, <2>1 DEF IdInv, PlaceInv, Sending, Answering, InThread
  <2>4. SentInv'
    BY <1>a, <1>c, <2>1 DEF SentInv, Underway, Sending, Answering, InThread
  <2>5. FutureInv'
    BY <1>a, <2>1 DEF FutureInv
  <2>6. AuthInv'
    BY <1>a, <2>1 DEF AuthInv
  <2> QED
    BY <2>2, <2>3, <2>4, <2>5, <2>6
<1> QED
  BY <1>b, <1>c

LEMMA EraseHandlerKeeps ==
    ASSUME IInv, main # "aborted", EraseHandler PROVE IInv'
<1> USE DEF IInv, EraseHandler
<1>a. /\ thr'.pc \in {"ended", "receive"} /\ thr'.id = 0
      /\ thr' \in [pc : {"off", "receive", "find", "erase", "ended"}, id : 0..MaxQueries]
  BY TgAssumption DEF Looped
<1>1. TypeOK'
  BY <1>a DEF TypeOK
<1>2. IdInv'
  BY <1>a DEF IdInv
<1>3. PlaceInv'
  BY <1>a DEF PlaceInv, Sending, Answering, InThread
<1>4. SentInv'
  BY <1>a DEF SentInv, Underway, Sending, Answering, InThread
<1>5. FutureInv'
  BY <1>a DEF FutureInv
<1>6. AuthInv'
  BY DEF AuthInv
<1> QED
  BY <1>1, <1>2, <1>3, <1>4, <1>5, <1>6

\* client->receive takes the oldest response.
LEMMA TailIs ==
    ASSUME TypeOK, responses # <<>>
    PROVE  /\ Len(responses) \in Nat /\ 1 \in 1..Len(responses)
           /\ Head(responses) = responses[1]
           /\ responses[1] \in [id : 0..MaxQueries, kind : Kinds]
           /\ Tail(responses) \in Seq([id : 0..MaxQueries, kind : Kinds])
           /\ Len(Tail(responses)) = Len(responses) - 1
           /\ \A i \in 1..Len(Tail(responses)) :
                 /\ i + 1 \in 1..Len(responses) /\ i + 1 # 1
                 /\ Tail(responses)[i] = responses[i + 1]
           /\ \A k \in 1..Len(responses) : k # 1 =>
                 /\ k - 1 \in 1..Len(Tail(responses))
                 /\ Tail(responses)[k - 1] = responses[k]
<1> DEFINE R == [id : 0..MaxQueries, kind : Kinds]
<1>1. responses \in Seq(R)
  BY DEF TypeOK
<1> HIDE DEF R
<1>2. /\ Len(responses) \in Nat /\ Len(responses) # 0
      /\ Head(responses) = responses[1]
      /\ Tail(responses) \in Seq(R)
      /\ Len(Tail(responses)) = Len(responses) - 1
      /\ \A i \in 1..Len(Tail(responses)) : Tail(responses)[i] = responses[i + 1]
  BY <1>1
<1>3. 1 \in 1..Len(responses) /\ responses[1] \in R
  BY <1>1, <1>2
<1>4. \A i \in 1..Len(Tail(responses)) : i + 1 \in 1..Len(responses) /\ i + 1 # 1
  BY <1>2
<1>5. \A k \in 1..Len(responses) : k # 1 =>
         /\ k - 1 \in 1..Len(Tail(responses))
         /\ (k - 1) + 1 = k
  BY <1>2
<1> QED
  BY <1>2, <1>3, <1>4, <1>5 DEF R

LEMMA ReceiveKeeps ==
    ASSUME IInv, main # "aborted", Receive PROVE IInv'
<1> DEFINE r == responses[1]
<1>a. /\ thr.pc = "receive" /\ responses # <<>> /\ responses' = Tail(responses)
      /\ Head(responses) = r
      /\ UNCHANGED <<gw, is_closed, futures, raced>>
  BY TailIs DEF Receive, IInv
<1>b. /\ Len(responses) \in Nat /\ Len(responses') = Len(responses) - 1
      /\ 1 \in 1..Len(responses)
      /\ r \in [id : 0..MaxQueries, kind : Kinds]
      /\ responses' \in Seq([id : 0..MaxQueries, kind : Kinds])
  BY <1>a, TailIs DEF IInv
<1>c. \A i \in 1..Len(responses') :
         /\ i + 1 \in 1..Len(responses) /\ i + 1 # 1
         /\ responses'[i] = responses[i + 1]
  BY <1>a, TailIs DEF IInv
<1>d. \A k \in 1..Len(responses) : k # 1 =>
         k - 1 \in 1..Len(responses') /\ responses'[k - 1] = responses[k]
  BY <1>a, TailIs DEF IInv
<1>e. \A i, j \in 1..Len(responses') : i + 1 = j + 1 => i = j
  OBVIOUS
<1> HIDE DEF r
<1>f. \A q \in Ids : /\ Answering(q)' => Answering(q)
                     /\ Answering(q) => Answering(q)' \/ r.id = q
  <2>1. ASSUME NEW q \in Ids, Answering(q)' PROVE Answering(q)
    BY <1>c, <2>1 DEF Answering
  <2>2. ASSUME NEW q \in Ids, NEW k \in 1..Len(responses), responses[k].id = q, r.id # q
        PROVE  Answering(q)'
    <3>1. k # 1
      BY <2>2 DEF r
    <3>2. k - 1 \in 1..Len(responses') /\ responses'[k - 1].id = q
      BY <1>d, <2>2, <3>1
    <3> QED
      BY <3>2 DEF Answering
  <2> QED
    BY <2>1, <2>2 DEF Answering
<1>g. /\ \A i \in 1..Len(responses') : responses'[i].id # 0 => responses'[i].kind = "answer"
      /\ \A i \in 1..Len(responses') : r.id # 0 => responses'[i].id # r.id
      /\ \A i, j \in 1..Len(responses') :
            responses'[i].id = responses'[j].id /\ responses'[i].id # 0 => i = j
  <2>1. \A i \in 1..Len(responses') : responses'[i].id # 0 => responses'[i].kind = "answer"
    BY <1>c DEF IInv, IdInv
  <2>2. \A i \in 1..Len(responses') : r.id # 0 => responses'[i].id # r.id
    BY <1>b, <1>c DEF IInv, PlaceInv, r
  <2>3. \A i, j \in 1..Len(responses') :
            responses'[i].id = responses'[j].id /\ responses'[i].id # 0 => i = j
    BY <1>c, <1>e DEF IInv, PlaceInv
  <2> QED
    BY <2>1, <2>2, <2>3
<1>h. /\ \A i \in 1..Len(responses') :
            /\ responses'[i].kind = "wait_parameters" =>
                  /\ current_query_id = 0 /\ td.auth # "start" /\ r.kind # "wait_parameters"
            /\ responses'[i].kind \in Entry =>
                  /\ is_ready_ = "unset" /\ td.auth \in Entry \cup Ending
                  /\ r.kind \notin Entry \cup Ending
            /\ responses'[i].kind \in Ending => td.auth \in Ending
      /\ \A i, j \in 1..Len(responses') :
            /\ responses'[i].kind = "wait_parameters" /\ responses'[j].kind = "wait_parameters"
                  => i = j
            /\ responses'[i].kind \in Entry /\ responses'[j].kind \in Entry => i = j
            /\ responses'[i].kind \in Entry /\ responses'[j].kind \in Ending => i < j
  <2>1. ASSUME NEW i \in 1..Len(responses')
        PROVE  /\ responses'[i].kind = "wait_parameters" =>
                  /\ current_query_id = 0 /\ td.auth # "start" /\ r.kind # "wait_parameters"
               /\ responses'[i].kind \in Entry =>
                  /\ is_ready_ = "unset" /\ td.auth \in Entry \cup Ending
               /\ responses'[i].kind \in Ending => td.auth \in Ending
    BY <1>b, <1>c, <2>1 DEF IInv, AuthInv, r
  <2>2. ASSUME NEW i \in 1..Len(responses'), responses'[i].kind \in Entry
        PROVE  r.kind \notin Entry \cup Ending
    <3>1. i + 1 \in 1..Len(responses) /\ responses[i + 1].kind \in Entry /\ ~(i + 1 < 1)
      BY <1>c, <2>2
    <3> QED
      BY <1>b, <1>c, <2>2, <3>1 DEF IInv, AuthInv, r
  <2>3. \A i, j \in 1..Len(responses') : i + 1 < j + 1 => i < j
    OBVIOUS
  <2>4. \A i, j \in 1..Len(responses') :
            /\ responses'[i].kind = "wait_parameters" /\ responses'[j].kind = "wait_parameters"
                  => i = j
            /\ responses'[i].kind \in Entry /\ responses'[j].kind \in Entry => i = j
            /\ responses'[i].kind \in Entry /\ responses'[j].kind \in Ending => i < j
    BY <1>c, <1>e, <2>3 DEF IInv, AuthInv
  <2> QED
    BY <2>1, <2>2, <2>4
<1>1. CASE r.id # 0
  <2>1. /\ thr' = [pc |-> "find", id |-> r.id] /\ r.id \in Ids
        /\ thr'.pc = "find" /\ thr'.id = r.id
        /\ thr' \in [pc : {"off", "receive", "find", "erase", "ended"}, id : 0..MaxQueries]
        /\ UNCHANGED <<main, is_ready_, current_query_id, handlers, td, events>>
    BY <1>a, <1>b, <1>1, TgAssumption DEF Receive, Ids
  <2>2. TypeOK'
    BY <1>a, <1>b, <2>1 DEF IInv, TypeOK
  <2>3. IdInv'
    BY <1>a, <1>1, <1>g, <2>1 DEF IInv, IdInv
  <2>0. PICK a \in Ids : a = r.id
    BY <2>1
  <2>4. Answering(a) /\ ~Answering(a)'
    <3>1. Answering(a)
      BY <1>b, <2>0 DEF Answering, r
    <3> QED
      BY <1>1, <1>g, <2>0, <3>1 DEF Answering
  <2>5. PlaceInv'
    <3>1. \A i, j \in 1..Len(responses)' :
              responses'[i].id = responses'[j].id /\ responses'[i].id # 0 => i = j
      BY <1>g
    <3>2. \A q \in Ids :
            /\ Sending(q)' => q \notin td'.asked /\ ~Answering(q)' /\ ~InThread(q)'
            /\ q \in td'.asked => ~Answering(q)' /\ ~InThread(q)'
            /\ Answering(q)' => ~InThread(q)'
      BY <1>a, <1>f, <2>0, <2>1, <2>4 DEF IInv, PlaceInv, Sending, InThread
    <3> QED
      BY <3>1, <3>2 DEF PlaceInv
  <2>6. SentInv'
    <3>1. \A q \in Ids : Underway(q)' <=> Underway(q)
      BY <1>a, <1>f, <2>0, <2>1, <2>4 DEF Underway, Sending, InThread
    <3> QED
      BY <2>1, <3>1 DEF IInv, SentInv
  <2>7. FutureInv'
    BY <1>a, <2>1 DEF IInv, FutureInv
  <2>8. r.kind = "answer"
    BY <1>b, <1>1 DEF IInv, IdInv, r
  <2>10. AuthInv'
    BY <1>a, <1>h, <2>1, <2>8 DEF IInv, AuthInv
  <2> QED
    BY <2>2, <2>3, <2>5, <2>6, <2>7, <2>10 DEF IInv
<1>2. CASE r.id = 0
  <2>1. /\ thr'.pc \in {"ended", "receive"} /\ thr'.id = 0
        /\ thr' \in [pc : {"off", "receive", "find", "erase", "ended"}, id : 0..MaxQueries]
        /\ ProcessUpdate(r.kind)
    BY <1>a, <1>2, TgAssumption DEF Receive, Looped
  <2>2. \A q \in Ids : Answering(q)' <=> Answering(q)
    BY <1>2, <1>f DEF Ids
  <2>3. IdInv'
    BY <1>a, <1>g, <2>1 DEF IInv, IdInv
  <2>4. CASE r.kind = "wait_parameters"
    <3>1. current_query_id = 0 /\ td.auth # "start"
      BY <1>b, <2>4 DEF IInv, AuthInv, r
    <3>2. next_query_id = 1 /\ PreparedQueries = {1, 2}
      BY <3>1 DEF PreparedQueries, next_query_id
    <3>3. Cardinality({1, 2}) = 2
      <4>1. IsFiniteSet({1}) /\ Cardinality({1}) = 1
        BY FS_Singleton
      <4>2. Cardinality({1} \cup {2}) = Cardinality({1}) + 1
        BY <4>1, FS_AddElement
      <4>3. {1, 2} = {1} \cup {2}
        OBVIOUS
      <4> QED
        BY <4>1, <4>2, <4>3
    <3>4. /\ current_query_id' = 2 /\ handlers' = handlers \cup {1, 2}
          /\ td' = [td EXCEPT !.asked = td.asked \cup {1, 2}]
          /\ UNCHANGED <<main, is_ready_, events>>
      BY <2>1, <2>4, <3>1, <3>2, <3>3 DEF ProcessUpdate, OnAuthorizationState, AuthStates
    <3>5. /\ 1 \in Ids /\ 2 \in Ids /\ 2 \in 0..MaxQueries /\ 1 <= 2
          /\ \A q \in Ids : ~(q <= 0)
          /\ \A q \in Ids : q \in {1, 2} => q <= 2
      BY TgAssumption DEF Ids
    <3>6. /\ td' \in [auth : AuthStates \cup {"start"}, asked : SUBSET Ids, reported : Nat]
          /\ td'.asked = td.asked \cup {1, 2} /\ td'.auth = td.auth
      BY <3>4, <3>5 DEF IInv, TypeOK
    <3>7. \A q \in Ids : ~Underway(q) /\ q \notin handlers /\ futures[q].st = "none"
      BY <3>1, <3>5 DEF IInv, SentInv, FutureInv
    <3>8. TypeOK'
      BY <1>a, <1>b, <2>1, <3>4, <3>5, <3>6 DEF IInv, TypeOK
    <3>9. PlaceInv'
      <4>1. \A i, j \in 1..Len(responses)' :
                responses'[i].id = responses'[j].id /\ responses'[i].id # 0 => i = j
        BY <1>g
      <4>2. \A q \in Ids : ~Sending(q)' /\ ~Answering(q)' /\ ~InThread(q)'
        BY <1>a, <2>1, <2>2, <3>7 DEF Underway, Sending, InThread
      <4> QED
        BY <4>1, <4>2 DEF PlaceInv
    <3>10. SentInv'
      <4>1. \A q \in Ids : Underway(q)' <=> q \in {1, 2}
        BY <1>a, <2>1, <2>2, <3>6, <3>7 DEF Underway, Sending, InThread
      <4>2. \A q \in Ids : q \in handlers' => q \in {1, 2}
        BY <3>4, <3>7
      <4> QED
        BY <3>4, <3>5, <4>1, <4>2 DEF SentInv
    <3>11. FutureInv'
      BY <1>a, <2>1, <3>4, <3>7 DEF IInv, FutureInv
    <3>12. AuthInv'
      <4>1. \A i \in 1..Len(responses') : responses'[i].kind # "wait_parameters"
        BY <1>h, <2>4
      <4>2. td.auth \in {"wait_parameters"} \cup Entry \cup Ending
        BY <3>1 DEF IInv, TypeOK, AuthStates
      <4> QED
        BY <1>a, <1>h, <2>1, <3>4, <3>6, <4>1, <4>2 DEF IInv, AuthInv
    <3> QED
      BY <2>3, <3>8, <3>9, <3>10, <3>11, <3>12 DEF IInv
  <2>5. CASE r.kind # "wait_parameters"
    <3>1. UNCHANGED <<current_query_id, handlers, td>>
      BY <2>1, <2>5 DEF ProcessUpdate, OnAuthorizationState, AuthStates
    <3>2. events' \in {events, events + 1}
      BY <2>1 DEF ProcessUpdate
    <3>3. r.kind \in Entry => is_ready_ = "unset" /\ is_ready_' \in {"true", "false"} /\ main' = main
      <4>1. r.kind \in Entry => is_ready_ = "unset"
        BY <1>b DEF IInv, AuthInv, r
      <4> QED
        BY <2>1, <4>1 DEF ProcessUpdate, OnAuthorizationState, AuthStates, SetReady, Entry
    <3>4. r.kind \in Ending => \/ is_ready_ = "unset" /\ is_ready_' = "false" /\ main' = main
                               \/ is_ready_ # "unset" /\ is_ready_' = is_ready_ /\ main' = "aborted"
      <4> SUFFICES ASSUME r.kind \in Ending
                   PROVE  \/ is_ready_ = "unset" /\ is_ready_' = "false" /\ main' = main
                          \/ is_ready_ # "unset" /\ is_ready_' = is_ready_ /\ main' = "aborted"
        OBVIOUS
      <4>1. PICK k \in Ending : k = r.kind
        OBVIOUS
      <4>2. k \in AuthStates /\ k # "ready" /\ k # "wait_parameters" /\ k # "event"
        BY DEF AuthStates, Ending
      <4>3. OnAuthorizationState(k)
        <5>1. ProcessUpdate(k)
          BY <2>1, <4>1
        <5> QED
          BY <4>2, <5>1 DEF ProcessUpdate
      <4>4. SetReady("false")
        BY <4>2, <4>3 DEF OnAuthorizationState
      <4> QED
        BY <4>4 DEF SetReady
    <3>5. r.kind \notin Entry \cup Ending => UNCHANGED <<main, is_ready_>>
      BY <2>1, <2>5 DEF ProcessUpdate, AuthStates
    <3>6. TypeOK'
      <4>1. /\ is_ready_' \in {"unset", "true", "false"}
            /\ main' \in {"start", "wait", "run", "join", "gone", "aborted"}
        BY <3>3, <3>4, <3>5 DEF IInv, TypeOK
      <4>2. events' \in Nat
        BY <3>2 DEF IInv, TypeOK
      <4> QED
        BY <1>a, <1>b, <2>1, <3>1, <4>1, <4>2 DEF IInv, TypeOK
    <3>7. PlaceInv'
      <4>1. \A i, j \in 1..Len(responses)' :
                responses'[i].id = responses'[j].id /\ responses'[i].id # 0 => i = j
        BY <1>g
      <4> QED
        BY <1>a, <2>1, <2>2, <3>1, <4>1 DEF IInv, PlaceInv, Sending, InThread
    <3>8. SentInv'
      BY <1>a, <2>1, <2>2, <3>1 DEF IInv, SentInv, Underway, Sending, InThread
    <3>9. FutureInv'
      BY <1>a, <2>1, <3>1 DEF IInv, FutureInv
    <3>10. AuthInv'
      <4>1. r.kind \in Entry \cup Ending => td.auth \in Entry \cup Ending
        BY <1>b DEF IInv, AuthInv, r
      <4>2. td.auth \in {"start", "wait_parameters"} => td.auth \notin Entry \cup Ending
        BY DEF Entry, Ending
      <4>3. \A i \in 1..Len(responses') : responses'[i].kind \in Entry => is_ready_' = "unset"
        BY <1>h, <3>5
      <4>4. /\ td'.auth \in {"start", "wait_parameters"} => is_ready_' = "unset"
            /\ td'.auth = "start" => current_query_id' = 0
            /\ td'.auth \in Entry \cup Ending => current_query_id' >= 2
        BY <3>1, <3>5, <4>1, <4>2 DEF IInv, AuthInv
      <4>5. /\ main' = "run" => is_ready_' = "true"
            /\ main' = "start" => thr'.pc = "off"
        BY <1>a, <3>3, <3>4, <3>5 DEF IInv, AuthInv
      <4> QED
        BY <1>h, <3>1, <4>3, <4>4, <4>5 DEF AuthInv
    <3> QED
      BY <2>3, <3>6, <3>7, <3>8, <3>9, <3>10 DEF IInv
  <2> QED
    BY <2>4, <2>5
<1> QED
  BY <1>1, <1>2

\* TDLib puts a response behind the others.
LEMMA AppendIs ==
    ASSUME TypeOK, NEW e \in [id : 0..MaxQueries, kind : Kinds]
    PROVE  /\ Len(responses) \in Nat
           /\ Append(responses, e) \in Seq([id : 0..MaxQueries, kind : Kinds])
           /\ Len(Append(responses, e)) = Len(responses) + 1
           /\ \A i \in 1..(Len(responses) + 1) :
                 \/ /\ i \in 1..Len(responses)
                    /\ Append(responses, e)[i] = responses[i]
                 \/ /\ i = Len(responses) + 1 /\ i \notin 1..Len(responses)
                    /\ Append(responses, e)[i] = e
<1> DEFINE R == [id : 0..MaxQueries, kind : Kinds]
<1>1. responses \in Seq(R) /\ e \in R
  BY DEF TypeOK
<1> HIDE DEF R
<1>2. /\ Len(responses) \in Nat
      /\ Append(responses, e) \in Seq(R)
      /\ Len(Append(responses, e)) = Len(responses) + 1
      /\ \A i \in 1..Len(responses) : Append(responses, e)[i] = responses[i]
      /\ Append(responses, e)[Len(responses) + 1] = e
  BY <1>1
<1> QED
  BY <1>2 DEF R

\* A response that reports no authorization state leaves AuthInv alone.
LEMMA AuthUntouched ==
    ASSUME IInv, UNCHANGED <<main, thr, current_query_id, is_ready_>>, td'.auth = td.auth,
           Len(responses) \in Nat,
           \A i \in 1..Len(responses') :
               \/ i \in 1..Len(responses) /\ responses'[i] = responses[i]
               \/ responses'[i].kind \in {"answer", "event", "other"},
           \A i \in 1..Len(responses) : i \in 1..Len(responses') /\ responses'[i] = responses[i]
    PROVE  AuthInv'
<1>1. \A i \in 1..Len(responses)' : responses'[i].kind \notin {"answer", "event", "other"} =>
          i \in 1..Len(responses) /\ responses'[i] = responses[i]
  OBVIOUS
<1>2. \A i \in 1..Len(responses)' : responses'[i].kind \in {"wait_parameters"} \cup Entry \cup Ending =>
          i \in 1..Len(responses) /\ responses'[i] = responses[i]
  BY <1>1 DEF Entry, Ending
<1>3. \A i \in 1..Len(responses)' :
        /\ responses'[i].kind = "wait_parameters" => current_query_id = 0 /\ td.auth # "start"
        /\ responses'[i].kind \in Entry
              => is_ready_ = "unset" /\ td.auth \in Entry \cup Ending
        /\ responses'[i].kind \in Ending => td.auth \in Ending
  BY <1>2 DEF IInv, AuthInv
<1>4. \A i, j \in 1..Len(responses)' :
        /\ responses'[i].kind = "wait_parameters" /\ responses'[j].kind = "wait_parameters"
              => i = j
        /\ responses'[i].kind \in Entry /\ responses'[j].kind \in Entry => i = j
        /\ responses'[i].kind \in Entry /\ responses'[j].kind \in Ending => i < j
  BY <1>2 DEF IInv, AuthInv
<1>5. /\ td.auth \in {"start", "wait_parameters"} => is_ready_ = "unset"
      /\ td.auth = "start" => current_query_id = 0
      /\ td.auth \in Entry \cup Ending => current_query_id >= 2
      /\ main = "run" => is_ready_ = "true"
      /\ main = "start" => thr.pc = "off"
  BY DEF IInv, AuthInv
<1> QED
  BY <1>3, <1>4, <1>5 DEF AuthInv

LEMMA TdAnswersKeeps ==
    ASSUME IInv, main # "aborted", TdAnswers PROVE IInv'
<1>0. UNCHANGED <<main, gw, thr, is_closed, current_query_id, handlers, futures,
                  is_ready_, events, raced>>
  BY DEF TdAnswers
<1>1. PICK a \in td.asked : /\ td' = [td EXCEPT !.asked = td.asked \ {a}]
                            /\ responses' = Append(responses, Response(a, "answer"))
  BY DEF TdAnswers
<1>2. /\ a \in Ids /\ a # 0 /\ Response(a, "answer") \in [id : 0..MaxQueries, kind : Kinds]
      /\ Response(a, "answer").id = a /\ Response(a, "answer").kind = "answer"
  <2>1. a \in Ids
    BY <1>1 DEF IInv, TypeOK
  <2>2. a # 0 /\ a \in 0..MaxQueries
    BY <2>1, TgAssumption DEF Ids
  <2>3. "answer" \in Kinds
    BY DEF Kinds
  <2> QED
    BY <2>1, <2>2, <2>3 DEF Response
<1>3. /\ td' \in [auth : AuthStates \cup {"start"}, asked : SUBSET Ids, reported : Nat]
      /\ td'.asked = td.asked \ {a} /\ td'.auth = td.auth
  BY <1>1 DEF IInv, TypeOK
<1>4. /\ Len(responses) \in Nat /\ Len(responses') = Len(responses) + 1
      /\ responses' \in Seq([id : 0..MaxQueries, kind : Kinds])
      /\ \A i \in 1..Len(responses') :
           \/ i \in 1..Len(responses) /\ responses'[i] = responses[i]
           \/ /\ i = Len(responses) + 1 /\ i \notin 1..Len(responses)
              /\ responses'[i].id = a /\ responses'[i].kind = "answer"
  BY <1>1, <1>2, AppendIs DEF IInv
<1>5. /\ \A i \in 1..Len(responses) : i \in 1..Len(responses') /\ responses'[i] = responses[i]
      /\ Len(responses) + 1 \in 1..Len(responses')
      /\ responses'[Len(responses) + 1].id = a
  BY <1>4
<1>6. \A q \in Ids : Answering(q)' <=> Answering(q) \/ q = a
  BY <1>4, <1>5 DEF Answering
<1>7. ~Answering(a) /\ ~InThread(a) /\ ~Sending(a)
  BY <1>1, <1>2 DEF IInv, PlaceInv
<1>8. TypeOK' /\ IdInv'
  <2>1. TypeOK'
    BY <1>0, <1>3, <1>4 DEF IInv, TypeOK
  <2>2. IdInv'
    BY <1>0, <1>4 DEF IInv, IdInv
  <2> QED
    BY <2>1, <2>2
<1>9. PlaceInv'
  <2>1. \A i \in 1..Len(responses) : responses[i].id # a
    BY <1>7 DEF Answering
  <2>2. \A i, j \in 1..Len(responses)' :
            responses'[i].id = responses'[j].id /\ responses'[i].id # 0 => i = j
    BY <1>4, <2>1 DEF IInv, PlaceInv
  <2>3. \A q \in Ids : (Sending(q)' <=> Sending(q)) /\ (InThread(q)' <=> InThread(q))
    BY <1>0 DEF Sending, InThread
  <2>4. \A q \in Ids :
          /\ Sending(q)' => q \notin td'.asked /\ ~Answering(q)' /\ ~InThread(q)'
          /\ q \in td'.asked => ~Answering(q)' /\ ~InThread(q)'
          /\ Answering(q)' => ~InThread(q)'
    BY <1>3, <1>6, <1>7, <2>3 DEF IInv, PlaceInv
  <2> QED
    BY <2>2, <2>4 DEF PlaceInv
<1>10. SentInv'
  <2>1. \A q \in Ids : Underway(q)' <=> Underway(q)
    BY <1>0, <1>1, <1>3, <1>6 DEF Underway, Sending, InThread
  <2> QED
    BY <1>0, <2>1 DEF IInv, SentInv
<1>11. FutureInv'
  BY <1>0 DEF IInv, FutureInv
<1>12. AuthInv'
  <2>1. \A i \in 1..Len(responses') :
           \/ i \in 1..Len(responses) /\ responses'[i] = responses[i]
           \/ responses'[i].kind \in {"answer", "event", "other"}
    BY <1>4
  <2> QED
    BY <1>0, <1>3, <1>4, <1>5, <2>1, AuthUntouched
<1> QED
  BY <1>8, <1>9, <1>10, <1>11, <1>12 DEF IInv

\* An update takes no query along.
LEMMA UpdateKeepsPlaces ==
    ASSUME IInv, NEW kind \in Kinds, td' \in [auth : AuthStates \cup {"start"}, asked : SUBSET Ids, reported : Nat],
           td'.asked = td.asked, responses' = Append(responses, Response(0, kind)),
           UNCHANGED <<main, gw, thr, is_closed, current_query_id, handlers, futures,
                       is_ready_, events, raced>>
    PROVE  /\ TypeOK' /\ IdInv' /\ PlaceInv' /\ SentInv' /\ FutureInv'
           /\ Len(responses) \in Nat /\ Len(responses') = Len(responses) + 1
           /\ \A i \in 1..Len(responses') :
                \/ i \in 1..Len(responses) /\ responses'[i] = responses[i]
                \/ /\ i = Len(responses) + 1 /\ i \notin 1..Len(responses)
                   /\ responses'[i].id = 0 /\ responses'[i].kind = kind
           /\ \A i \in 1..Len(responses) : i \in 1..Len(responses') /\ responses'[i] = responses[i]
<1>1. /\ Response(0, kind) \in [id : 0..MaxQueries, kind : Kinds]
      /\ Response(0, kind).id = 0 /\ Response(0, kind).kind = kind
  <2>1. 0 \in 0..MaxQueries
    BY TgAssumption
  <2> QED
    BY <2>1 DEF Response
<1>2. /\ Len(responses) \in Nat /\ Len(responses') = Len(responses) + 1
      /\ responses' \in Seq([id : 0..MaxQueries, kind : Kinds])
      /\ \A i \in 1..Len(responses') :
           \/ i \in 1..Len(responses) /\ responses'[i] = responses[i]
           \/ /\ i = Len(responses) + 1 /\ i \notin 1..Len(responses)
              /\ responses'[i].id = 0 /\ responses'[i].kind = kind
  <2> DEFINE e == Response(0, kind)
  <2>1. /\ e \in [id : 0..MaxQueries, kind : Kinds] /\ TypeOK
        /\ responses' = Append(responses, e) /\ e.id = 0 /\ e.kind = kind
    BY <1>1 DEF IInv
  <2> HIDE DEF e
  <2>2. /\ Len(responses) \in Nat
        /\ Append(responses, e) \in Seq([id : 0..MaxQueries, kind : Kinds])
        /\ Len(Append(responses, e)) = Len(responses) + 1
        /\ \A i \in 1..(Len(responses) + 1) :
              \/ /\ i \in 1..Len(responses)
                 /\ Append(responses, e)[i] = responses[i]
              \/ /\ i = Len(responses) + 1 /\ i \notin 1..Len(responses)
                 /\ Append(responses, e)[i] = e
    BY ONLY <2>1, AppendIs
  <2> QED
    BY <2>1, <2>2
<1>3. \A i \in 1..Len(responses) : i \in 1..Len(responses') /\ responses'[i] = responses[i]
  BY <1>2
<1>4. \A q \in Ids : Answering(q)' <=> Answering(q)
  <2>1. \A q \in Ids : q # 0
    BY DEF Ids
  <2> QED
    BY <1>2, <1>3, <2>1 DEF Answering
<1>5. TypeOK'
  BY <1>2 DEF IInv, TypeOK
<1>6. IdInv'
  BY <1>2 DEF IInv, IdInv
<1>7. PlaceInv'
  <2>1. \A i, j \in 1..Len(responses)' :
            responses'[i].id = responses'[j].id /\ responses'[i].id # 0 => i = j
    BY <1>2 DEF IInv, PlaceInv
  <2> QED
    BY <1>4, <2>1 DEF IInv, PlaceInv, Sending, InThread
<1>8. SentInv'
  BY <1>4 DEF IInv, SentInv, Underway, Sending, InThread
<1>9. FutureInv'
  BY DEF IInv, FutureInv
<1> QED
  BY <1>2, <1>3, <1>5, <1>6, <1>7, <1>8, <1>9

LEMMA TdUpdatesKeeps ==
    ASSUME IInv, main # "aborted", TdUpdates PROVE IInv'
<1>0. /\ UNCHANGED <<main, gw, thr, is_closed, current_query_id, handlers, futures,
                     is_ready_, events, raced>>
      /\ td' = [td EXCEPT !.reported = td.reported + 1]
  BY DEF TdUpdates
<1>1. /\ td' \in [auth : AuthStates \cup {"start"}, asked : SUBSET Ids, reported : Nat]
      /\ td'.asked = td.asked /\ td'.auth = td.auth
  <2>1. td.reported + 1 \in Nat
    BY DEF IInv, TypeOK
  <2> QED
    BY <1>0, <2>1 DEF IInv, TypeOK
<1>2. PICK kind \in {"event", "other"} : responses' = Append(responses, Response(0, kind))
  BY DEF TdUpdates
<1>3. kind \in Kinds
  BY <1>2 DEF Kinds
<1>4. /\ TypeOK' /\ IdInv' /\ PlaceInv' /\ SentInv' /\ FutureInv'
      /\ Len(responses) \in Nat /\ Len(responses') = Len(responses) + 1
      /\ \A i \in 1..Len(responses') :
           \/ i \in 1..Len(responses) /\ responses'[i] = responses[i]
           \/ i = Len(responses) + 1 /\ responses'[i].kind \in {"event", "other"}
      /\ \A i \in 1..Len(responses) : i \in 1..Len(responses') /\ responses'[i] = responses[i]
  BY <1>0, <1>1, <1>2, <1>3, UpdateKeepsPlaces
<1>5. AuthInv'
  <2>1. \A i \in 1..Len(responses') :
           \/ i \in 1..Len(responses) /\ responses'[i] = responses[i]
           \/ responses'[i].kind \in {"answer", "event", "other"}
    BY <1>4
  <2> QED
    BY <1>0, <1>1, <1>4, <2>1, AuthUntouched
<1> QED
  BY <1>4, <1>5 DEF IInv

LEMMA TdAuthorizesKeeps ==
    ASSUME IInv, main # "aborted", TdAuthorizes PROVE IInv'
<1>0. UNCHANGED <<main, gw, thr, is_closed, current_query_id, handlers, futures,
                  is_ready_, events, raced>>
  BY DEF TdAuthorizes
<1>1. PICK state \in Follows : /\ td' = [td EXCEPT !.auth = state]
                               /\ responses' = Append(responses, Response(0, state))
  BY DEF TdAuthorizes
<1>2. \/ td.auth = "start" /\ state = "wait_parameters"
      \/ /\ td.auth = "wait_parameters" /\ current_query_id >= 2
         /\ state \in Entry \cup Ending
      \/ td.auth \in Entry \cup Ending /\ state \in Ending
  BY <1>1 DEF Follows, Entry, Ending
<1>3. state \in AuthStates /\ state \in Kinds
  BY <1>2 DEF AuthStates, Kinds
<1>4. /\ td' \in [auth : AuthStates \cup {"start"}, asked : SUBSET Ids, reported : Nat]
      /\ td'.asked = td.asked /\ td'.auth = state
  BY <1>1, <1>3 DEF IInv, TypeOK
<1>5. /\ TypeOK' /\ IdInv' /\ PlaceInv' /\ SentInv' /\ FutureInv'
      /\ Len(responses) \in Nat /\ Len(responses') = Len(responses) + 1
      /\ \A i \in 1..Len(responses') :
           \/ i \in 1..Len(responses) /\ responses'[i] = responses[i]
           \/ i = Len(responses) + 1 /\ responses'[i].kind = state
      /\ \A i \in 1..Len(responses) : i \in 1..Len(responses') /\ responses'[i] = responses[i]
  BY <1>0, <1>1, <1>3, <1>4, UpdateKeepsPlaces
<1>6. AuthInv'
  <2>1. /\ current_query_id \in Nat
        /\ "start" \notin Entry \cup Ending /\ "wait_parameters" \notin Entry \cup Ending
        /\ Entry \cap Ending = {}
    BY TgAssumption DEF IInv, TypeOK, Entry, Ending
  <2>2. /\ state \in {"wait_parameters"} \cup Entry => is_ready_ = "unset"
        /\ state = "wait_parameters" => current_query_id = 0
        /\ state # "wait_parameters" => current_query_id >= 2
        /\ state # "start"
    BY <1>2, <2>1 DEF IInv, AuthInv
  <2>3. \A i \in 1..Len(responses) :
          /\ responses[i].kind = "wait_parameters" => state # "wait_parameters" /\ current_query_id = 0
          /\ responses[i].kind \in Entry => is_ready_ = "unset" /\ state \in Ending
          /\ responses[i].kind \in Ending => state \in Ending
    BY <1>2, <2>1 DEF IInv, AuthInv
  <2>4. \A i \in 1..Len(responses)' :
          /\ responses'[i].kind = "wait_parameters" => current_query_id = 0 /\ state # "start"
          /\ responses'[i].kind \in Entry => is_ready_ = "unset" /\ state \in Entry \cup Ending
          /\ responses'[i].kind \in Ending => state \in Ending
    BY <1>5, <2>2, <2>3
  <2>5. ASSUME NEW i \in 1..Len(responses)', NEW j \in 1..Len(responses)'
        PROVE
          /\ responses'[i].kind = "wait_parameters" /\ responses'[j].kind = "wait_parameters"
                => i = j
          /\ responses'[i].kind \in Entry /\ responses'[j].kind \in Entry => i = j
          /\ responses'[i].kind \in Entry /\ responses'[j].kind \in Ending => i < j
    <3>1. CASE i \in 1..Len(responses) /\ j \in 1..Len(responses)
      BY <1>5, <3>1 DEF IInv, AuthInv
    <3>2. CASE i \in 1..Len(responses) /\ j = Len(responses) + 1 /\ responses'[j].kind = state
      BY <1>5, <2>1, <2>3, <3>2
    <3>3. CASE i = Len(responses) + 1 /\ responses'[i].kind = state /\ j \in 1..Len(responses)
      BY <1>5, <2>1, <2>3, <3>3
    <3>4. CASE i = Len(responses) + 1 /\ j = Len(responses) + 1 /\ responses'[i].kind = state
      BY <1>5, <2>1, <3>4
    <3> QED
      BY <1>5, <3>1, <3>2, <3>3, <3>4
  <2>6. /\ state \in {"start", "wait_parameters"} => is_ready_ = "unset"
        /\ state = "start" => current_query_id = 0
        /\ state \in Entry \cup Ending => current_query_id >= 2
        /\ main = "run" => is_ready_ = "true"
        /\ main = "start" => thr.pc = "off"
    BY <2>1, <2>2 DEF IInv, AuthInv
  <2> QED
    BY <1>0, <1>4, <2>4, <2>5, <2>6 DEF AuthInv
<1> QED
  BY <1>5, <1>6 DEF IInv

-----------------------------------------------------------------------------
LEMMA StepKeeps == IInv /\ [Next]_vars => IInv'
<1> SUFFICES ASSUME IInv, [Next]_vars PROVE IInv'
  OBVIOUS
<1>1. CASE UNCHANGED vars
  <2>1. TypeOK' /\ FutureInv' /\ AuthInv'
    BY <1>1 DEF vars, IInv, TypeOK, FutureInv, AuthInv
  <2>2. IdInv' /\ PlaceInv' /\ SentInv'
    BY <1>1 DEF vars, IInv, IdInv, PlaceInv, SentInv, Underway, Sending, Answering, InThread
  <2> QED
    BY <2>1, <2>2 DEF IInv
<1>2. CASE Next
  BY <1>2, StartKeeps, ReadyKeeps, LeaveGatewayKeeps, JoinedKeeps, SendQueryAsyncKeeps,
     SendKeeps, GetKeeps, GetReturnsKeeps, ReceiveKeeps, ReceiveTimesOutKeeps,
     RunHandlerKeeps, EraseHandlerKeeps, TdAnswersKeeps, TdAuthorizesKeeps, TdUpdatesKeeps
  DEF Next, Main, Caller, Thread, Tdlib
<1> QED
  BY <1>1, <1>2

LEMMA Inductive == Spec => []IInv
<1> QED
  BY InitIInv, StepKeeps, PTL DEF Spec

\* TypeOK holds for any number of queries, futures and updates, with and
\* without the race on handlers.
THEOREM TypeCorrect == Spec => []TypeOK
<1>1. IInv => TypeOK
  BY DEF IInv
<1> QED
  BY <1>1, Inductive, PTL

\* The responses that carry a query's answer: one where it is Answering, none
\* where it is not.
LEMMA AnswersAreOne ==
    ASSUME IInv, NEW q \in Ids
    PROVE  Cardinality({i \in 1..Len(responses) : responses[i].id = q})
               = IF Answering(q) THEN 1 ELSE 0
<1> DEFINE A == {i \in 1..Len(responses) : responses[i].id = q}
<1>1. CASE Answering(q)
  <2>1. PICK i \in 1..Len(responses) : responses[i].id = q
    BY <1>1 DEF Answering
  <2>2. q # 0
    BY DEF Ids
  <2>3. A = {i}
    BY <2>1, <2>2 DEF IInv, PlaceInv
  <2> QED
    BY <1>1, <2>3, FS_Singleton
<1>2. CASE ~Answering(q)
  <2>1. A = {}
    BY <1>2 DEF Answering
  <2> QED
    BY <1>2, <2>1, FS_EmptySet
<1> QED
  BY <1>1, <1>2

\* A query under way has one holder until its handler has run.
LEMMA UnderwayIsHeldOnce ==
    ASSUME IInv, NEW q \in Ids, Underway(q), ~(thr.pc = "erase" /\ thr.id = q)
    PROVE  Holders(q) = 1
<1> DEFINE n == Cardinality({i \in 1..Len(responses) : responses[i].id = q})
<1>1. n = IF Answering(q) THEN 1 ELSE 0
  BY AnswersAreOne
<1>2. /\ Sending(q) => q \notin td.asked /\ ~Answering(q) /\ ~InThread(q)
      /\ q \in td.asked => ~Answering(q) /\ ~InThread(q)
      /\ Answering(q) => ~InThread(q)
  BY DEF IInv, PlaceInv
<1>3. InThread(q) <=> thr.pc = "find" /\ thr.id = q
  BY DEF InThread
<1>4. Holders(q) = (IF Sending(q) THEN 1 ELSE 0) + (IF q \in td.asked THEN 1 ELSE 0)
                      + n + (IF thr.pc = "find" /\ thr.id = q THEN 1 ELSE 0)
  BY DEF Holders, Sending
<1> HIDE DEF n
<1>5. Sending(q) \/ q \in td.asked \/ Answering(q) \/ InThread(q)
  BY DEF Underway
<1> QED
  BY <1>1, <1>2, <1>3, <1>4, <1>5

\* A future that is not set still has its handler in the map, and its query
\* one holder: nothing but a race on handlers loses a query.
THEOREM QueriesAreHeld == Spec => []NoLostQuery
<1>1. IInv => NoLostQuery
  <2> SUFFICES ASSUME IInv, NEW q \in Ids, futures[q].st = "waiting", q \notin raced
               PROVE  q \in handlers /\ Holders(q) = 1
    BY DEF NoLostQuery
  <2>1. q \in handlers /\ ~(thr.pc = "erase" /\ thr.id = q)
    BY DEF IInv, FutureInv
  <2>2. Underway(q)
    BY <2>1 DEF IInv, SentInv
  <2> QED
    BY <2>1, <2>2, UnderwayIsHeldOnce
<1> QED
  BY <1>1, Inductive, PTL

\* handlers holds nothing but queries that have one holder, and the query whose
\* handler has run and is erased next.
THEOREM HandlersAreErased == Spec => []NoLeakedHandler
<1>1. IInv => NoLeakedHandler
  <2> SUFFICES ASSUME IInv, NEW q \in handlers, ~(thr.pc = "erase" /\ thr.id = q)
               PROVE  Holders(q) = 1
    BY DEF NoLeakedHandler
  <2>1. q \in Ids /\ Underway(q)
    BY DEF IInv, TypeOK, SentInv
  <2> QED
    BY <2>1, UnderwayIsHeldOnce
<1> QED
  BY <1>1, Inductive, PTL

\* The second set_value of is_ready_, which ends the process, is reached only in a
\* state in which the session ends, after another has set the promise; and the race
\* on the map aborts only where the client's thread is in the map.
THEOREM AbortsAreEndings == Spec => AbortsOnlyOnEnding
<1>1. IInv /\ [Next]_vars =>
         [main' = "aborted" =>
            \/ main = "aborted"
            \/ is_ready_ # "unset" /\ responses # <<>> /\ Head(responses).kind \in Ending
            \/ Racy /\ thr.pc \in {"find", "erase"}]_vars
  <2> SUFFICES ASSUME IInv, Next, main' = "aborted", main # "aborted"
               PROVE  \/ is_ready_ # "unset" /\ responses # <<>> /\ Head(responses).kind \in Ending
                      \/ Racy /\ thr.pc \in {"find", "erase"}
    OBVIOUS
  <2>1. CASE SendQueryAsync
    BY <2>1 DEF SendQueryAsync
  <2>2. CASE Receive
    <3>1. responses # <<>> /\ Head(responses) = responses[1] /\ 1 \in 1..Len(responses)
      BY <2>2, TailIs DEF Receive, IInv
    <3>2. PICK k : k = responses[1].kind
      OBVIOUS
    <3>3. ProcessUpdate(k)
      BY <2>2, <3>1, <3>2 DEF Receive
    <3>4. k \in AuthStates /\ k # "wait_parameters" /\ is_ready_ # "unset"
      BY <3>3 DEF ProcessUpdate, OnAuthorizationState, SetReady
    <3>5. k \notin Entry
      BY <3>1, <3>2, <3>4 DEF IInv, AuthInv
    <3> QED
      BY <3>1, <3>2, <3>4, <3>5 DEF AuthStates
  <2> QED
    BY <2>1, <2>2 DEF Next, Main, Caller, Thread, Tdlib, Start, Ready, Close, LeaveGateway,
       Joined, Send, Get, GetReturns, ReceiveTimesOut, RunHandler, EraseHandler, TdAnswers,
       TdAuthorizes, TdUpdates
<1> QED
  BY <1>1, Inductive, PTL DEF Spec, AbortsOnlyOnEnding

\* The client implements QueryService: send_query_async asks for a fresh
\* future, a handler answers a waiting one with its own query, and no other
\* step touches a future.
THEOREM ServesQueries == Spec => ImplementsQueryService
<1>1. Init => Promise!Init
  BY DEF Init, Promise!Init, Promise!Fresh
<1>2. IInv /\ [Next]_vars => [Promise!Next]_futures
  <2> SUFFICES ASSUME IInv, [Next]_vars, futures' # futures
               PROVE  Promise!Next
    OBVIOUS
  <2>1. CASE SendQueryAsync
    <3>1. PICK id : id = current_query_id + 1
      OBVIOUS
    <3>2. id \in Ids /\ Promise!Ask(id)
      BY <2>1, <3>1, SendQueryAsyncAsks DEF Promise!Ask, Promise!Fresh, Promise!Asked
    <3> QED
      BY <3>2 DEF Promise!Next
  <2>2. CASE RunHandler
    <3>1. thr.id \in Ids
      BY <2>2, TgAssumption DEF RunHandler, IInv, TypeOK, IdInv, Ids
    <3>2. /\ futures[thr.id].st = "waiting"
          /\ futures' = [futures EXCEPT ![thr.id] = [st |-> "ready", of |-> thr.id]]
      BY <2>2 DEF RunHandler
    <3>3. futures[thr.id] = [st |-> "waiting", of |-> 0]
      BY <3>1, <3>2 DEF IInv, FutureInv
    <3>4. Promise!Answer(thr.id)
      BY <3>2, <3>3 DEF Promise!Answer, Promise!Asked, Promise!Answered
    <3> QED
      BY <3>1, <3>4 DEF Promise!Next
  <2> QED
    BY <2>1, <2>2 DEF Next, vars, Main, Caller, Thread, Tdlib, Start, Ready, LeaveGateway,
       Joined, Send, Get, GetReturns, Receive, ReceiveTimesOut, EraseHandler, TdAnswers,
       TdAuthorizes, TdUpdates
<1> QED
  BY <1>1, <1>2, Inductive, PTL DEF Spec, ImplementsQueryService, Promise!Spec

=============================================================================
