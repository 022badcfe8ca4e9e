---------------------------- MODULE GenDbProofs ----------------------------
(***************************************************************************)
(* The login dialogue of gen_db, for any number of wrong inputs and of     *)
(* repeated states: it does not stall, and only the answer to the last     *)
(* prompt makes it ask again.                                              *)
(***************************************************************************)
EXTENDS GenDb, SequenceTheorems, TLAPS

(***************************************************************************)
(* The inductive invariant.                                                *)
(***************************************************************************)

\* Ids that were handed out, and what comes with which.
IdInv ==
    /\ \A i \in 1..Len(td.asked) : td.asked[i].id \in 1..current_query_id
    /\ \A i \in 1..Len(responses) :
          /\ responses[i].id \in 0..current_query_id
          /\ responses[i].object \in IF responses[i].id = 0 THEN States ELSE {"ok", "error"}
    /\ current_query_id > 0 => authentication_query_id > 0

\* The handler of the proxy's query compares nothing.
ProxyInv ==
    \A i \in 1..Len(td.asked) :
       td.asked[i].f = "proxy" /\ td.asked[i].id \in DOMAIN handlers
          => handlers[td.asked[i].id] = Ignored

\* Query q was made by the last prompt.
IsLast(q) == q \in DOMAIN handlers /\ handlers[q] = authentication_query_id

\* The last query is accepted only with a state that is reported before.
AcceptInv ==
    \A i \in 1..Len(responses) :
       responses[i].object = "ok" /\ IsLast(responses[i].id)
          => \E j \in 1..(i - 1) : responses[j].id = 0

\* In a state that can be answered the last query is with TDLib, or its answer
\* is on its way.
AskedInv ==
    authorization_state \in Askable =>
       \E q \in 1..current_query_id :
          /\ IsLast(q)
          /\ \/ \E i \in 1..Len(td.asked) :
                   td.asked[i].id = q /\ td.asked[i].f = QueryFor[authorization_state]
             \/ \E i \in 1..Len(responses) : responses[i].id = q

\* The program is told every state: the last one reported is TDLib's.
ReportInv ==
    \/ /\ authorization_state = td.state
       /\ \A i \in 1..Len(responses) : responses[i].id # 0
    \/ \E i \in 1..Len(responses) :
          /\ responses[i].id = 0 /\ responses[i].object = td.state
          /\ \A j \in (i + 1)..Len(responses) : responses[j].id # 0

DialogueInv == TypeOK /\ IdInv /\ ProxyInv /\ AcceptInv /\ AskedInv /\ ReportInv

-----------------------------------------------------------------------------
(* Data. *)

Queries == [id : Nat, f : Functions]
Response == [id : Nat, object : States \cup {"ok", "error"}]
TdType == [state : States, asked : Seq(Queries), errors : 0..MaxErrors, repeats : 0..MaxRepeats]
Sends == [f : Functions, handler : Nat]

LEMMA AskableStates ==
    /\ Askable = {"wait_parameters", "wait_phone", "wait_code", "wait_registration", "wait_password"}
    /\ Askable \subseteq States
BY DEF Askable, QueryFor, States

LEMMA AskableQueries ==
    ASSUME NEW s \in Askable
    PROVE  QueryFor[s] \in Functions /\ QueryFor[s] # "proxy" /\ "proxy" \in Functions
BY AskableStates DEF QueryFor, Functions

\* A state that follows is one of the states.
LEMMA FollowingStates ==
    ASSUME NEW s \in Askable, NEW n \in Follows[s]
    PROVE  n \in States
BY AskableStates DEF Follows, States

\* A response is taken from the front, and the others move up.
LEMMA TailMoves ==
    ASSUME NEW S, NEW q \in Seq(S), q # <<>>
    PROVE  /\ Tail(q) \in Seq(S) /\ Len(Tail(q)) = Len(q) - 1
           /\ Len(q) \in Nat \ {0} /\ Head(q) = q[1] /\ q[1] \in S
           /\ \A i \in 1..Len(Tail(q)) : Tail(q)[i] = q[i + 1]
           /\ \A i \in 1..Len(q) : i = 1 \/ (i - 1 \in 1..Len(Tail(q)) /\ Tail(q)[i - 1] = q[i])
<1>1. Len(q) \in Nat /\ Len(q) # 0
  OBVIOUS
<1>2. Tail(q) \in Seq(S) /\ Len(Tail(q)) = Len(q) - 1 /\ Head(q) = q[1] /\ q[1] \in S
  OBVIOUS
<1>3. \A i \in 1..Len(Tail(q)) : Tail(q)[i] = q[i + 1]
  OBVIOUS
<1>4. ASSUME NEW i \in 1..Len(q), i # 1
      PROVE  i - 1 \in 1..Len(Tail(q)) /\ Tail(q)[i - 1] = q[i]
  <2>1. i - 1 \in 1..Len(Tail(q)) /\ (i - 1) + 1 = i
    BY <1>1, <1>2, <1>4
  <2> QED
    BY <1>3, <2>1
<1>5. \A i \in 1..Len(q) : i = 1 \/ (i - 1 \in 1..Len(Tail(q)) /\ Tail(q)[i - 1] = q[i])
  BY <1>4, Zenon
<1>6. Len(q) \in Nat \ {0}
  BY <1>1
<1> QED
  BY <1>2, <1>3, <1>5, <1>6, Zenon

LEMMA AppendKeeps ==
    ASSUME NEW S, NEW q \in Seq(S), NEW e \in S
    PROVE  /\ Append(q, e) \in Seq(S) /\ Len(Append(q, e)) = Len(q) + 1 /\ Len(q) \in Nat
           /\ Append(q, e)[Len(q) + 1] = e
           /\ \A i \in 1..Len(q) : Append(q, e)[i] = q[i]
OBVIOUS

LEMMA TwoAppended ==
    ASSUME NEW S, NEW q \in Seq(S), NEW d \in S, NEW e \in S
    PROVE  /\ q \o <<d, e>> \in Seq(S) /\ Len(q \o <<d, e>>) = Len(q) + 2 /\ Len(q) \in Nat
           /\ (q \o <<d, e>>)[Len(q) + 1] = d /\ (q \o <<d, e>>)[Len(q) + 2] = e
           /\ \A i \in 1..Len(q) : (q \o <<d, e>>)[i] = q[i]
<1>1. <<d, e>> \in Seq(S) /\ Len(<<d, e>>) = 2 /\ <<d, e>>[1] = d /\ <<d, e>>[2] = e
  OBVIOUS
<1>2. PICK t \in Seq(S) : t = <<d, e>>
  BY <1>1
<1>3. Len(q) \in Nat /\ Len(t) = 2 /\ t[1] = d /\ t[2] = e
  BY <1>1, <1>2
<1>4. q \o t \in Seq(S) /\ Len(q \o t) = Len(q) + Len(t)
  OBVIOUS
<1>5. \A i \in 1..(Len(q) + Len(t)) : (q \o t)[i] = IF i <= Len(q) THEN q[i] ELSE t[i - Len(q)]
  OBVIOUS
<1>6. (q \o t)[Len(q) + 1] = t[1] /\ (q \o t)[Len(q) + 2] = t[2]
  <2>1. PICK n \in Nat : n = Len(q)
    BY <1>3
  <2>2. /\ n + 1 \in 1..(n + 2) /\ ~(n + 1 <= n) /\ (n + 1) - n = 1
        /\ n + 2 \in 1..(n + 2) /\ ~(n + 2 <= n) /\ (n + 2) - n = 2
    OBVIOUS
  <2> QED
    BY <1>3, <1>5, <2>1, <2>2
<1>7. \A i \in 1..Len(q) : (q \o t)[i] = q[i]
  BY <1>3, <1>5
<1> QED
  BY <1>2, <1>3, <1>4, <1>6, <1>7

-----------------------------------------------------------------------------
(* send_query. *)

\* The queries are numbered on from current_query_id, with their handlers.
LEMMA Sent ==
    ASSUME NEW kept, NEW queries \in Seq(Sends), SendQueries(kept, queries),
           kept \subseteq 1..current_query_id, current_query_id \in Nat, td \in TdType
    PROVE  /\ current_query_id' = current_query_id + Len(queries) /\ Len(queries) \in Nat
           /\ DOMAIN handlers' = kept \cup {current_query_id + i : i \in 1..Len(queries)}
           /\ \A q \in kept : handlers'[q] = handlers[q]
           /\ \A i \in 1..Len(queries) : handlers'[current_query_id + i] = queries[i].handler
           /\ td' \in TdType /\ td'.state = td.state
           /\ Len(td'.asked) = Len(td.asked) + Len(queries) /\ Len(td.asked) \in Nat
           /\ \A i \in 1..Len(td.asked) : td'.asked[i] = td.asked[i]
           /\ \A i \in 1..Len(queries) : /\ td'.asked[Len(td.asked) + i].id = current_query_id + i
                                         /\ td'.asked[Len(td.asked) + i].f = queries[i].f
<1> DEFINE n == Len(queries)
<1> DEFINE new == [i \in 1..n |-> Query(current_query_id + i, queries[i].f)]
<1>1. n \in Nat /\ \A i \in 1..n : queries[i] \in Sends
  OBVIOUS
<1>2. /\ current_query_id' = current_query_id + n
      /\ handlers' = [q \in kept \cup {current_query_id + i : i \in 1..n} |->
                        IF q \in kept THEN handlers[q] ELSE queries[q - current_query_id].handler]
      /\ td' = [td EXCEPT !.asked = td.asked \o new]
  BY DEF SendQueries, TdType
<1>3. \A i \in 1..n : new[i] \in Queries
  BY <1>1 DEF Query, Queries, Sends
<1>4. new \in Seq(Queries) /\ Len(new) = n
  BY <1>1, <1>3
<1>5. td.asked \in Seq(Queries) /\ Len(td.asked) \in Nat
  BY DEF TdType
<1> HIDE DEF n
<1>6. \A i \in 1..n : current_query_id + i \notin kept
                      /\ (current_query_id + i) - current_query_id = i
  BY <1>1
<1>7. \A i \in 1..n : handlers'[current_query_id + i] = queries[i].handler
  BY <1>2, <1>6
<1>8. td'.asked = td.asked \o new /\ td'.state = td.state
  BY <1>2 DEF TdType
<1>9. \A i \in 1..n : new[i].id = current_query_id + i /\ new[i].f = queries[i].f
  BY DEF Query
<1>10. PICK t : t = new
  OBVIOUS
<1> HIDE DEF new
<1>11. /\ td'.asked \in Seq(Queries) /\ Len(td'.asked) = Len(td.asked) + n
       /\ \A i \in 1..Len(td.asked) : td'.asked[i] = td.asked[i]
       /\ \A i \in 1..n : td'.asked[Len(td.asked) + i] = t[i]
  <2>1. PICK a \in Seq(Queries) : a = td.asked
    BY <1>5
  <2>2. a \o t \in Seq(Queries) /\ Len(a \o t) = Len(a) + Len(t)
    BY <1>4, <1>10
  <2>3. \A i \in 1..(Len(a) + Len(t)) : (a \o t)[i] = IF i <= Len(a) THEN a[i] ELSE t[i - Len(a)]
    BY <1>4, <1>10
  <2>4. Len(t) = n /\ Len(a) \in Nat
    BY <1>4, <1>10
  <2>5. \A i \in 1..n : Len(a) + i \in 1..(Len(a) + n) /\ ~(Len(a) + i <= Len(a))
                        /\ (Len(a) + i) - Len(a) = i
    BY <1>1, <2>4
  <2>6. \A i \in 1..n : (a \o t)[Len(a) + i] = t[i]
    BY <2>3, <2>4, <2>5
  <2>7. \A i \in 1..Len(a) : (a \o t)[i] = a[i]
    BY <1>1, <2>3, <2>4
  <2> QED
    BY <1>8, <1>10, <2>1, <2>2, <2>4, <2>6, <2>7
<1>12. td' \in TdType
  BY <1>2, <1>8, <1>11 DEF TdType
<1> QED
  BY <1>1, <1>2, <1>5, <1>7, <1>8, <1>9, <1>10, <1>11, <1>12 DEF n

-----------------------------------------------------------------------------
LEMMA InitDialogue == Init => DialogueInv
<1> SUFFICES ASSUME Init PROVE DialogueInv
  OBVIOUS
<1>1. PICK r : r = Update("wait_parameters")
  OBVIOUS
<1>2. r \in Response /\ r.id = 0 /\ r.object = "wait_parameters" /\ "wait_parameters" \in States
  BY <1>1, AskableStates DEF Update, Response
<1>3. responses = <<r>> /\ Len(responses) = 1 /\ responses[1] = r /\ responses \in Seq(Response)
  BY <1>1, <1>2 DEF Init
<1>4. td \in TdType /\ td.state = "wait_parameters" /\ td.asked = <<>> /\ Len(td.asked) = 0
  <2>1. <<>> \in Seq(Queries)
    OBVIOUS
  <2> QED
    BY <1>2, <2>1, GenDbAssumption DEF Init, TdType
<1>5. DOMAIN handlers = {}
  BY DEF Init
<1>6. TypeOK
  BY <1>3, <1>4, <1>5 DEF Init, TypeOK, TdType, Queries, Response
<1>7. IdInv /\ ReportInv
  BY <1>2, <1>3, <1>4 DEF Init, IdInv, ReportInv
<1>8. ProxyInv /\ AcceptInv /\ AskedInv
  BY <1>3, <1>4, <1>5, AskableStates DEF Init, ProxyInv, AcceptInv, AskedInv, IsLast
<1> QED
  BY <1>6, <1>7, <1>8 DEF DialogueInv

-----------------------------------------------------------------------------
(* The program. *)

\* The queries of a state: the last of them asks for it, no other does, and only
\* the proxy's handler compares nothing.
SentFor(state) ==
    IF state = "wait_parameters" THEN ParameterQueries
    ELSE IF state \in Askable THEN <<AuthenticationQuery(state)>> ELSE <<>>

LEMMA SentQueries ==
    ASSUME NEW state, authentication_query_id \in Nat
    PROVE  /\ SentFor(state) \in Seq(Sends) /\ Len(SentFor(state)) \in 0..2
           /\ \A i \in 1..Len(SentFor(state)) :
                 /\ SentFor(state)[i].handler \in {Ignored, authentication_query_id + 1}
                 /\ SentFor(state)[i].f = "proxy" => SentFor(state)[i].handler = Ignored
           /\ state \in Askable =>
                 /\ Len(SentFor(state)) > 0
                 /\ SentFor(state)[Len(SentFor(state))] = AuthenticationQuery(state)
           /\ AuthenticationQuery(state).f = QueryFor[state]
           /\ AuthenticationQuery(state).handler = authentication_query_id + 1
<1>1. PICK p : p = [f |-> "proxy", handler |-> Ignored]
  OBVIOUS
<1>2. p \in Sends /\ p.f = "proxy" /\ p.handler = Ignored
  BY <1>1 DEF Sends, Functions, Ignored
<1>3. PICK a : a = AuthenticationQuery(state)
  OBVIOUS
<1>4. a.f = QueryFor[state] /\ a.handler = authentication_query_id + 1
  BY <1>3 DEF AuthenticationQuery
<1>5. state \in Askable => a \in Sends /\ a.f # "proxy"
  BY <1>3, <1>4, AskableQueries DEF AuthenticationQuery, Sends
<1>6. CASE state = "wait_parameters"
  <2>1. SentFor(state) = <<p, a>> /\ state \in Askable
    BY <1>1, <1>3, <1>6, AskableStates DEF SentFor, ParameterQueries
  <2>2. PICK s : s = <<p, a>>
    OBVIOUS
  <2>3. s \in Seq(Sends) /\ Len(s) = 2 /\ s[1] = p /\ s[2] = a
    BY <1>2, <1>5, <2>1, <2>2
  <2> QED
    BY <1>2, <1>3, <1>4, <1>5, <2>1, <2>2, <2>3
<1>7. CASE state # "wait_parameters" /\ state \in Askable
  <2>1. PICK s : s = <<a>>
    OBVIOUS
  <2>2. SentFor(state) = s
    BY <1>3, <1>7, <2>1 DEF SentFor
  <2>3. s \in Seq(Sends) /\ Len(s) = 1 /\ s[1] = a
    BY <1>5, <1>7, <2>1
  <2> QED
    BY <1>3, <1>4, <1>5, <1>7, <2>2, <2>3
<1>8. CASE state \notin Askable
  <2>1. SentFor(state) = <<>>
    BY <1>8, AskableStates DEF SentFor
  <2>2. <<>> \in Seq(Sends) /\ Len(<<>>) = 0
    OBVIOUS
  <2> QED
    BY <1>3, <1>4, <1>8, <2>1, <2>2
<1> QED
  BY <1>6, <1>7, <1>8

\* A response that is handled leaves the reports behind it, or was the last one.
LEMMA ReportsMove ==
    ASSUME DialogueInv, responses # <<>>, responses' = Tail(responses), td'.state = td.state,
           \/ Head(responses).id = 0 /\ authorization_state' = Head(responses).object
           \/ Head(responses).id # 0 /\ UNCHANGED authorization_state
    PROVE  ReportInv'
<1>1. PICK r : r = responses
  OBVIOUS
<1>2. PICK t : t = Tail(responses)
  OBVIOUS
<1>3. PICK n \in Nat \ {0} : n = Len(r)
  BY <1>1, TailMoves DEF DialogueInv, TypeOK, Response
<1>4. /\ Len(t) = n - 1 /\ Head(responses) = r[1]
      /\ \A i \in 1..Len(t) : t[i] = r[i + 1]
      /\ \A i \in 1..n : i = 1 \/ (i - 1 \in 1..Len(t) /\ t[i - 1] = r[i])
  BY <1>1, <1>2, <1>3, TailMoves DEF DialogueInv, TypeOK, Response
<1>5. CASE authorization_state = td.state /\ \A i \in 1..n : r[i].id # 0
  <2>1. UNCHANGED authorization_state
    BY <1>3, <1>4, <1>5
  <2>2. \A i \in 1..Len(t) : t[i].id # 0
    <3>1. ASSUME NEW i \in 1..Len(t) PROVE t[i].id # 0
      <4>1. i + 1 \in 1..n /\ t[i] = r[i + 1]
        BY <1>3, <1>4
      <4> QED
        BY <1>5, <4>1
    <3> QED
      BY <3>1
  <2> QED
    BY <1>2, <1>5, <2>1, <2>2 DEF ReportInv
<1>6. ASSUME NEW i \in 1..n, r[i].id = 0, r[i].object = td.state,
             \A j \in (i + 1)..n : r[j].id # 0
      PROVE  ReportInv'
  <2>1. ASSUME NEW k \in 1..Len(t), k >= i PROVE t[k].id # 0
    <3>1. k + 1 \in (i + 1)..n /\ t[k] = r[k + 1]
      BY <1>3, <1>4, <2>1
    <3> QED
      BY <1>6, <3>1
  <2>2. CASE i = 1
    <3>1. authorization_state' = td.state
      BY <1>4, <1>6, <2>2
    <3>2. \A k \in 1..Len(t) : t[k].id # 0
      BY <1>3, <1>4, <2>1, <2>2
    <3> QED
      BY <1>2, <3>1, <3>2 DEF ReportInv
  <2>3. CASE i # 1
    <3>1. PICK m \in 1..Len(t) : m = i - 1 /\ t[m] = r[i]
      BY <1>4, <2>3
    <3>2. \A k \in (m + 1)..Len(t) : k \in 1..Len(t) /\ k >= i
      BY <1>3, <1>4, <3>1
    <3>3. t[m].id = 0 /\ t[m].object = td.state /\ \A k \in (m + 1)..Len(t) : t[k].id # 0
      BY <1>6, <2>1, <3>1, <3>2
    <3> QED
      BY <1>2, <3>1, <3>3 DEF ReportInv
  <2> QED
    BY <2>2, <2>3
<1> QED
  BY <1>1, <1>3, <1>5, <1>6 DEF DialogueInv, ReportInv

\* The response at the front is well formed, and so are those behind it.
LEMMA RespondTyped ==
    ASSUME DialogueInv, responses # <<>>
    PROVE  /\ Tail(responses) \in Seq(Response)
           /\ Head(responses) = responses[1] /\ 1 \in 1..Len(responses)
           /\ Head(responses).id \in 0..current_query_id
           /\ Head(responses).object \in
                 IF Head(responses).id = 0 THEN States ELSE {"ok", "error"}
           /\ \A i \in 1..Len(Tail(responses)) :
                 i + 1 \in 1..Len(responses) /\ Tail(responses)[i] = responses[i + 1]
           /\ current_query_id \in Nat /\ authentication_query_id \in Nat
           /\ DOMAIN handlers \subseteq 1..current_query_id
           /\ \A q \in DOMAIN handlers : handlers[q] \in 0..authentication_query_id
           /\ td \in TdType
<1>1. responses \in Seq(Response)
  BY DEF DialogueInv, TypeOK, Response
<1>2. PICK n \in Nat \ {0} : n = Len(responses) /\ Len(Tail(responses)) = n - 1
  BY <1>1, TailMoves
<1>3. 1 \in 1..Len(responses) /\ \A i \in 1..Len(Tail(responses)) : i + 1 \in 1..Len(responses)
  BY <1>2
<1>4. Head(responses) = responses[1]
  BY <1>1, TailMoves
<1>5. /\ Head(responses).id \in 0..current_query_id
      /\ Head(responses).object \in IF Head(responses).id = 0 THEN States ELSE {"ok", "error"}
  BY <1>3, <1>4 DEF DialogueInv, IdInv
<1>6. /\ current_query_id \in Nat /\ authentication_query_id \in Nat
      /\ DOMAIN handlers \subseteq 1..current_query_id
      /\ \A q \in DOMAIN handlers : handlers[q] \in 0..authentication_query_id
      /\ td \in TdType
  BY DEF DialogueInv, TypeOK, TdType, Queries
<1> QED
  BY <1>1, <1>3, <1>4, <1>5, <1>6, TailMoves

\* The program asks for the state it is told, or again for the one it is in.
LEMMA PromptDialogue ==
    ASSUME DialogueInv, responses # <<>>, responses' = Tail(responses), NEW state, NEW cause \in Nat,
           OnAuthorizationStateUpdate(state, DOMAIN handlers \ {Head(responses).id}, cause),
           \/ Head(responses).id = 0 /\ state = Head(responses).object
           \/ Head(responses).id # 0 /\ state = authorization_state
    PROVE  DialogueInv'
<1>1. PICK kept : kept = DOMAIN handlers \ {Head(responses).id}
  OBVIOUS
<1>2. PICK queries : queries = SentFor(state)
  OBVIOUS
<1>3. PICK n : n = Len(queries)
  OBVIOUS
<1>4. PICK m : m = current_query_id
  OBVIOUS
<1>5. PICK a : a = authentication_query_id
  OBVIOUS
<1>6. PICK l : l = Len(td.asked)
  OBVIOUS
<1>7. /\ m \in Nat /\ a \in Nat /\ td \in TdType /\ kept \subseteq DOMAIN handlers
      /\ \A q \in DOMAIN handlers : q \in 1..m /\ handlers[q] \in 0..a
  BY <1>1, <1>4, <1>5, RespondTyped
<1>8. /\ authorization_state' = state /\ authentication_query_id' = a + 1
      /\ sequence_done' \in BOOLEAN /\ prompt' = cause
      /\ SendQueries(kept, queries)
  BY <1>1, <1>2, <1>5 DEF OnAuthorizationStateUpdate, SentFor
<1>9. /\ queries \in Seq(Sends) /\ n \in 0..2
      /\ \A i \in 1..n : /\ queries[i].handler \in {Ignored, a + 1}
                         /\ queries[i].f = "proxy" => queries[i].handler = Ignored
      /\ state \in Askable => /\ n > 0 /\ queries[n].f = QueryFor[state]
                              /\ queries[n].handler = a + 1
  BY <1>2, <1>3, <1>5, <1>7, SentQueries
<1>10. /\ current_query_id' = m + n /\ n \in Nat
       /\ DOMAIN handlers' = kept \cup {m + i : i \in 1..n}
       /\ \A q \in kept : handlers'[q] = handlers[q]
       /\ \A i \in 1..n : handlers'[m + i] = queries[i].handler
       /\ td' \in TdType /\ td'.state = td.state
       /\ Len(td'.asked) = l + n /\ l \in Nat
       /\ \A i \in 1..l : td'.asked[i] = td.asked[i]
       /\ \A i \in 1..n : td'.asked[l + i].id = m + i /\ td'.asked[l + i].f = queries[i].f
  <2>1. kept \subseteq 1..current_query_id
    BY <1>4, <1>7
  <2>2. current_query_id \in Nat
    BY <1>4, <1>7
  <2>3. /\ current_query_id' = current_query_id + Len(queries) /\ Len(queries) \in Nat
        /\ DOMAIN handlers' = kept \cup {current_query_id + i : i \in 1..Len(queries)}
        /\ \A q \in kept : handlers'[q] = handlers[q]
        /\ \A i \in 1..Len(queries) : handlers'[current_query_id + i] = queries[i].handler
        /\ td' \in TdType /\ td'.state = td.state
        /\ Len(td'.asked) = Len(td.asked) + Len(queries) /\ Len(td.asked) \in Nat
        /\ \A i \in 1..Len(td.asked) : td'.asked[i] = td.asked[i]
        /\ \A i \in 1..Len(queries) : /\ td'.asked[Len(td.asked) + i].id = current_query_id + i
                                      /\ td'.asked[Len(td.asked) + i].f = queries[i].f
    BY <1>7, <1>8, <1>9, <2>1, <2>2, Sent
  <2> QED
    BY <1>3, <1>4, <1>6, <2>3
<1>11. \A i \in 1..n : (m + i) \in 1..(m + n) /\ ~((m + i) \in 1..m)
  BY <1>7, <1>9
<1>12. \A i \in 1..(l + n) : i \in 1..l \/ \E k \in 1..n : i = l + k
  <2>1. ASSUME NEW i \in 1..(l + n), i \notin 1..l PROVE i - l \in 1..n /\ i = l + (i - l)
    BY <1>10, <2>1
  <2> QED
    BY <2>1
<1>13. TypeOK'
  <2>1. state \in States \cup {"none"}
    BY RespondTyped DEF DialogueInv, TypeOK
  <2>2. DOMAIN handlers' \subseteq 1..(m + n)
    BY <1>7, <1>10, <1>11
  <2>3. \A q \in DOMAIN handlers' : handlers'[q] \in 0..(a + 1)
    <3>1. \A i \in 1..n : handlers'[m + i] \in 0..(a + 1)
      <4>1. Ignored \in 0..(a + 1) /\ a + 1 \in 0..(a + 1)
        BY <1>7 DEF Ignored
      <4> QED
        BY <1>9, <1>10, <4>1
    <3>2. \A q \in kept : handlers'[q] \in 0..(a + 1)
      BY <1>7, <1>10
    <3> QED
      BY <1>10, <3>1, <3>2
  <2>4. responses' \in Seq(Response)
    BY RespondTyped
  <2>5. m + n \in Nat /\ a + 1 \in Nat
    BY <1>7, <1>9
  <2> QED
    BY <1>8, <1>10, <2>1, <2>2, <2>3, <2>4, <2>5 DEF TypeOK, TdType, Queries, Response
<1>14. IdInv'
  <2>1. \A i \in 1..(l + n) : td'.asked[i].id \in 1..(m + n)
    <3>1. \A i \in 1..l : td.asked[i].id \in 1..m
      BY <1>4, <1>6 DEF DialogueInv, IdInv
    <3>2. \A i \in 1..n : td'.asked[l + i].id \in 1..(m + n)
      BY <1>10, <1>11
    <3>3. 1..m \subseteq 1..(m + n)
      BY <1>7, <1>9
    <3> QED
      BY <1>10, <1>12, <3>1, <3>2, <3>3
  <2>2. \A i \in 1..Len(responses') :
           /\ responses'[i].id \in 0..(m + n)
           /\ responses'[i].object \in IF responses'[i].id = 0 THEN States ELSE {"ok", "error"}
    <3>1. 0..m \subseteq 0..(m + n)
      BY <1>7, <1>9
    <3> QED
      BY <1>4, <3>1, RespondTyped DEF DialogueInv, IdInv
  <2>3. a + 1 > 0
    BY <1>7
  <2> QED
    BY <1>8, <1>10, <2>1, <2>2, <2>3 DEF IdInv
<1>15. ProxyInv'
  <2>1. ASSUME NEW i \in 1..l, td'.asked[i].f = "proxy", td'.asked[i].id \in DOMAIN handlers'
        PROVE  handlers'[td'.asked[i].id] = Ignored
    <3>1. td'.asked[i] = td.asked[i] /\ td.asked[i].id \in 1..m
      BY <1>4, <1>6, <1>10 DEF DialogueInv, IdInv
    <3>2. td.asked[i].id \in kept
      BY <1>10, <1>11, <2>1, <3>1
    <3> QED
      BY <1>6, <1>7, <1>10, <2>1, <3>1, <3>2 DEF DialogueInv, ProxyInv
  <2>2. ASSUME NEW i \in 1..n, td'.asked[l + i].f = "proxy"
        PROVE  handlers'[td'.asked[l + i].id] = Ignored
    <3>1. td'.asked[l + i].id = m + i /\ td'.asked[l + i].f = queries[i].f
      BY <1>10
    <3> QED
      BY <1>9, <1>10, <2>2, <3>1
  <2>3. ASSUME NEW i \in 1..(l + n), td'.asked[i].f = "proxy", td'.asked[i].id \in DOMAIN handlers'
        PROVE  handlers'[td'.asked[i].id] = Ignored
    <3>1. CASE i \in 1..l
      BY <2>1, <2>3, <3>1
    <3>2. CASE \E k \in 1..n : i = l + k
      BY <2>2, <2>3, <3>2
    <3> QED
      BY <1>12, <3>1, <3>2
  <2> QED
    BY <1>10, <2>3 DEF ProxyInv
<1>16. \A q \in 1..m : ~IsLast(q)'
  <2>1. ASSUME NEW q \in 1..m, q \in DOMAIN handlers', handlers'[q] = a + 1 PROVE FALSE
    <3>1. q \in kept
      BY <1>10, <1>11, <2>1
    <3>2. handlers[q] \in 0..a
      BY <1>7, <3>1
    <3> QED
      BY <1>7, <1>10, <2>1, <3>1, <3>2
  <2> QED
    BY <1>8, <2>1 DEF IsLast
<1>17. AcceptInv'
  <2>1. \A i \in 1..Len(responses') : responses'[i].object = "ok" => responses'[i].id \in 1..m
    <3>1. ASSUME NEW i \in 1..Len(responses'), responses'[i].object = "ok"
          PROVE  responses'[i].id \in 1..m
      <4>1. /\ responses'[i].id \in 0..m
            /\ responses'[i].object \in IF responses'[i].id = 0 THEN States ELSE {"ok", "error"}
        BY <1>4, RespondTyped DEF DialogueInv, IdInv
      <4>2. "ok" \notin States
        BY AskableStates DEF States
      <4>3. responses'[i].id # 0
        BY <3>1, <4>1, <4>2
      <4> QED
        BY <1>7, <4>1, <4>3
    <3> QED
      BY <3>1
  <2> QED
    BY <1>16, <2>1 DEF AcceptInv, IsLast
<1>18. AskedInv'
  <2>1. SUFFICES ASSUME state \in Askable PROVE AskedInv'
    BY <1>8 DEF AskedInv
  <2>2. n \in 1..n /\ m + n \in 1..(m + n) /\ l + n \in 1..(l + n)
    <3>1. n \in Nat /\ n > 0
      BY <1>9, <1>10, <2>1
    <3> QED
      BY <1>7, <1>10, <3>1
  <2>3. IsLast(m + n)'
    BY <1>4, <1>8, <1>9, <1>10, <2>1, <2>2 DEF IsLast
  <2>4. td'.asked[l + n].id = m + n /\ td'.asked[l + n].f = QueryFor[state]
    BY <1>9, <1>10, <2>1, <2>2
  <2> QED
    BY <1>8, <1>10, <2>2, <2>3, <2>4 DEF AskedInv
<1>19. ReportInv'
  BY <1>8, <1>10, ReportsMove
<1> QED
  BY <1>13, <1>14, <1>15, <1>17, <1>18, <1>19 DEF DialogueInv

\* The answer of another query, or an answer that is right, changes nothing but
\* its handler.  The answer to the last query is right only behind a report.
LEMMA QuietDialogue ==
    ASSUME DialogueInv, responses # <<>>, responses' = Tail(responses),
           Head(responses).id \in DOMAIN handlers, ~Repeats(Head(responses)),
           handlers' = [q \in DOMAIN handlers \ {Head(responses).id} |-> handlers[q]],
           UNCHANGED <<authorization_state, sequence_done, current_query_id,
                       authentication_query_id, prompt, td>>
    PROVE  DialogueInv'
<1>1. PICK x : x = Head(responses).id
  OBVIOUS
<1>2. /\ x \in 1..current_query_id /\ x # 0 /\ responses[1].id = x /\ 1 \in 1..Len(responses)
      /\ responses[1] = Head(responses) /\ Head(responses).object \in {"ok", "error"}
  BY <1>1, RespondTyped
<1>3. DOMAIN handlers' = DOMAIN handlers \ {x} /\ \A q \in DOMAIN handlers' : handlers'[q] = handlers[q]
  BY <1>1
<1>4. TypeOK'
  BY <1>3, RespondTyped DEF DialogueInv, TypeOK, Response
<1>5. IdInv' /\ ProxyInv'
  <2>1. IdInv'
    BY RespondTyped DEF DialogueInv, IdInv
  <2>2. ProxyInv'
    BY <1>3 DEF DialogueInv, ProxyInv
  <2> QED
    BY <2>1, <2>2
<1>6. ~IsLast(x)
  <2>1. SUFFICES ASSUME handlers[x] = authentication_query_id PROVE FALSE
    BY DEF IsLast
  <2>2. authentication_query_id # Ignored
    BY <1>2, RespondTyped DEF DialogueInv, IdInv, Ignored
  <2>3. Head(responses).object = "ok"
    BY <1>1, <1>2, <2>1, <2>2 DEF Repeats
  <2>4. \E j \in 1..(1 - 1) : responses[j].id = 0
    BY <1>1, <1>2, <2>1, <2>3 DEF DialogueInv, AcceptInv, IsLast
  <2> QED
    BY <2>4
<1>7. \A q : IsLast(q)' <=> IsLast(q)
  BY <1>3, <1>6 DEF IsLast
<1>8. AcceptInv'
  <2>1. ASSUME NEW i \in 1..Len(responses'), responses'[i].object = "ok", IsLast(responses[i].id)'
        PROVE  \E j \in 1..(i - 1) : responses'[j].id = 0
    <3>1. i + 1 \in 1..Len(responses) /\ responses'[i] = responses[i + 1]
      BY RespondTyped
    <3>2. IsLast(responses[i + 1].id) /\ responses[i + 1].object = "ok"
      BY <1>3, <1>6, <2>1, <3>1 DEF IsLast
    <3>3. PICK j \in 1..((i + 1) - 1) : responses[j].id = 0
      BY <3>1, <3>2 DEF DialogueInv, AcceptInv
    <3>4. j # 1
      BY <1>2, <3>3
    <3>5. PICK k \in 1..(i - 1) : k = j - 1
      BY <3>3, <3>4
    <3>6. k \in 1..Len(responses') /\ k + 1 = j
      BY <3>5
    <3>7. responses'[k] = responses[j]
      BY <3>6, RespondTyped
    <3> QED
      BY <3>3, <3>7
  <2> QED
    BY <2>1 DEF AcceptInv
<1>9. AskedInv'
  <2>1. SUFFICES ASSUME authorization_state \in Askable PROVE AskedInv'
    BY DEF AskedInv
  <2>2. PICK q \in 1..current_query_id :
           /\ IsLast(q)
           /\ \/ \E i \in 1..Len(td.asked) :
                    td.asked[i].id = q /\ td.asked[i].f = QueryFor[authorization_state]
              \/ \E i \in 1..Len(responses) : responses[i].id = q
    BY <2>1 DEF DialogueInv, AskedInv
  <2>3. IsLast(q)'
    BY <1>7, <2>2
  <2>4. ASSUME NEW i \in 1..Len(responses), responses[i].id = q
        PROVE  \E k \in 1..Len(responses') : responses'[k].id = q
    <3>1. i # 1
      BY <1>2, <1>6, <2>2, <2>4
    <3>2. responses \in Seq(Response)
      BY DEF DialogueInv, TypeOK, Response
    <3>3. i - 1 \in 1..Len(responses') /\ responses'[i - 1] = responses[i]
      BY <3>1, <3>2, TailMoves
    <3> QED
      BY <2>4, <3>3
  <2> QED
    BY <2>2, <2>3, <2>4 DEF AskedInv
<1>10. ReportInv'
  BY <1>1, <1>2, ReportsMove
<1> QED
  BY <1>4, <1>5, <1>8, <1>9, <1>10 DEF DialogueInv

LEMMA ProgramDialogue ==
    ASSUME DialogueInv, ProcessResponse
    PROVE  DialogueInv'
<1>1. responses # <<>> /\ responses' = Tail(responses)
  BY DEF ProcessResponse
<1>2. CASE /\ Head(responses).id = 0
           /\ OnAuthorizationStateUpdate(Head(responses).object,
                                         DOMAIN handlers \ {Head(responses).id}, 0)
  <2>1. PICK state : state = Head(responses).object
    OBVIOUS
  <2>2. PICK cause \in Nat : cause = 0
    OBVIOUS
  <2>3. OnAuthorizationStateUpdate(state, DOMAIN handlers \ {Head(responses).id}, cause)
    BY <1>2, <2>1, <2>2
  <2> QED
    BY <1>1, <1>2, <2>1, <2>3, PromptDialogue
<1>3. CASE /\ Head(responses).id \in DOMAIN handlers
           /\ OnAuthorizationStateUpdate(authorization_state,
                  DOMAIN handlers \ {Head(responses).id}, Head(responses).id)
  <2>1. PICK state : state = authorization_state
    OBVIOUS
  <2>2. PICK cause : cause = Head(responses).id
    OBVIOUS
  <2>3. cause \in Nat /\ cause # 0
    BY <1>1, <1>3, <2>2, RespondTyped
  <2>4. OnAuthorizationStateUpdate(state, DOMAIN handlers \ {Head(responses).id}, cause)
    BY <1>3, <2>1, <2>2
  <2> QED
    BY <1>1, <2>1, <2>2, <2>3, <2>4, PromptDialogue
<1>4. CASE /\ Head(responses).id \in DOMAIN handlers /\ ~Repeats(Head(responses))
           /\ handlers' = [q \in DOMAIN handlers \ {Head(responses).id} |-> handlers[q]]
           /\ UNCHANGED <<authorization_state, sequence_done, current_query_id,
                          authentication_query_id, prompt, td>>
  BY <1>1, <1>4, QuietDialogue
<1> QED
  BY <1>2, <1>3, <1>4 DEF ProcessResponse

-----------------------------------------------------------------------------
(* TDLib. *)

\* TDLib answers the first query, reports before it or not, and keeps its state
\* unless it reports another one.
LEMMA AnswerDialogue ==
    ASSUME DialogueInv, UNCHANGED program, td' \in TdType, responses' \in Seq(Response),
           td.asked # <<>>, td'.asked = Tail(td.asked),
           NEW n \in Nat, n = Len(responses), NEW l \in {n + 1, n + 2}, Len(responses') = l,
           \A i \in 1..n : responses'[i] = responses[i],
           responses'[l].id = Head(td.asked).id, responses'[l].object \in {"ok", "error"},
           l = n + 1 => /\ td'.state = td.state
                        /\ responses'[l].object = "ok" => Head(td.asked).f = "proxy",
           l = n + 2 => responses'[n + 1].id = 0 /\ responses'[n + 1].object = td'.state
    PROVE  DialogueInv'
<1> USE DEF program
<1>1. PICK x : x = Head(td.asked).id
  OBVIOUS
<1>2. PICK a : a = td.asked
  OBVIOUS
<1>3. PICK t : t = Tail(td.asked)
  OBVIOUS
<1>4. /\ a \in Seq(Queries) /\ Len(a) \in Nat \ {0} /\ Len(t) = Len(a) - 1 /\ a[1].id = x
      /\ \A i \in 1..Len(t) : t[i] = a[i + 1]
      /\ \A i \in 1..Len(a) : i = 1 \/ (i - 1 \in 1..Len(t) /\ t[i - 1] = a[i])
      /\ Head(td.asked) = a[1]
  BY <1>1, <1>2, <1>3, TailMoves DEF DialogueInv, TypeOK, Queries
<1>5. 1 \in 1..Len(a) /\ \A i \in 1..Len(t) : i + 1 \in 1..Len(a)
  BY <1>4
<1>6. x \in 1..current_query_id /\ x # 0 /\ current_query_id \in Nat
  BY <1>2, <1>4, <1>5 DEF DialogueInv, IdInv, TypeOK
<1>7. \A i \in 1..l : i \in 1..n \/ i = l \/ (i = n + 1 /\ l = n + 2)
  OBVIOUS
<1>8. l \in 1..l /\ 1..n \subseteq 1..l /\ (l = n + 2 => n + 1 \in 1..(l - 1) /\ n + 1 \in 1..l)
  OBVIOUS
<1>9. TypeOK'
  BY DEF DialogueInv, TypeOK, TdType, Queries, Response
<1>10. IdInv'
  <2>1. \A i \in 1..Len(t) : t[i].id \in 1..current_query_id
    BY <1>2, <1>4, <1>5 DEF DialogueInv, IdInv
  <2>2. ASSUME NEW i \in 1..l
        PROVE  /\ responses'[i].id \in 0..current_query_id
               /\ responses'[i].object \in IF responses'[i].id = 0 THEN States ELSE {"ok", "error"}
    <3>1. CASE i \in 1..n
      BY <3>1 DEF DialogueInv, IdInv
    <3>2. CASE i = l
      BY <1>1, <1>6, <3>2
    <3>3. CASE i = n + 1 /\ l = n + 2
      BY <1>6, <3>3 DEF TdType
    <3> QED
      BY <1>7, <3>1, <3>2, <3>3
  <2>3. current_query_id > 0 => authentication_query_id > 0
    BY DEF DialogueInv, IdInv
  <2> QED
    BY <1>3, <2>1, <2>2, <2>3 DEF IdInv
<1>11. ProxyInv'
  BY <1>2, <1>3, <1>4, <1>5 DEF DialogueInv, ProxyInv
<1>12. \A q : IsLast(q)' <=> IsLast(q)
  BY DEF IsLast
<1>13. AcceptInv'
  <2>1. ASSUME NEW i \in 1..l, responses'[i].object = "ok", IsLast(responses[i].id)'
        PROVE  \E j \in 1..(i - 1) : responses'[j].id = 0
    <3>1. CASE i \in 1..n
      <4>1. IsLast(responses[i].id) /\ responses[i].object = "ok"
        BY <2>1, <3>1 DEF IsLast
      <4>2. PICK j \in 1..(i - 1) : responses[j].id = 0
        BY <3>1, <4>1 DEF DialogueInv, AcceptInv
      <4>3. j \in 1..n
        BY <3>1, <4>2
      <4> QED
        BY <4>2, <4>3
    <3>2. CASE i = l /\ l = n + 1
      <4>1. a[1].f = "proxy" /\ x \in DOMAIN handlers /\ handlers[x] = authentication_query_id
        BY <1>1, <1>4, <2>1, <3>2 DEF IsLast
      <4>2. handlers[x] = Ignored
        BY <1>2, <1>4, <1>5, <4>1 DEF DialogueInv, ProxyInv
      <4>3. authentication_query_id > 0
        BY <1>6 DEF DialogueInv, IdInv
      <4> QED
        BY <4>1, <4>2, <4>3 DEF Ignored
    <3>3. CASE i = l /\ l = n + 2
      BY <1>8, <3>3
    <3>4. CASE i = n + 1 /\ l = n + 2
      <4>1. responses'[i].object \in States
        BY <3>4 DEF TdType
      <4>2. "ok" \notin States
        BY AskableStates DEF States
      <4> QED
        BY <2>1, <4>1, <4>2
    <3> QED
      BY <1>7, <3>1, <3>2, <3>3, <3>4
  <2> QED
    BY <2>1 DEF AcceptInv
<1>14. AskedInv'
  <2>1. SUFFICES ASSUME authorization_state \in Askable PROVE AskedInv'
    BY DEF AskedInv
  <2>2. PICK q \in 1..current_query_id :
           /\ IsLast(q)
           /\ \/ \E i \in 1..Len(a) : a[i].id = q /\ a[i].f = QueryFor[authorization_state]
              \/ \E i \in 1..Len(responses) : responses[i].id = q
    BY <1>2, <2>1 DEF DialogueInv, AskedInv
  <2>3. CASE \E i \in 1..Len(responses) : responses[i].id = q
    <3>1. PICK i \in 1..n : responses'[i].id = q
      BY <2>3
    <3>2. i \in 1..Len(responses')
      BY <1>8
    <3> QED
      BY <1>12, <2>2, <3>1, <3>2 DEF AskedInv
  <2>4. ASSUME NEW i \in 1..Len(a), a[i].id = q, a[i].f = QueryFor[authorization_state]
        PROVE  AskedInv'
    <3>1. CASE i = 1
      <4>1. l \in 1..Len(responses') /\ responses'[l].id = q
        BY <1>1, <1>4, <1>8, <2>4, <3>1
      <4> QED
        BY <1>12, <2>2, <4>1 DEF AskedInv
    <3>2. CASE i # 1
      <4>1. PICK k \in 1..Len(t) : t[k] = a[i]
        BY <1>4, <3>2
      <4>2. td'.asked[k].id = q /\ td'.asked[k].f = QueryFor[authorization_state]
            /\ k \in 1..Len(td'.asked)
        BY <1>3, <2>4, <4>1
      <4> QED
        BY <1>12, <2>2, <4>2 DEF AskedInv
    <3> QED
      BY <3>1, <3>2
  <2> QED
    BY <2>2, <2>3, <2>4
<1>15. ReportInv'
  <2>1. responses'[l].id # 0
    BY <1>1, <1>6
  <2>2. CASE l = n + 2
    <3>1. \A j \in (n + 2)..l : j = l
      BY <2>2
    <3>2. \A j \in ((n + 1) + 1)..Len(responses') : responses'[j].id # 0
      BY <2>1, <3>1
    <3>3. n + 1 \in 1..Len(responses')
      BY <1>8, <2>2
    <3> QED
      BY <2>2, <3>2, <3>3 DEF ReportInv
  <2>3. CASE l = n + 1 /\ authorization_state = td.state /\ \A i \in 1..n : responses[i].id # 0
    <3>1. \A i \in 1..l : responses'[i].id # 0
      BY <1>7, <2>1, <2>3
    <3> QED
      BY <2>3, <3>1 DEF ReportInv
  <2>4. ASSUME l = n + 1, NEW i \in 1..n, responses[i].id = 0, responses[i].object = td.state,
               \A j \in (i + 1)..n : responses[j].id # 0
        PROVE  ReportInv'
    <3>1. ASSUME NEW j \in (i + 1)..l PROVE responses'[j].id # 0
      <4>1. j = l \/ (j \in (i + 1)..n /\ j \in 1..n)
        BY <2>4
      <4> QED
        BY <2>1, <2>4, <4>1
    <3>2. responses'[i].id = 0 /\ responses'[i].object = td'.state /\ i \in 1..Len(responses')
      BY <1>8, <2>4
    <3> QED
      BY <3>1, <3>2 DEF ReportInv
  <2> QED
    BY <2>2, <2>3, <2>4 DEF DialogueInv, ReportInv
<1> QED
  BY <1>9, <1>10, <1>11, <1>13, <1>14, <1>15 DEF DialogueInv

\* The first query, and the answers and reports TDLib makes.
LEMMA AskedTyped ==
    ASSUME DialogueInv, td.asked # <<>>
    PROVE  /\ Head(td.asked).id \in Nat /\ td \in TdType /\ responses \in Seq(Response)
           /\ Tail(td.asked) \in Seq(Queries) /\ Len(responses) \in Nat
<1>1. td \in TdType /\ responses \in Seq(Response) /\ td.asked \in Seq(Queries)
  BY DEF DialogueInv, TypeOK, TdType, Queries, Response
<1>2. Head(td.asked) \in Queries
  BY <1>1
<1> QED
  BY <1>1, <1>2 DEF Queries

LEMMA Reported ==
    ASSUME NEW id \in Nat, NEW object \in {"ok", "error"}, NEW state \in States
    PROVE  /\ AnswerTo(id, object) \in Response
           /\ AnswerTo(id, object).id = id /\ AnswerTo(id, object).object = object
           /\ Update(state) \in Response
           /\ Update(state).id = 0 /\ Update(state).object = state
BY DEF AnswerTo, Update, Response

\* An answer without a report: an error, or the proxy's.
LEMMA SingleDialogue ==
    ASSUME DialogueInv, td.asked # <<>>, UNCHANGED program, NEW object \in {"ok", "error"},
           responses' = Append(responses, AnswerTo(Head(td.asked).id, object)),
           td' \in TdType, td'.state = td.state, td'.asked = Tail(td.asked),
           object = "ok" => Head(td.asked).f = "proxy"
    PROVE  DialogueInv'
<1>1. PICK r : r = AnswerTo(Head(td.asked).id, object)
  OBVIOUS
<1>2. PICK x \in Nat : x = Head(td.asked).id
  BY AskedTyped
<1>3. r \in Response /\ r.id = Head(td.asked).id /\ r.object = object
  BY <1>1, <1>2 DEF AnswerTo, Response
<1>4. PICK n \in Nat : n = Len(responses)
  BY AskedTyped
<1>5. /\ responses' \in Seq(Response) /\ Len(responses') = n + 1
      /\ responses'[n + 1] = r /\ \A i \in 1..n : responses'[i] = responses[i]
  BY <1>1, <1>3, <1>4, AskedTyped, AppendKeeps
<1>6. PICK l : l = n + 1
  OBVIOUS
<1>7. l \in {n + 1, n + 2} /\ Len(responses') = l /\ l # n + 2
  BY <1>5, <1>6
<1>8. responses'[l].id = Head(td.asked).id /\ responses'[l].object = object
  BY <1>3, <1>5, <1>6
<1> QED
  BY <1>4, <1>5, <1>7, <1>8, AnswerDialogue

LEMMA AcceptDialogue ==
    ASSUME DialogueInv, TdAccepts
    PROVE  DialogueInv'
<1>1. td.asked # <<>> /\ UNCHANGED program
  BY DEF TdAccepts
<1>2. ASSUME Fits(Head(td.asked)), NEW state \in Follows[td.state],
             td' = [td EXCEPT !.state = state, !.asked = Tail(@)],
             responses' = responses \o <<Update(state), AnswerTo(Head(td.asked).id, "ok")>>
      PROVE  DialogueInv'
  <2>1. state \in States
    BY <1>2, FollowingStates DEF Fits
  <2>2. td' \in TdType /\ td'.state = state /\ td'.asked = Tail(td.asked)
    BY <1>1, <1>2, <2>1, AskedTyped DEF TdType
  <2>3. PICK u : u = Update(state)
    OBVIOUS
  <2>4. PICK r : r = AnswerTo(Head(td.asked).id, "ok")
    OBVIOUS
  <2>5. u \in Response /\ u.id = 0 /\ u.object = state
    BY <2>1, <2>3 DEF Update, Response
  <2>6. r \in Response /\ r.id = Head(td.asked).id /\ r.object = "ok"
    BY <1>1, <2>4, AskedTyped DEF AnswerTo, Response
  <2>7. PICK n \in Nat : n = Len(responses)
    BY <1>1, AskedTyped
  <2>8. responses' = responses \o <<u, r>>
    BY <1>2, <2>3, <2>4
  <2>9. /\ responses' \in Seq(Response) /\ Len(responses') = n + 2
        /\ responses'[n + 1] = u /\ responses'[n + 2] = r
        /\ \A i \in 1..n : responses'[i] = responses[i]
    BY <1>1, <2>5, <2>6, <2>7, <2>8, AskedTyped, TwoAppended
  <2>10. PICK l : l = n + 2
    OBVIOUS
  <2>11. l \in {n + 1, n + 2} /\ Len(responses') = l /\ l # n + 1
    BY <2>9, <2>10
  <2>12. /\ responses'[l].id = Head(td.asked).id /\ responses'[l].object = "ok"
         /\ responses'[n + 1].id = 0 /\ responses'[n + 1].object = td'.state
    BY <2>2, <2>5, <2>6, <2>9, <2>10
  <2> QED
    BY <1>1, <2>2, <2>7, <2>9, <2>11, <2>12, AnswerDialogue
<1>3. ASSUME Head(td.asked).f = "proxy", td' = [td EXCEPT !.asked = Tail(@)],
             NEW object \in {"ok", "error"},
             responses' = Append(responses, AnswerTo(Head(td.asked).id, object))
      PROVE  DialogueInv'
  <2>1. td' \in TdType /\ td'.state = td.state /\ td'.asked = Tail(td.asked)
    BY <1>1, <1>3, AskedTyped DEF TdType
  <2> QED
    BY <1>1, <1>3, <2>1, SingleDialogue
<1> QED
  BY <1>2, <1>3 DEF TdAccepts

LEMMA RejectDialogue ==
    ASSUME DialogueInv, TdRejects
    PROVE  DialogueInv'
<1>1. /\ td.asked # <<>> /\ UNCHANGED program
      /\ responses' = Append(responses, AnswerTo(Head(td.asked).id, "error"))
  BY DEF TdRejects
<1>2. PICK e : e = IF Fits(Head(td.asked)) THEN td.errors + 1 ELSE td.errors
  OBVIOUS
<1>3. td' = [td EXCEPT !.asked = Tail(@), !.errors = e]
  BY <1>2, AskedTyped DEF TdRejects, TdType
<1>4. e \in 0..MaxErrors
  <2>1. td.errors \in 0..MaxErrors /\ MaxErrors \in Nat
    BY GenDbAssumption DEF DialogueInv, TypeOK
  <2>2. Fits(Head(td.asked)) => td.errors < MaxErrors
    BY DEF TdRejects
  <2> QED
    BY <1>2, <2>1, <2>2
<1>5. td' \in TdType /\ td'.state = td.state /\ td'.asked = Tail(td.asked)
  BY <1>1, <1>3, <1>4, AskedTyped DEF TdType
<1>6. PICK object \in {"ok", "error"} : object = "error"
  OBVIOUS
<1> QED
  BY <1>1, <1>5, <1>6, SingleDialogue

\* TDLib reports a state.
LEMMA ReportDialogue ==
    ASSUME DialogueInv, TdReports
    PROVE  DialogueInv'
<1> USE DEF program
<1>1. td \in TdType /\ responses \in Seq(Response) /\ UNCHANGED program
  BY DEF DialogueInv, TypeOK, TdType, Queries, Response, TdReports
<1>2. PICK state \in States : /\ td' \in TdType /\ td'.state = state /\ td'.asked = td.asked
                              /\ responses' = Append(responses, Update(state))
  <2>1. CASE /\ td.repeats < MaxRepeats /\ td' = [td EXCEPT !.repeats = @ + 1]
             /\ responses' = Append(responses, Update(td.state))
    <3>1. td.repeats + 1 \in 0..MaxRepeats
      BY <1>1, <2>1, GenDbAssumption DEF TdType
    <3> QED
      BY <1>1, <2>1, <3>1 DEF TdType
  <2>2. ASSUME NEW s \in {"ready", "wait_password", "logging_out", "closing", "closed"},
               td' = [td EXCEPT !.state = s], responses' = Append(responses, Update(s))
        PROVE  \E state \in States : /\ td' \in TdType /\ td'.state = state
                                     /\ td'.asked = td.asked
                                     /\ responses' = Append(responses, Update(state))
    <3>1. s \in States
      BY AskableStates DEF States
    <3> QED
      BY <1>1, <2>2, <3>1 DEF TdType
  <2> QED
    BY <2>1, <2>2 DEF TdReports
<1>3. PICK u : u = Update(state)
  OBVIOUS
<1>4. u \in Response /\ u.id = 0 /\ u.object = state
  BY <1>3 DEF Update, Response
<1>5. PICK n \in Nat : n = Len(responses)
  BY <1>1
<1>6. /\ responses' \in Seq(Response) /\ Len(responses') = n + 1
      /\ responses'[n + 1] = u /\ \A i \in 1..n : responses'[i] = responses[i]
  BY <1>1, <1>2, <1>3, <1>4, <1>5, AppendKeeps
<1>7. \A i \in 1..(n + 1) : i \in 1..n \/ i = n + 1
  OBVIOUS
<1>8. TypeOK'
  BY <1>1, <1>2, <1>6 DEF DialogueInv, TypeOK, TdType, Queries, Response
<1>9. IdInv'
  <2>1. ASSUME NEW i \in 1..(n + 1)
        PROVE  /\ responses'[i].id \in 0..current_query_id
               /\ responses'[i].object \in IF responses'[i].id = 0 THEN States ELSE {"ok", "error"}
    <3>1. CASE i \in 1..n
      BY <1>5, <1>6, <3>1 DEF DialogueInv, IdInv
    <3>2. CASE i = n + 1
      BY <1>4, <1>6, <3>2 DEF DialogueInv, TypeOK
    <3> QED
      BY <1>7, <3>1, <3>2
  <2> QED
    BY <1>1, <1>2, <1>6, <2>1 DEF DialogueInv, IdInv
<1>10. ProxyInv' /\ \A q : IsLast(q)' <=> IsLast(q)
  BY <1>1, <1>2 DEF DialogueInv, ProxyInv, IsLast
<1>11. AcceptInv'
  <2>1. ASSUME NEW i \in 1..(n + 1), responses'[i].object = "ok", IsLast(responses[i].id)'
        PROVE  \E j \in 1..(i - 1) : responses'[j].id = 0
    <3>1. "ok" \notin States
      BY AskableStates DEF States
    <3>2. i \in 1..n
      BY <1>4, <1>6, <1>7, <2>1, <3>1
    <3>3. IsLast(responses[i].id) /\ responses[i].object = "ok"
      BY <1>1, <1>6, <2>1, <3>2 DEF IsLast
    <3>4. PICK j \in 1..(i - 1) : responses[j].id = 0
      BY <1>5, <3>2, <3>3 DEF DialogueInv, AcceptInv
    <3>5. j \in 1..n
      BY <3>2, <3>4
    <3> QED
      BY <1>6, <3>4, <3>5
  <2> QED
    BY <1>6, <2>1 DEF AcceptInv
<1>12. AskedInv'
  <2>1. \A q : (\E i \in 1..Len(responses) : responses[i].id = q)
                 => \E i \in 1..Len(responses') : responses'[i].id = q
    <3>1. 1..n \subseteq 1..(n + 1)
      OBVIOUS
    <3> QED
      BY <1>5, <1>6, <3>1
  <2> QED
    BY <1>1, <1>2, <1>10, <2>1 DEF DialogueInv, AskedInv
<1>13. ReportInv'
  <2>1. \A j \in ((n + 1) + 1)..(n + 1) : FALSE
    OBVIOUS
  <2>2. n + 1 \in 1..Len(responses') /\ responses'[n + 1].id = 0 /\ responses'[n + 1].object = td'.state
    BY <1>2, <1>4, <1>6
  <2> QED
    BY <1>6, <2>1, <2>2 DEF ReportInv
<1> QED
  BY <1>8, <1>9, <1>10, <1>11, <1>12, <1>13 DEF DialogueInv

-----------------------------------------------------------------------------
LEMMA StepDialogue == DialogueInv /\ [Next]_vars => DialogueInv'
<1> SUFFICES ASSUME DialogueInv, [Next]_vars PROVE DialogueInv'
  OBVIOUS
<1>1. CASE UNCHANGED vars
  BY <1>1 DEF vars, DialogueInv, TypeOK, IdInv, ProxyInv, AcceptInv, AskedInv, ReportInv, IsLast
<1>2. CASE Next
  BY <1>2, ProgramDialogue, AcceptDialogue, RejectDialogue, ReportDialogue DEF Next
<1> QED
  BY <1>1, <1>2

LEMMA DialogueHolds == Spec => []DialogueInv
BY InitDialogue, StepDialogue, PTL DEF Spec

\* Every variable keeps its type, for any number of wrong inputs and repeats.
THEOREM TypeCorrect == Spec => []TypeOK
<1>1. DialogueInv => TypeOK
  BY DEF DialogueInv
<1> QED
  BY <1>1, DialogueHolds, PTL

\* The dialogue never stalls: while TDLib waits for something the user can be asked
\* for, a query, a report of that state or an error that makes the program ask
\* again is on its way (on_authorization_state_update and the handlers it makes).
THEOREM NeverStalls == Spec => []NoStall
<1>1. DialogueInv => NoStall
  <2> SUFFICES ASSUME DialogueInv, td.state \in Askable PROVE OnItsWay
    BY DEF NoStall
  <2>1. td.asked \in Seq(Queries) /\ responses \in Seq(Response)
    BY DEF DialogueInv, TypeOK, Queries, Response
  <2>2. DOMAIN td.asked = 1..Len(td.asked) /\ DOMAIN responses = 1..Len(responses)
    BY <2>1
  <2>3. ASSUME NEW i \in 1..Len(responses), responses[i].id = 0, responses[i].object = td.state
        PROVE  OnItsWay
    <3>1. responses[i] = Update(td.state)
      <4>1. PICK r \in Response : r = responses[i]
        BY <2>1
      <4>2. r = [id |-> r.id, object |-> r.object]
        BY DEF Response
      <4> QED
        BY <2>3, <4>1, <4>2 DEF Update
    <3> QED
      BY <2>2, <3>1 DEF OnItsWay
  <2>4. CASE authorization_state = td.state /\ \A i \in 1..Len(responses) : responses[i].id # 0
    <3>1. PICK q \in 1..current_query_id :
             /\ IsLast(q)
             /\ \/ \E i \in 1..Len(td.asked) :
                      td.asked[i].id = q /\ td.asked[i].f = QueryFor[authorization_state]
                \/ \E i \in 1..Len(responses) : responses[i].id = q
      BY <2>4 DEF DialogueInv, AskedInv
    <3>2. CASE \E i \in 1..Len(td.asked) :
                  td.asked[i].id = q /\ td.asked[i].f = QueryFor[authorization_state]
      BY <2>2, <2>4, <3>2 DEF OnItsWay
    <3>3. ASSUME NEW i \in 1..Len(responses), responses[i].id = q PROVE OnItsWay
      <4>1. responses[i].object \in {"ok", "error"}
        BY <2>4 DEF DialogueInv, IdInv
      <4>2. responses[i].object # "ok"
        <5>1. SUFFICES ASSUME responses[i].object = "ok" PROVE FALSE
          OBVIOUS
        <5>2. PICK j \in 1..(i - 1) : responses[j].id = 0
          BY <3>1, <3>3, <5>1 DEF DialogueInv, AcceptInv
        <5>3. j \in 1..Len(responses)
          BY <2>1, <5>2
        <5> QED
          BY <2>4, <5>2, <5>3
      <4> QED
        BY <2>2, <3>1, <3>3, <4>1, <4>2 DEF OnItsWay, IsLast
    <3> QED
      BY <3>1, <3>2, <3>3
  <2> QED
    BY <2>3, <2>4 DEF DialogueInv, ReportInv
<1> QED
  BY <1>1, DialogueHolds, PTL

\* The user is asked again only where the answer to the last prompt was rejected
\* (create_authentication_query_handler).
THEOREM OnlyLastAnswerCounts == Spec => LastAnswerCounts
<1>1. ASSUME DialogueInv, [Next]_vars
      PROVE  [\A q \in DOMAIN handlers :
                prompt' = q /\ authentication_query_id' # authentication_query_id =>
                   \A p \in DOMAIN handlers : handlers[p] <= handlers[q]]_vars
  <2> SUFFICES ASSUME Next, NEW q \in DOMAIN handlers, prompt' = q,
                      authentication_query_id' # authentication_query_id
               PROVE  \A p \in DOMAIN handlers : handlers[p] <= handlers[q]
    BY <1>1 DEF vars
  <2>1. ProcessResponse
    BY DEF Next, TdAccepts, TdRejects, TdReports, program
  <2>2. DOMAIN handlers \subseteq 1..current_query_id /\ current_query_id \in Nat
        /\ authentication_query_id \in Nat
        /\ \A p \in DOMAIN handlers : handlers[p] \in 0..authentication_query_id
    BY <1>1 DEF DialogueInv, TypeOK
  <2>3. q # 0
    BY <2>2
  <2>4. Repeats(Head(responses)) /\ q = Head(responses).id
    BY <2>1, <2>3 DEF ProcessResponse, OnAuthorizationStateUpdate
  <2>5. handlers[q] = authentication_query_id
    BY <2>4 DEF Repeats
  <2> QED
    BY <2>2, <2>5
<1> QED
  BY <1>1, DialogueHolds, PTL DEF Spec, LastAnswerCounts

============================================================================
