------------------------------- MODULE GenDb -------------------------------
(***************************************************************************)
(* tg2sip-gendb (gen_db.cpp): the dialogue that logs a user in.  One       *)
(* thread handles what TDLib reports and, inside the handlers, asks the    *)
(* user at the terminal; what is typed may be wrong.  TDLib runs on its    *)
(* own: a state may be reported, again or anew, while an answer to an      *)
(* earlier prompt is still on its way.                                     *)
(***************************************************************************)
EXTENDS Naturals, Sequences, FiniteSets

CONSTANTS
    MaxErrors,    \* bound: inputs that TDLib rejects
    MaxRepeats    \* bound: states that TDLib reports again

ASSUME GenDbAssumption == MaxErrors \in Nat /\ MaxRepeats \in Nat

VARIABLES
    authorization_state,
    sequence_done,
    current_query_id,
    authentication_query_id,
    handlers,    \* the id a handler was made for, by query id; Ignored for the proxy's
    prompt,      \* which response made the program ask (again), for the properties
    td,          \* TDLib: its state, queries not answered, errors and repeats so far (external)
    responses    \* what client->receive will return (external)

vars == <<authorization_state, sequence_done, current_query_id,
          authentication_query_id, handlers, prompt, td, responses>>

Ignored == 0

\* The query each state is answered with.  The states that are only reported to
\* the user (another device, premium, e-mail) have none; nor do the final ones.
QueryFor == [wait_parameters |-> "setTdlibParameters",
             wait_phone |-> "setAuthenticationPhoneNumber",
             wait_code |-> "checkAuthenticationCode",
             wait_registration |-> "registerUser",
             wait_password |-> "checkAuthenticationPassword"]

Askable == DOMAIN QueryFor
States == Askable \cup {"unsupported", "ready", "logging_out", "closing", "closed"}
Functions == {QueryFor[s] : s \in Askable} \cup {"proxy"}

Query(id, f) == [id |-> id, f |-> f]
Update(state) == [id |-> 0, object |-> state]
AnswerTo(id, object) == [id |-> id, object |-> object]

TypeOK ==
    /\ authorization_state \in States \cup {"none"}
    /\ sequence_done \in BOOLEAN
    /\ current_query_id \in Nat
    /\ authentication_query_id \in Nat
    /\ DOMAIN handlers \subseteq 1..current_query_id
    /\ \A q \in DOMAIN handlers : handlers[q] \in 0..authentication_query_id
    /\ prompt \in Nat
    /\ td \in [state : States, asked : Seq([id : Nat, f : Functions]),
               errors : 0..MaxErrors, repeats : 0..MaxRepeats]
    /\ responses \in Seq([id : Nat, object : States \cup {"ok", "error"}])

Init ==
    /\ authorization_state = "none"
    /\ sequence_done = FALSE
    /\ current_query_id = 0
    /\ authentication_query_id = 0
    /\ handlers = <<>>
    /\ prompt = 0
    /\ td = [state |-> "wait_parameters", asked |-> <<>>, errors |-> 0, repeats |-> 0]
    /\ responses = <<Update("wait_parameters")>>

-----------------------------------------------------------------------------
(* The program *)

\* Mutant: the counter is advanced after its value was taken.
SendQueries_Post(kept, queries) ==
    LET n == Len(queries)
        Id(i) == current_query_id + i - 1 IN
    /\ current_query_id' = current_query_id + n
    /\ handlers' = [q \in kept \cup {Id(i) : i \in 1..n} |->
                      IF q \in kept THEN handlers[q] ELSE queries[q - current_query_id + 1].handler]
    /\ td' = [td EXCEPT !.asked = @ \o [i \in 1..n |-> Query(Id(i), queries[i].f)]]

\* send_query of each query with the id its handler compares, after the
\* handlers of kept.
SendQueries(kept, queries) ==
    LET n == Len(queries)
        Id(i) == current_query_id + i IN
    /\ current_query_id' = current_query_id + n
    /\ handlers' = [q \in kept \cup {Id(i) : i \in 1..n} |->
                      IF q \in kept THEN handlers[q] ELSE queries[q - current_query_id].handler]
    /\ td' = [td EXCEPT !.asked = @ \o [i \in 1..n |-> Query(Id(i), queries[i].f)]]

\* Mutant: the handler is made before the id is advanced.
AuthenticationQuery_Early(state) ==
    [f |-> QueryFor[state], handler |-> authentication_query_id]

\* create_authentication_query_handler, made after the id was advanced.
AuthenticationQuery(state) ==
    [f |-> QueryFor[state], handler |-> authentication_query_id + 1]

\* Mutant: the end of a session is only reported.
Final_NoClosed == {"ready", "logging_out"}

Final == {"ready", "logging_out", "closed"}

\* The parameters follow the query that sets or disables the proxy, whose answer
\* nobody looks at.
ParameterQueries ==
    <<[f |-> "proxy", handler |-> Ignored], AuthenticationQuery("wait_parameters")>>

\* on_authorization_state_update in the given state: final states end the loop,
\* a state that can be answered is, after a prompt.
OnAuthorizationStateUpdate(state, kept, cause) ==
    /\ authorization_state' = state
    /\ authentication_query_id' = authentication_query_id + 1
    /\ sequence_done' = (sequence_done \/ state \in Final)
    /\ prompt' = cause
    /\ SendQueries(kept,
         IF state = "wait_parameters" THEN ParameterQueries
         ELSE IF state \in Askable THEN <<AuthenticationQuery(state)>> ELSE <<>>)

\* Mutant: an error is handled whichever query it answers.
Repeats_Always(r) == r.object = "error" /\ handlers[r.id] # Ignored

\* Whether a handler starts over: its query failed and is the last one asked.
Repeats(r) ==
    r.object = "error" /\ handlers[r.id] # Ignored /\ handlers[r.id] = authentication_query_id

\* process_response: an update, or an answer whose handler is run and erased.
\* An error of the last query starts over in the same state.
ProcessResponse ==
    /\ ~sequence_done
    /\ responses # <<>>
    /\ responses' = Tail(responses)
    /\ LET r == Head(responses)
           kept == DOMAIN handlers \ {r.id} IN
       \/ r.id = 0 /\ OnAuthorizationStateUpdate(r.object, kept, 0)
       \/ /\ r.id \in DOMAIN handlers /\ Repeats(r)
          /\ OnAuthorizationStateUpdate(authorization_state, kept, r.id)
       \/ /\ r.id \in DOMAIN handlers /\ ~Repeats(r)
          /\ handlers' = [q \in kept |-> handlers[q]]
          /\ UNCHANGED <<authorization_state, sequence_done, current_query_id,
                         authentication_query_id, prompt, td>>

-----------------------------------------------------------------------------
(* TDLib (external): it handles queries in their order and answers each.  A   *)
(* query that fits the state and is right moves it; the new state is reported *)
(* before the answer.                                                         *)

program == <<authorization_state, sequence_done, current_query_id,
             authentication_query_id, handlers, prompt>>

Follows == [wait_parameters |-> {"wait_phone", "ready"},
            wait_phone |-> {"wait_code", "unsupported"},
            wait_code |-> {"wait_registration", "wait_password", "ready"},
            wait_registration |-> {"ready"},
            wait_password |-> {"ready"}]

Fits(q) == td.state \in Askable /\ q.f = QueryFor[td.state]

TdAccepts ==
    /\ td.asked # <<>>
    /\ LET q == Head(td.asked) IN
       \/ /\ Fits(q)
          /\ \E state \in Follows[td.state] :
                /\ td' = [td EXCEPT !.state = state, !.asked = Tail(@)]
                /\ responses' = responses \o <<Update(state), AnswerTo(q.id, "ok")>>
       \/ /\ q.f = "proxy"
          /\ td' = [td EXCEPT !.asked = Tail(@)]
          /\ \E object \in {"ok", "error"} :
                responses' = Append(responses, AnswerTo(q.id, object))
    /\ UNCHANGED program

TdRejects ==
    /\ td.asked # <<>>
    /\ LET q == Head(td.asked) IN
       /\ q.f # "proxy"
       /\ Fits(q) => td.errors < MaxErrors
       /\ td' = [td EXCEPT !.asked = Tail(@), !.errors = IF Fits(q) THEN @ + 1 ELSE @]
       /\ responses' = Append(responses, AnswerTo(q.id, "error"))
    /\ UNCHANGED program

\* A state is reported again (a code is sent anew), the session is ended from
\* elsewhere, or another device confirms the login.
TdReports ==
    /\ \/ /\ td.state \in Askable \ {"wait_parameters"}
          /\ td.repeats < MaxRepeats
          /\ td' = [td EXCEPT !.repeats = @ + 1]
          /\ responses' = Append(responses, Update(td.state))
       \/ \E state \in {"ready", "wait_password", "logging_out", "closing", "closed"} :
          /\ \/ td.state = "unsupported" /\ state \in {"ready", "wait_password"}
             \/ td.state \in Askable /\ state \in {"logging_out", "closing"}
             \/ td.state \in {"logging_out", "closing"} /\ state = "closed"
          /\ td' = [td EXCEPT !.state = state]
          /\ responses' = Append(responses, Update(state))
    /\ UNCHANGED program

Next == ProcessResponse \/ TdAccepts \/ TdRejects \/ TdReports

Spec == Init /\ [][Next]_vars

\* The loop goes on, TDLib handles what it is asked and a session that is
\* closing is closed.  Nothing is assumed of a login on another device.
FairSpec ==
    /\ Spec
    /\ WF_vars(ProcessResponse)
    /\ WF_vars(TdAccepts \/ TdRejects)
    /\ WF_vars(td.state = "closing" /\ TdReports)

-----------------------------------------------------------------------------
(* Properties *)

\* The dialogue never stalls: while TDLib waits for something the user can be
\* asked for, a query is on its way to it, or a response that makes the program
\* ask is on its way back (gen_db.cpp:121-127).  In particular no error that
\* matters is ignored.
OnItsWay ==
    \/ \E i \in DOMAIN td.asked : td.asked[i].f = QueryFor[td.state]
    \/ \E i \in DOMAIN responses : responses[i] = Update(td.state)
    \/ \E i \in DOMAIN responses :
          /\ responses[i].id \in DOMAIN handlers /\ responses[i].object = "error"
          /\ handlers[responses[i].id] = authentication_query_id
NoStall == td.state \in Askable /\ ~sequence_done => OnItsWay

\* The user is asked again only where the answer to the last prompt was rejected,
\* not for an older answer that TDLib has overtaken (gen_db.cpp:123).
LastAnswerCounts ==
    [][\A q \in DOMAIN handlers :
         prompt' = q /\ authentication_query_id' # authentication_query_id =>
            \A p \in DOMAIN handlers : handlers[p] <= handlers[q]]_vars

\* It ends, as long as wrong inputs are finitely many, except where the account
\* needs what the dialogue does not support (gen_db.cpp:181-200).
AuthEnds == <>(sequence_done \/ td.state = "unsupported")
=============================================================================
