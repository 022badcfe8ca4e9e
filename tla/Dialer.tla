------------------------------- MODULE Dialer -------------------------------
(***************************************************************************)
(* Whom a SIP call reaches on Telegram and when the gateway may ask: the   *)
(* action DialTg with its three ways to dial, the contact caches,          *)
(* load_cache and block_until (gateway.cpp).  A name is what Extension     *)
(* leaves of an extension; a user name and a phone number may be spelt     *)
(* alike.  TDLib's directory changes while the gateway runs.               *)
(***************************************************************************)
EXTENDS Naturals, Sequences, FiniteSets

CONSTANTS
    Users,       \* Telegram users
    NoUser,      \* user id 0
    Keys,        \* user names and phone numbers
    NoKey,       \* the empty string
    Delays,      \* what the server may ask to wait, in ticks
    Extra,       \* settings.extra_wait_time
    PeerFlood,   \* settings.peer_flood_time
    Width,       \* 2^32, the width of the sum of the two
    MaxInt,      \* INT_MAX, beyond which stoi throws
    MaxNow,      \* bound: ticks of the clock
    MaxDials,    \* bound: SIP calls
    Renames      \* bound: changes of the directory

ASSUME DialerAssumption ==
    /\ NoUser \notin Users /\ NoKey \notin Keys
    /\ Delays \subseteq Nat
    /\ {Extra, PeerFlood, MaxInt, MaxNow, MaxDials, Renames} \subseteq Nat
    /\ Width \in Nat \ {0}

VARIABLES
    now,             \* steady_clock
    block_until,
    username_cache,
    phone_cache,
    loading,         \* load_cache: FALSE once it returned, and the futures it still holds
    dial,            \* the DialTg that runs, if one does
    dials,           \* SIP calls handled so far
    up,              \* FALSE once an exception has ended the process
    dir,             \* TDLib's directory: user name and phone number of each user (external)
    named,           \* every <<kind, name, user>> the directory has held
    renames,         \* changes of the directory so far (external)
    held_until,      \* until when the server wants no further request (external)
    told_until,      \* the part of it that DialTg was told and could read
    req,             \* the last request to TDLib and whether it came before these two
    called           \* calls created: the extension and the user called

vars == <<now, block_until, username_cache, phone_cache, loading, dial, dials, up,
          dir, named, renames, held_until, told_until, req, called>>

gateway == <<block_until, username_cache, phone_cache, loading, dial, dials, up, req, called>>
directory == <<dir, named, renames>>
server == <<directory, held_until, told_until>>

Exts == [kind : {"username", "phone"}, name : Keys] \cup [kind : {"id"}, name : Users]
Id(u) == [kind |-> "id", name |-> u]

Requests == {"none", "searchContacts", "getUser", "searchPublicChat", "importContacts",
             "createCall", "acceptCall", "discardCall", "sendCallSignalingData"}

TypeOK ==
    /\ now \in 0..MaxNow
    /\ block_until \in Nat
    /\ username_cache \in [Keys -> Users \cup {NoUser}]
    /\ phone_cache \in [Keys -> Users \cup {NoUser}]
    /\ loading \in [on : BOOLEAN, users : Seq(Users)]
    /\ dial \in [pc : {"idle", "search", "import", "create"},
                 ext : Exts \cup {Id(NoUser)}, id : Users \cup {NoUser}]
    /\ dials \in 0..MaxDials
    /\ up \in BOOLEAN
    /\ dir \in [username : [Users -> Keys \cup {NoKey}], phone : [Users -> Keys \cup {NoKey}]]
    /\ named \subseteq [kind : {"username", "phone"}, name : Keys, user : Users]
    /\ renames \in 0..Renames
    /\ held_until \in Nat
    /\ told_until \in Nat
    /\ req \in [what : Requests, early : BOOLEAN, told : BOOLEAN]
    /\ called \subseteq [ext : Exts, user : Users]

\* The pairs of name and user that a directory holds.
Entries(d) ==
    {e \in [kind : {"username"}, name : Keys, user : Users] : d.username[e.user] = e.name}
    \cup {e \in [kind : {"phone"}, name : Keys, user : Users] : d.phone[e.user] = e.name}

\* No two users share a name or a number.
Unique(f) == \A u, v \in Users : u # v /\ f[u] # NoKey => f[u] # f[v]

Idle == [pc |-> "idle", ext |-> Id(NoUser), id |-> NoUser]

Init ==
    /\ now = 0
    /\ block_until = 0
    /\ username_cache = [k \in Keys |-> NoUser]
    /\ phone_cache = [k \in Keys |-> NoUser]
    /\ loading = [on |-> TRUE, users |-> <<>>]
    /\ dial = Idle
    /\ dials = 0
    /\ up = TRUE
    /\ dir \in [username : {f \in [Users -> Keys \cup {NoKey}] : Unique(f)},
                phone : {f \in [Users -> Keys \cup {NoKey}] : Unique(f)}]
    /\ named = Entries(dir)
    /\ renames = 0
    /\ held_until = 0
    /\ told_until = 0
    /\ req = [what |-> "none", early |-> FALSE, told |-> FALSE]
    /\ called = {}

\* send_query_async, here only for when it is called.
Request(what) ==
    req' = [what |-> what, early |-> now < held_until, told |-> now < told_until]

\* What the server may answer instead (external).
Errors == [kind : {"retry"}, after : Delays] \cup [kind : {"flood", "other"}, after : {0}]

\* A wait that a further delay makes longer.
Prolonged(until, delay) == IF now + delay > until THEN now + delay ELSE until

\* An error with a delay that the action it answers does not look at.
Unheard ==
    \E error \in Errors :
        held_until' = IF error.kind = "retry" THEN Prolonged(held_until, error.after) ELSE held_until

-----------------------------------------------------------------------------
(* load_cache, before the loop *)

\* std::map::emplace keeps an entry that is there.
Emplace(cache, name, user) ==
    IF name = NoKey \/ cache[name] # NoUser THEN cache ELSE [cache EXCEPT ![name] = user]

\* The user name and the phone number of a contact, where it has them.
LoadUser(u) ==
    /\ username_cache' = Emplace(username_cache, dir.username[u], u)
    /\ phone_cache' = Emplace(phone_cache, dir.phone[u], u)

\* The answer of searchContacts: an error ends the loading, else getUser is
\* sent for every contact.
SearchContacts ==
    /\ loading.on /\ loading.users = <<>>
    /\ \/ loading' = [loading EXCEPT !.on = FALSE] /\ Request("searchContacts") /\ Unheard
       \/ \E n \in 1..Cardinality(Users) : \E s \in [1..n -> Users] :
             /\ \A i, j \in 1..n : i # j => s[i] # s[j]
             /\ loading' = [loading EXCEPT !.users = s]
             /\ Request("getUser")
             /\ UNCHANGED held_until
    /\ UNCHANGED <<now, block_until, username_cache, phone_cache, dial, dials, up, called,
                   directory, told_until>>

\* The next future: an error is skipped, a user without access ends the loading.
LoadNext ==
    /\ loading.on /\ loading.users # <<>>
    /\ LET rest == Tail(loading.users)
           next == [on |-> rest # <<>>, users |-> rest] IN
       \/ LoadUser(Head(loading.users)) /\ loading' = next /\ UNCHANGED held_until
       \/ Unheard /\ loading' = next /\ UNCHANGED <<username_cache, phone_cache>>
       \/ /\ loading' = [on |-> FALSE, users |-> <<>>]
          /\ UNCHANGED <<username_cache, phone_cache, held_until>>
    /\ UNCHANGED <<now, block_until, dial, dials, up, req, called, directory, told_until>>

-----------------------------------------------------------------------------
(* DialTg *)

\* dial_by_id: the id is stored and createCall sent.
DialById(ext, id) ==
    /\ dial' = [pc |-> "create", ext |-> ext, id |-> id]
    /\ Request("createCall")

\* A name that is not in the cache is looked up: importContacts or
\* searchPublicChat.
LookUp(ext) ==
    /\ dial' = [pc |-> IF ext.kind = "phone" THEN "import" ELSE "search",
                ext |-> ext, id |-> NoUser]
    /\ Request(IF ext.kind = "phone" THEN "importContacts" ELSE "searchPublicChat")

\* dial_by_username and dial_by_phone up to their first request.
DialByName(ext, cache) ==
    \/ cache[ext.name] # NoUser /\ DialById(ext, cache[ext.name])
    \/ cache[ext.name] = NoUser /\ LookUp(ext)

\* Mutant: both kinds of names share a cache.
DialTg_OneCache(ext) ==
    \/ now < block_until /\ UNCHANGED <<dial, req>>
    \/ /\ now >= block_until
       /\ \/ ext.kind # "id" /\ DialByName(ext, username_cache)
          \/ ext.kind = "id" /\ DialById(ext, ext.name)

\* The action up to its first request.  While blocked the call is dropped with
\* an InternalError.
DialTg(ext) ==
    \/ now < block_until /\ UNCHANGED <<dial, req>>
    \/ /\ now >= block_until
       /\ \/ ext.kind = "username" /\ DialByName(ext, username_cache)
          \/ ext.kind = "phone" /\ DialByName(ext, phone_cache)
          \/ ext.kind = "id" /\ DialById(ext, ext.name)

\* A SIP call whose extension was accepted is dialled.
Dial ==
    /\ ~loading.on
    /\ dial.pc = "idle"
    /\ dials < MaxDials
    /\ dials' = dials + 1
    /\ \E ext \in Exts : DialTg(ext)
    /\ UNCHANGED <<now, block_until, username_cache, phone_cache, loading, up, called, server>>

\* Mutant: the extra time alone.
ParseError_ExtraOnly(error) ==
    \/ error.kind = "retry" /\ error.after > MaxInt /\ up' = FALSE /\ UNCHANGED block_until
    \/ /\ error.kind = "retry" /\ error.after <= MaxInt
       /\ block_until' = now + (Extra % Width) /\ UNCHANGED up
    \/ error.kind = "flood" /\ block_until' = now + PeerFlood /\ UNCHANGED up
    \/ error.kind = "other" /\ UNCHANGED <<block_until, up>>

\* parse_error: the sum is one of an int and an unsigned int; stoi may throw.
ParseError(error) ==
    \/ error.kind = "retry" /\ error.after > MaxInt /\ up' = FALSE /\ UNCHANGED block_until
    \/ /\ error.kind = "retry" /\ error.after <= MaxInt
       /\ block_until' = now + ((error.after + Extra) % Width) /\ UNCHANGED up
    \/ error.kind = "flood" /\ block_until' = now + PeerFlood /\ UNCHANGED up
    \/ error.kind = "other" /\ UNCHANGED <<block_until, up>>

\* The sum of the delay and of extra_wait_time fits its type.
Fits(delay) == delay + Extra < Width

\* A request fails: an InternalError, and the block the error asks for.
Fails ==
    /\ dial.pc # "idle"
    /\ dial' = Idle
    /\ \E error \in Errors :
          /\ ParseError(error)
          /\ held_until' = IF error.kind = "retry" THEN Prolonged(held_until, error.after)
                           ELSE held_until
          /\ told_until' = IF error.kind = "retry" /\ Fits(error.after)
                           THEN Prolonged(told_until, error.after) ELSE told_until
    /\ UNCHANGED <<now, username_cache, phone_cache, loading, dials, req, called, directory>>

\* The user of that name or number, if there is one.
Holder(kind, name) == {u \in Users : dir[kind][u] = name}

\* searchPublicChat found a private chat: its id is the user's.
SearchFinds ==
    /\ dial.pc = "search"
    /\ \E u \in Holder("username", dial.ext.name) :
          /\ username_cache' = Emplace(username_cache, dial.ext.name, u)
          /\ DialById(dial.ext, u)
    /\ UNCHANGED <<now, block_until, phone_cache, loading, dials, up, called, server>>

\* Mutant: a number nobody has is dialled as user 0.
ImportFinds_Unchecked ==
    /\ dial.pc = "import"
    /\ LET holder == Holder("phone", dial.ext.name) IN
       \E u \in IF holder = {} THEN {NoUser} ELSE holder :
          /\ phone_cache' = Emplace(phone_cache, dial.ext.name, u)
          /\ DialById(dial.ext, u)
    /\ UNCHANGED <<now, block_until, username_cache, loading, dials, up, called, server>>

\* importContacts found the user of the number.
ImportFinds ==
    /\ dial.pc = "import"
    /\ \E u \in Holder("phone", dial.ext.name) :
          /\ phone_cache' = Emplace(phone_cache, dial.ext.name, u)
          /\ DialById(dial.ext, u)
    /\ UNCHANGED <<now, block_until, username_cache, loading, dials, up, called, server>>

\* The chat is not a user's, or nobody has the number: an InternalError.
LookupFindsNobody ==
    /\ \/ dial.pc = "search"
       \/ dial.pc = "import" /\ Holder("phone", dial.ext.name) = {}
    /\ dial' = Idle
    /\ UNCHANGED <<now, block_until, username_cache, phone_cache, loading, dials, up,
                   req, called, server>>

\* createCall answers with the id of a call.
CallCreated ==
    /\ dial.pc = "create"
    /\ called' = called \cup {[ext |-> dial.ext, user |-> dial.id]}
    /\ dial' = Idle
    /\ UNCHANGED <<now, block_until, username_cache, phone_cache, loading, dials, up, req, server>>

\* The requests of the other actions of the state machine, which neither look at
\* block_until nor set it: DialSip, AnswerTg, CleanUp, SignalingDataEmitted.  An
\* error of getUser is thrown.
OtherRequest ==
    /\ ~loading.on
    /\ dial.pc = "idle"
    /\ \E what \in {"getUser", "acceptCall", "discardCall", "sendCallSignalingData"} :
          /\ Request(what)
          /\ \/ UNCHANGED <<held_until, up>>
             \/ Unheard /\ up' = (what # "getUser")
    /\ UNCHANGED <<now, block_until, username_cache, phone_cache, loading, dial, dials, called,
                   directory, told_until>>

-----------------------------------------------------------------------------
Tick ==
    /\ now < MaxNow
    /\ now' = now + 1
    /\ UNCHANGED <<gateway, server>>

\* A user takes another name or number, or gives it up (external).
Rename ==
    /\ renames < Renames
    /\ renames' = renames + 1
    /\ \E field \in {"username", "phone"}, u \in Users, k \in Keys \cup {NoKey} :
          /\ k # dir[field][u]
          /\ dir' = [dir EXCEPT ![field][u] = k]
          /\ Unique(dir'[field])
    /\ named' = named \cup Entries(dir')
    /\ UNCHANGED <<now, gateway, held_until, told_until>>

Gateway ==
    \/ SearchContacts \/ LoadNext
    \/ Dial \/ Fails \/ SearchFinds \/ ImportFinds \/ LookupFindsNobody \/ CallCreated
    \/ OtherRequest

Next == up /\ (Gateway \/ Tick \/ Rename)

Spec == Init /\ [][Next]_vars

-----------------------------------------------------------------------------
(* Properties *)

\* DialTg makes no request before the delays are over that its earlier requests
\* were answered with, in whatever order longer and shorter ones came and however
\* often calls are dialled in between (gateway.cpp:436, 595-606).  It holds for delays
\* whose sum with extra_wait_time does not wrap around, and not for the delays that
\* requests of other actions are answered with, of which DialTg knows nothing.
DialTgWaits ==
    req.what \in {"searchPublicChat", "importContacts", "createCall"} => ~req.told

\* "If gateway gets temporary blocked with "Too Many Requests" reason, then block all
\* outgoing telegram requests for X more seconds than was requested by server"
\* (tg2sip.conf:109-111): no request, of whatever action, comes before the server
\* allows it again.
AllRequestsBlocked == ~req.early

\* Whoever is called had the name or the number that was dialled, at some time
\* since the start: caches hold true entries, of their own kind, and are read
\* with the key they were filled with (gateway.cpp:499-502, 546, 551-554, 589, 840).
CallsTheNamed ==
    \A c \in called :
        \/ c.ext = Id(c.user)
        \/ [kind |-> c.ext.kind, name |-> c.ext.name, user |-> c.user] \in named
=============================================================================
