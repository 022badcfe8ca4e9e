---------------------------- MODULE DialerProofs ----------------------------
(***************************************************************************)
(* Whom a SIP call reaches on Telegram, and when the gateway may ask, for  *)
(* any set of users and names, any delays and any length of run.           *)
(***************************************************************************)
EXTENDS Dialer, SequenceTheorems, TLAPS

Both == {"username", "phone"}
Cached == [Keys -> Users \cup {NoUser}]
Loadings == [on : BOOLEAN, users : Seq(Users)]
Dialings == [pc : {"idle", "search", "import", "create"},
             ext : Exts \cup {Id(NoUser)}, id : Users \cup {NoUser}]
Asked == [what : Requests, early : BOOLEAN, told : BOOLEAN]
Names == [Users -> Keys \cup {NoKey}]

-----------------------------------------------------------------------------
(* The operators the actions are built from *)

\* The entries of a directory are well formed.
LEMMA EntriesType ==
    ASSUME NEW d PROVE Entries(d) \subseteq [kind : Both, name : Keys, user : Users]
BY DEF Entries, Both

\* Who has a name in a directory is an entry of it.
LEMMA EntriesHold ==
    ASSUME NEW d, NEW kind \in Both, NEW u \in Users, d[kind][u] \in Keys,
           d \in [username : Names, phone : Names]
    PROVE  [kind |-> kind, name |-> d[kind][u], user |-> u] \in Entries(d)
<1>1. CASE kind = "username"
  BY <1>1 DEF Entries, Names
<1>2. CASE kind = "phone"
  BY <1>2 DEF Entries, Names
<1> QED
  BY <1>1, <1>2 DEF Both

\* emplace adds no more than the pair it is given.
LEMMA EmplaceType ==
    ASSUME NEW cache \in Cached, NEW name \in Keys \cup {NoKey}, NEW u \in Users
    PROVE  /\ Emplace(cache, name, u) \in Cached
           /\ \A k \in Keys : \/ Emplace(cache, name, u)[k] = cache[k]
                              \/ k = name /\ Emplace(cache, name, u)[k] = u
BY DialerAssumption DEF Emplace, Cached

\* What is dialled, and as whom.
LEMMA DialType ==
    ASSUME NEW e \in Exts, NEW p \in {"idle", "search", "import", "create"},
           NEW u \in Users \cup {NoUser}
    PROVE  [pc |-> p, ext |-> e, id |-> u] \in Dialings
BY DEF Dialings

LEMMA ReqType ==
    ASSUME NEW what \in Requests, Request(what)
    PROVE  req' \in Asked /\ req'.what = what /\ req'.told = (now < told_until)
<1>1. (now < held_until) \in BOOLEAN /\ (now < told_until) \in BOOLEAN
  BY DEF Request
<1> QED
  BY <1>1 DEF Request, Asked

LEMMA ErrorDelay ==
    ASSUME NEW error \in Errors
    PROVE  error.after \in Nat /\ (error.kind = "retry" => error.after \in Delays)
<1>1. CASE error \in [kind : {"retry"}, after : Delays]
  BY <1>1, DialerAssumption
<1>2. CASE error \in [kind : {"flood", "other"}, after : {0}]
  BY <1>2
<1> QED
  BY <1>1, <1>2 DEF Errors

\* An error that is not looked at leaves a time.
LEMMA UnheardType ==
    ASSUME TypeOK, Unheard
    PROVE  held_until' \in Nat
BY ErrorDelay, DialerAssumption DEF Unheard, Prolonged, TypeOK

LEMMA ExtsKinds ==
    ASSUME NEW e \in Exts
    PROVE  /\ e.kind \in {"username", "phone", "id"}
           /\ e.kind = "id" => e.name \in Users /\ e = Id(e.name)
           /\ e.kind \in Both => e.name \in Keys
BY DEF Exts, Id, Both

-----------------------------------------------------------------------------
(* Types *)

LEMMA InitType == Init => TypeOK
<1> SUFFICES ASSUME Init PROVE TypeOK
  OBVIOUS
<1>1. dir \in [username : Names, phone : Names]
  BY DEF Init, Names
<1>2. named \subseteq [kind : {"username", "phone"}, name : Keys, user : Users]
  BY EntriesType DEF Init, Both
<1>3. loading \in Loadings
  BY DEF Init, Loadings
<1>4. dial \in Dialings
  BY DEF Init, Idle, Dialings
<1>5. req \in Asked
  BY DEF Init, Requests, Asked
<1>6. username_cache \in Cached /\ phone_cache \in Cached
  BY DEF Init, Cached
<1> QED
  BY <1>1, <1>2, <1>3, <1>4, <1>5, <1>6, DialerAssumption
  DEF Init, TypeOK, Names, Loadings, Dialings, Cached, Asked

\* load_cache.
LEMMA LoadType ==
    ASSUME TypeOK, SearchContacts \/ LoadNext
    PROVE  TypeOK'
<1> USE DEF Loadings, Cached, Names
<1>0. held_until' \in Nat
  BY UnheardType DEF SearchContacts, LoadNext, TypeOK
<1>1. CASE SearchContacts
  <2>1. loading' \in Loadings
    <3>1. ASSUME NEW n \in 1..Cardinality(Users), NEW s \in [1..n -> Users],
                 loading' = [loading EXCEPT !.users = s]
          PROVE  loading' \in Loadings
      <4>1. n \in Nat
        BY <3>1
      <4>2. s \in Seq(Users)
        BY <3>1, <4>1
      <4> QED
        BY <3>1, <4>2 DEF TypeOK
    <3>2. ASSUME loading' = [loading EXCEPT !.on = FALSE] PROVE loading' \in Loadings
      BY <3>2 DEF TypeOK
    <3> QED
      BY <1>1, <3>1, <3>2 DEF SearchContacts
  <2>2. req' \in Asked
    <3>1. Request("searchContacts") \/ Request("getUser")
      BY <1>1 DEF SearchContacts
    <3>2. "searchContacts" \in Requests /\ "getUser" \in Requests
      BY DEF Requests
    <3> QED
      BY <3>1, <3>2, ReqType
  <2> QED
    BY <1>0, <1>1, <2>1, <2>2 DEF SearchContacts, TypeOK, directory, Asked
<1>2. CASE LoadNext
  <2>1. loading.users \in Seq(Users) /\ loading.users # <<>>
    BY <1>2 DEF TypeOK, LoadNext
  <2>2. Head(loading.users) \in Users /\ Tail(loading.users) \in Seq(Users)
    BY <2>1
  <2>3. loading' \in Loadings
    <3>1. PICK rest \in Seq(Users) : rest = Tail(loading.users)
      BY <2>2
    <3>2. PICK on \in BOOLEAN : on = (rest # <<>>)
      OBVIOUS
    <3>3. loading' = [on |-> on, users |-> rest] \/ loading' = [on |-> FALSE, users |-> <<>>]
      BY <1>2, <3>1, <3>2 DEF LoadNext
    <3>4. <<>> \in Seq(Users)
      OBVIOUS
    <3>5. [on |-> on, users |-> rest] \in Loadings
      BY Zenon
    <3>6. [on |-> FALSE, users |-> <<>>] \in Loadings
      BY <3>4
    <3> QED
      BY <3>3, <3>5, <3>6
  <2>4. username_cache' \in Cached /\ phone_cache' \in Cached
    <3>1. ASSUME LoadUser(Head(loading.users))
          PROVE  username_cache' \in Cached /\ phone_cache' \in Cached
      <4>1. PICK u \in Users : u = Head(loading.users)
        BY <2>2
      <4>2. dir.username[u] \in Keys \cup {NoKey} /\ dir.phone[u] \in Keys \cup {NoKey}
        BY DEF TypeOK
      <4>3. /\ username_cache' = Emplace(username_cache, dir.username[u], u)
            /\ phone_cache' = Emplace(phone_cache, dir.phone[u], u)
        BY <3>1, <4>1 DEF LoadUser
      <4> QED
        BY <4>2, <4>3, EmplaceType DEF TypeOK
    <3>2. ASSUME UNCHANGED <<username_cache, phone_cache>>
          PROVE  username_cache' \in Cached /\ phone_cache' \in Cached
      BY <3>2 DEF TypeOK
    <3> QED
      BY <1>2, <3>1, <3>2 DEF LoadNext
  <2> QED
    BY <1>0, <1>2, <2>3, <2>4 DEF LoadNext, TypeOK, directory
<1> QED
  BY <1>1, <1>2

\* dial_by_id makes a well-formed request.
LEMMA DialsType ==
    ASSUME NEW e \in Exts, NEW u \in Users, DialById(e, u)
    PROVE  dial' \in Dialings /\ req' \in Asked
BY DialType, ReqType DEF DialById, Requests

\* Dial, up to its first request.
LEMMA DialTgType ==
    ASSUME TypeOK, NEW e \in Exts, DialTg(e)
    PROVE  dial' \in Dialings /\ req' \in Asked
<1>1. CASE UNCHANGED <<dial, req>>
  BY <1>1 DEF TypeOK, Dialings, Asked
<1>2. ASSUME NEW cache \in Cached, DialByName(e, cache), e.name \in Keys
      PROVE  dial' \in Dialings /\ req' \in Asked
  <2>1. CASE cache[e.name] # NoUser /\ DialById(e, cache[e.name])
    BY <1>2, <2>1, DialsType DEF Cached
  <2>2. CASE LookUp(e)
    <3>1. PICK p : p = IF e.kind = "phone" THEN "import" ELSE "search"
      OBVIOUS
    <3>2. PICK w : w = IF e.kind = "phone" THEN "importContacts" ELSE "searchPublicChat"
      OBVIOUS
    <3>3. p \in {"idle", "search", "import", "create"} /\ w \in Requests
      BY <3>1, <3>2 DEF Requests
    <3>4. dial' = [pc |-> p, ext |-> e, id |-> NoUser] /\ Request(w)
      BY <2>2, <3>1, <3>2 DEF LookUp
    <3> QED
      BY <3>3, <3>4, DialType, ReqType
  <2> QED
    BY <1>2, <2>1, <2>2 DEF DialByName
<1>3. CASE e.kind = "id" /\ DialById(e, e.name)
  BY <1>3, ExtsKinds, DialsType
<1>4. username_cache \in Cached /\ phone_cache \in Cached
  BY DEF TypeOK, Cached
<1> QED
  BY <1>1, <1>2, <1>3, <1>4, ExtsKinds DEF DialTg, Both

LEMMA FindsType ==
    ASSUME TypeOK, dial.pc # "idle" => dial.ext \in Exts, SearchFinds \/ ImportFinds
    PROVE  TypeOK'
<1> USE DEF Cached, Names
<1>1. dial.ext \in Exts
  BY DEF SearchFinds, ImportFinds
<1>2. PICK u \in Users : /\ DialById(dial.ext, u)
                         /\ \/ /\ username_cache' = Emplace(username_cache, dial.ext.name, u)
                               /\ UNCHANGED phone_cache
                               /\ u \in Holder("username", dial.ext.name)
                            \/ /\ phone_cache' = Emplace(phone_cache, dial.ext.name, u)
                               /\ UNCHANGED username_cache
                               /\ u \in Holder("phone", dial.ext.name)
  BY DEF SearchFinds, ImportFinds, Holder
<1>3. dial.ext.name \in Keys \cup {NoKey}
  BY <1>2 DEF Holder, TypeOK
<1>4. username_cache' \in Cached /\ phone_cache' \in Cached
  <2>1. PICK n \in Keys \cup {NoKey} : n = dial.ext.name
    BY <1>3
  <2>2. username_cache \in Cached /\ phone_cache \in Cached
    BY DEF TypeOK
  <2>3. Emplace(username_cache, n, u) \in Cached /\ Emplace(phone_cache, n, u) \in Cached
    BY <2>2, EmplaceType
  <2> QED
    BY <1>2, <2>1, <2>2, <2>3
<1>5. dial' \in Dialings /\ req' \in Asked
  BY <1>1, <1>2, DialsType
<1>6. UNCHANGED <<now, block_until, loading, dials, up, called, server>>
  BY DEF SearchFinds, ImportFinds
<1> QED
  BY <1>4, <1>5, <1>6 DEF TypeOK, Dialings, server, directory, Asked

\* What a failure does to the two times.
LEMMA FailsTimes ==
    ASSUME TypeOK, Fails
    PROVE  \E error \in Errors :
              /\ ParseError(error)
              /\ held_until' = IF error.kind = "retry" THEN Prolonged(held_until, error.after)
                               ELSE held_until
              /\ told_until' = IF error.kind = "retry" /\ Fits(error.after)
                               THEN Prolonged(told_until, error.after) ELSE told_until
BY DEF Fails

LEMMA FailsType ==
    ASSUME TypeOK, Fails
    PROVE  TypeOK'
<1>1. PICK error \in Errors :
          /\ ParseError(error)
          /\ held_until' = IF error.kind = "retry" THEN Prolonged(held_until, error.after)
                           ELSE held_until
          /\ told_until' = IF error.kind = "retry" /\ Fits(error.after)
                           THEN Prolonged(told_until, error.after) ELSE told_until
  BY FailsTimes
<1>2. error.after \in Nat
  BY ErrorDelay
<1>3. now \in Nat /\ held_until \in Nat /\ told_until \in Nat /\ block_until \in Nat
  BY DialerAssumption DEF TypeOK
<1>4. PICK sum \in Nat : sum = error.after + Extra
  BY <1>2, DialerAssumption
<1>5. sum % Width \in Nat
  BY DialerAssumption
<1>6. held_until' \in Nat /\ told_until' \in Nat
  BY <1>1, <1>2, <1>3 DEF Prolonged
<1>7. block_until' \in Nat /\ up' \in BOOLEAN
  <2>1. now + (sum % Width) \in Nat /\ now + PeerFlood \in Nat
    BY <1>3, <1>5, DialerAssumption
  <2>2. \/ block_until' = now + (sum % Width) /\ UNCHANGED up
        \/ block_until' = now + PeerFlood /\ UNCHANGED up
        \/ UNCHANGED block_until /\ (up' = FALSE \/ UNCHANGED up)
    BY <1>1, <1>4 DEF ParseError
  <2>3. block_until' \in Nat
    BY <1>3, <2>1, <2>2
  <2>4. up' \in BOOLEAN
    BY <2>2 DEF TypeOK
  <2> QED
    BY <2>3, <2>4
<1>8. dial' \in Dialings
  BY DEF Fails, Idle, Dialings
<1> QED
  BY <1>6, <1>7, <1>8 DEF Fails, TypeOK, Dialings, directory

-----------------------------------------------------------------------------
(* Whom a call reaches *)

Named(kind, name, u) == [kind |-> kind, name |-> name, user |-> u] \in named

\* What a cache says was in the directory.
CacheInv ==
    /\ Entries(dir) \subseteq named
    /\ \A k \in Keys : username_cache[k] # NoUser => Named("username", k, username_cache[k])
    /\ \A k \in Keys : phone_cache[k] # NoUser => Named("phone", k, phone_cache[k])

\* What is looked up is of the kind the request is for, and who is called has the
\* name that was dialled.
Rightly(ext, u) == u \in Users /\ (ext = Id(u) \/ Named(ext.kind, ext.name, u))
DialInv ==
    /\ dial.pc # "idle" => dial.ext \in Exts
    /\ dial.pc = "search" => dial.ext.kind = "username"
    /\ dial.pc = "import" => dial.ext.kind = "phone"
    /\ dial.pc = "create" => Rightly(dial.ext, dial.id)

CallInv == TypeOK /\ CacheInv /\ DialInv /\ CallsTheNamed

LEMMA InitCall == Init => CallInv
<1> SUFFICES ASSUME Init PROVE CallInv
  OBVIOUS
<1>1. CacheInv
  BY DEF Init, CacheInv
<1>2. DialInv /\ CallsTheNamed
  BY DEF Init, DialInv, Idle, CallsTheNamed
<1> QED
  BY <1>1, <1>2, InitType DEF CallInv

\* An entry of a cache stays, or is what the directory says.
LEMMA EmplaceNamed ==
    ASSUME TypeOK, CacheInv, NEW cache \in Cached, NEW kind \in Both, NEW u \in Users,
           \A k \in Keys : cache[k] # NoUser => Named(kind, k, cache[k])
    PROVE  \A k \in Keys : Emplace(cache, dir[kind][u], u)[k] # NoUser
                              => Named(kind, k, Emplace(cache, dir[kind][u], u)[k])
<1> SUFFICES ASSUME NEW k \in Keys, Emplace(cache, dir[kind][u], u)[k] # NoUser
             PROVE  Named(kind, k, Emplace(cache, dir[kind][u], u)[k])
  OBVIOUS
<1>1. dir \in [username : Names, phone : Names]
  BY DEF TypeOK, Names
<1>2. PICK n \in Keys \cup {NoKey} : n = dir[kind][u]
  BY <1>1 DEF Names, Both
<1>3. \/ Emplace(cache, n, u)[k] = cache[k]
      \/ k = n /\ Emplace(cache, n, u)[k] = u
  BY EmplaceType
<1>4. CASE Emplace(cache, n, u)[k] = cache[k]
  BY <1>2, <1>4
<1>5. CASE k = n /\ Emplace(cache, n, u)[k] = u
  BY <1>1, <1>2, <1>5, EntriesHold DEF CacheInv, Named
<1> QED
  BY <1>3, <1>4, <1>5

LEMMA LoadCall ==
    ASSUME CallInv, SearchContacts \/ LoadNext
    PROVE  CallInv'
<1>1. TypeOK'
  BY LoadType DEF CallInv
<1>2. UNCHANGED <<dial, called, dir, named>>
  BY DEF SearchContacts, LoadNext, directory
<1>3. DialInv' /\ CallsTheNamed'
  BY <1>2 DEF CallInv, DialInv, Rightly, Named, CallsTheNamed
<1>4. CASE UNCHANGED <<username_cache, phone_cache>>
  BY <1>1, <1>2, <1>3, <1>4 DEF CallInv, CacheInv, Named
<1>5. CASE loading.on /\ loading.users # <<>> /\ LoadUser(Head(loading.users))
  <2>1. loading.users \in Seq(Users) /\ username_cache \in Cached /\ phone_cache \in Cached
    BY DEF CallInv, TypeOK, Cached
  <2>2. PICK u \in Users : u = Head(loading.users)
    BY <1>5, <2>1
  <2>3. /\ username_cache' = Emplace(username_cache, dir["username"][u], u)
        /\ phone_cache' = Emplace(phone_cache, dir["phone"][u], u)
    BY <1>5, <2>2 DEF LoadUser
  <2>4. "username" \in Both /\ "phone" \in Both
    BY DEF Both
  <2>5. /\ \A k \in Keys : Emplace(username_cache, dir["username"][u], u)[k] # NoUser
            => Named("username", k, Emplace(username_cache, dir["username"][u], u)[k])
        /\ \A k \in Keys : Emplace(phone_cache, dir["phone"][u], u)[k] # NoUser
            => Named("phone", k, Emplace(phone_cache, dir["phone"][u], u)[k])
    BY <2>1, <2>4, EmplaceNamed DEF CallInv, CacheInv
  <2>6. CacheInv'
    BY <1>2, <2>3, <2>5 DEF CacheInv, Named, CallInv
  <2> QED
    BY <1>1, <1>3, <2>6 DEF CallInv
<1> QED
  BY <1>4, <1>5 DEF SearchContacts, LoadNext

\* Who is in the cache of its kind is dialled rightly.
LEMMA DialCall ==
    ASSUME CallInv, Dial
    PROVE  CallInv'
<1>1. PICK e \in Exts : DialTg(e)
  BY DEF Dial
<1>2. dials' \in 0..MaxDials
  BY DialerAssumption DEF Dial, CallInv, TypeOK
<1>3. TypeOK'
  <2>1. dial' \in Dialings /\ req' \in Asked
    BY <1>1, DialTgType DEF CallInv
  <2> QED
    BY <1>2, <2>1 DEF Dial, CallInv, TypeOK, Dialings, server, directory, Asked
<1>4. UNCHANGED <<username_cache, phone_cache, called, dir, named>>
  BY DEF Dial, server, directory
<1>5. CacheInv' /\ CallsTheNamed'
  BY <1>4 DEF CallInv, CacheInv, Named, CallsTheNamed
<1>6. DialInv'
  <2>1. CASE UNCHANGED <<dial, req>>
    BY <1>4, <2>1 DEF CallInv, DialInv, Rightly, Named
  <2>2. ASSUME NEW u \in Users, DialById(e, u), Rightly(e, u) PROVE DialInv'
    BY <1>4, <2>2 DEF DialById, DialInv, Rightly, Named
  <2>3. ASSUME LookUp(e), e.kind \in Both PROVE DialInv'
    <3>1. PICK p : p = IF e.kind = "phone" THEN "import" ELSE "search"
      OBVIOUS
    <3>2. dial' = [pc |-> p, ext |-> e, id |-> NoUser]
      BY <2>3, <3>1 DEF LookUp
    <3> QED
      BY <2>3, <3>1, <3>2 DEF DialInv, Both
  <2>4. ASSUME NEW cache \in Cached, DialByName(e, cache), e.kind \in Both,
               \A k \in Keys : cache[k] # NoUser => Named(e.kind, k, cache[k])
        PROVE  DialInv'
    <3>1. e.name \in Keys
      BY <2>4, ExtsKinds
    <3>2. cache[e.name] # NoUser => cache[e.name] \in Users /\ Rightly(e, cache[e.name])
      BY <2>4, <3>1 DEF Cached, Rightly
    <3> QED
      BY <2>2, <2>3, <2>4, <3>2 DEF DialByName
  <2>5. CASE e.kind = "id" /\ DialById(e, e.name)
    <3>1. e.name \in Users /\ e = Id(e.name)
      BY <2>5, ExtsKinds
    <3> QED
      BY <2>2, <2>5, <3>1 DEF Rightly
  <2>6. username_cache \in Cached /\ phone_cache \in Cached
    BY DEF CallInv, TypeOK, Cached
  <2>7. CASE e.kind = "username" /\ DialByName(e, username_cache)
    BY <2>4, <2>6, <2>7 DEF CallInv, CacheInv, Both
  <2>8. CASE e.kind = "phone" /\ DialByName(e, phone_cache)
    BY <2>4, <2>6, <2>8 DEF CallInv, CacheInv, Both
  <2> QED
    BY <1>1, <2>1, <2>5, <2>7, <2>8 DEF DialTg
<1> QED
  BY <1>3, <1>5, <1>6 DEF CallInv

\* A look-up finds who has the name now, and remembers it under that name.
LEMMA FindsCall ==
    ASSUME CallInv, SearchFinds \/ ImportFinds
    PROVE  CallInv'
<1>1. TypeOK'
  BY FindsType DEF CallInv, DialInv
<1>2. UNCHANGED <<called, dir, named>>
  BY DEF SearchFinds, ImportFinds, server, directory
<1>3. CallsTheNamed'
  BY <1>2 DEF CallInv, CallsTheNamed
<1>4. dir \in [username : Names, phone : Names] /\ username_cache \in Cached /\ phone_cache \in Cached
  BY DEF CallInv, TypeOK, Names, Cached
<1>5. dial.ext \in Exts /\ dial.ext.kind \in Both /\ dial.ext.name \in Keys
  BY ExtsKinds DEF CallInv, DialInv, SearchFinds, ImportFinds, Both
<1>6. ASSUME NEW kind \in Both, NEW u \in Users, u \in Holder(kind, dial.ext.name),
             dial.ext.kind = kind, DialById(dial.ext, u)
      PROVE  DialInv'
  <2>1. dir[kind][u] = dial.ext.name
    BY <1>6 DEF Holder
  <2>2. Rightly(dial.ext, u)
    BY <1>4, <1>5, <1>6, <2>1, EntriesHold DEF CallInv, CacheInv, Rightly, Named
  <2> QED
    BY <1>2, <1>5, <1>6, <2>2 DEF DialById, DialInv, Rightly, Named
<1>7. CASE SearchFinds
  <2>1. PICK u \in Users : /\ u \in Holder("username", dial.ext.name)
                           /\ username_cache' = Emplace(username_cache, dial.ext.name, u)
                           /\ DialById(dial.ext, u)
    BY <1>7 DEF SearchFinds, Holder
  <2>2. dir["username"][u] = dial.ext.name /\ "username" \in Both
    BY <2>1 DEF Holder, Both
  <2>3. \A k \in Keys : Emplace(username_cache, dir["username"][u], u)[k] # NoUser
            => Named("username", k, Emplace(username_cache, dir["username"][u], u)[k])
    BY <1>4, <2>2, EmplaceNamed DEF CallInv, CacheInv
  <2>4. UNCHANGED phone_cache
    BY <1>7 DEF SearchFinds
  <2>5. CacheInv'
    BY <1>2, <2>1, <2>2, <2>3, <2>4 DEF CallInv, CacheInv, Named
  <2>6. DialInv'
    BY <1>6, <1>7, <2>1, <2>2 DEF CallInv, DialInv, SearchFinds
  <2> QED
    BY <1>1, <1>3, <2>5, <2>6 DEF CallInv
<1>8. CASE ImportFinds
  <2>1. PICK u \in Users : /\ u \in Holder("phone", dial.ext.name)
                           /\ phone_cache' = Emplace(phone_cache, dial.ext.name, u)
                           /\ DialById(dial.ext, u)
    BY <1>8 DEF ImportFinds, Holder
  <2>2. dir["phone"][u] = dial.ext.name /\ "phone" \in Both
    BY <2>1 DEF Holder, Both
  <2>3. \A k \in Keys : Emplace(phone_cache, dir["phone"][u], u)[k] # NoUser
            => Named("phone", k, Emplace(phone_cache, dir["phone"][u], u)[k])
    BY <1>4, <2>2, EmplaceNamed DEF CallInv, CacheInv
  <2>4. UNCHANGED username_cache
    BY <1>8 DEF ImportFinds
  <2>5. CacheInv'
    BY <1>2, <2>1, <2>2, <2>3, <2>4 DEF CallInv, CacheInv, Named
  <2>6. DialInv'
    BY <1>6, <1>8, <2>1, <2>2 DEF CallInv, DialInv, ImportFinds
  <2> QED
    BY <1>1, <1>3, <2>5, <2>6 DEF CallInv
<1> QED
  BY <1>7, <1>8

\* A dialling ends: an error, nobody found, or a call.
LEMMA EndCall ==
    ASSUME CallInv, Fails \/ LookupFindsNobody \/ CallCreated
    PROVE  CallInv'
<1>1. UNCHANGED <<username_cache, phone_cache, dir, named>> /\ dial' = Idle
  BY DEF Fails, LookupFindsNobody, CallCreated, server, directory
<1>2. CacheInv' /\ DialInv'
  BY <1>1 DEF CallInv, CacheInv, DialInv, Idle, Named
<1>3. dial' \in Dialings
  BY <1>1 DEF Idle, Dialings
<1>4. CASE Fails
  <2>1. UNCHANGED <<called, named>>
    BY <1>4 DEF Fails, directory
  <2> QED
    BY <1>2, <1>4, <2>1, FailsType DEF CallInv, CallsTheNamed
<1>5. CASE LookupFindsNobody
  <2>1. TypeOK' /\ CallsTheNamed'
    BY <1>3, <1>5 DEF LookupFindsNobody, CallInv, TypeOK, Dialings, CallsTheNamed, server,
                         directory
  <2> QED
    BY <1>2, <2>1 DEF CallInv
<1>6. CASE CallCreated
  <2>1. PICK c : c = [ext |-> dial.ext, user |-> dial.id]
    OBVIOUS
  <2>2. called' = called \cup {c}
    BY <1>6, <2>1 DEF CallCreated
  <2>3. dial.ext \in Exts /\ Rightly(dial.ext, dial.id)
    BY <1>6 DEF CallCreated, CallInv, DialInv
  <2>4. c \in [ext : Exts, user : Users]
    BY <2>1, <2>3 DEF Rightly
  <2>5. TypeOK'
    BY <1>3, <1>6, <2>2, <2>4 DEF CallCreated, CallInv, TypeOK, Dialings, server, directory
  <2>6. CallsTheNamed'
    <3>1. c.ext = Id(c.user) \/ Named(c.ext.kind, c.ext.name, c.user)
      BY <2>1, <2>3 DEF Rightly
    <3> QED
      BY <1>1, <2>2, <3>1 DEF CallInv, CallsTheNamed, Named
  <2> QED
    BY <1>2, <2>5, <2>6 DEF CallInv
<1> QED
  BY <1>4, <1>5, <1>6

\* The other requests, the clock and the directory, of which only more is known.
LEMMA WorldCall ==
    ASSUME CallInv, OtherRequest \/ Tick \/ Rename
    PROVE  CallInv'
<1>1. CASE OtherRequest
  <2>1. req' \in Asked
    <3>1. PICK what \in {"getUser", "acceptCall", "discardCall", "sendCallSignalingData"} :
             Request(what)
      BY <1>1 DEF OtherRequest
    <3>2. what \in Requests
      BY DEF Requests
    <3> QED
      BY <3>1, <3>2, ReqType
  <2>2. UNCHANGED <<username_cache, phone_cache, dir, named, dial, called>>
    BY <1>1 DEF OtherRequest, directory
  <2>3. TypeOK'
    <3>1. held_until' \in Nat
      BY <1>1, UnheardType DEF OtherRequest, CallInv, TypeOK
    <3>2. up' \in BOOLEAN
      <4>1. PICK what \in {"getUser", "acceptCall", "discardCall", "sendCallSignalingData"} :
               UNCHANGED up \/ up' = (what # "getUser")
        BY <1>1 DEF OtherRequest
      <4>2. (what # "getUser") \in BOOLEAN
        OBVIOUS
      <4> QED
        BY <4>1, <4>2, Zenon DEF CallInv, TypeOK
    <3> QED
      BY <1>1, <2>1, <3>1, <3>2 DEF OtherRequest, CallInv, TypeOK, directory, Asked
  <2> QED
    BY <2>2, <2>3 DEF CallInv, CacheInv, DialInv, Rightly, Named, CallsTheNamed
<1>2. CASE Tick
  <2>1. now' \in 0..MaxNow
    BY <1>2, DialerAssumption DEF Tick, CallInv, TypeOK
  <2>2. UNCHANGED <<username_cache, phone_cache, dir, named, dial, called>>
    BY <1>2 DEF Tick, gateway, server, directory
  <2>3. TypeOK'
    BY <1>2, <2>1 DEF Tick, CallInv, TypeOK, gateway, server, directory
  <2> QED
    BY <2>2, <2>3 DEF CallInv, CacheInv, DialInv, Rightly, Named, CallsTheNamed
<1>3. CASE Rename
  <2>1. renames' \in 0..Renames
    BY <1>3, DialerAssumption DEF Rename, CallInv, TypeOK
  <2>2. dir' \in [username : Names, phone : Names]
    <3>1. PICK field \in {"username", "phone"}, u \in Users, k \in Keys \cup {NoKey} :
             dir' = [dir EXCEPT ![field][u] = k]
      BY <1>3 DEF Rename
    <3>2. dir \in [username : Names, phone : Names]
      BY DEF CallInv, TypeOK, Names
    <3>3. CASE field = "username"
      BY <3>1, <3>2, <3>3 DEF Names
    <3>4. CASE field = "phone"
      BY <3>1, <3>2, <3>4 DEF Names
    <3> QED
      BY <3>1, <3>3, <3>4
  <2>3. named' = named \cup Entries(dir') /\ UNCHANGED <<gateway, now, held_until, told_until>>
    BY <1>3 DEF Rename
  <2>4. named' \subseteq [kind : Both, name : Keys, user : Users]
    BY <2>3, EntriesType DEF CallInv, TypeOK, Both
  <2>5. TypeOK'
    BY <2>1, <2>2, <2>3, <2>4 DEF CallInv, TypeOK, gateway, Names, Both
  <2>6. Entries(dir)' = Entries(dir')
    BY DEF Entries
  <2>7. CacheInv'
    BY <2>3, <2>6 DEF CallInv, CacheInv, Named, gateway
  <2>8. DialInv' /\ CallsTheNamed'
    BY <2>3 DEF CallInv, DialInv, Rightly, Named, CallsTheNamed, gateway
  <2> QED
    BY <2>5, <2>7, <2>8 DEF CallInv
<1> QED
  BY <1>1, <1>2, <1>3

LEMMA StepCall == CallInv /\ [Next]_vars => CallInv'
<1> SUFFICES ASSUME CallInv, [Next]_vars PROVE CallInv'
  OBVIOUS
<1>1. CASE UNCHANGED vars
  BY <1>1 DEF vars, CallInv, TypeOK, CacheInv, DialInv, Rightly, Named, CallsTheNamed
<1>2. CASE Next
  BY <1>2, LoadCall, DialCall, FindsCall, EndCall, WorldCall DEF Next, Gateway
<1> QED
  BY <1>1, <1>2

LEMMA CallHolds == Spec => []CallInv
BY InitCall, StepCall, PTL DEF Spec

-----------------------------------------------------------------------------
(* When DialTg may ask *)

\* Until its end the program waits as long as DialTg was told, and a dialling has
\* begun after that; what failed since then has ended it.
WaitInv ==
    /\ up => told_until <= block_until
    /\ up /\ dial.pc # "idle" => told_until <= now
    /\ DialTgWaits

Dialled == {"searchPublicChat", "importContacts", "createCall"}

\* A step of the program that leaves both clocks asks only when it may.
LEMMA AskWait ==
    ASSUME TypeOK, WaitInv, up, UNCHANGED <<now, block_until, told_until>>,
           dial'.pc # "idle" => told_until <= now,
           \/ UNCHANGED req
           \/ \E what \in Requests : Request(what) /\ (what \in Dialled => told_until <= now)
    PROVE  WaitInv'
<1>1. now \in Nat /\ told_until \in Nat
  BY DialerAssumption DEF TypeOK
<1>2. DialTgWaits'
  <2>1. CASE UNCHANGED req
    BY <2>1 DEF WaitInv, DialTgWaits
  <2>2. ASSUME NEW what \in Requests, Request(what), what \in Dialled => told_until <= now
        PROVE  DialTgWaits'
    <3>1. req'.what = what /\ req'.told = (now < told_until)
      BY <2>2, ReqType
    <3>2. told_until <= now => ~(now < told_until)
      BY <1>1
    <3> QED
      BY <2>2, <3>1, <3>2 DEF DialTgWaits, Dialled
  <2> QED
    BY <2>1, <2>2
<1> QED
  BY <1>2 DEF WaitInv

LEMMA FailsWait ==
    ASSUME TypeOK, WaitInv, up, Fails
    PROVE  WaitInv'
<1>1. PICK error \in Errors :
          /\ ParseError(error)
          /\ told_until' = IF error.kind = "retry" /\ Fits(error.after)
                           THEN Prolonged(told_until, error.after) ELSE told_until
  BY FailsTimes
<1>2. /\ now \in Nat /\ told_until \in Nat /\ told_until <= now /\ Width \in Nat \ {0}
      /\ Extra \in Nat /\ PeerFlood \in Nat /\ MaxInt \in Nat
  BY DialerAssumption DEF TypeOK, WaitInv, Fails
<1>3. PICK d \in Nat : d = error.after
  BY ErrorDelay
<1>4. up' => told_until' <= block_until'
  <2>1. CASE error.kind = "retry" /\ d > MaxInt
    BY <1>1, <1>2, <1>3, <2>1 DEF ParseError
  <2>2. CASE error.kind = "retry" /\ ~(d > MaxInt)
    <3>1. block_until' = now + ((d + Extra) % Width)
      BY <1>1, <1>3, <2>2 DEF ParseError
    <3>2. PICK sum \in Nat : sum = d + Extra
      BY <1>2
    <3>3. sum % Width \in Nat
      BY <1>2
    <3>4. CASE sum < Width
      <4>1. sum % Width = sum
        BY <1>2, <3>4
      <4>2. told_until' <= now + d
        BY <1>1, <1>2, <1>3 DEF Prolonged
      <4>3. told_until' \in Nat
        BY <1>1, <1>2, <1>3 DEF Prolonged
      <4> QED
        BY <1>2, <3>1, <3>2, <4>1, <4>2, <4>3
    <3>5. CASE ~(sum < Width)
      <4>1. told_until' = told_until
        BY <1>1, <1>3, <3>2, <3>5 DEF Fits
      <4> QED
        BY <1>2, <3>1, <3>2, <3>3, <4>1
    <3> QED
      BY <3>4, <3>5
  <2>3. CASE error.kind # "retry"
    <3>1. told_until' = told_until
      BY <1>1, <2>3
    <3>2. block_until' = now + PeerFlood \/ UNCHANGED <<block_until, up>>
      BY <1>1, <2>3 DEF ParseError
    <3>3. CASE block_until' = now + PeerFlood
      BY <1>2, <3>1, <3>3
    <3>4. CASE UNCHANGED <<block_until, up>>
      BY <3>1, <3>4 DEF WaitInv
    <3> QED
      BY <3>2, <3>3, <3>4
  <2> QED
    BY <2>1, <2>2, <2>3
<1>5. dial'.pc = "idle" /\ UNCHANGED req
  BY DEF Fails, Idle
<1> QED
  BY <1>4, <1>5 DEF WaitInv, DialTgWaits

LEMMA StepWait == TypeOK /\ WaitInv /\ [Next]_vars => WaitInv'
<1> SUFFICES ASSUME TypeOK, WaitInv, [Next]_vars PROVE WaitInv'
  OBVIOUS
<1>1. CASE UNCHANGED vars
  BY <1>1 DEF vars, WaitInv, DialTgWaits
<1>2. CASE up /\ (SearchContacts \/ LoadNext)
  BY <1>2, AskWait DEF SearchContacts, LoadNext, WaitInv, Requests, Dialled
<1>3. CASE up /\ Dial
  <2>1. UNCHANGED <<now, block_until, told_until>>
    BY <1>3 DEF Dial, server
  <2>2. PICK e \in Exts : DialTg(e)
    BY <1>3 DEF Dial
  <2>3. CASE UNCHANGED <<dial, req>>
    BY <1>3, <2>1, <2>3, AskWait DEF WaitInv
  <2>4. CASE now >= block_until /\ ~UNCHANGED <<dial, req>>
    <3>1. told_until <= now
      BY <1>3, <2>4, DialerAssumption DEF WaitInv, TypeOK
    <3>2. Request("createCall") \/ Request("importContacts") \/ Request("searchPublicChat")
      BY <2>2, <2>4 DEF DialTg, DialByName, DialById, LookUp
    <3>3. {"createCall", "importContacts", "searchPublicChat"} \subseteq Requests
      BY DEF Requests
    <3> QED
      BY <1>3, <2>1, <3>1, <3>2, <3>3, AskWait
  <2> QED
    BY <2>2, <2>3, <2>4 DEF DialTg
<1>4. CASE up /\ Fails
  BY <1>4, FailsWait
<1>5. CASE up /\ (SearchFinds \/ ImportFinds)
  <2>1. told_until <= now /\ UNCHANGED <<now, block_until, told_until>>
    BY <1>5 DEF SearchFinds, ImportFinds, server, WaitInv
  <2>2. Request("createCall") /\ "createCall" \in Requests
    BY <1>5 DEF SearchFinds, ImportFinds, DialById, Requests
  <2> QED
    BY <1>5, <2>1, <2>2, AskWait
<1>6. CASE up /\ (LookupFindsNobody \/ CallCreated)
  <2>1. dial' = Idle
    BY <1>6 DEF LookupFindsNobody, CallCreated
  <2>2. UNCHANGED <<now, block_until, told_until, req>>
    <3>1. CASE LookupFindsNobody
      BY <3>1 DEF LookupFindsNobody, server
    <3>2. CASE CallCreated
      BY <3>2 DEF CallCreated, server
    <3> QED
      BY <1>6, <3>1, <3>2
  <2>3. dial'.pc = "idle"
    BY <2>1 DEF Idle
  <2> QED
    BY <1>6, <2>2, <2>3, AskWait
<1>7. CASE up /\ OtherRequest
  BY <1>7, AskWait DEF OtherRequest, Requests, Dialled
<1>8. CASE Tick
  BY <1>8, DialerAssumption DEF Tick, gateway, server, WaitInv, DialTgWaits, TypeOK
<1>9. CASE Rename
  BY <1>9 DEF Rename, gateway, WaitInv, DialTgWaits
<1> QED
  BY <1>1, <1>2, <1>3, <1>4, <1>5, <1>6, <1>7, <1>8, <1>9 DEF Next, Gateway

-----------------------------------------------------------------------------
\* Every variable keeps its type, for any sets of users and names and any bounds.
THEOREM TypeCorrect == Spec => []TypeOK
<1>1. CallInv => TypeOK
  BY DEF CallInv
<1> QED
  BY <1>1, CallHolds, PTL

\* Whoever is called had the name or the number that was dialled, at some time
\* since the start, however the directory changes and the caches are filled.
THEOREM CallsReachTheNamed == Spec => []CallsTheNamed
<1>1. CallInv => CallsTheNamed
  BY DEF CallInv
<1> QED
  BY <1>1, CallHolds, PTL

\* DialTg makes no request before the delays are over that its earlier requests were
\* answered with, as far as their sum with extra_wait_time fits its 32 bits.
THEOREM DialTgObeys == Spec => []DialTgWaits
<1>1. Init => WaitInv
  BY DEF Init, WaitInv, DialTgWaits, Idle
<1>2. WaitInv => DialTgWaits
  BY DEF WaitInv
<1>3. CallInv => TypeOK
  BY DEF CallInv
<1> QED
  BY <1>1, <1>2, <1>3, StepWait, CallHolds, PTL DEF Spec

=============================================================================
