# tg2sip in TLA+

This directory models tg2sip, a gateway that joins Telegram calls with SIP
calls, checks the models with TLC on small instances and proves properties of
them with TLAPS for all instances.

## 1. The system and its parts

| part | source | state it keeps | operations |
|---|---|---|---|
| gateway loop | `tg2sip/gateway.cpp`, `gateway.h` | the vector of bridges, each with a context (`sip_call_id`, `tg_call_id`, `user_id`, controller) and a Boost.SML state machine; contact caches; `block_until` | one `process_event` per kind of event, the state machine's guards and actions, `search_call`, `load_cache` |
| event queues | `queue.h` | three FIFO queues under a mutex | `emplace`, `pop` |
| SIP client | `sip.cpp`, `sip.h` | `calls`, the table from pjsua slots to call objects | incoming call handler, `Dial`, `Answer`, `Hangup`, `BridgeAudio`, `DialDtmf`, the event callbacks |
| Telegram client | `tg.cpp`, `tg.h` | query counter, `handlers`, the promises, the ready promise, its thread | `send_query`, `send_query_async`, `process_response`, `process_update`, authorization |
| ntgcalls controller and runtime | `voip/controller.*`, `voip/ntgcalls_runtime.*` | per call: created/registered flags, feeder thread, two ring buffers; per process: `sinks_` | `Start`, `Stop`, `UpdateSignaling`, frame and signalling callbacks, `CallBlocking`, `CallDetached` |
| ring buffer | `voip/ring_buffer.h` | `head_`, `tail_`, `buffer_` | `push`, `pop` |
| audio ports | `voip/audio_bridge.*` | `active_` and a port of PJSIP's conference bridge | registration, `Start`, `Stop`, put and get of one frame, removal |
| process | `main.cpp` | `e_flag`, terminate handler | start-up, shutdown |
| session generator | `gen_db.cpp` | authorization state and query ids | interactive log-in |
| settings | `settings.*`, `utils.cpp`, `include/INIReader.h` | the parser's section and name, the values, the options | `ini_parse`, `Settings::Settings` |
| logging, utilities | `logging.*`, `utils.*` | loggers | `init_logging`, `is_digits` |

**How they interact.** One thread runs `Gateway::start`: per tick it pops one
event of `internal_events_`, one of `tg_events` and one of `sip_events` and runs
the handler to its end. TDLib's thread, PJSIP's threads and ntgcalls' threads
never touch a bridge; they append to the queues (`tg::Client::process_update`,
`sip::Client::set_default_handlers`, `TgCallsController::OnSignalingData`). A
handler calls back into TDLib (and waits for the answer), pjsua2 and ntgcalls.
Sound runs beside all of this through two ring buffers per call.

**What is hard.** A bridge has two legs that end independently, and each leg's
events arrive through a queue of its own, late and in any relative order.
TDLib reports a pending call twice and answers `discardCall` with further
updates. A step of a handler can fail after the state machine has moved, and
the failure comes back as an `InternalError` event. An exception that leaves an
action ends the process, because SML's dispatch is `noexcept`. pjsua reuses call
slots while `calls` keeps entries of ended calls. The ring buffer's threads
share plain memory. The Telegram client's `handlers` is a plain map that two
threads use without a lock. Names and numbers are cached while their owners
change, and the server asks for pauses. At the end of the process queues, tables
and threads go one by one. `PROJECT.json` lists these hazards at their lines, with the
properties that cover them.

**What makes the parts correct.**

- Gateway: a call has at most one bridge (`OneBridgePerCall`); no call is left
  behind without one (`NoOrphanTg`, `NoOrphanSip`); no bridge is left behind
  without its calls (`NoTgZombie`, `NoSipZombie`, `EndedLegRemovesBridge`); a
  bridge keeps its legs (`LegsAreStable`); a bridge that talks is linked with the
  audio of its SIP session (`TalkingIsLinked`); digits do not end the process
  (`DtmfFindsItsCall`); and altogether it is a switchboard, which lets go of a call
  only by removing its bridge or by refusing a call that has none
  (`ImplementsSwitchboard`).
- Ring buffer: no data race, first in first out, at most `capacity_ - 1` samples.
- Telegram client: every answer reaches the query it belongs to, once
  (`ImplementsQueryService`); no query is forgotten (`NoLostQuery`), no handler
  left behind (`NoLeakedHandler`); `get()` and the destructor return
  (`GetIsAnswered`, `CloseReturns`); only the end of a session aborts the process
  (`AbortsOnlyOnEnding`).
- Dialling: the extension is read as it is spelt (`ExtensionsAsSpelt`), the user
  called had the name dialled (`CallsTheNamed`), `DialTg` keeps the pauses it was
  told (`DialTgWaits`); that all requests keep them (`AllRequestsBlocked`) is false.
- Session generator: the dialogue never stalls (`NoStall`), repeats only for the
  last answer (`LastAnswerCounts`), and ends (`AuthEnds`).
- Settings: files mean what their lines say (`ParsedAsMeant`, `OptionsAsWritten`),
  apart from comments in the place of a value (section 6).
- Process: updates and incoming calls never miss their queues, and four uses of
  destroyed objects are all there are (`OnlyKnownMisses`); a signal ends the process
  (`StopsWhenAsked`).
- Controller and runtime: no thread in a controller that is gone
  (`NoUseAfterFree`), nothing calls it once `ntg_stop` is issued
  (`QuietOnceStopped`), sinks are not mixed up (`OwnSink`), the playout ring has
  one producer (`SingleProducer`), and `Stop` returns (`StopReturns`).

## 2. Modules

| module | models | kind |
|---|---|---|
| `Switchboard` | bridges and the calls they hold, without queues and libraries | abstract specification |
| `Gateway` | gateway loop, queues, call table, shutdown and abort | specification, implements `Switchboard` |
| `MCGateway` | instance of `Gateway` for TLC (model values, symmetry) | model |
| `PcmFifo` | a bounded queue of samples | abstract specification |
| `RingBuffer` | `voip::RingBuffer`, one step per load, copy and store | specification, implements `PcmFifo` |
| `MCRingBuffer` | instance of `RingBuffer` for TLC | model |
| `RingBufferProofs` | its inductive invariant and the refinement of `PcmFifo` | proofs |
| `GatewayProofs` | lemmas on queues and events, types, which legs a bridge has in which state, the Telegram side | proofs |
| `GatewayLegProofs` | the SIP side, both legs together, and the refinement of `Switchboard` | proofs |
| `VoipRuntime` | `TgCallsController` and `NtgCallsRuntime`: set-up, teardown, callbacks, feeder thread; the audio ports | specification |
| `MCVoipRuntime` | instance of `VoipRuntime` for TLC | model |
| `VoipRuntimeProofs` | its inductive invariant and four theorems | proofs |
| `QueryService` | futures that get their own answer, once | abstract specification |
| `TgClient` | `tg::Client` with both threads, TDLib and the part of `main` that owns it | specification, implements `QueryService` |
| `MCTgClient` | instance of `TgClient` for TLC | model |
| `TgClientProofs` | its inductive invariant and the refinement of `QueryService` | proofs |
| `Extension` | `user_from_uri` and `AcceptIncomingSip` as operators | operators |
| `Dialer` | `DialTg`, `load_cache`, the caches and `block_until` | specification |
| `MCDialer` | instance of `Dialer` and `Extension` for TLC, with the reference definition of an extension | model |
| `DialerProofs` | whom a call reaches, and when the gateway asks | proofs |
| `GenDb` | `tg2sip-gendb` | specification |
| `MCGenDb` | instance of `GenDb` for TLC | model |
| `GenDbProofs` | that the dialogue does not stall | proofs |
| `IniReader` | `ini_parse_stream` and `INIReader`, and what a file means | part of `Settings` |
| `Settings` | from the command line to `Settings` | specification |
| `MCSettings` | the files and disks TLC tries | model |
| `Process` | `main`: construction, loop, destruction, and the threads meanwhile | specification |
| `ProcessProofs` | what callbacks may miss | proofs |

`Gateway` and `VoipRuntime` meet in the controller: what is the flag `ctl` of a
bridge in `Gateway` is an object with threads in `VoipRuntime`, and the steps that
`VoipRuntime` takes for `Start` and `Stop` are inside one handler of `Gateway`.
In the same way `Dialer` is the inside of `DialTg` of `Gateway`, where its outcome is
a choice, and `TgClient` is the inside of every request a handler makes. `Process`
has calls only as pairs of legs and says which of the objects the other modules
take for granted exist when.

### Gateway: state

| variable | code |
|---|---|
| `up` | the process runs, has left the loop, or was ended by `std::terminate`; then `up` is what was thrown (`Thrown`) |
| `e_flag` | the flag the signal handlers set |
| `phase` | which of the three `pop`s of the loop body comes next |
| `bridges` | `Gateway::bridges`, indexed by context id; `NewContext` stands for "no such bridge". Ids grow and the vector only appends, so the order of ids is the order of the vector and `First` is `std::find_if` |
| `ctx_counter` | `Context::next_ctx_id`; contexts that enter `X` in the handler that made them are not counted, nothing can refer to them |
| `internal_events`, `tg_events`, `sip_events` | the queues |
| `calls` | the keys of `sip::Client::calls` |
| `pj` | pjsua's view of a slot: its session state, whether it has audio (`media`) and how often that was negotiated (`nego`), whether the gateway asked to hang up (external) |
| `td` | TDLib's view of a call: its state, direction, user, whether `discardCall` was sent (external) |

A bridge is a record: `top` is the state of the outer machine (`none`: not in the
vector; `from_tg`, `from_sip`), `sub` the state of the composite, `tg`, `sip` and
`user` the ids of the context, `ctl` whether the controller exists, `aud` with which
negotiation of the SIP call's audio `BridgeAudio` linked its ports (0: with none). A
renegotiation replaces the conference port that `startTransmit` was called on, so a
link lasts as long as `aud = nego`.

### Gateway: actions

One action per `process_event` overload: `ProcessInternalError`,
`ProcessSignalingDataEmitted`, `ProcessUpdateCall`, `ProcessUpdateNewMessage`,
`ProcessUpdateNewCallSignalingData`, and for the three SIP events
`ProcessIncomingCall`, `ProcessCallStateUpdate`, `ProcessCallMediaStateUpdate`.
Each includes the search for the bridge, the transition, its actions
(`DialSip`, `DialTg`, `AnswerTg`, `AnswerSip`, `AcceptIncomingSip`,
`TgReadyInBridge` = CreateTgVoip with what follows it, `BridgeAudio`) and, where
the machine enters `X`, `Terminate`: `CleanUp` and the removal from the vector.
`PollEmpty` is a `pop` of an empty queue, `LeaveLoop` the end of the `while`.
Boost.SML's order is kept: a composite state sees the event before the outer
machine, the state changes before the action runs, `on_entry` of `X` comes last.

The other threads are `TgIncoming`, `TgReceived`, `TgReady`, `TgEnd`,
`TgMessage`, `TgSignaling` (TDLib), `SipIncoming`, `SipProgress`, `SipMedia`,
`SipDisconnect` (PJSIP), `EmitSignaling` (ntgcalls) and `Signal`.

What is assumed of TDLib and pjsua2, from how the code uses them: TDLib never
reuses a call id, reports a call's states in order, reports a pending call up to
twice, answers `discardCall` of an active call with `callStateHangingUp` and ends
every call with `callStateDiscarded` or `callStateError`; `acceptCall` works on a
pending call only. pjsua reports a session's states in order; `hangup` of an
ended session throws; destroying a `Call` hangs its session up without events;
a slot is handed out again only after a turn through the others, which is long
after the last event of its old session was handled. `FreeSlot` assumes besides that
no bridge has the slot by then: the bridge of section 6 that lost its session has it
until Telegram gives up a call nobody answers, which is sooner than 128 further calls
as long as the gateway is not that busy. ntgcalls has one call per user (`Engaged`):
`Start` of a second controller for a user throws, whether or not `Faults` is set, and
so does `stoi` in `DialTg`; `Faults` adds failures of `getUser`, `Start` and `Stop`.

A handler is one action although it may wait for TDLib. During the wait the
other threads only append to queues and move their own calls; neither is read by
the part of the handler before the wait, so each such step can be moved before
the handler.

### Switchboard

A context is `unused`, in `setup`, `talking` or `gone` and holds up to two calls; a
call is `idle`, `open`, `over` (its own end) or `left` (the gateway hung up or
discarded it). `TakeTg`, `TakeSip` and `Dial` give a bridge its calls, `Talk` needs
both of them, `Remove` leaves those that are still open, `Refuse` a call without a bridge;
nothing else leaves a call, and a context that is gone never returns. `Board` in `Gateway` is the mapping: the
stage of a context is read off `ctx_counter`, its place in the vector and
`wait_dtmf` (`Stage`), a call is `left` once `discardCall` or `hangup` was issued
for it (`TgLine`, `SipLine`). A slot is opened again for another call when no bridge
holds it.

### RingBuffer

`PushLoad`, `PushCopy`, `PushStore` and `PopLoad`, `PopCopy`, `PopStore` are the
loads, the copy of one sample and the final store of the two methods. A sample is
represented by its number among the samples accepted, which is all that order
and loss depend on. `head_` and `tail_` are released by one thread and acquired by
the other, so sequentially consistent steps cover what can be observed.

### VoipRuntime

| variable | code |
|---|---|
| `up` | FALSE once an exception of `CallBlocking` has ended the process |
| `gw` | where the gateway thread is in `Start` or `Stop`, and of which controller |
| `ctl` | per controller: whether it exists, `user_id_`, `created_`, `registered_`, `mic_feeder_running_`, `active_` of its ports, whether they are in the conference bridge |
| `feeder` | where each `mic_feeder_thread_` is in its loop |
| `sinks_`, `mutex_` | of `NtgCallsRuntime` |
| `worker` | ntgcalls' threads: idle, waiting for the mutex, inside a trampoline (external) |
| `conn` | users that ntgcalls has a call with (external) |
| `clock` | PJSIP's clock thread: idle, inside a port, inside a port's buffer (external) |

`Start` is the constructor, five blocking calls (`CallReturns`, `CallThrows`),
`Register` and `StartPorts`; `Stop` is `StopFeeder`, `JoinFeeder`, `Unregister`, one
more blocking call; the destructor is `Unplug` and `Destroy`. A callback is `CallbackBegins`, `CallbackLocks`,
which takes the mutex and looks the sink up, and `CallbackReturns`. A callback may
come for any user at any time, also long after the call was stopped. A blocking
call completes only on an idle worker, so that workers stuck behind the mutex
would be seen to block `Stop`. ntgcalls refuses a second call with the same user;
`CallBlocking` then throws, which ends the process.

The clock thread calls a port (`ClockEnters`), which looks at `active_` (`ClockReads`)
and then pushes or pops (`ClockReturns`). It does so with the mutex of the conference
bridge held, which `registerMediaPort` and `unregisterMediaPort` take as well: this is
PJSIP's and not in the repository, but the destructors in `audio_bridge.cpp` rely on
it, since `active_` is a plain `bool` that is read before the buffer is used. The input
and the output port of a controller do not affect each other and are one port in the
model, which the clock thread may call whether or not it is connected.

### TgClient

| variable | code |
|---|---|
| `main` | where `main` is with the client: start, waiting for authorization, gateway loop, `~Client`, after it; `aborted` after an exception out of a thread |
| `gw` | the gateway thread's use of the client: sending, blocked in `get()`, and the futures it keeps |
| `thr` | the client's thread in `Client::loop`: in `receive`, before `find`, between handler and `erase` |
| `handlers`, `current_query_id`, `is_closed`, `is_ready_` | members of that name; of `handlers` the keys |
| `futures` | per query id, whether its promise is set and by the answer of which query |
| `events` | updates put into the gateway's queue |
| `td`, `responses` | TDLib and what `receive` will return (external) |
| `raced` | ids whose entries were touched by both threads at once |

`send_query_async` is `SendQueryAsync` (promise, id, `emplace`) and `Send`;
`process_response` is `Receive`, `RunHandler` and `EraseHandler`, since the promise
that the handler sets wakes the gateway thread before the entry is erased.
`handlers` has no lock. With `Racy`, an `emplace` that meets `find` or `erase` may
lose its entry or the other's, or abort; a race has no further outcome that the
properties could tell apart. TDLib asks for its parameters, then the session is
`ready`, needs a log-in (`sign_on`) or ends, and it may end in any state, which TDLib
reports as `closing` and `closed`, one after the other (`Follows`): every state but
`wait_parameters` sets `is_ready_`, and the second to do so aborts.

### Dialer and Extension

`Extension` takes a URI to the three fields of a context. `Dialer` starts from them:
`username_cache` and `phone_cache` are the maps of `Cache`, `block_until` is in ticks
of `now`, `dial` says at which request the running `DialTg` waits. `Dial` is the
action up to its first request, `SearchFinds`, `ImportFinds`, `LookupFindsNobody`,
`CallCreated` and `Fails` are the answers, `SearchContacts` and `LoadNext` are
`load_cache`, `OtherRequest` stands for the actions that ask TDLib without looking at
`block_until`. Any of these requests may be answered with a delay. `held_until` is how
long the server wants no request, `told_until` the part of it that `DialTg` was told
in a delay it can add to `extra_wait_time`; `req` notes of the last request whether
it came before either. `dir` is TDLib's directory, which `Rename` changes; `named`
remembers every entry it held.

### GenDb

`authorization_state`, `sequence_done`, the two query counters and `handlers` are the
members of `TDClient`. `ProcessResponse` is one turn of its loop with the prompts in
it; an input is right or wrong, which TDLib decides in `TdAccepts` and `TdRejects`.
`TdReports` repeats a state, ends the session or logs in from another device.

### IniReader and Settings

One step per line that `fgets` returns; `section`, `prev_name`, `lineno`, `error` and
`values` are those of the parser. The second half of `IniReader` (`Kinds`, `Meant`,
`FirstBad`) says what a file means line by line, from the file alone and by the
comments of the header: a semicolon after white space starts a comment, also where a
value would start. `Commented` are the keys for which the parser sees that otherwise.
A path holds no file, one that cannot be opened, or lines; `resolve_config_path` asks
for the first, `fopen` for the second. `Settings` has
`resolve_config_path`, the table of options with types, casts and defaults, and the
decision of `main`. `UInt` and `UShort` stand for 2^32 and 2^16; `MaxLine` and
`MaxName` for 199 and 49 characters.

### Process

`pc` runs through `main`; `object` says which of the shared objects exist, `account` and
`td` are the two sources of callbacks, `sip` and `tg` the legs of a call. Each
callback notes in `misused` what it uses and finds not alive. A state callback has two
steps, since it locks the call object (`onCallState`) before it uses the client and its
queue (`Report`), and `~calls` may come in between. An incoming call that finds the
table destroyed is kept, lost or crashes. PJSIP's threads go on after `main` has
returned, until the static endpoint is destroyed (`DestroyEndpoint`).

## 3. Runs

| run | instance | shows |
|---|---|---|
| `from_sip` | 2 slots, 2 Telegram calls, no callback URI | two SIP callers side by side, valid and invalid extensions, refused Telegram callers: no SIP call is orphaned |
| `faults` | 1 call of each kind, everything on, fair loop | failing requests, two renegotiations, aborts and shutdown at any moment; a talking bridge is linked with its present audio unless that was renegotiated; a bridge that lost a leg is removed |
| `slots` | 2 Telegram calls, 1 slot used again and again, 5 contexts | callers compete for the slot, Telegram calls are bridged twice by late pending updates: one bridge per call, whose legs stay, stale entries of `calls` orphan no call, digits never reach a call that is gone, and the gateway implements `Switchboard` |
| `redirect` | 2 Telegram calls, 1 slot used again | **violation**, see section 6 |
| `ring` | 4 cells, pushes of 1, 2, 5 and pops of 1, 2, 4 samples | no data race, order, refinement of `PcmFifo` |
| `teardown` | 3 controllers, 2 users, 2 workers, failures, fair threads | no use after free, a quiet controller at `ntg_stop`, own sinks, one producer, `Stop` returns |
| `tg_client` | 4 queries, 2 futures at once, 1 update, 3 waiting responses, sessions that end, races, fair threads | every query answered once by its own answer outside a race, nothing left in the map, only the end of a session or a race aborts, `get()` and `~Client` return |
| `dialer` | 2 users, 1 key, 3 dials, 1 rename, 4 delays below and above the limits; all URIs of up to 5 of 7 characters | the right user, not before the time `DialTg` was told; extensions read as spelt |
| `requests` | 1 user, 4 dials, 5 delays | **violation**, see section 6 |
| `gendb` | 3 wrong inputs, 2 repeated states | the dialogue does not stall, repeats only what is current, and ends |
| `settings` | files of up to 3 of 14 lines, alone or after a complete file, missing or unreadable, at each path | keys, values, error and options as the lines mean |
| `process` | 3 calls | four known uses of destroyed objects and no other, a signal ends the process |

**Bounds.** `MaxCtx` bounds the contexts that become bridges. It never cuts a
behaviour short silently: slots and Telegram calls are finite, and where slots are
reused `RoomForCalls` stops new SIP calls before contexts could run out; in `slots` an
incoming call may still take the slot after an ended Telegram call, stale entry and
all. `MaxQueue` bounds only what the other threads append; handlers append whatever
they do. Two entries per queue give every order of two events of two calls or of one.
`MaxMedia` bounds the negotiations of a session: 3 in `faults` are the first one, a
change before and one after `BridgeAudio`.
`MaxWritten` (9) lets the ring's indices wrap twice. Two calls of each kind are
what `OneBridgePerCall` and the searches need; `faults`, with all kinds of events,
has one call of each kind, whose two legs and two queues already interleave in all
orders. `t1`, `t2` and `s1`, `s2` are interchangeable in the runs with symmetry, none
of which checks liveness.

The three controllers of `teardown` are one of each of two users and a second of
one of them; two workers let one wait for the mutex while the other holds it. PJSIP has one clock
thread.

`MaxQueries` (4) leaves two queries beside the two of start-up: one answered while
the other is sent is what the race and the order of answers need. `MaxResponses` (3)
keeps TDLib from reporting more before the thread has received some of it. In `dialer`
three dials are a failing one, one while blocked and one after it. One key that is the
name of one user and the number of another is what the two caches could confuse.
`Width` (8) is such that a delay of 7 wraps around with the extra time of 1, and a
delay of 9 exceeds `MaxInt` (7) and makes `stoi` throw. `MaxLong` is 191, so that ids of three digits fit or do not. Three lines
give every sequence of section, pair and continuation; a file that runs has three
lines of its own, before up to two more. `MaxLine` 9 makes one of the lines too
long, `MaxName` 2 one section name. Three calls of `process` are one queued, one
bridged and one that comes late.

**Fairness.** `FairSpec` of `Gateway` asks weak fairness of `Loop` alone: the loop
thread is an ordinary thread that is always scheduled again. Nothing is assumed of
callers, TDLib or the network. `FairSpec` of `VoipRuntime` asks weak fairness of the
feeder threads and of the clock thread inside a port, and strong fairness of the steps of `Stop` and of callbacks: both
wait for a mutex, or for a worker, that others take again and again, and a thread
that waits for a mutex gets it in the end. No fairness is asked of `CallThrows`,
`CallbackBegins` or `ClockEnters`. `FairSpec` of `TgClient` asks weak fairness of each thread's own steps
and that TDLib answers what it was asked; it need not authorize, report or end
anything. `FairSpec` of `GenDb` asks that the loop goes on, that TDLib handles queries
and that a closing session closes. `FairSpec` of `Process` asks weak fairness of `main`,
whose waits are bounded or answered by TDLib, of the end of the client's thread
and of a callback that has started; no caller needs to hang up.

## 4. Proofs

The theorems hold for every value of the constants that satisfies the assumption of
the module (`ConstantsAssumption`, `VoipAssumption`, `RingAssumption`,
`TgAssumption`, `DialerAssumption`, `GenDbAssumption`): any number of calls, slots,
users, controllers, workers, samples, queries and names, any bounds, with and without
failures. One theorem has a hypothesis besides: `SipEndsAreSeen` that slots are not
handed out again, without which it is false (section 6).

| theorem | module | states |
|---|---|---|
| `TypeCorrect` | `GatewayProofs` | `Spec => []TypeOK` of `Gateway` |
| `LegsStable` | | `Spec => LegsAreStable` |
| `NoTgForgotten` | | `Spec => []NoOrphanTg` |
| `CallsHaveOneBridge` | `GatewayLegProofs` | `Spec => []OneBridgePerCall` |
| `DtmfNeverThrows` | | `Spec => []DtmfFindsItsCall` |
| `SipCallsAreHeld` | | `Spec => []NoOrphanSip` |
| `TgEndsAreSeen` | | `Spec => []NoTgZombie` |
| `SipEndsAreSeen` | | `Spec => []NoSipZombie`, without reuse of slots |
| `TalkingIsHeard` | | `Spec => []TalkingIsLinked` |
| `KeepsTheBoard` | | `Spec => ImplementsSwitchboard`, the refinement of `Switchboard` |
| `TypeCorrect` | `RingBufferProofs` | `Spec => []TypeOK` of `RingBuffer` |
| `RaceFree` | | `Spec => []NoDataRace` |
| `SamplesInOrder` | | `Spec => []InOrder` |
| `ImplementsFifo` | | `Spec => IsFifo`, the refinement of `PcmFifo` |
| `TypeCorrect` | `TgClientProofs` | `Spec => []TypeOK` of `TgClient` |
| `QueriesAreHeld` | | `Spec => []NoLostQuery` |
| `HandlersAreErased` | | `Spec => []NoLeakedHandler` |
| `AbortsAreEndings` | | `Spec => AbortsOnlyOnEnding` |
| `ServesQueries` | | `Spec => ImplementsQueryService`, the refinement of `QueryService` |
| `TeardownIsSafe` | `VoipRuntimeProofs` | `Spec => []NoUseAfterFree` |
| `StoppedIsQuiet` | | `Spec => []QuietOnceStopped` |
| `SinkIsOwn` | | `Spec => []OwnSink` |
| `ProducersAreSingle` | | `Spec => []SingleProducer` |
| `TypeCorrect` | `DialerProofs` | `Spec => []TypeOK` of `Dialer` |
| `CallsReachTheNamed` | | `Spec => []CallsTheNamed` |
| `DialTgObeys` | | `Spec => []DialTgWaits` |
| `TypeCorrect` | `GenDbProofs` | `Spec => []TypeOK` of `GenDb` |
| `NeverStalls` | | `Spec => []NoStall` |
| `OnlyLastAnswerCounts` | | `Spec => LastAnswerCounts` |
| `MissesAreKnown` | `ProcessProofs` | `Spec => []OnlyKnownMisses` |

**Types.** `TypeOK` of `Gateway` is inductive. The work is in the queues:
`GatewayProofs` shows what `Append`, `Head` and `Tail` do to the set of elements
of a queue and that an event of each type has the fields its handler reads.

**Legs.** That `DialTg` does not overwrite a Telegram leg holds because it runs
only in `sip_wait_confirm`, where there is none; `ShapeInv` says which legs a
bridge has in each state and that contexts above `ctx_counter` are unused.

**The Telegram side.** `NoOrphanTg` is not inductive. `TgInv` adds that a call has
one bridge (else removing one bridge would say nothing of the other), that bridges
and queued updates name calls TDLib knows (so a call `createCall` returns is new to
every bridge), that a queued end is of an ended call (so clearing the id before
`CleanUp` forgets nothing), and that only an incoming call may be waiting in the
queue, because the pending update of an outgoing one makes no bridge. `TgStep` is
the general step; `TgKept` and `TgDiscards` are its two common forms, and there is
one lemma per handler.

**The SIP side.** `SipInv` says that a slot belongs to one bridge, that bridges and
events name slots in use, that the table has the call of every bridge and of every
queued incoming call, that such a call has no bridge yet and is queued once. The
table then loses an entry only with its only bridge, so a bridge in `wait_dtmf`
always has its call there and `DialDtmf` does not throw `CALL_NOT_FOUND`. This
rests on the assumption on slot reuse in `FreeSlot`.

**Both legs.** `LegInv` says for every bridge that the leg it waits for is there,
or that the event which removes it is queued (`Served`), and why an event is enough.
The end of a Telegram call is the last thing the queue says about it (`TgOrder`), so
that a bridge which a late pending update makes still finds the end behind it;
DISCONNECTED is true of the slot it names (`DisconnectedIsEnded`), and what is in the
call table was handed out (`TableIsUsed`), so that without reuse `emplace` in `Dial`
does not fail. The other half of the argument is `UniqueTg` and `UniqueSip`: an event
taken from a queue is the end of one bridge only, the one its handler removes.
For `TalkingIsLinked`, `AudioInv` says that a link is never of a negotiation still to
come: a bridge that is linked, but not with the present one, was linked before.

**The board.** `KeepsTheBoard` follows from `LegsInv`, which is all of the above:
every handler is one step of `Switchboard` or none. The invariant is needed in four
places. `Remove` has to let go of both calls, although `CleanUp` skips a leg whose id
`CleanTgId` or `CleanSipId` cleared: such a leg was named by an end in the queue, and
those are true (`EndsAreEnds`, `DisconnectedIsEnded`). Where the id is still there,
`discardCall` and `Hangup` reach the call, since TDLib knows it (`KnownTg`) and the call
table has it (`InTable`). A bridge is taken with calls no other bridge has: `search_call`
found none, and a call that `createCall` or pjsua hands out is new to all bridges.
`Talk` needs both legs: the event found the bridge by one of them; the SIP leg is there in
`wait_tg` (`ShapeInv`), the Telegram leg after `AnswerSip` because the controller is
(`Linked`).
Reuse of slots, failing requests, aborts and shutdown are included. There is one lemma
per handler; the steps of the other threads are a call that rings or ends, or none.

**Ring buffer.** No index is more than one turn away from the other, so that the
distance `Used` is what it seems in spite of the wrap-around. `IInv` says that a push
works behind the cells in use and within the room there is, a pop on cells in use
(hence `NoDataRace`), and that the cells from `tail_` on hold the samples that follow
those received, up to the one push copies next. The queue of `PcmFifo` is then the
sequence `received + 1 .. written`, which `PushStore` extends and `PopStore` shortens;
every other step stutters.

**Telegram client.** A query is in one place at a time: with the gateway thread,
in TDLib, in a response or with the client's thread (`PlaceInv`); a handler is there
only for such a query (`SentInv`), and a promise that is not set has its handler,
unless a race took it (`FutureInv`). `AuthInv` follows the authorization states
through the queue of responses, since setting `is_ready_` twice is what aborts: as long
as `ready` or `sign_on` is still to be handled, `is_ready_` is not set, and behind it
only `closing` and `closed` can come.

**Teardown.** `IInv` of `VoipRuntimeProofs` says that a worker inside a trampoline
holds the mutex (`LockInv`), that what it dispatches to is registered and that a
sink is that of its own user (`SinkInv`), which stages a controller has been
through (`LifeInv`, `GwInv`) and that controllers with a call in ntgcalls have
different users (`ConnInv`), and that the clock thread is only in a port that is in
the conference bridge (`ClockInv`). A controller is destroyed when it is not registered
and not in the conference bridge, so neither a worker nor the clock thread is in it. There is one lemma per action.

**Dialling.** `CallInv` says that an entry of a cache was in the directory under
that kind and name (`CacheInv`) and that a running look-up is of the kind of its
request (`DialInv`). `WaitInv` says that `block_until` is not before `told_until`,
and that this time is over while a dialling runs: a later error may
therefore shorten the block without breaking it. An error with a delay that `stoi`
refuses ends the process and is the exception in `WaitInv`.

**Session generator.** `DialogueInv` rests on the order of responses: the last state
reported is TDLib's, or the program is in it (`ReportInv`); in a state that can be
answered the last query is with TDLib or its answer is on its way (`AskedInv`); and
that answer is "ok" only behind the report of another state (`AcceptInv`), which is
why an answer that changes nothing is never the one TDLib waits for.

**Process.** `LifeInv` says what `main` has built or destroyed at each place, and that
a source of callbacks has, or had, what its callbacks use: `SourceInv` keeps apart what
is alive (the queue of SIP events while there is an account, that of Telegram events
while its thread runs) from what was only made before, which is what may be missed.

Only model-checked: `ExtensionsAsSpelt`, `ParsedAsMeant` and `OptionsAsWritten`, which
are about what a recursive computation yields for every input; and liveness
(`EndedLegRemovesBridge`, `StopReturns`, `GetIsAnswered`, `CloseReturns`, `AuthEnds`,
`StopsWhenAsked`). Both are out of the prover's reach. The strengthenings above were
checked with TLC on the instances of their runs, those of the gateway on all
its instances, before they were proved.

## 5. Not modelled

- SIP headers, hangup codes and reasons, the wording of log lines, what
  `init_pj_endpoint` configures: no state of the program depends on them.
- `UpdateSignaling` and `CallDetached`, which hand data to ntgcalls and change no
  state of the program; how long ntgcalls reads what it is handed; which
  ports the conference bridge connects.
- The data race on `sip::Client::calls`, which the gateway thread and PJSIP's use
  without a lock: `Gateway` takes each operation as atomic. A race on a `std::map`
  has no bounded set of outcomes; for `handlers`, `TgClient` has those that matter.
- `include/boost/sml.hpp`: template code; its order of dispatch is built into
  `Gateway`. The getters of `INIReader` that `settings.cpp` does not use.
- The log sinks and the forwarding of other libraries' log lines, which are I/O;
  build, packaging and patches.

## 6. Findings and observations

`redirect` shows a disagreement with the repository's `README.md:52` ("All
Telegram->SIP calls will be redirected to `callback_uri`"). When the SIP peer
hangs up first, `CleanSipId` clears the id, so `CleanUp` does not call
`sip::Client::Hangup` and the entry stays in `calls`. Once pjsua hands the same slot
out again, `calls.emplace` in `Dial` (`sip.cpp:245`) keeps the old entry; the new
call object dies when `Dial` returns and its session with it. The bridge waits in
`sip_wait_media` for a SIP call that does not exist. One slot in the run stands for
a turn through `PJSUA_MAX_CALLS` slots. The Telegram side still ends such a bridge
when the caller gives up.

`requests` shows that `tg2sip.conf:109-111` ("block all outgoing telegram requests")
says more than the code does. Only `DialTg` looks at `block_until`, and only its own
errors set it: `getUser`, `acceptCall`, `discardCall` and signalling data are sent while
the server wants no request, and what delay these are answered with nobody notes, so
that `DialTg` may ask too early as well.

Seen while modelling, without a run of their own:

- An option left empty before an inline comment, as `tg2sip.conf:50` has `api_hash`,
  takes the comment as its value: `lskip` (`INIReader.h:248`) removes the white space
  that would have marked the semicolon as the start of a comment
  (`INIReader.h:140-142`). With `api_id` set, such a file passes the check "TDLib api
  settings must be set!" (`settings.cpp:80-83`). The settings run has such lines;
  `ParsedAsMeant` and `OptionsAsWritten` except their keys by name (`Commented`).
- A second pending update of a call that is being discarded makes a bridge and
  dials `callback_uri` again until the end of the call is reported.
- A re-INVITE, or any other renegotiation of the audio, after `BridgeAudio` leaves the
  bridge without sound: `wait_dtmf` ignores `CallMediaStateUpdate`, so nobody links the
  new port (`Renegotiated` in `TalkingIsLinked`).
- The process aborts on a second call with a user who has one (`Start` throws), on a
  delay that is no `int` (`stoi`), and on a failing `getUser`, `Start` or `Stop`.
- A `discardCall` or `hangup` that fails in `CleanUp` is logged and forgotten together
  with the bridge. `NoOrphanTg`, `NoOrphanSip` and `Switchboard` count such a call as
  let go.
- A shutdown leaves the calls in progress as they are although `main.cpp:86` calls
  it graceful: `Gateway` does not delete its bridges, so `CleanUp` does not run. The
  controllers that stay may also append to the destroyed `internal_events_`. An
  incoming call between the destruction of `calls` and that of `account` uses the
  destroyed table, and its state callbacks the destroyed client and, once `main` has
  returned, the destroyed queue; a state callback that has locked its call when `~calls`
  begins does the same. These are the four pairs in `Missed`.
- A session that ends, at start-up or later, reports `closing` and `closed`. Each sets
  `is_ready_`, so that the exception of the second (or of the first, once the
  session was ready or refused) ends the process (`AbortsOnlyOnEnding`).
- An entry of `handlers` lost to the race leaves the gateway thread in `get()` for
  ever, since it waits without a limit. The properties of `TgClient` except
  the entries in `raced`.
- Digits are dropped as ambiguous while one user has two bridges.

## 7. Plan

1. Shorter proofs where a lemma on queues is stated for one module and needed in
   another.
2. The race on `sip::Client::calls` in `Gateway`, with the outcomes that `TgClient` has
   for `handlers`, once it is decided which of them the build can produce.
