# Qwen3TTS-Streaming: a TLA+ verification project

Qwen3TTS-Streaming turns text that arrives piece by piece into audio that
leaves piece by piece. This directory keeps models of the parts where that is
hard, the runs that check them with TLC on small instances, and proofs that
TLAPS checks for every value of the constants.

## 1. The system

Text enters through a gateway (native WebSocket sessions, a legacy WebSocket
protocol, gRPC, an OpenAI-compatible realtime protocol, Triton). The **front
end** normalises it, splits it into segments and hands them to the **engine
loop**, one thread that owns the GPU. The engine decodes several segments of
several sessions in one batch. Its results go back to a **result consumer** per
session, which puts the audio into text order and may hold part of it back. A
**delivery ledger** numbers what leaves, keeps it until the client acknowledges
it, and replays it after a reconnect. The **client SDK** checks that nothing is
missing, acknowledges, reconnects and resumes.

| Part | State | Operations | What makes it hard |
|---|---|---|---|
| Delivery ledger (`engine/session/reliability.py`) | records, cursors, attachment queues | publish, attach, detach, acknowledge, terminal ack, close | bounded queues and buffer, a method that raises half-way |
| Resumable session, registry, handle (`engine/session`) | timers, output queue, registry entry | start, resume, detach, pump, close, expiry | late cleanup of old connections, timers that race a resume |
| Native gateway and SDK client | sockets, handlers, client cursor | send, receive, ack, reconnect, give up | breaks that one side notices first |
| Engine loop and KV pool (`engine/backend`) | sessions, segments, slots, the step in flight | requests, admission, prefill, decode, retry, end, evict, time out | requests applied while the GPU runs, one pool for all sessions |
| MLFQ (`engine/core/mlfq.py`) | levels, waits | select_batch, on_step_done, tick | starvation |
| Splitter and dispatcher (`engine/frontend/spliter`) | waiting tokens, plans, drivers | feed, plan, open, finalize, replan, end | replanning a mixed queue, early ends, the end of input behind full concurrency |
| Result consumer (`engine/frontend`) | reorder buffer, hold window, verdicts | audio, retry, segment end, session end, ticker, watchdog | results out of order, two tasks that deliver |
| Text input (`engine/frontend/interface.py`, `dispatcher.py`) | the actor's queue, the committer, the journal, the engine's inbox | push, commit, tick, complete, clean up, cancel | the end of input racing queued text, three tasks that submit requests |
| Legacy WebSocket stream (`websocket_server.py`, `websocket_resume.py`) and the SDK's stream session | text numbers, deliveries, two client threads | text, stop with rollback, cancel, resume, expiry | text and audio that cross breaks in both directions |
| SDK connection pool | idle, leased and reserved connections, waiters | check out, prewarm, release, replace, keepalive, close | slots counted over many threads, lost wake-ups |
| OpenAI Realtime gateway (`openai_realtime.py`) | connections, responses, usage records | create, append, commit, cancel, resume, finish | a response state shared by two connections, several tasks that may end it |
| gRPC, Triton, browser client | per-protocol sessions | | not modelled yet |
| Normaliser, committer, journal | stable prefixes | | pure text computation, not modelled |
| Executor, audio codecs, VAD, scripts | tensors, files | | no interleaving: computation and start-up |

`PROJECT.json` lists every component, modelled or not, every hazard at the line
where it bites, and the source lines of every definition.

## 2. Modules

| Module | Models |
|---|---|
| `DeliveryLedger` | the ledger, one action per method and outcome |
| `ResumableSession` | the session, registry, handle, gateway and client around the ledger; extends `DeliveryLedger` |
| `EngineLoop` | the engine thread with the slot pool |
| `MLFQ` | the scheduler as the loop drives it |
| `Spliter` | the splitter, its drivers and the dispatcher's end-of-text decision |
| `Playback` | the result consumer, reorder buffer, hold window, ticker and watchdog |
| `ReliableStream` | the promise of a resumable stream: deliveries heard in order and once each, a good end only after the terminal one; implemented by `ResumableSession` and `WebsocketResume` |
| `WebsocketResume` | the resumable WebSocket stream: registry, handler, both threads of the SDK's stream session |
| `ConnectionPool` | the SDK's connection pool |
| `TextInput` | the front end's text input, from the transport to the engine's inbox |
| `RealtimeGateway` | the OpenAI Realtime endpoint |
| `DeliveryLedgerProofs`, `MLFQProofs`, `ResumableSessionProofs`, `ConnectionPoolProofs`, `EngineLoopProofs`, `WebsocketResumeProofs` | theorems about the module of that name; section 4 |
| `MC...` | instances for TLC |

**What a step is.** The front end, the session layer and the gateways run on
one asyncio event loop. Code between two awaits that can suspend is one step;
an uncontended lock and a put into a queue that is not full do not suspend. The
engine is one thread that talks to the loop through queues, so one phase of its
loop, or one row or one request inside a phase, is one step. Definitions whose
comment begins with "Mutant:" are wrong on purpose: each replaces the definition
behind it to show that a property notices the mistake.

### DeliveryLedger

State: the fields of the class `DeliveryLedger` by their names, and `queues[g]`,
the bounded queue of the g-th attachment. A method body runs under one lock
without suspending, so it is one action. `publish_raised` records that a put
raised after the record had been retained: the exception ends the pump.
`CloseRaises` is the same for the fence of `close()`. Bytes are counted in
deliveries of one unit. `publish()` also refuses audio whose sample range does not
continue the last one or does not fit its payload (`reliability.py:170-183`,
`353-373`). That is left out: the range comes from one running cursor
(`session_backend.py:69-75`), and is computed from the payload it belongs to.

### ResumableSession

Adds the session's life (`registered`, `closing`, the two timers), the handle's
queue, the pump, the handler of each connection (`serving` while it reads,
`sending` while its output task runs), the two directions of each socket, and
the client. Either side may find a connection broken at any time. Time is
abstracted: a scheduled timer may fire whenever it is scheduled. `close()` is
several steps: it unregisters the session, closes the ledger, which may raise out
of it (`closing` is then "raised"), and otherwise stops the pump
(`PumpCancelled`).

### EngineLoop

`phase` is the place in `_run_inner`: process the last output row by row, drain
the inbox, admit cache hits, admit by prefill, launch, then drain and do
housekeeping while the step runs. Any request may be dequeued in a drain. What
the network computes is a choice among the outcomes the code tells apart. A
slot's `head` is the text its prefill covered, `trailing` what it is still fed.
Idle and age limits may be found exceeded whenever housekeeping looks. Without an
extension policy, which is not modelled, no session is held back from admission. A
new session under a known id replaces the old one without a word to it. The front
end cancels a session of that id first (`interface.py:523-524`), so nobody waits
for that word, and `ExitsWithTerminal` is about the id.

### MLFQ

Three levels, the aging pass and the FIFO order inside a level. Counters stop
where no comparison can tell them apart any more.

### Spliter

Text is the sequence 1, 2, 3, ... with a punctuation level for each token; the
capacity stands for the safety ratio and only shrinks. Every public operation
ends with the synchronous `_drive_events`, so while `driving` is set only its
steps are taken.

### Playback

The engine is abstract: it decodes open segments in any order, reruns one under
the gate of `_try_segment_retry`, and ends each with a verdict. `work` is what
the consumer still does for the result at hand. A section under `hold_lock` is
one step of the consumer; the ticker keeps the lock while it sends chunk after
chunk. The watchdog takes two steps, a warning and then the cancel, which it asks
for even if the playhead has moved on meanwhile. The frame count that holds back a
segment's end is modelled as chunks still outstanding (the comment at `Publish`
says why the two agree). That segment coordinates form a chain is part of `Spliter!PlanObeyed`. That
the engine ends every segment and then the session is the end of `EngineLoop`'s
paths.

### ReliableStream, WebsocketResume

`ReliableStream` has four variables: how many deliveries are published, whether
the last of them is the terminal one, the deliveries the caller has heard, and
what the caller knows of the end. A step publishes one delivery, hears the next
one, or fails; the caller sees "done" exactly when it has heard the terminal
delivery. A refinement mapping in each of the two implementations gives these
variables, and `StreamImplemented` is the abstract specification under it.

`WebsocketResume` has one action per critical section of the client's two
threads (the reader, and the application in `send_text`, `finish` and
`cancel`), per message of the handler, and per registry operation. A recovery
has a leader, either thread, and the other waits for it. An input_ack is not a
message of its own: the client learns of it at once or not at all. The engine
ends a stream whose input is complete; it may also fail while the input is open,
once it has reached delivery number `FailsFrom` (1: at any time). A cancel is two
steps, the request and the terminal event. Nothing can fail between them: the
engine's `cancel` only queues a request (`interface.py:793-802`,
`dispatcher.py:48-55`). The client's `close()` is left out, and the idle timeout is
taken only when nothing is under way. The number of
connections bounds the resumes. The cancel that follows an overflow of the
retained deliveries belongs to its step, and so does everything a terminal
expiry does.

### ConnectionPool

The pool's fields by their names, and for each thread the place it has come to.
A block under `_pool_condition` is one step, a dial is two. `Callers` use a
connection and release it, break it or ask for a replacement while they keep
their slot; `Warmers` run `_prewarm`. A notify makes the waiting threads
runnable; who runs first is open.

### TextInput

The event loop's ready queue, the lock with its waiters, and the bounded inbox
are explicit, because the hazards are about who runs between two awaits. Tasks:
the transport's handler, the text actor, the commit ticker, the result consumer,
a caller that cancels. How much of the fed text is committed is a choice; where
a segment ends is another one. A feed may raise ("reject" in `Faults`), for the
batch as a whole. The actor holds the first text of a batch during its burst
sleep, when it is in no queue. Left out: several metadata groups in one batch,
the emoji carry (part of the uncommitted text), cursor plans, the full-text
modes, the deadline the ticker reads before it sleeps, the bound of the actor's
own queue, and results for a session that is not registered. Normalisation is
synchronous.

### RealtimeGateway

For each connection the reader and the fields of `_RealtimeConnection`; for each
response the `_ResponseState` (one record, which the old and the resumed
connection share), its task on each connection, the session behind it and the
usage records. A reader handles one client event at a time and suspends where
the backend, the recorder or a task is awaited; a chain of sends is one step.
What the client sends is chosen when it is handled. `Takeover` says whether a
client may resume while the server still holds its old connection. The terminal
event of a cancel is published in the step in which the cancel returns. A push or
a completion may raise after the session's handle has accepted it, and a start may
be cancelled after the front end has registered the session and before there is a
handle ("registered", as opposed to "open"). Assumed: the texts of a response
differ from each other, a `conversation.item.create` comes once before a response,
and a connection resumes a response it has not served before, so that the events a
resume sends are one step. Left out: settings, playback and delivery acknowledgements, token conflicts, shutdown
and events that only report an error.

## 3. Runs

Passing runs:

| Run | Instance | Shows |
|---|---|---|
| `session` | 2 connections, 4 outputs, buffer 2, queue 3, ACK interval 1 | what can be replayed is exactly what was published and not acknowledged, the client never meets a gap, can always resume, a late cleanup never detaches the newest connection; a closed session stays closed, without pump, records or attachment; the session implements `ReliableStream`; under fairness every stream ends for its client and its session leaves the registry |
| `engine_text` | 1 live session of 2 identities, 2 segments, 2 tokens, 2 slots, streamed and cloned voices | every slot is fed exactly its segment's text, also where the prefill itself yields a frame, an invalid frame or an end; no segment stalls with text unread |
| `engine_slots` | 2 sessions with 2 segments, 2 slots | slots are not leaked, shared or reused under a step in flight; the per-session limit; removal exactly with a terminal result |
| `mlfq` | 3 segments, batch 1, 4 arrivals | the wait bound at the lowest level; nobody starves once arrivals stop |
| `spliter` | 4 tokens, capacity 3, 2 concurrent, all modes | text in order, coordinates without gap, plans obeyed and tight; the end of text is announced, and is final |
| `playback` | 2 segments in 1 or 2 groups, 2 frames, 1 rerun, at once or through the window | every kept frame heard once and in order; ends in order; verdicts drop only their own audio; nothing after the terminal event; the consumer always comes to its end |
| `pool` | 2 callers, a prewarm worker, the keepalive thread, 2 connections, 1 idle | slots counted exactly, a connection is in one place, no lost wake-up, every caller is served or told |
| `resume` | 1 text, 1 audio frame, 2 connections, 2 attempts, ACK interval 2, an engine that may fail after its first audio frame | the engine takes the text once, a closed input was told to the engine, the newest connection owns the stream, nothing is stuck, `ReliableStream` is implemented |
| `text_input` | 2 texts, 1 concurrent segment, an inbox of 1, an engine error, a cancel or a feed that raises at any point | completion covers every accepted text, the closed journal stays closed, the end of the text reaches the engine, and requests reach it in order unless one task submits while another waits for a place in the inbox |
| `realtime` | up to 2 responses (one of them reliable), 2 connections, 2 texts, 1 audio frame, calls that raise, within a joint bound (below) | text reaches the engine in order, events in order, billed once and for everything sent, a response in progress keeps its task and attachment, no session is orphaned but by the three leaks of section 5 |

Runs in which a statement of the repository fails (the findings of
`PROJECT.json` quote it):

| Run | Statement | What the code does |
|---|---|---|
| `text_stranded` | queued text must be answered, or `push_text_input` callers are "blocked forever" | an engine error cancels the actor alone: an actor that had no turn yet answers nobody, one in its burst sleep does not answer for the text it holds, and `mark_input_complete` waits for an idle event nobody sets |
| `realtime_takeover` | "a new physical attachment fences the old one" | the old connection's cleanup stops the task and the attachment that the new one has stored in the shared state |

**Bounds.** Two of everything that competes is where the mistakes are: two
connections for a late cleanup, two sessions and two slots for a reuse under a
step in flight, two segments, in one group or in two, for reordering, two
threads for a recovery. A buffer of two is full within the bound on
outputs. Four tokens to a packet with a capacity of three make a packet that
must be planned, with room for one more behind it.

In `session` the buffer of two is exceeded by audio as well as by the terminal
output. With a buffer of three, a queue of four, five outputs and an ACK interval
of two the run passes as well (1,001,688 states), but too slowly to be listed.

In `realtime` a joint bound of seven keeps the run small: a connection (the first
included) or a response counts two, a text or a call that raises one. Within it fit
a plain response with two texts and a raising call; a reliable response resumed on
a second connection, with one text or raising call; and two responses one after
the other on one connection, with one text or raising call. Two responses over two connections do
not fit: they need eight. That larger run was made once (8,669,356 states in seven
minutes, no violation) and is not among the listed ones. One audio frame shows
what is billed or lost at all, not how several frames add up.

In `resume` the engine does not fail before its first audio frame, and every second
delivery is acknowledged. With a failure at any time the run passes as well, for an
ACK interval of 1 (4,662,644 states) and of 2 (2,432,197), but too slowly to be
listed. The theorems about `WebsocketResume` hold for every value of both;
`NeverStuck`, which is not proved, rests on these runs.

Every property is violated in its run by at least one mutant, so none holds
because its case does not occur. Slots and sessions of the engine are symmetric:
they are only compared for equality.

Three passing runs leave out a case on purpose, because the code fails in it.
`session` keeps the attachment queue larger than the replay buffer
(`StopIsExplicit` of section 5), so no delivery meets a full queue. A fence still
can, behind the notice that the buffer is exceeded. The invariants hold, and are
proved, for every queue size; the liveness properties fail with a smaller queue.
`RequestsInOrder` of `text_input` says nothing once two tasks have competed for a
place in a full inbox (`EngineOrder` of section 5). `realtime` sets `Takeover` to
FALSE, the case of `realtime_takeover`.

Deadlock is checked for the engine and MLFQ, which run for ever, for `Playback`,
`ConnectionPool` and `WebsocketResume`, whose only states to rest in are those at
the end; elsewhere a session really ends. Type invariants are conjuncts of `HeardOrInFlight`,
`FedExactly`, `TextInOrder` and `CompletionCoversText`; `ResumeTypeOK` is checked
by itself, and MLFQ's is proved.

**Fairness.** `session`: the event loop runs every task that can go on, a
broken connection is eventually noticed by the handler, a scheduled timer
fires, and the engine ends every session; nothing is assumed about breaks,
giving up or shutdown. `mlfq`: the thread keeps looping. `spliter`: the drive
is a loop without awaits, and a segment whose text has ended is ended by the
engine. `pool`: threads run, dials and probes end because they have time-outs, the deadline of a prewarm worker passes, and a
caller's stream ends however often it is resumed (strong fairness, since a
replacement can come between); nothing about a caller's deadline or close.
`Playback` assumes none: each of its steps uses up something bounded (frames, reruns, results, held chunks), so
with the deadlock check every behaviour that does not simply stop ends with the
consumer gone. The engine's part in that is that it leaves no segment behind
(`WaitsOnlyForText`, and a length or idle limit ends the rest). The watchdog is
not needed for it. `resume`, `text_input` and `realtime` state what must
eventually happen as invariants on the states in which nothing more is under way
(`NeverStuck`, `CompletionReachesEngine`, `CallersReleased`) or in which nobody
is left to act (`NoOrphans`); they need no fairness.

## 4. Theorems

Each theorem holds for every value of the constants that its assumption admits;
TLC evaluates the assumptions in every run. `PROJECT.json` lists the theorems, a
lemma is explained where it stands.

| Module | Assumption | Theorem | States |
|---|---|---|---|
| `DeliveryLedgerProofs` | `LedgerAssumption`: positive queue and buffer sizes, natural sample counts | `RecordsSafe`, `LedgerTypes`, `ReplayIsExact`, `QueuesInOrder` | `RecordsInv`, types, `ReplayExact`, `QueuesConsecutive` |
| `MLFQProofs` | `MLFQAssumption` | `WaitIsBounded` | `BoundedWait` |
| `ResumableSessionProofs` | `LedgerAssumption`, `SessionAssumption`: positive output queue and ACK interval | `CursorAlwaysRetained`, `NothingIsMissed`, `SessionReplayIsExact`, `ClosingIsFinal`, `StreamIsImplemented` | `ResumeCursorRetained`, `HeardOrInFlight`, `ReplayExact`, `CloseIsFinal`, `StreamImplemented` |
| `ConnectionPoolProofs` | `PoolAssumption`: the limits `__init__` accepts, finitely many threads and names for sockets | `SlotsAreCounted`, `ConnectionsAreExclusive`, `NoWakeupIsLost` | `SlotsCounted`, `ConnectionsExclusive`, `NoLostWakeup` |
| `EngineLoopProofs` | `EngineAssumption`: natural limits, finitely many slots | `SlotsAreOwned`, `WaitsForTextOnly`, `TextIsFedExactly`, `ExitIsTerminal` | `SlotsOwned`, `WaitsOnlyForText`, `FedExactly` for every task but `voice_design`, `ExitsWithTerminal` |
| `WebsocketResumeProofs` | `ResumeAssumption`: natural bounds, at least one connection, attempt and place in the buffer, positive `AckInterval` and `FailsFrom` | `TextReachesOnce`, `ClosedIsTold`, `NewestIsOwner`, `ResumeTypesHold`, `WsStreamIsImplemented` | `TextOnce`, `ClosedMeansTold`, `NewestOwns`, `ResumeTypeOK`, `StreamImplemented` |

Every argument is the same three steps: an inductive invariant holds at the
start, every step keeps it, and it implies the property (a refinement: it makes
every step one of the abstract specification, or a stutter). The invariants, and
why the property alone is not enough:

**DeliveryLedger.** `RecordsInv`. `acknowledge` pops while the head's number and
end sample are not beyond the acknowledged ones, and it pops exactly the
acknowledged deliveries only because the ends are monotone (`EndsMonotone`);
`TrimCountExact` is that fact. `QueuesInv` adds for the queues that every message
in them is the delivery of its number (`Genuine`), that the newest attachment's
queue ends with the last delivery (`NewestLast`), and what may stand behind a
fence.

**MLFQ.** `BatchFresh` is added to `BoundedWait`: the rows of a batch have waited
zero steps, so the demotion in `on_step_done` cannot bring a long wait to the
lowest level.

**ResumableSession.** First `SessionShape` with `RecordsInv`: every step of the
session takes the ledger by a step of `LedgerNext` or leaves it alone, which gives
the session all that is proved of the ledger.
`SessionInv` then adds what connects the server with the client: every frame on a
wire is a published delivery (`WiresGenuine`), nothing is acknowledged that was
not heard, on any connection, old or new (`AcksHeard`), a served newest
connection is attached (`NewestAttached`), and wire and queue together continue
the client's cursor (`ChainInv`). `ResumeCursorRetained` rests on `AcksHeard`:
the ledger trims only what an acknowledgement on its way says, so an
acknowledgement that arrives late cannot overtake the client. `ClosingIsFinal`
needs `EndingInv`: a terminal output in the queue, a terminal timer and a close
that will put a fence each mean that the handle has its last output, so a `close()`
that raises leaves no pump with more to publish.

**ConnectionPool.** `PoolInv`. That a connection is claimed once needs the places
one by one (`PlacesInv`): where it is idle, handed over, held and probed, these
exclude each other. `QueueInv` says that who sleeps is queued and that a queued
thread has no hand-off. `Kept`, what a Python list keeps of itself, is proved to
preserve order and uniqueness by counting (`KeptProperties`).

**EngineLoop.** `EngineInv`. `SlotsOwned` needs that a slot of the step in
flight has room for it (`BatchInv`) and is kept by the release paths only because
`seg_by_slot`, `seg.slot` and `is_free` change together (`Owned`). `ReadInv` is
`WaitsOnlyForText` with the fact that makes it inductive, that no slot reads past
its text. For `FedExactly` the invariant `FedInv` adds where padding may stand
(`Padded`), and `DeferredInv` that tokens wait only while a drain is under way.

**WebsocketResume.** `WsInv`. What is on its way is described by the sets `Down`
and `Up`, which depend on the state: a frame acknowledges no more text than was
accepted and names a published delivery, a message carries text that was sent and
acknowledges nothing that was not heard. They only grow (`DownGrows`, `UpGrows`),
which is why a frame that is late by any number of reconnects is harmless.
`HeardInv` relates what the caller heard, the pending audio header, the trimmed
part and the buffer bound; `TextInv` the text in the session, in the engine and in
the lock; `OwnerInv` and `StartInv` the generations.

Only model-checked:

- liveness (`ClientSettles`, `SessionReclaimed`, `Served`, `AcquireSettles`,
  `CompletionAnnounced`) and `NeverStuck`, which is about ENABLED: out of this
  prover's reach;
- `TextInOrder` of `Spliter` and `RequestsInOrder` of `TextInput`, whose statements
  flatten a sequence of texts: what a fold computes needs an induction over data;
- `FedExactly` in a `voice_design` task is not claimed: the prefill closes the text
  there while it is still growing (`EosIsLast`, section 5);
- the other safety properties of `Spliter`, `Playback`, `TextInput` and
  `RealtimeGateway`, not proved yet.

## 5. What the models show beyond the runs

Each of these statements is a definition of its module and fails when it is
added to the module's configuration with the constants given.

| Property | Constants | Statement of the repository | What the code does |
|---|---|---|---|
| `ResumableSession!StopIsExplicit` | `QueueMax = 1` | `streaming_protocol.md:132`: failure "is explicit rather than silently dropping output" | a put into a full attachment queue (`reliability.py:210`) ends the pump, records no failure and publishes no end |
| `ResumableSession!DetachedExpires` | as in `MCSession.cfg` | `streaming_protocol.md:131`: the replay log "expires after the advertised grace period" | `attach()` cancels the grace timer before the ledger rejects the resume, and arms none (`resumable.py:116`) |
| `EngineLoop!EosIsLast` | `Tasks = {"voice_design"}` | `incremental_text_normalization_and_soft_drain.md:793` forbids to "Place text after EOS/PAD" | a voice-design prefill closes text that is still growing (`prefill.py:646`) |
| `EngineLoop!OverflowCarried` | `MaxSeqLen = 1`, `MaxText = 3` | `frontend_segmentation_pipeline.md:189`: the backend "automatically prepends the unconsumed tokens to the next segment" | text unread when a slot is full is dropped (`engine_loop.py:2502`) |
| `Playback!EndAfterAudio` | as in `MCPlayback.cfg` | `interface.py:2045`: the end is "published only after this segment's own held audio has been settled" | for a drained lookahead segment it is published before (`interface.py:2540`, then `_settle_hold` at 2545) |
| `WebsocketResume!CancelHolds` | as in `MCResume.cfg` | `engine_websocket.py:2086`: "a dead connection already achieves what cancel wanted (the server tears the session down on disconnect)" | the reader's recovery resumes the stream and the cancel is forgotten |
| `WebsocketResume!ProtocolFailureReal` | as in `MCResume.cfg` | `engine_websocket.py:1276`: a protocol failure "is deterministic. Reconnecting cannot repair it" | a recovery led by the sender clears the audio header under the reader, which then fails a stream that could be resumed |
| `TextInput!EngineOrder` | as in `MCTextInput.cfg` | the order of the inbox is the order of the text (`dispatcher.py:70`: "Queue ordering gives the engine thread a happens-before edge") | with a full inbox the requests one task has computed are overtaken by the consumer's later ones, which it submits without the lock |
| `RealtimeGateway!EveryResponseBilled` | as in `MCRealtime.cfg` | `openai_realtime.md`: "Cancelled and failed responses retain partial usage." | a session that expires is closed before its pump has published the cancelled end, and is not billed |
| `RealtimeGateway!TextStaysInResponse` | as in `MCRealtime.cfg` | `openai_realtime.py:303`: "The buffer is response-scoped."; a connection-wide journal "could leak accepted text into the next response" | text that arrives after its response has ended is kept with the old journal and spoken in the next response |

Smaller observations, met while modelling:

- `ResumableSession`: with a full attachment queue a terminal delivery can leave a
  session without any expiry timer, and a resume whose replay overflows leaves an
  attachment without a handler.
- `WebsocketResume`: `_handle_text_ack` has no generation check; a terminal event
  on the old connection during a recovery led by the sender releases a connection
  that the recovery then discards, and may add an error after the end.
- `ConnectionPool`: a prewarm worker at the head of the queue holds back callers
  behind it until its own timeout.
- `TextInput`: `mark_input_complete` after the cleanup leaves a lock entry behind.
- `RealtimeGateway`: the three leaks that `NoOrphans` excepts. A response that fails
  because the replay buffer was exceeded is finished without being detached and
  without a terminal acknowledgement, so its session stays registered until
  shutdown. A request that raises between `claim_start` and the assignment of
  `_active` leaves a registered, attached session its connection does not know. A
  start that is cancelled while it waits for a place in the engine's full inbox
  leaves the front end with a session that no handle leads to.
- `RealtimeGateway`: after a push that raised, a plain response takes neither text
  nor completion any more, until it is cancelled, because the handle has counted
  the text. In a reliable response that text is lost: the client's retry is
  acknowledged as a duplicate. So is the retry of a completion that raised,
  although the engine was not told.
- `RealtimeGateway`: a refused resume has cancelled the grace timer by then. A
  failed reliable `response.create` loses the buffered text. `response.created` of
  the next response may precede `response.done` of the last one. Text appended
  after a commit is accepted until the engine has started.

## 6. Not modelled

Tensor computation, embeddings, the codec, VAD and formatting (outcomes are
choices). Text normalisation, the committer, the journal and the coordinates:
pure computation over text, whose effect on the control is how much is committed
and when. Wall-clock time (anything that may be due may happen). In the engine
loop: extension policies, the native cursor, speech-state migration, and the
death of the thread by an uncaught exception. In the consumer: the optional
semantic start gate and prefix VAD, and the bound of the result queue. In the
gateways: native and legacy streams without a resume token, session settings and
playback progress. gRPC, Triton with its sidecar, and the browser client: further
transports, each a model of its own. Start-up, configuration, export and validation tools,
which have no interleavings; with the executor they are most of the repository's
lines.

## 7. Plan

1. Proofs: `BilledOnce`, `EventsInOrder`, `TextReachesEngine` and `NoOrphans` of
   `RealtimeGateway`; `CompletionCoversText` and `JournalStaysClosed` of `TextInput`;
   `EndsInOrder` and `DoneIsLast` of `Playback`; `PlanObeyed` of `Spliter`.
2. The committer's stable prefix and the text journal as pure machines; the
   two-ratio controller; the prefix cache.
3. Triton sequences and the sidecar; gRPC; the browser client.
