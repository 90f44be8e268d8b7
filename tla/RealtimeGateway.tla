-------------------------- MODULE RealtimeGateway --------------------------
(***************************************************************************)
(* The OpenAI Realtime endpoint (engine/gateway/openai_realtime): the      *)
(* reader of each WebSocket connection, the task of each response, the     *)
(* response state that a resumed connection shares with the one before it, *)
(* and the usage record.  A response is plain (it lives and dies with its  *)
(* connection, over RealtimeSessionServiceBackend) or reliable (a          *)
(* ResumableLogicalSession that outlives it).                              *)
(*                                                                         *)
(* A reader handles one client event at a time; what the client may send   *)
(* is chosen when it is handled, so there is no uplink.  An event the      *)
(* gateway answers with an error and nothing else is no step.  The ledger  *)
(* of a reliable session is DeliveryLedger's subject: here it only keeps   *)
(* its records, the attachment and the queue of each attachment.           *)
(***************************************************************************)
EXTENDS Integers, Sequences, FiniteSets, Functions

CONSTANTS
    MaxResponses,   \* responses a behaviour creates
    MaxConns,       \* connections a behaviour opens
    MaxInputs,      \* joint bound: a response or connection counts two, a text or a
                    \* call that raises one
    MaxText,        \* pieces of text a behaviour's clients send
    MaxAudio,       \* audio frames a behaviour's engine generates
    MaxReliable,    \* responses a behaviour creates with a resume token
    Takeover        \* may a client resume before the server misses its old connection?

ASSUME RealtimeAssumption ==
    /\ MaxResponses \in Nat \ {0} /\ MaxConns \in Nat \ {0} /\ MaxInputs \in Nat
    /\ MaxText \in Nat /\ MaxAudio \in Nat
    /\ MaxReliable \in Nat
    /\ Takeover \in BOOLEAN

Responses == 1..MaxResponses
Conns == 1..MaxConns

VARIABLES
    ws,             \* "unused", "open", "broken" (the client is gone), "closed"
    reader,         \* what run() of the connection is doing
    active,         \* _active: a response, 0 if none
    last_terminal,  \* _last_terminal
    buffer,         \* _buffer: the _TextBuffer of the connection
    conversation,   \* _conversation_text
    voice_locked,   \* _voice_locked
    sent,           \* sent[r][c]: events of r that reached the client on c
    created,        \* responses created so far
    texts,          \* pieces of text sent so far
    state,          \* state[r]: the _ResponseState
    task,           \* task[r][c]: the response task of r on c
    feed,           \* feed[r]: initial chunks its start still has to push
    bills,          \* bills[r]: its usage records
    session,        \* session[r]: "none", "registered", "open", "closed" in the backend
    journal,        \* journal[r]: chunks its SessionHandle has accepted
    input_closed,   \* input_closed[r]: its SessionHandle takes no more text
    pushed,         \* pushed[r]: chunks the engine has taken
    completed,      \* completed[r]: the engine knows that the input is complete
    produced,       \* audio frames generated
    queue,          \* queue[r]: frames for the task of a plain response
    life,           \* "none", "registered", "closing", "removed": reliable session
    records,        \* records[r]: its deliveries
    attached,       \* attached[r]: the connection of its attachment, 0 if none
    queues,         \* queues[r][c]: the queue of the attachment of c
    failed,         \* failed[r]: its replay buffer was exceeded
    observing,      \* observing[r]: its observer waits for the usage recorder
    grace,          \* grace[r]: expire_detached() is scheduled
    expiring        \* expiring[r]: the terminal expiry is scheduled

connVars == <<ws, reader, active, last_terminal, buffer, conversation, voice_locked>>
responseVars == <<created, texts, state, task, feed, bills>>
inputVars == <<journal, input_closed, pushed, completed>>
backendVars == <<session, inputVars, produced, queue>>
sessionVars == <<life, records, attached, queues, failed, observing, grace, expiring>>
vars == <<connVars, sent, responseVars, backendVars, sessionVars>>

\* A chunk of text: the response the client means it for, and its number among the
\* texts of the behaviour.  Its sequence number is the next one of its journal; the
\* gateway answers any other with an error or as a duplicate.
NoChunk == <<0, 0>>
NewChunk(r) == <<r, texts + 1>>
Event(type, n) == [type |-> type, seq |-> n]

Busy(at, r, chunk) == [at |-> at, resp |-> r, chunk |-> chunk, closing |-> FALSE]
Idle == Busy("idle", 0, NoChunk)

EmptyBuffer == [chunks |-> <<>>, committed |-> FALSE]

NewState ==
    [resume_token |-> FALSE, pending |-> <<>>, commit_requested |-> FALSE, input_chunks |-> <<>>,
     engine_started |-> FALSE, input_complete |-> FALSE, audio_samples |-> 0,
     finished |-> FALSE, billed |-> FALSE, attachment |-> 0, task |-> 0]

Init ==
    /\ ws = [c \in Conns |-> IF c = 1 THEN "open" ELSE "unused"]
    /\ reader = [c \in Conns |-> Idle]
    /\ active = [c \in Conns |-> 0]
    /\ last_terminal = [c \in Conns |-> 0]
    /\ buffer = [c \in Conns |-> EmptyBuffer]
    /\ conversation = [c \in Conns |-> <<>>]
    /\ voice_locked = [c \in Conns |-> FALSE]
    /\ sent = [r \in Responses |-> [c \in Conns |-> <<>>]]
    /\ created = 0
    /\ texts = 0
    /\ state = [r \in Responses |-> NewState]
    /\ task = [r \in Responses |-> [c \in Conns |-> "none"]]
    /\ feed = [r \in Responses |-> <<>>]
    /\ bills = [r \in Responses |-> <<>>]
    /\ session = [r \in Responses |-> "none"]
    /\ journal = [r \in Responses |-> <<>>]
    /\ input_closed = [r \in Responses |-> FALSE]
    /\ pushed = [r \in Responses |-> <<>>]
    /\ completed = [r \in Responses |-> FALSE]
    /\ produced = 0
    /\ queue = [r \in Responses |-> <<>>]
    /\ life = [r \in Responses |-> "none"]
    /\ records = [r \in Responses |-> <<>>]
    /\ attached = [r \in Responses |-> 0]
    /\ queues = [r \in Responses |-> [c \in Conns |-> <<>>]]
    /\ failed = [r \in Responses |-> FALSE]
    /\ observing = [r \in Responses |-> FALSE]
    /\ grace = [r \in Responses |-> FALSE]
    /\ expiring = [r \in Responses |-> FALSE]

-----------------------------------------------------------------------------
(* What the handlers share.                                                *)

\* The reader of c can take the next event of its client.
Ready(c) == ws[c] = "open" /\ reader[c] = Idle

\* There is a response in progress on c.
InProgress(c) == active[c] # 0 /\ ~state[active[c]].finished

\* The responses that were created with a resume token.
Reliable == {r \in Responses : state[r].resume_token}

\* The handlers take the reliable path for r.
Resumable(r) == r \in Reliable /\ state[r].attachment # 0

\* The ingest lock of r is held, by its start or by a reader.
Ingesting(r) ==
    \/ \E c \in Conns : task[r][c] = "feeding"
    \/ \E c \in Conns : reader[c].resp = r /\ reader[c].at \in {"pushing", "pushed", "completing"}

\* _send(): nothing reaches a client that is gone.
Sent(r, c, event) ==
    IF ws[c] = "open" THEN [sent EXCEPT ![r][c] = Append(@, event)] ELSE sent

Usage(r) == [text |-> Len(state[r].input_chunks), audio |-> state[r].audio_samples]

\* Records the usage each time it is asked to.
RecordUsageAlways(r) == bills' = [bills EXCEPT ![r] = Append(@, Usage(r))]

\* _record_usage_once(): the claim comes before the recorder can suspend.
RecordUsageOnce(r) ==
    bills' = (IF state[r].billed THEN bills ELSE [bills EXCEPT ![r] = Append(@, Usage(r))])

\* The first part of _finish_response(), up to the await of the recorder.
FinishBegins(r) ==
    /\ RecordUsageOnce(r)
    /\ state' = [state EXCEPT ![r].finished = TRUE, ![r].billed = TRUE]

\* Clears the connection's active response, whichever it is.
ReleasesAny(r, c) ==
    /\ active' = [active EXCEPT ![c] = 0]
    /\ voice_locked' = [voice_locked EXCEPT ![c] = FALSE]

\* The end of _finish_response(): another response may be active by now.
Releases(r, c) ==
    IF active[c] = r
    THEN /\ active' = [active EXCEPT ![c] = 0]
         /\ voice_locked' = [voice_locked EXCEPT ![c] = FALSE]
    ELSE UNCHANGED <<active, voice_locked>>

\* The session the backend calls reach: a plain response's while it is known to
\* the service, a reliable one's through its attachment.
Reachable(r) ==
    session[r] = "open" /\ (r \in Reliable => state[r].attachment # 0)

\* RealtimeSessionServiceBackend counts the pushes that returned; its handle counts
\* the chunks it accepted.  After a push that raised, the two differ for good, and
\* the handle refuses every call that follows.
InStep(r) == r \in Reliable \/ Len(journal[r]) = Len(pushed[r])

Accepts(r) == Reachable(r) /\ InStep(r) /\ ~input_closed[r]

\* The calls that raised in the session of r though the handle accepted them.
Raised(r) ==
    Len(journal[r]) - Len(pushed[r]) + (IF input_closed[r] /\ ~completed[r] THEN 1 ELSE 0)

\* The bounds on what a behaviour opens, creates, sends and lets fail.
MayInput(n) ==
    2 * created + texts + 2 * Cardinality({c \in Conns : ws[c] # "unused"})
        + FoldFunction(+, 0, [r \in Responses |-> Raised(r)]) + n <= MaxInputs
MayCreate == created < MaxResponses /\ MayInput(2)
SendsText == MayInput(1) /\ texts < MaxText /\ texts' = texts + 1

\* append_text() of the handle accepts the chunk; then the engine takes it, or
\* its text actor raises.
Append_Text(r, chunk, taken) ==
    /\ Accepts(r)
    /\ taken \/ MayInput(1)
    /\ journal' = [journal EXCEPT ![r] = Append(@, chunk)]
    /\ pushed' = (IF taken THEN [pushed EXCEPT ![r] = Append(@, chunk)] ELSE pushed)
    /\ UNCHANGED <<input_closed, completed>>

\* complete_input() of the handle closes the input; then the engine is told, or
\* the call raises.
Complete_Input(r, told) ==
    /\ Accepts(r)
    /\ told \/ MayInput(1)
    /\ input_closed' = [input_closed EXCEPT ![r] = TRUE]
    /\ completed' = [completed EXCEPT ![r] = told]
    /\ UNCHANGED <<journal, pushed>>

-----------------------------------------------------------------------------
(* Client events: creating a response.                                     *)

\* The client opens another connection.
Connect(c) ==
    /\ ws[c] = "unused" /\ ws[c - 1] \notin {"unused", "open"}
    /\ MayInput(2)
    /\ Takeover \/ \A d \in 1..(c - 1) : reader[d].at = "gone"
    /\ ws' = [ws EXCEPT ![c] = "open"]
    /\ UNCHANGED <<reader, active, last_terminal, buffer, conversation, voice_locked,
                   sent, responseVars, backendVars, sessionVars>>

\* conversation.item.create, once before a response.
CreateItem(c) ==
    /\ Ready(c)
    /\ MayCreate /\ conversation[c] = <<>>
    /\ SendsText
    /\ conversation' = [conversation EXCEPT ![c] = <<NewChunk(created + 1)>>]
    /\ UNCHANGED <<ws, reader, active, last_terminal, buffer, voice_locked, sent,
                   created, state, task, feed, bills, backendVars, sessionVars>>

\* response.create takes over the conversation's and the buffer's text.  A plain
\* response becomes active at once and its task starts; a reliable one claims
\* its resume token first.
Create(c) ==
    /\ Ready(c) /\ ~InProgress(c)
    /\ MayCreate
    /\ \E token \in BOOLEAN :
       LET r == created + 1
           initial == conversation[c] \o buffer[c].chunks
           commit == \/ buffer[c].committed
                     \/ conversation[c] # <<>> /\ buffer[c].chunks = <<>>
       IN  /\ token => Cardinality(Reliable) < MaxReliable
           /\ created' = r
           /\ conversation' = [conversation EXCEPT ![c] = <<>>]
           /\ buffer' = [buffer EXCEPT ![c] = EmptyBuffer]
           /\ state' = [state EXCEPT ![r] =
                  [NewState EXCEPT !.resume_token = token,
                                   !.pending = initial, !.input_chunks = initial,
                                   !.commit_requested = commit,
                                   !.task = IF token THEN 0 ELSE c]]
           /\ \/ /\ token
                 /\ reader' = [reader EXCEPT ![c] = Busy("claiming", r, NoChunk)]
                 /\ UNCHANGED <<active, sent, task>>
              \/ /\ ~token
                 /\ active' = [active EXCEPT ![c] = r]
                 /\ sent' = Sent(r, c, Event("created", 0))
                 /\ task' = [task EXCEPT ![r][c] = "starting"]
                 /\ UNCHANGED reader
    /\ UNCHANGED <<ws, last_terminal, voice_locked, texts, feed, bills, backendVars,
                   sessionVars>>

\* claim_start() has created the session, and the connection attaches.
Claimed(c) ==
    /\ reader[c].at = "claiming"
    /\ LET r == reader[c].resp
       IN  /\ life' = [life EXCEPT ![r] = "registered"]
           /\ session' = [session EXCEPT ![r] = "open"]
           /\ attached' = [attached EXCEPT ![r] = c]
           /\ state' = [state EXCEPT ![r].attachment = c, ![r].engine_started = TRUE]
           /\ feed' = [feed EXCEPT ![r] = state[r].pending]
           /\ reader' = [reader EXCEPT ![c].at = "seeding"]
    /\ UNCHANGED <<ws, active, last_terminal, buffer, conversation, voice_locked, sent,
                   created, texts, task, bills, inputVars, produced, queue, records,
                   queues, failed, observing, grace, expiring>>

\* The request raises before the response becomes active: the session could not
\* be created, it ended while its initial text was pushed, or one of the calls
\* raised.  Nothing undoes the claim.
CreateFails(c) ==
    /\ LET r == reader[c].resp
       IN  \/ /\ reader[c].at = "claiming"
              /\ UNCHANGED inputVars
           \/ /\ reader[c].at = "seeding" /\ feed[r] # <<>>
              /\ \/ Append_Text(r, Head(feed[r]), FALSE)
                 \/ ~Accepts(r) /\ UNCHANGED inputVars
           \/ /\ reader[c].at = "seeding" /\ feed[r] = <<>> /\ state[r].commit_requested
              /\ \/ Complete_Input(r, FALSE)
                 \/ ~Accepts(r) /\ UNCHANGED inputVars
    /\ reader' = [reader EXCEPT ![c] = Idle]
    /\ UNCHANGED <<ws, active, last_terminal, buffer, conversation, voice_locked, sent,
                   responseVars, session, produced, queue, sessionVars>>

\* One initial chunk of a reliable response.
Seed(c) ==
    /\ reader[c].at = "seeding"
    /\ LET r == reader[c].resp
       IN  /\ feed[r] # <<>>
           /\ Append_Text(r, Head(feed[r]), TRUE)
           /\ feed' = [feed EXCEPT ![r] = Tail(@)]
    /\ UNCHANGED <<connVars, sent, created, texts, state, task, bills, session, produced,
                   queue, sessionVars>>

\* The reliable response becomes active and its task starts.
Activate(c) ==
    /\ reader[c].at = "seeding"
    /\ LET r == reader[c].resp
           commit == state[r].commit_requested
       IN  /\ feed[r] = <<>>
           /\ IF commit THEN Complete_Input(r, TRUE) ELSE UNCHANGED inputVars
           /\ state' = [state EXCEPT ![r].input_complete = commit, ![r].task = c]
           /\ active' = [active EXCEPT ![c] = r]
           /\ sent' = Sent(r, c, Event("created", 0))
           /\ task' = [task EXCEPT ![r][c] = "serving"]
    /\ reader' = [reader EXCEPT ![c] = Idle]
    /\ UNCHANGED <<ws, last_terminal, buffer, conversation, voice_locked, created, texts, feed,
                   bills, session, produced, queue, sessionVars>>

-----------------------------------------------------------------------------
(* Client events: text.                                                    *)

\* The response the client means a chunk for: its latest one, and the next one
\* once it may have seen the latest end.
Meant(c) ==
    {r \in 1..created : r = created}
        \cup (IF InProgress(c) THEN {} ELSE {created + 1} \cap Responses)

\* Takes the chunk for the active response without the ingest lock.
MayIngestUnlocked(r) == TRUE

MayIngest(r) == ~Ingesting(r)

\* qwen.input_text_buffer.append outside a response: the buffer keeps the text.
AppendToBuffer(c) ==
    /\ Ready(c) /\ ~InProgress(c)
    /\ MayCreate /\ ~buffer[c].committed
    /\ SendsText
    /\ \E r \in Meant(c) :
          buffer' = [buffer EXCEPT ![c].chunks = Append(@, NewChunk(r))]
    /\ UNCHANGED <<ws, reader, active, last_terminal, conversation, voice_locked, sent,
                   created, state, task, feed, bills, backendVars, sessionVars>>

\* The same for the active plain response: before the engine has started the text
\* waits in pending_chunks.
AppendToResponse(c) ==
    /\ Ready(c) /\ InProgress(c)
    /\ SendsText
    /\ LET r == active[c]
       IN  /\ ~Resumable(r) /\ MayIngest(r) /\ ~state[r].input_complete
           /\ IF state[r].engine_started
              THEN /\ reader' = [reader EXCEPT ![c] = Busy("pushing", r, NewChunk(r))]
                   /\ state' = [state EXCEPT ![r].input_chunks = Append(@, NewChunk(r))]
              ELSE /\ state' = [state EXCEPT ![r].input_chunks = Append(@, NewChunk(r)),
                                             ![r].pending = Append(@, NewChunk(r))]
                   /\ UNCHANGED reader
    /\ UNCHANGED <<ws, active, last_terminal, buffer, conversation, voice_locked, sent, created,
                   task, feed, bills, backendVars, sessionVars>>

\* The same for a reliable response: its session checks the sequence.
AppendReliable(c) ==
    /\ Ready(c) /\ InProgress(c)
    /\ SendsText
    /\ LET r == active[c]
       IN  /\ Resumable(r) /\ ~Ingesting(r)
           /\ attached[r] = state[r].attachment
           /\ session[r] = "open" /\ ~input_closed[r]
           /\ reader' = [reader EXCEPT ![c] =
                  Busy("pushing", r, NewChunk(r))]
    /\ UNCHANGED <<ws, active, last_terminal, buffer, conversation, voice_locked, sent,
                   created, state, task, feed, bills, backendVars, sessionVars>>

\* The engine takes the chunk, or the push raises: because the session has ended,
\* the handle refuses, or the engine's text actor failed.
Push(c) ==
    /\ reader[c].at = "pushing"
    /\ \/ /\ Append_Text(reader[c].resp, reader[c].chunk, TRUE)
          /\ reader' = [reader EXCEPT ![c].at = "pushed"]
       \/ /\ Append_Text(reader[c].resp, reader[c].chunk, FALSE)
          /\ reader' = [reader EXCEPT ![c] = Idle]
       \/ /\ ~Accepts(reader[c].resp)
          /\ reader' = [reader EXCEPT ![c] = Idle]
          /\ UNCHANGED inputVars
    /\ UNCHANGED <<ws, active, last_terminal, buffer, conversation, voice_locked, sent,
                   responseVars, session, produced, queue, sessionVars>>

\* The push returns; a reliable response counts the chunk only now.
PushReturns(c) ==
    /\ reader[c].at = "pushed"
    /\ LET r == reader[c].resp
       IN  state' = (IF r \in Reliable
                     THEN [state EXCEPT ![r].input_chunks = Append(@, reader[c].chunk)]
                     ELSE state)
    /\ reader' = [reader EXCEPT ![c] = Idle]
    /\ UNCHANGED <<ws, active, last_terminal, buffer, conversation, voice_locked, sent,
                   created, texts, task, feed, bills, backendVars, sessionVars>>

\* qwen.input_text_buffer.commit.
Commit(c) ==
    /\ Ready(c)
    /\ \/ /\ ~InProgress(c) /\ MayCreate
          /\ buffer' = [buffer EXCEPT ![c].committed = TRUE]
          /\ UNCHANGED <<reader, state>>
       \/ /\ InProgress(c) /\ ~Ingesting(active[c])
          /\ LET r == active[c]
             IN  /\ ~state[r].input_complete
                 /\ IF Resumable(r) \/ state[r].engine_started
                    THEN /\ reader' = [reader EXCEPT ![c] =
                                Busy("completing", r, NoChunk)]
                         /\ state' = [state EXCEPT ![r].input_complete = ~Resumable(r),
                                                   ![r].commit_requested = @ \/ ~Resumable(r)]
                    ELSE /\ state' = [state EXCEPT ![r].commit_requested = TRUE]
                         /\ UNCHANGED reader
          /\ UNCHANGED buffer
    /\ UNCHANGED <<ws, active, last_terminal, conversation, voice_locked, sent, created, texts,
                   task, feed, bills, backendVars, sessionVars>>

\* complete_input() returns or raises.  The handle answers a second call for a
\* reliable response as a duplicate, also when the first one raised.
CompleteReturns(c) ==
    /\ reader[c].at = "completing"
    /\ LET r == reader[c].resp
           duplicate == Reachable(r) /\ InStep(r) /\ input_closed[r]
       IN  /\ \/ Complete_Input(r, TRUE)
              \/ Complete_Input(r, FALSE)
              \/ ~Accepts(r) /\ UNCHANGED inputVars
           /\ state' = [state EXCEPT ![r].input_complete = @ \/ completed'[r] \/ duplicate]
    /\ reader' = [reader EXCEPT ![c] = Idle]
    /\ UNCHANGED <<ws, active, last_terminal, buffer, conversation, voice_locked, sent,
                   created, texts, task, feed, bills, session, produced, queue, sessionVars>>

-----------------------------------------------------------------------------
(* The response task of a plain response.                                  *)

\* Inside backend.start() the frontend registers the session and puts it into the
\* engine's inbox, where it may have to wait.
StartRegisters(r, c) ==
    /\ task[r][c] = "starting"
    /\ session' = [session EXCEPT ![r] = "registered"]
    /\ task' = [task EXCEPT ![r][c] = "submitting"]
    /\ UNCHANGED <<connVars, sent, created, texts, state, feed, bills, inputVars, produced,
                   queue, sessionVars>>

\* backend.start() returns: under the ingest lock the task takes what is pending.
StartReturns(r, c) ==
    /\ task[r][c] = "submitting"
    /\ session' = [session EXCEPT ![r] = "open"]
    /\ state' = [state EXCEPT ![r].engine_started = TRUE, ![r].pending = <<>>]
    /\ feed' = [feed EXCEPT ![r] = state[r].pending]
    /\ task' = [task EXCEPT ![r][c] = "feeding"]
    /\ UNCHANGED <<connVars, sent, created, texts, bills, inputVars, produced, queue,
                   sessionVars>>

\* backend.start() raises, for instance because the engine is at its capacity.
StartFails(r, c) ==
    /\ task[r][c] = "starting"
    /\ FinishBegins(r)
    /\ task' = [task EXCEPT ![r][c] = "recording"]
    /\ UNCHANGED <<connVars, sent, created, texts, feed, backendVars, sessionVars>>

\* The start still has to complete the input.
OwesCommit(r) == feed[r] = <<>> /\ state[r].commit_requested /\ ~state[r].input_complete

\* Pushes one chunk, or completes the input if it was committed, and serves.
Feed(r, c) ==
    /\ task[r][c] = "feeding"
    /\ \/ /\ feed[r] # <<>>
          /\ Append_Text(r, Head(feed[r]), TRUE)
          /\ feed' = [feed EXCEPT ![r] = Tail(@)]
          /\ UNCHANGED <<task, state>>
       \/ /\ feed[r] = <<>>
          /\ IF OwesCommit(r) THEN Complete_Input(r, TRUE) ELSE UNCHANGED inputVars
          /\ state' = [state EXCEPT ![r].input_complete = @ \/ OwesCommit(r)]
          /\ task' = [task EXCEPT ![r][c] = "serving"]
          /\ UNCHANGED feed
    /\ UNCHANGED <<connVars, sent, created, texts, bills, session, produced, queue, sessionVars>>

\* One of these calls raises.
FeedFails(r, c) ==
    /\ task[r][c] = "feeding"
    /\ \/ /\ feed[r] # <<>>
          /\ \/ Append_Text(r, Head(feed[r]), FALSE)
             \/ ~Accepts(r) /\ UNCHANGED inputVars
       \/ /\ OwesCommit(r)
          /\ \/ Complete_Input(r, FALSE)
             \/ ~Accepts(r) /\ UNCHANGED inputVars
    /\ state' = [state EXCEPT ![r].input_complete = @ \/ OwesCommit(r)]
    /\ task' = [task EXCEPT ![r][c] = "failing"]
    /\ UNCHANGED <<connVars, sent, created, texts, feed, bills, session, produced, queue,
                   sessionVars>>

\* The error path: backend.cancel(), then the response is finished as failed.
Fail(r, c) ==
    /\ task[r][c] = "failing"
    /\ session' = [session EXCEPT ![r] = "closed"]
    /\ FinishBegins(r)
    /\ task' = [task EXCEPT ![r][c] = "recording"]
    /\ UNCHANGED <<connVars, sent, created, texts, feed, inputVars, produced, queue,
                   sessionVars>>

\* One frame of a plain response: audio is counted and sent, the terminal frame
\* finishes the response.
Serve(r, c) ==
    /\ task[r][c] = "serving" /\ r \notin Reliable
    /\ queue[r] # <<>>
    /\ queue' = [queue EXCEPT ![r] = Tail(@)]
    /\ IF Head(queue[r]) = "audio"
       THEN /\ state' = [state EXCEPT ![r].audio_samples = @ + 1]
            /\ voice_locked' = [voice_locked EXCEPT ![c] = TRUE]
            /\ sent' = Sent(r, c, Event("audio", state[r].audio_samples + 1))
            /\ UNCHANGED <<task, bills>>
       ELSE /\ FinishBegins(r)
            /\ task' = [task EXCEPT ![r][c] = "recording"]
            /\ UNCHANGED <<voice_locked, sent>>
    /\ UNCHANGED <<ws, reader, active, last_terminal, buffer, conversation, created, texts, feed,
                   session, inputVars, produced, sessionVars>>

\* A send on a connection that is gone raises, and the error handler's send too;
\* so does one of the closing events.
TaskDies(r, c) ==
    /\ ws[c] = "broken"
    /\ task[r][c] = "serving" \/ (task[r][c] = "recording" /\ ~observing[r])
    /\ task' = [task EXCEPT ![r][c] = "ended"]
    /\ UNCHANGED <<connVars, sent, created, texts, state, feed, bills, backendVars, sessionVars>>

\* The recorder is done (the observer's too, which holds the billing lock): the
\* closing events are sent and the connection is released.  After a terminal
\* delivery the response stays known for its acknowledgement.
TaskFinishes(r, c) ==
    /\ task[r][c] = "recording" /\ ~observing[r]
    /\ sent' = Sent(r, c, Event("done", 0))
    /\ Releases(r, c)
    /\ last_terminal' = (IF r \in Reliable /\ ~failed[r]
                         THEN [last_terminal EXCEPT ![c] = r] ELSE last_terminal)
    /\ task' = [task EXCEPT ![r][c] = "ended"]
    /\ UNCHANGED <<ws, reader, buffer, conversation, created, texts, state, feed, bills,
                   backendVars, sessionVars>>

-----------------------------------------------------------------------------
(* The engine and, for a reliable response, the session's pump.            *)

\* publish() and the observer, up to its await of the recorder: the observer
\* counts audio when it is generated, and bills when the terminal output is.
Publish(r, type, s) ==
    /\ records' = [records EXCEPT ![r] = Append(@, Event(type, Len(@) + 1))]
    /\ queues' = (IF attached[r] = 0 THEN queues
                  ELSE [queues EXCEPT ![r][attached[r]] =
                            Append(@, Event(type, Len(records[r]) + 1))])
    /\ IF type = "audio"
       THEN /\ state' = [s EXCEPT ![r].audio_samples = @ + 1]
            /\ UNCHANGED <<bills, observing>>
       ELSE /\ RecordUsageOnce(r)
            /\ state' = [s EXCEPT ![r].billed = TRUE]
            /\ observing' = [observing EXCEPT ![r] = TRUE]

EngineAudio(r) ==
    /\ session[r] = "open" /\ produced < MaxAudio
    /\ produced' = produced + 1
    /\ IF r \in Reliable
       THEN Publish(r, "audio", state) /\ UNCHANGED queue
       ELSE /\ queue' = [queue EXCEPT ![r] = Append(@, "audio")]
            /\ UNCHANGED <<records, queues, state, bills, observing>>
    /\ UNCHANGED <<connVars, sent, created, texts, task, feed, session, inputVars, life,
                   attached, failed, grace, expiring>>

\* The engine is done once the input is complete, and may fail at any time.
EngineEnds(r, type) ==
    /\ session[r] = "open"
    /\ type = "done" => completed[r]
    /\ session' = [session EXCEPT ![r] = "closed"]
    /\ IF r \in Reliable
       THEN Publish(r, "terminal", state) /\ UNCHANGED queue
       ELSE /\ queue' = [queue EXCEPT ![r] = Append(@, type)]
            /\ UNCHANGED <<records, queues, state, bills, observing>>
    /\ UNCHANGED <<connVars, sent, created, texts, task, feed, inputVars, produced, life,
                   attached, failed, grace, expiring>>

\* The replay buffer is exceeded: the attachment is told, the execution cancelled
\* and the pump ends.
Overflow(r) ==
    /\ r \in Reliable /\ session[r] = "open" /\ produced = MaxAudio
    /\ life[r] = "registered"
    /\ session' = [session EXCEPT ![r] = "closed"]
    /\ failed' = [failed EXCEPT ![r] = TRUE]
    /\ queues' = (IF attached[r] = 0 THEN queues
                  ELSE [queues EXCEPT ![r][attached[r]] = Append(@, Event("failure", 0))])
    /\ UNCHANGED <<connVars, sent, responseVars, inputVars, produced, queue, life,
                   records, attached, observing, grace, expiring>>

\* The recorder has the usage; the terminal expiry is scheduled.
ObserverReturns(r) ==
    /\ observing[r]
    /\ observing' = [observing EXCEPT ![r] = FALSE]
    /\ expiring' = [expiring EXCEPT ![r] = TRUE]
    /\ UNCHANGED <<connVars, sent, responseVars, backendVars, life, records, attached,
                   queues, failed, grace>>

-----------------------------------------------------------------------------
(* Reliable responses: projection, resume and acknowledgement.             *)

\* _run_reliable_response(): a fence closes the connection, a failure or the
\* terminal delivery finishes the response.
Project(r, c) ==
    /\ task[r][c] = "serving" /\ r \in Reliable
    /\ queues[r][c] # <<>>
    /\ queues' = [queues EXCEPT ![r][c] = Tail(@)]
    /\ LET m == Head(queues[r][c])
           finishes == m.type \in {"failure", "terminal"} /\ ~state[r].finished
       IN  /\ sent' = (IF m.type = "audio" THEN Sent(r, c, m) ELSE sent)
           /\ voice_locked' = [voice_locked EXCEPT ![c] = @ \/ m.type = "audio"]
           /\ ws' = [ws EXCEPT ![c] = IF m.type = "fence" THEN "closed" ELSE @]
           /\ task' = [task EXCEPT ![r][c] =
                  IF m.type = "audio" THEN @ ELSE IF finishes THEN "recording" ELSE "ended"]
           /\ last_terminal' = [last_terminal EXCEPT ![c] =
                  IF m.type = "terminal" /\ ~finishes THEN r ELSE @]
           /\ IF finishes THEN FinishBegins(r) ELSE UNCHANGED <<state, bills>>
    /\ UNCHANGED <<reader, active, buffer, conversation, created, texts, feed, backendVars, life,
                   records, attached, failed, observing, grace, expiring>>

\* The deliveries of r the client may have received.
Received(r) ==
    {0} \cup UNION {{sent[r][c][i].seq : i \in DOMAIN sent[r][c]} : c \in Conns}

\* The state of the response, which the old connection may still hold too, moves
\* to the new attachment.
TakesState(r, c) ==
    state' = [state EXCEPT ![r].attachment = c, ![r].task = c, ![r].finished = FALSE]

\* qwen.response.resume: the old attachment is fenced, the records after the
\* client's cursor are queued again and a new task projects them.
Resume(c) ==
    /\ Ready(c) /\ ~InProgress(c)
    /\ \E r \in Reliable, k \in 0..(MaxAudio + 1) :
          /\ life[r] = "registered" /\ ~failed[r] /\ task[r][c] = "none"
          /\ k \in Received(r)
          /\ grace' = [grace EXCEPT ![r] = FALSE]
          /\ attached' = [attached EXCEPT ![r] = c]
          /\ queues' = [queues EXCEPT ![r] = [d \in Conns |->
                 IF d = c THEN SubSeq(records[r], k + 1, Len(records[r]))
                 ELSE IF d = attached[r] THEN Append(@[d], Event("fence", 0))
                 ELSE @[d]]]
          /\ TakesState(r, c)
          /\ active' = [active EXCEPT ![c] = r]
          /\ voice_locked' = [voice_locked EXCEPT ![c] = state[r].audio_samples > 0]
          /\ sent' = Sent(r, c, Event("created", k))
          /\ task' = [task EXCEPT ![r][c] = "serving"]
    /\ UNCHANGED <<ws, reader, last_terminal, buffer, conversation, created, texts, feed, bills,
                   backendVars, life, records, failed, observing, expiring>>

\* A session whose replay buffer was exceeded refuses; its grace is gone.
ResumeRefused(c) ==
    /\ Ready(c) /\ ~InProgress(c)
    /\ \E r \in Reliable :
          /\ life[r] = "registered" /\ failed[r]
          /\ grace' = [grace EXCEPT ![r] = FALSE]
    /\ UNCHANGED <<connVars, sent, responseVars, backendVars, life, records, attached,
                   queues, failed, observing, expiring>>

\* The session leaves the registry; close() cancels its pump and its timers.
Removed(r) ==
    /\ life' = [life EXCEPT ![r] = "removed"]
    /\ attached' = [attached EXCEPT ![r] = 0]
    /\ grace' = [grace EXCEPT ![r] = FALSE]
    /\ expiring' = [expiring EXCEPT ![r] = FALSE]
    /\ observing' = [observing EXCEPT ![r] = FALSE]

\* qwen.response.terminal_ack, once the client has the end of the response.
TerminalAck(c) ==
    /\ Ready(c)
    /\ LET r == IF active[c] # 0 THEN active[c] ELSE last_terminal[c]
       IN  /\ r # 0 /\ Resumable(r)
           /\ Event("done", 0) \in Range(sent[r][c])
           /\ life[r] = "registered" /\ attached[r] = state[r].attachment
           /\ Removed(r)
           /\ state' = [state EXCEPT ![r].attachment = 0]
           /\ last_terminal' = [last_terminal EXCEPT ![c] = IF @ = r THEN 0 ELSE @]
    /\ UNCHANGED <<ws, reader, active, buffer, conversation, voice_locked, sent, created, texts,
                   task, feed, bills, backendVars, records, queues, failed>>

\* expire_detached(): a session nobody came back for is cancelled ...
GraceExpires(r) ==
    /\ grace[r] /\ life[r] = "registered"
    /\ grace' = [grace EXCEPT ![r] = FALSE]
    /\ life' = [life EXCEPT ![r] = IF attached[r] = 0 THEN "closing" ELSE @]
    /\ UNCHANGED <<connVars, sent, responseVars, backendVars, records, attached, queues,
                   failed, observing, expiring>>

\* ... and closed.  The terminal output of the cancellation is left in the
\* handle's queue: close() cancels the pump before it can take it.
CloseReturns(r) ==
    /\ life[r] = "closing"
    /\ Removed(r)
    /\ session' = [session EXCEPT ![r] = "closed"]
    /\ UNCHANGED <<connVars, sent, responseVars, inputVars, produced, queue,
                   records, queues, failed>>

\* The terminal expiry: the attachment is fenced.
TerminalExpires(r) ==
    /\ expiring[r] /\ life[r] = "registered"
    /\ Removed(r)
    /\ queues' = (IF attached[r] = 0 THEN queues
                  ELSE [queues EXCEPT ![r][attached[r]] = Append(@, Event("fence", 0))])
    /\ UNCHANGED <<connVars, sent, responseVars, backendVars, records, failed>>

-----------------------------------------------------------------------------
(* Cancelling a response and closing a connection.                         *)

\* Leaves the task of the response running.
StopsNothing(r) == task

\* task.cancel(), for the task the response's state names.
StopsTask(r) ==
    IF state[r].task = 0 THEN task ELSE [task EXCEPT ![r][state[r].task] = "ended"]

\* response.cancel of a plain response: its task is cancelled, then the session.
CancelPlain(c) ==
    /\ Ready(c) /\ InProgress(c) /\ ~Resumable(active[c])
    /\ task' = StopsTask(active[c])
    /\ reader' = [reader EXCEPT ![c] = Busy("cancelling", active[c], NoChunk)]
    /\ UNCHANGED <<ws, active, last_terminal, buffer, conversation, voice_locked, sent,
                   created, texts, state, feed, bills, backendVars, sessionVars>>

\* backend.cancel() returns; it reaches a plain session whose start has returned.
\* Nobody reads the response's queue any more.
CancelReturns(c) ==
    /\ reader[c].at = "cancelling"
    /\ LET r == reader[c].resp
       IN  /\ session' = (IF r \notin Reliable /\ state[r].engine_started
                          THEN [session EXCEPT ![r] = "closed"] ELSE session)
           /\ queue' = [queue EXCEPT ![r] = <<>>]
           /\ FinishBegins(r)
    /\ reader' = [reader EXCEPT ![c].at = "recording"]
    /\ UNCHANGED <<ws, active, last_terminal, buffer, conversation, voice_locked, sent,
                   created, texts, task, feed, inputVars, produced, sessionVars>>

\* The recorder is done; a closing connection sends no events.
ReaderFinishes(c) ==
    /\ reader[c].at = "recording" /\ ~observing[reader[c].resp]
    /\ sent' = (IF reader[c].closing THEN sent
                ELSE Sent(reader[c].resp, c, Event("done", 0)))
    /\ Releases(reader[c].resp, c)
    /\ reader' = [reader EXCEPT ![c] =
           IF reader[c].closing THEN [Idle EXCEPT !.at = "detaching"] ELSE Idle]
    /\ UNCHANGED <<ws, last_terminal, buffer, conversation, responseVars, backendVars,
                   sessionVars>>

\* response.cancel of a reliable response: its execution is cancelled.
CancelReliable(c) ==
    /\ Ready(c) /\ InProgress(c) /\ Resumable(active[c])
    /\ attached[active[c]] = state[active[c]].attachment
    /\ reader' = [reader EXCEPT ![c] = Busy("stopping", active[c], NoChunk)]
    /\ UNCHANGED <<ws, active, last_terminal, buffer, conversation, voice_locked, sent,
                   responseVars, backendVars, sessionVars>>

\* The cancelled terminal output is published, unless another one came first, and
\* the reader waits for the task to project it.
StopReturns(c) ==
    /\ reader[c].at = "stopping"
    /\ LET r == reader[c].resp
           stopped == [state EXCEPT ![r].input_complete = TRUE]
       IN  IF session[r] = "open"
           THEN /\ session' = [session EXCEPT ![r] = "closed"]
                /\ Publish(r, "terminal", stopped)
           ELSE /\ state' = stopped
                /\ UNCHANGED <<session, records, queues, bills, observing>>
    /\ reader' = [reader EXCEPT ![c].at = "awaiting"]
    /\ UNCHANGED <<ws, active, last_terminal, buffer, conversation, voice_locked, sent,
                   created, texts, task, feed, inputVars, produced, queue, life, attached,
                   failed, grace, expiring>>

TaskEnded(c) ==
    /\ reader[c].at = "awaiting"
    /\ \A d \in Conns : d = state[reader[c].resp].task => task[reader[c].resp][d] = "ended"
    /\ reader' = [reader EXCEPT ![c] = Idle]
    /\ UNCHANGED <<ws, active, last_terminal, buffer, conversation, voice_locked, sent,
                   responseVars, backendVars, sessionVars>>

\* The client is gone; the server does not know yet.
Break(c) ==
    /\ ws[c] = "open"
    /\ ws' = [ws EXCEPT ![c] = "broken"]
    /\ UNCHANGED <<reader, active, last_terminal, buffer, conversation, voice_locked,
                   sent, responseVars, backendVars, sessionVars>>

\* Detaches the attachment and arms no timer.
DetachesForGood(r) ==
    /\ attached' = [attached EXCEPT ![r] = IF @ = state[r].attachment THEN 0 ELSE @]
    /\ UNCHANGED grace

\* detach() of the attachment that the response's state names: the session
\* expires unless a connection comes back or its terminal output is there.
Detaches(r) ==
    /\ attached' = [attached EXCEPT ![r] = IF @ = state[r].attachment THEN 0 ELSE @]
    /\ grace' = [grace EXCEPT ![r] =
           @ \/ (/\ attached[r] = state[r].attachment
                 /\ \A i \in DOMAIN records[r] : records[r][i].type # "terminal")]

\* The reader leaves its loop: a reliable response is detached, a plain one is
\* cancelled like response.cancel, a finished one is left to its task.
ReaderLeaves(c) ==
    /\ ws[c] \in {"broken", "closed"} /\ reader[c] = Idle
    /\ \/ /\ InProgress(c) /\ Resumable(active[c])
          /\ task' = StopsTask(active[c])
          /\ Detaches(active[c])
          /\ state' = [state EXCEPT ![active[c]].attachment = 0, ![active[c]].task = 0]
          /\ active' = [active EXCEPT ![c] = 0]
          /\ reader' = [reader EXCEPT ![c].at = "detaching"]
       \/ /\ InProgress(c) /\ ~Resumable(active[c])
          /\ task' = StopsTask(active[c])
          /\ reader' = [reader EXCEPT ![c] =
                 [Busy("cancelling", active[c], NoChunk) EXCEPT !.closing = TRUE]]
          /\ UNCHANGED <<active, state, attached, grace>>
       \/ /\ ~InProgress(c)
          /\ reader' = [reader EXCEPT ![c].at = "detaching"]
          /\ UNCHANGED <<active, state, task, attached, grace>>
    /\ UNCHANGED <<ws, last_terminal, buffer, conversation, voice_locked, sent, created, texts,
                   feed, bills, backendVars, life, records, queues, failed, observing,
                   expiring>>

\* The end of run(): a response that waits for its terminal ACK is detached, and
\* the connection's own state is gone, with the queues that no task reads.
ReaderEnds(c) ==
    /\ reader[c].at = "detaching"
    /\ LET r == last_terminal[c]
       IN  IF r # 0 /\ Resumable(r)
           THEN /\ Detaches(r)
                /\ state' = [state EXCEPT ![r].attachment = 0]
           ELSE UNCHANGED <<attached, grace, state>>
    /\ ws' = [ws EXCEPT ![c] = "closed"]
    /\ reader' = [reader EXCEPT ![c].at = "gone"]
    /\ active' = [active EXCEPT ![c] = 0]
    /\ last_terminal' = [last_terminal EXCEPT ![c] = 0]
    /\ buffer' = [buffer EXCEPT ![c] = EmptyBuffer]
    /\ conversation' = [conversation EXCEPT ![c] = <<>>]
    /\ voice_locked' = [voice_locked EXCEPT ![c] = FALSE]
    /\ queues' = [r \in Responses |->
           IF task[r][c] = "serving" THEN queues[r] ELSE [queues[r] EXCEPT ![c] = <<>>]]
    /\ UNCHANGED <<sent, created, texts, task, feed, bills, backendVars, life, records,
                   failed, observing, expiring>>

Next ==
    \/ \E c \in Conns :
          \/ c > 1 /\ Connect(c)
          \/ CreateItem(c)
          \/ Create(c) \/ Claimed(c) \/ CreateFails(c) \/ Seed(c) \/ Activate(c)
          \/ AppendToBuffer(c) \/ AppendToResponse(c) \/ AppendReliable(c)
          \/ Push(c) \/ PushReturns(c) \/ Commit(c) \/ CompleteReturns(c)
          \/ Resume(c) \/ ResumeRefused(c) \/ TerminalAck(c)
          \/ CancelPlain(c) \/ CancelReturns(c) \/ ReaderFinishes(c)
          \/ CancelReliable(c) \/ StopReturns(c) \/ TaskEnded(c)
          \/ Break(c) \/ ReaderLeaves(c) \/ ReaderEnds(c)
    \/ \E r \in Responses, c \in Conns :
          \/ StartRegisters(r, c) \/ StartReturns(r, c) \/ StartFails(r, c) \/ Feed(r, c) \/ FeedFails(r, c)
          \/ Fail(r, c) \/ Serve(r, c) \/ Project(r, c) \/ TaskDies(r, c)
          \/ TaskFinishes(r, c)
    \/ \E r \in Responses :
          \/ EngineAudio(r)
          \/ \E type \in {"done", "error"} : EngineEnds(r, type)
          \/ Overflow(r) \/ ObserverReturns(r)
          \/ GraceExpires(r) \/ CloseReturns(r) \/ TerminalExpires(r)

RealtimeSpec == Init /\ [][Next]_vars

-----------------------------------------------------------------------------
(* Properties.                                                             *)

\* The chunk of a reliable response that the engine has and its state has not.
InHand(r) ==
    IF \E c \in Conns : r \in Reliable /\ reader[c].at = "pushed" /\ reader[c].resp = r
    THEN <<reader[CHOOSE c \in Conns : reader[c].at = "pushed" /\ reader[c].resp = r].chunk>>
    ELSE <<>>

\* Text appended before, during and after the start of a response reaches the
\* engine once and in the order its handle accepted it, and unless a push raised
\* the engine is told that the input is complete only when it has all of it (the
\* ingest lock of _run_response, _append_text and _commit_text).  For a plain
\* response this holds after a push that raised too: the text that follows it is
\* in input_chunks, but neither it nor the completion gets past the handle.
TextReachesEngine ==
    \A r \in Responses :
        LET accepted == state[r].input_chunks \o InHand(r)
            whole == r \notin Reliable \/ Range(journal[r]) \subseteq Range(pushed[r])
        IN  /\ pushed[r] = SelectSeq(journal[r], LAMBDA chunk : chunk \in Range(pushed[r]))
            /\ whole => /\ Len(pushed[r]) <= Len(accepted)
                        /\ pushed[r] = SubSeq(accepted, 1, Len(pushed[r]))
            /\ completed[r] /\ whole /\ feed[r] = <<>> => pushed[r] = accepted

\* A response is billed at most once, whichever of its task, the reader, the
\* observer and a resumed connection ends it; once it is finished or its terminal
\* output is published it is billed; and the record covers its text and all the
\* audio any connection was sent (_record_usage_once, _observe_reliable_output).
BilledOnce ==
    \A r \in Responses :
        /\ Len(bills[r]) <= 1
        /\ \/ state[r].finished
           \/ \E i \in DOMAIN records[r] : records[r][i].type = "terminal"
           => bills[r] # <<>>
        /\ bills[r] # <<>> =>
              /\ bills[r][1].text >= Len(state[r].input_chunks) - (IF r \in Reliable THEN 1 ELSE 0)
              /\ \A c \in Conns : \A i \in DOMAIN sent[r][c] :
                    sent[r][c][i].type = "audio" => sent[r][c][i].seq <= bills[r][1].audio

\* On every connection the events of a response are its creation, consecutive
\* audio from there, and at most one end with nothing after it, also when a new
\* response is created while the old one is still being finished, and when a
\* resumed response is projected again.
EventsInOrder ==
    \A r \in Responses, c \in Conns : \A i \in DOMAIN sent[r][c] :
        LET e == sent[r][c][i]
        IN  /\ (e.type = "created") = (i = 1)
            /\ e.type = "done" => i = Len(sent[r][c])
            /\ e.type = "audio" => e.seq = sent[r][c][i - 1].seq + 1

Running(r, c) ==
    task[r][c] \in {"starting", "submitting", "feeding", "serving", "failing", "recording"}

\* A response in progress on an open connection has its task there, a reliable
\* one is attached there until its end or a fence is queued, and once it has sent
\* audio the voice is locked; and a task that serves an open connection belongs
\* to its active response.  The end of an earlier response (_finish_response), a
\* resume or the end of an earlier connection (run) takes none of them away.
ActiveServed ==
    \A c \in Conns :
        /\ Ready(c) /\ InProgress(c) =>
              LET r == active[c]
              IN  /\ Running(r, c)
                  /\ r \in Reliable =>
                        \/ attached[r] = c
                        \/ \E i \in DOMAIN queues[r][c] : queues[r][c][i].type # "audio"
                  /\ (\E i \in DOMAIN sent[r][c] : sent[r][c][i].type = "audio")
                        => voice_locked[c]
        /\ \A r \in Responses :
              Running(r, c) /\ ~state[r].finished /\ ws[c] = "open" => active[c] = r

\* Somebody will still close what r holds: the reader that creates, serves or
\* cancels it, its own task, or a timer of its session.
HasOwner(r) ==
    \/ \E c \in Conns :
          /\ reader[c].at # "gone"
          /\ \/ active[c] = r \/ reader[c].resp = r
             \/ last_terminal[c] = r /\ attached[r] = c
    \/ \E c \in Conns : Running(r, c)
    \/ grace[r] \/ expiring[r] \/ observing[r] \/ life[r] = "closing"

\* The request that creates r raised after claim_start(): the session is registered
\* and attached, the connection does not know it, and only a resume reaches it.
Abandoned(r) ==
    life[r] = "registered" /\ state[r].attachment # 0 /\ state[r].task = 0

\* The task of r was cancelled while its start waited for the engine's inbox: the
\* frontend knows the session, and no handle leads to it.
Stranded(r) == session[r] = "registered" /\ ~state[r].engine_started

\* No session is orphaned: while a response's engine session is open, or its
\* resumable session registered, somebody will still close it.  The code has three
\* leaks, and they are the only ones: a request that raises between claim_start()
\* and _active, a start that is cancelled between the frontend's registry and its
\* handle, and a session whose replay buffer was exceeded, which stays registered
\* once its failure was projected.
NoOrphans ==
    \A r \in Responses :
        \/ session[r] \in {"registered", "open"}
        \/ life[r] = "registered" /\ ~failed[r]
        => HasOwner(r) \/ Abandoned(r) \/ Stranded(r)

\* Every response that is over has its usage record.
EveryResponseBilled ==
    \A r \in Responses :
        (session[r] = "closed" /\ life[r] = "removed") => bills[r] # <<>>

\* The text a client meant for one response is spoken in that response only.
TextStaysInResponse ==
    \A r \in Responses : \A i \in DOMAIN pushed[r] : pushed[r][i][1] = r
=============================================================================
