------------------------------- MODULE TextInput -------------------------------
(***************************************************************************)
(* How the text of one session gets from a transport to the engine         *)
(* (frontend/interface.py, frontend/dispatcher.py, server.py).             *)
(*                                                                         *)
(* Five asyncio tasks share the session: the transport's handler, which    *)
(* pushes texts and completes the input; the text actor, which feeds the   *)
(* texts to the committer; the ticker, which commits text whose deadline   *)
(* has passed; the consumer of the engine's results, which starts the next *)
(* segments; and whoever cancels the session.  They take turns in the      *)
(* order of the event loop's ready queue, and a turn lasts to the next     *)
(* await that suspends.  Timers, messages and engine results only append   *)
(* to the ready queue.                                                     *)
(*                                                                         *)
(* Text number n is the token n.  The committer may hold a text back; the  *)
(* splitter is reduced to where segments end (module Spliter has the       *)
(* rest).  The requests for the engine wait in the bounded async inbox,    *)
(* whose put suspends when it is full.                                     *)
(***************************************************************************)
EXTENDS Integers, Sequences, FiniteSets, SequencesExt

CONSTANTS
    NumTexts,       \* bound: texts of the session
    InboxSize,      \* maxsize of the async inbox
    MaxConcurrent,  \* max_concurrent of the splitter
    Faults          \* what may go wrong: "error", "cancel", "reject"

ASSUME TextInputAssumption ==
    /\ NumTexts \in Nat
    /\ InboxSize \in Nat \ {0}
    /\ MaxConcurrent \in Nat \ {0}
    /\ Faults \subseteq {"error", "cancel", "reject"}

Tasks == {"handler", "actor", "ticker", "consumer", "canceller"}

VARIABLES
    ready,      \* the event loop's ready queue
    pc,         \* where each task stands
    todo,       \* the requests each task still has to put into the inbox
    crowded,    \* history: a task has submitted while another's requests waited
    cancelled,  \* tasks that have been cancelled and have not noticed
    lockq,      \* _tn_locks: the owner, then the tasks that wait
    waits,      \* the transport waits for the result of a push
    sent,       \* texts the transport has received
    accepted,   \* the texts push_text_input has queued, but those rejected later
    queue,      \* the text actor's queue
    batch,      \* the texts the actor works on
    idle,       \* the actor's idle event
    fed,        \* the texts given to the committer
    committed,  \* how many of them it has committed
    late,       \* a closed journal has been written
    complete,   \* session.input_complete
    done,       \* session.state is DONE
    registered, \* the session is in _sessions
    cuts,       \* the tokens the splitter ends a segment after
    pending,    \* tokens that wait in the splitter
    segs,       \* its segments, in order
    told,       \* engine_tokens_done_sent
    inbox,      \* the async inbox
    putters,    \* tasks suspended in its put, in order
    engine,     \* the requests the engine has received
    results,    \* the session's result queue
    reported    \* the results the engine has reported

textVars == <<fed, committed, late, complete>>
spliterState == <<cuts, pending, segs>>
loopVars == <<waits, sent, accepted, queue, batch, idle, done, registered>>
putVars == <<todo, crowded>>
vars == <<ready, pc, putVars, cancelled, lockq, loopVars, textVars, spliterState,
          told, inbox, putters, engine, results, reported>>

-----------------------------------------------------------------------------
(* The event loop *)

Running(t) == ready # <<>> /\ Head(ready) = t

\* The running task has nothing cancelled to notice.
Runs(t) == Running(t) /\ t \notin cancelled

Scheduled(r, t) == IF t \in Range(r) THEN r ELSE Append(r, t)

\* The running task gives way: until it is woken, or to the end of the queue.
Suspend == Tail(ready)
Yield(t) == Append(Tail(ready), t)

\* The lock's owner leaves: the next task in line is woken with the lock.
Unlocked == Tail(lockq)
PassLock(r) == IF Len(lockq) > 1 THEN Scheduled(r, lockq[2]) ELSE r

-----------------------------------------------------------------------------
(* The splitter *)

StartReq(i, t) == [op |-> "start", seg |-> i, toks |-> <<t>>]
AppendReq(i, ts) == [op |-> "append", seg |-> i, toks |-> ts]
SegmentDoneReq(i) == [op |-> "segdone", seg |-> i, toks |-> <<>>]
TokensDoneReq == [op |-> "tokensdone", seg |-> 0, toks |-> <<>>]
CancelReq == [op |-> "cancel", seg |-> 0, toks |-> <<>>]

\* Adjacent DECODE actions of one segment become one request.
WithDecode(acts, i, t) ==
    IF acts # <<>> /\ Last(acts).op = "append" /\ Last(acts).seg = i
    THEN Append(Front(acts), AppendReq(i, Append(Last(acts).toks, t)))
    ELSE Append(acts, AppendReq(i, <<t>>))

ActiveSegs(s) == {i \in DOMAIN s : s[i] = "active"}
OpenSegs(s) == {i \in DOMAIN s : s[i] # "done"}

\* The segment i of x has taken token t with the request acts: a cut ends it.
Taken(x, i, t, acts) ==
    [pending |-> Tail(x.pending),
     segs |-> IF t \in cuts THEN [x.segs EXCEPT ![i] = "flushing"] ELSE x.segs,
     acts |-> IF t \in cuts THEN Append(acts, SegmentDoneReq(i)) ELSE acts]

\* One step of _drive_events, or nothing more to do.
DriveStep(x, ended) ==
    LET act == ActiveSegs(x.segs)
        i == IF act = {} THEN Len(x.segs) + 1 ELSE Max(act)
        t == Head(x.pending)
    IN  IF act = {}
        THEN IF x.pending = <<>> \/ Cardinality(OpenSegs(x.segs)) >= MaxConcurrent
             THEN x
             ELSE Taken([x EXCEPT !.segs = Append(@, "active")], i, t,
                        Append(x.acts, StartReq(i, t)))
        ELSE IF x.pending # <<>> THEN Taken(x, i, t, WithDecode(x.acts, i, t))
        ELSE IF ended THEN [x EXCEPT !.segs[i] = "flushing",
                                     !.acts = Append(@, SegmentDoneReq(i))]
        ELSE x

\* _drive_events: every step opens a segment with a token, takes a token or
\* ends the last segment.
Drive(p, s, ended) ==
    LET run[n \in 0..(NumTexts + 1)] ==
            IF n = 0 THEN [pending |-> p, segs |-> s, acts |-> <<>>]
            ELSE DriveStep(run[n - 1], ended)
    IN  run[NumTexts + 1]

\* _spliter_has_dispatched_all_input
DispatchedAll(p, s) == p = <<>> /\ ActiveSegs(s) = {}

-----------------------------------------------------------------------------
(* Submitting requests *)

Room == InboxSize - Len(inbox)

\* Task t puts the requests reqs, until the inbox is full.  With all of them
\* put, it goes on, or breathes: the await asyncio.sleep(0) after a commit.
Put(t, reqs, breathes) ==
    LET n == Min({Len(reqs), Room})
    IN  /\ inbox' = inbox \o SubSeq(reqs, 1, n)
        /\ todo' = [todo EXCEPT ![t] = SubSeq(reqs, n + 1, Len(reqs))]
        /\ crowded' = \/ crowded
                      \/ reqs # <<>> /\ \E u \in Tasks \ {t} : todo[u] # <<>>
        /\ putters' = IF n < Len(reqs) THEN Append(putters, t) ELSE putters
        /\ ready' = IF n < Len(reqs) THEN Suspend
                    ELSE IF breathes THEN Yield(t) ELSE ready

\* A task that was woken by a free place finds out whether it is still free.
PutAgain(t) ==
    /\ Runs(t)
    /\ todo[t] # <<>>
    /\ Put(t, todo[t], pc[t] \in {"polled", "fed", "closed"})
    /\ UNCHANGED <<pc, cancelled, lockq, loopVars, textVars, spliterState, told,
                   engine, results, reported>>

\* Task t is through with its requests.
Submitted(t, p) == Runs(t) /\ pc[t] = p /\ todo[t] = <<>>

\* No task is in the middle of its turn.
Quiet ==
    \A t \in Tasks : ~(/\ Running(t)
                       /\ todo[t] = <<>>
                       /\ pc[t] \in {"locked", "dispatch", "tell", "submit"})

\* _relay_inbox: a request moves on to the engine thread, and the first task
\* that waits for a place is woken.
Relay ==
    /\ Quiet
    /\ inbox # <<>>
    /\ engine' = Append(engine, Head(inbox))
    /\ inbox' = Tail(inbox)
    /\ IF putters = <<>>
       THEN UNCHANGED <<putters, ready>>
       ELSE /\ putters' = Tail(putters)
            /\ ready' = Scheduled(ready, Head(putters))
    /\ UNCHANGED <<pc, putVars, cancelled, lockq, loopVars, textVars, spliterState,
                   told, results, reported>>

\* _ingest_commits of task t, with the texts f fed and the first c of them
\* committed: journal, splitter, requests.
Ingest(t, f, c) ==
    LET x == Drive(pending \o SubSeq(f, committed + 1, c), segs, FALSE)
    IN  /\ fed' = f
        /\ committed' = c
        /\ late' = (late \/ complete)
        /\ pending' = x.pending
        /\ segs' = x.segs
        /\ Put(t, x.acts, TRUE)
        /\ UNCHANGED <<complete, cuts>>

\* Mutant: text that waits in the splitter is forgotten.
MaySendEarly == ~told /\ complete

\* maybe_send_session_tokens_done has something to send.
MaySend == ~told /\ complete /\ DispatchedAll(pending, segs)

\* Task t takes the lock, or waits for its turn with it.
Acquire(t) ==
    /\ lockq' = Append(lockq, t)
    /\ pc' = [pc EXCEPT ![t] = IF lockq = <<>> THEN "locked" ELSE "lock"]
    /\ ready' = IF lockq = <<>> THEN ready ELSE Suspend

Owns(t) == Runs(t) /\ pc[t] \in {"lock", "locked"} /\ Head(lockq) = t

-----------------------------------------------------------------------------
(* The transport's handler *)

\* The next message of the transport arrives.
Receive ==
    /\ Quiet
    /\ pc["handler"] = "recv"
    /\ "handler" \notin Range(ready)
    /\ ready' = Append(ready, "handler")
    /\ UNCHANGED <<pc, putVars, cancelled, lockq, loopVars, textVars, spliterState,
                   told, inbox, putters, engine, results, reported>>

Refused == ~registered \/ done \/ complete

\* push_text_input: the first text creates the actor.
Push ==
    /\ Runs("handler")
    /\ pc["handler"] = "recv"
    /\ sent < NumTexts
    /\ sent' = sent + 1
    /\ IF Refused
       THEN /\ ready' = Suspend
            /\ UNCHANGED <<pc, accepted, queue>>
       ELSE /\ accepted' = Append(accepted, sent')
            /\ queue' = Append(queue, sent')
            /\ pc' = [pc EXCEPT
                        !["handler"] = IF waits THEN "result" ELSE "recv",
                        !["actor"] = IF @ = "unborn" THEN "born" ELSE @]
            /\ ready' = IF pc["actor"] \in {"unborn", "get"}
                        THEN Scheduled(Suspend, "actor") ELSE Suspend
    /\ UNCHANGED <<putVars, cancelled, lockq, waits, batch, idle, done, registered,
                   textVars, spliterState, told, inbox, putters, engine, results,
                   reported>>

\* mark_input_complete up to the lock: the actor must be idle.  The lock of a
\* session that has gone meanwhile is a new one, and its router is missing.
WaitIdle ==
    /\ Runs("handler")
    /\ \/ /\ pc["handler"] = "recv"
          /\ IF ~registered
             THEN /\ pc' = [pc EXCEPT !["handler"] = "returned"]
                  /\ ready' = Suspend
                  /\ UNCHANGED lockq
             ELSE IF pc["actor"] # "unborn" /\ ~idle
             THEN /\ pc' = [pc EXCEPT !["handler"] = "idle"]
                  /\ ready' = Suspend
                  /\ UNCHANGED lockq
             ELSE Acquire("handler")
       \/ /\ pc["handler"] = "idle"
          /\ IF registered
             THEN Acquire("handler")
             ELSE /\ pc' = [pc EXCEPT !["handler"] = "raised"]
                  /\ ready' = Suspend
                  /\ UNCHANGED lockq
    /\ UNCHANGED <<putVars, cancelled, loopVars, textVars, spliterState, told, inbox,
                   putters, engine, results, reported>>

\* _mark_input_complete_locked: what the committer still holds is committed.
\* The router of a session that is gone is gone too.
FinalFeed ==
    /\ Owns("handler")
    /\ IF registered
       THEN /\ pc' = [pc EXCEPT !["handler"] = "closed"]
            /\ Ingest("handler", fed, Len(fed))
            /\ UNCHANGED lockq
       ELSE /\ pc' = [pc EXCEPT !["handler"] = "raised"]
            /\ ready' = PassLock(Suspend)
            /\ lockq' = Unlocked
            /\ UNCHANGED <<putVars, inbox, putters, textVars, spliterState>>
    /\ UNCHANGED <<cancelled, loopVars, told, engine, results, reported>>

\* The journal is closed and the splitter ends its last segment.
CloseInput ==
    LET x == Drive(pending, segs, TRUE)
    IN  /\ Submitted("handler", "closed")
        /\ complete' = TRUE
        /\ pending' = x.pending
        /\ segs' = x.segs
        /\ Put("handler", x.acts, FALSE)
        /\ pc' = [pc EXCEPT !["handler"] = "dispatch"]
        /\ UNCHANGED <<cancelled, lockq, loopVars, fed, committed, late, cuts,
                       told, engine, results, reported>>

\* maybe_send_session_tokens_done of the handler, or its return.
HandlerTells ==
    /\ Submitted("handler", "dispatch")
    /\ IF MaySend
       THEN /\ Put("handler", <<TokensDoneReq>>, FALSE)
            /\ pc' = [pc EXCEPT !["handler"] = "tell"]
            /\ UNCHANGED lockq
       ELSE /\ pc' = [pc EXCEPT !["handler"] = "returned"]
            /\ ready' = PassLock(Suspend)
            /\ lockq' = Unlocked
            /\ UNCHANGED <<putVars, inbox, putters>>
    /\ UNCHANGED <<cancelled, loopVars, textVars, spliterState, told, engine,
                   results, reported>>

HandlerTold ==
    /\ Submitted("handler", "tell")
    /\ told' = TRUE
    /\ pc' = [pc EXCEPT !["handler"] = "returned"]
    /\ ready' = PassLock(Suspend)
    /\ lockq' = Unlocked
    /\ UNCHANGED <<putVars, cancelled, loopVars, textVars, spliterState, inbox,
                   putters, engine, results, reported>>

-----------------------------------------------------------------------------
(* The text actor *)

\* queue.get, and the burst begins.
Get ==
    /\ Runs("actor")
    /\ pc["actor"] \in {"born", "get"}
    /\ batch' = <<Head(queue)>>
    /\ queue' = Tail(queue)
    /\ idle' = FALSE
    /\ pc' = [pc EXCEPT !["actor"] = "burst"]
    /\ ready' = Suspend
    /\ UNCHANGED <<putVars, cancelled, lockq, waits, sent, accepted, done, registered,
                   textVars, spliterState, told, inbox, putters, engine, results,
                   reported>>

\* asyncio.sleep(0.001) is over.
BurstOver ==
    /\ Quiet
    /\ pc["actor"] = "burst"
    /\ "actor" \notin Range(ready)
    /\ ready' = Append(ready, "actor")
    /\ UNCHANGED <<pc, putVars, cancelled, lockq, loopVars, textVars, spliterState,
                   told, inbox, putters, engine, results, reported>>

\* The result of a push is set, or cancelled: its caller is woken.
Answered(r, p, h) ==
    IF p["handler"] = "result"
    THEN [ready |-> Scheduled(r, "handler"), pc |-> [p EXCEPT !["handler"] = h]]
    ELSE [ready |-> r, pc |-> p]

\* The rest of the burst; the actor of a session that is done returns.
Collect ==
    LET left == Answered(Suspend, [pc EXCEPT !["actor"] = "over"], "recv")
    IN  /\ Runs("actor")
        /\ pc["actor"] = "burst"
        /\ queue' = <<>>
        /\ IF done
           THEN /\ batch' = <<>>
                /\ pc' = left.pc
                /\ ready' = left.ready
                /\ UNCHANGED lockq
           ELSE /\ batch' = batch \o queue
                /\ Acquire("actor")
        /\ UNCHANGED <<putVars, cancelled, waits, sent, accepted, idle, done,
                       registered, textVars, spliterState, told, inbox, putters,
                       engine, results, reported>>

\* _push_text_input_locked: text whose deadline has passed comes first.
ActorPolls ==
    /\ Owns("actor")
    /\ \E c \in (committed + 1)..Len(fed) : Ingest("actor", fed, c)
    /\ pc' = [pc EXCEPT !["actor"] = "polled"]
    /\ UNCHANGED <<cancelled, lockq, loopVars, told, engine, results, reported>>

\* The committer may hold some of the text back.
ActorFeeds ==
    /\ Owns("actor") \/ Submitted("actor", "polled")
    /\ LET f == fed \o batch
       IN  \E c \in committed..Len(f) : Ingest("actor", f, c)
    /\ pc' = [pc EXCEPT !["actor"] = "fed"]
    /\ UNCHANGED <<cancelled, lockq, loopVars, told, engine, results, reported>>

\* Mutant: the idle event is set although more text has come.
BatchDoneAlways ==
    LET left == Answered(PassLock(Suspend), pc, "recv")
    IN  /\ Submitted("actor", "fed")
        /\ lockq' = Unlocked
        /\ idle' = TRUE
        /\ IF queue = <<>>
           THEN /\ batch' = <<>>
                /\ queue' = <<>>
                /\ pc' = [left.pc EXCEPT !["actor"] = "get"]
           ELSE /\ batch' = <<Head(queue)>>
                /\ queue' = Tail(queue)
                /\ pc' = [left.pc EXCEPT !["actor"] = "burst"]
        /\ ready' = IF pc["handler"] = "idle"
                    THEN Scheduled(left.ready, "handler") ELSE left.ready
        /\ UNCHANGED <<putVars, cancelled, waits, sent, accepted, done, registered,
                       textVars, spliterState, told, inbox, putters, engine,
                       results, reported>>

\* The actor is through with the batch, whose callers are woken in h: it is idle
\* unless more text has come, which it takes at once.
BatchOver(h) ==
    LET left == Answered(PassLock(Suspend), pc, h)
    IN  /\ lockq' = Unlocked
        /\ IF queue = <<>>
           THEN /\ idle' = TRUE
                /\ batch' = <<>>
                /\ queue' = <<>>
                /\ pc' = [left.pc EXCEPT !["actor"] = "get"]
                /\ ready' = IF pc["handler"] = "idle"
                            THEN Scheduled(left.ready, "handler") ELSE left.ready
           ELSE /\ idle' = FALSE
                /\ batch' = <<Head(queue)>>
                /\ queue' = Tail(queue)
                /\ pc' = [left.pc EXCEPT !["actor"] = "burst"]
                /\ ready' = left.ready
        /\ UNCHANGED <<putVars, cancelled, waits, sent, done, registered, textVars,
                       spliterState, told, inbox, putters, engine, results,
                       reported>>

BatchDone == Submitted("actor", "fed") /\ BatchOver("recv") /\ UNCHANGED accepted

\* The feed raises before it has taken the text: a caller that waits gets the
\* exception, one that does not wait hears nothing.
ActorFails ==
    /\ "reject" \in Faults
    /\ Owns("actor") \/ Submitted("actor", "polled")
    /\ accepted' = SelectSeq(accepted, LAMBDA t : t \notin Range(batch))
    /\ BatchOver("raised")

-----------------------------------------------------------------------------
(* The ticker *)

\* The deadline of some text has passed, or the ticker learns of the end.  A nap
\* that ends with nothing to commit changes nothing.
Tick ==
    /\ Quiet
    /\ pc["ticker"] = "nap"
    /\ "ticker" \notin Range(ready)
    /\ committed < Len(fed) \/ complete \/ done
    /\ ready' = Append(ready, "ticker")
    /\ UNCHANGED <<pc, putVars, cancelled, lockq, loopVars, textVars, spliterState,
                   told, inbox, putters, engine, results, reported>>

TickerWakes ==
    /\ Runs("ticker")
    /\ pc["ticker"] = "nap"
    /\ IF complete \/ done
       THEN /\ pc' = [pc EXCEPT !["ticker"] = "over"]
            /\ ready' = Suspend
            /\ UNCHANGED lockq
       ELSE Acquire("ticker")
    /\ UNCHANGED <<putVars, cancelled, loopVars, textVars, spliterState, told, inbox,
                   putters, engine, results, reported>>

\* Mutant: what was true before the lock is not asked again.
TickerPollsStale ==
    /\ Owns("ticker")
    /\ \E c \in committed..Len(fed) : Ingest("ticker", fed, c)
    /\ pc' = [pc EXCEPT !["ticker"] = "polled"]
    /\ UNCHANGED <<lockq, cancelled, loopVars, told, engine, results, reported>>

\* The session is asked again under the lock, and the committer whether the
\* actor has committed the text meanwhile.
TickerPolls ==
    /\ Owns("ticker")
    /\ IF complete \/ done
       THEN /\ pc' = [pc EXCEPT !["ticker"] = "over"]
            /\ ready' = PassLock(Suspend)
            /\ lockq' = Unlocked
            /\ UNCHANGED <<putVars, inbox, putters, textVars, spliterState>>
       ELSE IF committed = Len(fed)
       THEN /\ pc' = [pc EXCEPT !["ticker"] = "nap"]
            /\ ready' = PassLock(Suspend)
            /\ lockq' = Unlocked
            /\ UNCHANGED <<putVars, inbox, putters, textVars, spliterState>>
       ELSE /\ \E c \in (committed + 1)..Len(fed) : Ingest("ticker", fed, c)
            /\ pc' = [pc EXCEPT !["ticker"] = "polled"]
            /\ UNCHANGED lockq
    /\ UNCHANGED <<cancelled, loopVars, told, engine, results, reported>>

TickerDone ==
    /\ Submitted("ticker", "polled")
    /\ pc' = [pc EXCEPT !["ticker"] = "nap"]
    /\ ready' = PassLock(Suspend)
    /\ lockq' = Unlocked
    /\ UNCHANGED <<putVars, cancelled, loopVars, textVars, spliterState, told, inbox,
                   putters, engine, results, reported>>

-----------------------------------------------------------------------------
(* The consumer of the engine's results, and cancellation *)

SegmentResult(i) == [op |-> "segment", seg |-> i]
Terminal(op) == [op |-> op, seg |-> 0]

\* on_segment_done frees a place for text that waits in the splitter.
SegmentEnds ==
    LET i == Head(results).seg
        x == Drive(pending, [segs EXCEPT ![i] = "done"], complete)
    IN  /\ Runs("consumer")
        /\ pc["consumer"] = "get"
        /\ Head(results).op = "segment"
        /\ results' = Tail(results)
        /\ pending' = x.pending
        /\ segs' = x.segs
        /\ Put("consumer", x.acts, FALSE)
        /\ pc' = [pc EXCEPT !["consumer"] = "dispatch"]
        /\ UNCHANGED <<cancelled, lockq, loopVars, textVars, cuts, told, engine,
                       reported>>

\* Back to the result queue, which suspends only when it is empty.
NextResult == IF results = <<>> THEN Suspend ELSE ready

\* Mutant: the end of a segment does not look for the end of the text.
ConsumerForgets ==
    /\ Submitted("consumer", "dispatch")
    /\ pc' = [pc EXCEPT !["consumer"] = "get"]
    /\ ready' = NextResult
    /\ UNCHANGED <<putVars, cancelled, lockq, loopVars, textVars, spliterState, told,
                   inbox, putters, engine, results, reported>>

\* maybe_send_session_tokens_done of the consumer.
ConsumerTells ==
    /\ Submitted("consumer", "dispatch")
    /\ IF MaySend
       THEN /\ Put("consumer", <<TokensDoneReq>>, FALSE)
            /\ pc' = [pc EXCEPT !["consumer"] = "tell"]
       ELSE /\ pc' = [pc EXCEPT !["consumer"] = "get"]
            /\ ready' = NextResult
            /\ UNCHANGED <<putVars, inbox, putters>>
    /\ UNCHANGED <<cancelled, lockq, loopVars, textVars, spliterState, told,
                   engine, results, reported>>

ConsumerTold ==
    /\ Submitted("consumer", "tell")
    /\ told' = TRUE
    /\ pc' = [pc EXCEPT !["consumer"] = "get"]
    /\ ready' = NextResult
    /\ UNCHANGED <<putVars, cancelled, lockq, loopVars, textVars, spliterState, inbox,
                   putters, engine, results, reported>>

\* SESSION_DONE or ERROR: the gateway's on_done may suspend before the cleanup.
SessionEnds ==
    /\ Runs("consumer")
    /\ pc["consumer"] = "get"
    /\ Head(results).op # "segment"
    /\ results' = Tail(results)
    /\ done' = TRUE
    /\ pc' = [pc EXCEPT !["consumer"] = "ending"]
    /\ ready' \in {ready, Yield("consumer")}
    /\ UNCHANGED <<putVars, cancelled, lockq, waits, sent, accepted, queue, batch,
                   idle, registered, textVars, spliterState, told, inbox, putters,
                   engine, reported>>

\* _cleanup_session by the running task, which then ends; it also cancels the
\* tasks in also.  A cancelled task leaves every queue it waits in, and learns
\* of it in its next turn.
Cleanup(t, also) ==
    LET live == {u \in also \cup (IF registered THEN {"ticker", "actor"} ELSE {}) :
                    pc[u] \notin {"unborn", "over"}}
        ordered == SelectSeq(<<"consumer", "ticker", "actor">>, LAMBDA u : u \in live)
    IN  /\ registered' = FALSE
        /\ cancelled' = cancelled \cup live
        /\ ready' = FoldLeft(Scheduled, Suspend, ordered)
        /\ putters' = SelectSeq(putters, LAMBDA u : u \notin live)
        /\ lockq' = IF lockq = <<>> THEN lockq
                    ELSE <<Head(lockq)>>
                            \o SelectSeq(Tail(lockq), LAMBDA u : u \notin live)
        /\ pc' = [pc EXCEPT ![t] = "over"]

ConsumerEnds ==
    /\ Runs("consumer")
    /\ pc["consumer"] = "ending"
    /\ Cleanup("consumer", {})
    /\ UNCHANGED <<putVars, waits, sent, accepted, queue, batch, idle, done, textVars,
                   spliterState, told, inbox, engine, results, reported>>

\* Someone else ends the session: a shutdown, or the resume registry.
CancelCalled ==
    /\ Quiet
    /\ "cancel" \in Faults
    /\ registered
    /\ pc["canceller"] = "unborn"
    /\ ready' = Append(ready, "canceller")
    /\ pc' = [pc EXCEPT !["canceller"] = "born"]
    /\ UNCHANGED <<putVars, cancelled, lockq, loopVars, textVars, spliterState, told,
                   inbox, putters, engine, results, reported>>

\* cancel_session
CancelSession ==
    /\ Runs("canceller")
    /\ pc["canceller"] = "born"
    /\ IF registered
       THEN /\ done' = TRUE
            /\ Put("canceller", <<CancelReq>>, FALSE)
            /\ pc' = [pc EXCEPT !["canceller"] = "submit"]
       ELSE /\ pc' = [pc EXCEPT !["canceller"] = "over"]
            /\ ready' = Suspend
            /\ UNCHANGED <<done, putVars, inbox, putters>>
    /\ UNCHANGED <<cancelled, lockq, waits, sent, accepted, queue, batch, idle,
                   registered, textVars, spliterState, told, engine, results,
                   reported>>

CancelSubmitted ==
    /\ Submitted("canceller", "submit")
    /\ Cleanup("canceller", {"consumer"})
    /\ UNCHANGED <<putVars, waits, sent, accepted, queue, batch, idle, done, textVars,
                   spliterState, told, inbox, engine, results, reported>>

\* The cancelled actor answers for the batch it has collected and for its queue.
\* The text it holds during the burst is in neither, and none of the code of an
\* actor that is cancelled before its first turn runs.
Answers ==
    /\ pc["actor"] # "born"
    /\ pc["actor"] = "burst" => sent \in Range(queue)

\* A cancelled task ends.
Notice(t) ==
    LET left == IF t = "actor" /\ Answers THEN Answered(Suspend, pc, "raised")
                ELSE [ready |-> Suspend, pc |-> pc]
        owns == lockq # <<>> /\ Head(lockq) = t
    IN  /\ Running(t)
        /\ t \in cancelled
        /\ cancelled' = cancelled \ {t}
        /\ pc' = [left.pc EXCEPT ![t] = "over"]
        /\ todo' = [todo EXCEPT ![t] = <<>>]
        /\ UNCHANGED crowded
        /\ ready' = IF owns THEN PassLock(left.ready) ELSE left.ready
        /\ lockq' = IF owns THEN Unlocked ELSE lockq
        /\ IF t = "actor" /\ pc[t] # "born"
           THEN queue' = <<>> /\ batch' = <<>>
           ELSE UNCHANGED <<queue, batch>>
        /\ UNCHANGED <<waits, sent, accepted, idle, done, registered, textVars,
                       spliterState, told, inbox, putters, engine, results,
                       reported>>

-----------------------------------------------------------------------------
(* The engine *)

Received(op) == {i \in DOMAIN engine : engine[i].op = op}
Started == {engine[i].seg : i \in Received("start")}
Over == \E r \in reported : r.op # "segment"

\* A result is put into the session's queue, which wakes the consumer.  Nobody
\* reads the results of a session that is gone.
Report(r) ==
    /\ Quiet
    /\ registered
    /\ r \notin reported
    /\ ~Over
    /\ reported' = reported \cup {r}
    /\ results' = Append(results, r)
    /\ ready' = IF pc["consumer"] = "get" THEN Scheduled(ready, "consumer") ELSE ready
    /\ UNCHANGED <<pc, putVars, cancelled, lockq, loopVars, textVars, spliterState,
                   told, inbox, putters, engine>>

\* The engine may end a segment before the end of its text.
EngineSegmentEnd(i) == i \in Started /\ Report(SegmentResult(i))

\* _check_session_done
EngineDone ==
    /\ Received("tokensdone") # {}
    /\ \A i \in Started : SegmentResult(i) \in reported
    /\ Report(Terminal("done"))

EngineError == "error" \in Faults /\ Report(Terminal("error"))

-----------------------------------------------------------------------------

TextInputInit ==
    /\ ready = <<>>
    /\ pc = [handler |-> "recv", actor |-> "unborn", ticker |-> "nap",
             consumer |-> "get", canceller |-> "unborn"]
    /\ todo = [t \in Tasks |-> <<>>]
    /\ crowded = FALSE
    /\ cancelled = {}
    /\ lockq = <<>>
    /\ waits \in BOOLEAN
    /\ sent = 0
    /\ accepted = <<>>
    /\ queue = <<>>
    /\ batch = <<>>
    /\ idle = TRUE
    /\ fed = <<>>
    /\ committed = 0
    /\ late = FALSE
    /\ complete = FALSE
    /\ done = FALSE
    /\ registered = TRUE
    /\ cuts \in SUBSET (1..NumTexts)
    /\ pending = <<>>
    /\ segs = <<>>
    /\ told = FALSE
    /\ inbox = <<>>
    /\ putters = <<>>
    /\ engine = <<>>
    /\ results = <<>>
    /\ reported = {}

\* What the running task does.
Turn ==
    \/ \E t \in Tasks : PutAgain(t) \/ Notice(t)
    \/ Push \/ WaitIdle \/ FinalFeed \/ CloseInput \/ HandlerTells \/ HandlerTold
    \/ Get \/ Collect \/ ActorPolls \/ ActorFeeds \/ BatchDone \/ ActorFails
    \/ TickerWakes \/ TickerPolls \/ TickerDone
    \/ SegmentEnds \/ ConsumerTells \/ ConsumerTold \/ SessionEnds \/ ConsumerEnds
    \/ CancelSession \/ CancelSubmitted

EngineEnds == (\E i \in 1..NumTexts : EngineSegmentEnd(i)) \/ EngineDone

\* What happens between turns.
Outside == Relay \/ Receive \/ BurstOver \/ Tick \/ CancelCalled \/ EngineEnds \/ EngineError

TextInputNext == Turn \/ Outside

TextInputSpec == TextInputInit /\ [][TextInputNext]_vars

-----------------------------------------------------------------------------
(* Properties *)

\* Every variable has its type.  The inbox never exceeds its size, a task waits
\* for at most one thing, and the lock's owner is a task that works under it.
TextInputTypeOK ==
    /\ ready \in Seq(Tasks) /\ IsInjective(ready)
    /\ \A t \in Tasks : pc[t] \in STRING
    /\ cancelled \subseteq Tasks
    /\ IsInjective(lockq) /\ IsInjective(putters)
    /\ \A t \in Range(putters) : todo[t] # <<>> /\ t \notin Range(ready)
    /\ \A n \in 2..Len(lockq) : lockq[n] \notin Range(ready)
    /\ \A t \in Range(lockq) :
          pc[t] \in {"lock", "locked", "polled", "fed", "closed", "dispatch", "tell"}
    /\ waits \in BOOLEAN /\ idle \in BOOLEAN /\ late \in BOOLEAN
    /\ complete \in BOOLEAN /\ done \in BOOLEAN /\ registered \in BOOLEAN
    /\ told \in BOOLEAN
    /\ sent \in 0..NumTexts
    /\ Len(accepted) <= sent
    /\ committed \in 0..Len(fed)
    /\ Len(inbox) <= InboxSize

\* The texts reach the committer in the order in which the transport pushed
\* them, each of them once, and those on their way are still in the actor's
\* hands.  When the input of a living session is complete, all of them have
\* been fed and committed: the completion of mark_input_complete never
\* overtakes a text that push_text_input has accepted.  (Every field has its
\* type, too.)
CompletionCoversText ==
    /\ TextInputTypeOK
    /\ IsPrefix(fed, accepted)
    /\ complete => fed = accepted /\ committed = Len(fed)

\* Nothing is written to the text journal after mark_input_complete has closed
\* it: neither the ticker nor the actor works on with what it knew before it
\* waited for the lock.
JournalStaysClosed == ~late

\* What the engine has received up to a cancellation.
Stream ==
    LET cancels == Received("cancel")
    IN  IF cancels = {} THEN engine ELSE SubSeq(engine, 1, Min(cancels) - 1)

TokensOf(i) == FlattenSeq([n \in DOMAIN Stream |->
                   IF Stream[n].seg = i THEN Stream[n].toks ELSE <<>>])

\* The engine receives the requests of a session in the order of the text: a
\* segment is started before it is continued, its tokens come in order and
\* without a gap (a text the committer rejected apart), nothing follows the end of
\* its text, and nothing follows the end of the session's
\* text, which is announced once.
EngineOrder ==
    /\ \A i \in 1..NumTexts : \A m, n \in DOMAIN Stream :
          (m < n /\ Stream[m].seg = i /\ Stream[n].seg = i) =>
             Stream[m].op # "segdone" /\ Stream[n].op # "start"
    /\ \A n \in DOMAIN Stream : Stream[n].op \in {"append", "segdone"} =>
          \E m \in 1..(n - 1) : Stream[m].op = "start" /\ Stream[m].seg = Stream[n].seg
    /\ \A i \in 1..NumTexts : LET ts == TokensOf(i)
                              IN  \A n \in 2..Len(ts) :
                                    /\ ts[n - 1] < ts[n]
                                    /\ \A t \in Range(accepted) :
                                          t <= ts[n - 1] \/ t >= ts[n]
    /\ \A n \in DOMAIN Stream : Stream[n].op = "tokensdone" => n = Len(Stream)

\* The engine receives the requests in the order of the text, also when the
\* inbox is full and a put of _dispatch_segment_actions has to wait, as long as
\* no other task submits meanwhile.  EngineOrder itself does not hold: the
\* consumer submits without the lock that the others hold.
RequestsInOrder == ~crowded => EngineOrder

\* A caller is never left waiting for good: the result that push_text_input
\* waits for is set or cancelled by the actor before it is gone, and so is the
\* idle event that mark_input_complete waits for.
CallersReleased ==
    (pc["handler"] \in {"result", "idle"} /\ "handler" \notin Range(ready)) =>
        pc["actor"] # "over"

\* Nothing is left to happen of itself: the loop is idle, the inbox is empty,
\* and the engine has ended what it has started.
AtRest ==
    /\ ready = <<>>
    /\ inbox = <<>>
    /\ pc["actor"] # "burst"
    /\ \A i \in Started : SegmentResult(i) \in reported

\* The end of the input is never lost: when a session whose input is complete
\* comes to rest, every text it accepted has been sent to the engine and
\* SESSION_TOKENS_DONE after it, by mark_input_complete or by the consumer at
\* the end of the segment that made the last text wait.
CompletionReachesEngine ==
    (AtRest /\ complete /\ ~done) =>
        /\ Received("tokensdone") # {}
        /\ \A t \in Range(accepted) :
              \E n \in DOMAIN engine : t \in Range(engine[n].toks)
====
