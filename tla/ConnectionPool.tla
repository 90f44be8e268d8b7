--------------------------- MODULE ConnectionPool ---------------------------
(***************************************************************************)
(* The WebSocket connection pool of the Python SDK                         *)
(* (qwen3tts/_adapters/engine_websocket, EngineWebSocketAdapter): threads  *)
(* that open streams, prewarm workers and the keepalive thread share the   *)
(* pool under one lock and one condition variable, and an interrupted      *)
(* stream replaces its connection without giving up its place.             *)
(*                                                                         *)
(* A step is one section under the pool lock, or one network operation.    *)
(* Time is abstracted: any idle connection may be old enough to expire and *)
(* any deadline may pass.  Dials, probes and streams may fail.             *)
(***************************************************************************)
EXTENDS Integers, Sequences, FiniteSets, Functions

CONSTANTS
    Callers,           \* threads that open streams
    Warmers,           \* workers of prewarm()
    Sockets,           \* model bound: names of sockets, reused once nothing
                       \* refers to one, and enough that one is always unused
    MaxConnections,    \* max_connections
    MaxIdle,           \* max_idle_connections
    MaxPending,        \* max_pending_acquires
    IdleTarget,        \* the target of prewarm()
    ResumeAttempts,    \* stream_resume_attempts
    Eviction           \* whether idle_ttl or max_lifetime is set

Threads == Callers \cup Warmers
None == "none"

ASSUME PoolAssumption ==
    /\ MaxConnections \in Nat \ {0} /\ MaxIdle \in 0..MaxConnections
    /\ MaxPending \in Nat /\ IdleTarget \in 0..MaxIdle
    /\ ResumeAttempts \in Nat
    /\ Eviction \in BOOLEAN
    /\ Callers \cap Warmers = {} /\ IsFiniteSet(Threads)
    /\ None \notin Sockets /\ IsFiniteSet(Sockets)
    /\ Cardinality(Sockets) >= MaxConnections + MaxIdle

VARIABLES
    connections,      \* _connections: sockets the pool owns
    idle,             \* _idle_connections, a stack
    connecting,       \* _connecting: slots reserved for dials
    waiters,          \* _acquire_waiters
    handoffs,         \* _waiter_handoffs
    closed,
    open,             \* sockets that are connected
    pc,               \* where each thread is; "waiting" is asleep on the condition
    held,             \* the connection a thread works with
    late,             \* threads whose deadline has passed
    attempt,          \* the attempts a recovering thread has made
    snapshot,         \* the keepalive thread: connections still to probe ...
    probing           \* ... and the one it has taken out of the pool

poolVars == <<connections, idle, connecting, waiters, handoffs, closed>>
threadVars == <<pc, held, late, attempt>>
keepaliveVars == <<snapshot, probing>>
vars == <<poolVars, open, threadVars, keepaliveVars>>

PoolInit ==
    /\ connections = {} /\ idle = <<>> /\ connecting = 0
    /\ waiters = <<>> /\ handoffs = [t \in Threads |-> None]
    /\ closed = FALSE
    /\ open = {}
    /\ pc = [t \in Threads |-> "out"]
    /\ held = [t \in Threads |-> None]
    /\ late = {}
    /\ attempt = [t \in Threads |-> 0]
    /\ snapshot = <<>> /\ probing = None

-----------------------------------------------------------------------------
(* Helpers.                                                                *)

Idle == Range(idle)

Newest(s) == s[Len(s)]

Older(s) == SubSeq(s, 1, Len(s) - 1)

Queued(t) == t \in Range(waiters)

\* The elements of s that are in S, in their order.
Kept(s, S) ==
    LET K == {i \in 1..Len(s) : s[i] \in S}
    IN  [n \in 1..Cardinality(K) |->
            s[CHOOSE i \in K : Cardinality(K \cap 1..i) = n]]

\* remove(): neither the stack nor the queue holds anything twice.
WithoutConn(s, c) == Kept(s, Range(s) \ {c})

\* A new socket has the name of one nothing refers to any more.
Unused == Sockets \ (connections \cup Idle \cup open \cup Range(snapshot)
                     \cup {probing} \cup {held[t] : t \in Threads}
                     \cup {handoffs[t] : t \in Threads})

Fresh == CHOOSE c \in Unused : TRUE

HasCapacity == Cardinality(connections) + connecting < MaxConnections

\* notify_all() with t itself going on to p: every sleeper runs its loop again.
NotifyAll(t, p) ==
    pc' = [u \in Threads |-> IF u = t THEN p
                             ELSE IF pc[u] = "waiting" THEN "expire" ELSE pc[u]]
Notify == pc' = [u \in Threads |-> IF pc[u] = "waiting" THEN "expire" ELSE pc[u]]
Goto(t, p) == pc' = [pc EXCEPT ![t] = p]

\* Whoever looks first takes what is free.
IsTurnAny(t) == TRUE

\* Only the head of the queue, or a newcomer while nobody waits.
IsTurn(t) == \A i \in DOMAIN waiters : i = 1 => waiters[i] = t
RemoveWaiter(t) == waiters' = WithoutConn(waiters, t)

\* The call of t returns or raises: what it held and its deadline are gone.
Returned(t) ==
    /\ held' = [held EXCEPT ![t] = None]
    /\ late' = late \ {t}
    /\ attempt' = [attempt EXCEPT ![t] = 0]

-----------------------------------------------------------------------------
(* _expire_idle_connections(), run by whoever is about to look at the pool.*)

\* Drops every idle connection that is too old; t goes on to p.
ExpireIdle(t, p) ==
    /\ \E old \in SUBSET (IF Eviction THEN Idle ELSE {}) :
          /\ connections' = connections \ old
          /\ idle' = Kept(idle, connections \ old)
          /\ open' = open \ old
          /\ IF idle' # idle THEN NotifyAll(t, p) ELSE Goto(t, p)
    /\ UNCHANGED <<connecting, waiters, handoffs, closed>>

\* A stream is opened, or prewarm() submits a worker because too few
\* connections are idle.
Enter(t) ==
    /\ pc[t] = "out"
    /\ t \in Warmers => Len(idle) < IdleTarget /\ ~closed
    /\ Goto(t, "expire")
    /\ UNCHANGED <<poolVars, open, held, late, attempt, keepaliveVars>>

Expire(t) ==
    /\ pc[t] = "expire"
    /\ ExpireIdle(t, "lock")
    /\ UNCHANGED <<held, late, attempt, keepaliveVars>>

\* The time to wait is over: the condition's wait returns.  A caller without
\* acquire_timeout is one whose deadline never passes.
DeadlinePasses(t) ==
    /\ pc[t] = "waiting"
    /\ late' = late \cup {t}
    /\ Goto(t, "expire")
    /\ UNCHANGED <<poolVars, open, held, attempt, keepaliveVars>>

-----------------------------------------------------------------------------
(* Admission: one pass of the loop of _checkout_connection() or of         *)
(* _reserve_new_connection() under the lock.                               *)

\* The pool is closed under the waiter.
RaiseClosed(t) ==
    /\ closed
    /\ RemoveWaiter(t)
    /\ handoffs' = [handoffs EXCEPT ![t] = None]
    /\ Goto(t, "out")
    /\ Returned(t)
    /\ UNCHANGED <<connections, idle, connecting, closed>>

\* A released connection was handed to this waiter.
TakeHandoff(t) ==
    /\ ~closed /\ t \in Callers /\ handoffs[t] # None
    /\ held' = [held EXCEPT ![t] = handoffs[t]]
    /\ handoffs' = [handoffs EXCEPT ![t] = None]
    /\ late' = late \ {t}
    /\ Goto(t, "leased")
    /\ UNCHANGED <<connections, idle, connecting, waiters, closed, attempt>>

\* The newest idle connection is reused.
TakeIdle(t) ==
    /\ ~closed /\ handoffs[t] = None /\ t \in Callers
    /\ IsTurn(t) /\ idle # <<>>
    /\ held' = [held EXCEPT ![t] = Newest(idle)]
    /\ idle' = Older(idle)
    /\ RemoveWaiter(t)
    /\ late' = late \ {t}
    /\ NotifyAll(t, "leased")
    /\ UNCHANGED <<connections, connecting, handoffs, closed, attempt>>

\* The worker leaves the queue without telling those behind it.
WarmEnoughSilently(t) ==
    /\ ~closed /\ t \in Warmers /\ Len(idle) >= IdleTarget
    /\ RemoveWaiter(t)
    /\ Goto(t, "out")
    /\ Returned(t)
    /\ UNCHANGED <<connections, idle, connecting, handoffs, closed>>

\* Prewarming is already done.
WarmEnough(t) ==
    /\ ~closed /\ t \in Warmers /\ Len(idle) >= IdleTarget
    /\ RemoveWaiter(t)
    /\ IF Queued(t) THEN NotifyAll(t, "out") ELSE Goto(t, "out")
    /\ Returned(t)
    /\ UNCHANGED <<connections, idle, connecting, handoffs, closed>>

MayReserve(t) ==
    /\ ~closed /\ handoffs[t] = None /\ IsTurn(t) /\ HasCapacity
    /\ IF t \in Callers THEN idle = <<>> ELSE Len(idle) < IdleTarget

\* A slot is reserved before the dial, so that concurrent dials are counted.
Reserve(t) ==
    /\ MayReserve(t)
    /\ connecting' = connecting + 1
    /\ RemoveWaiter(t)
    /\ late' = late \ {t}
    /\ NotifyAll(t, "dial")
    /\ UNCHANGED <<connections, idle, handoffs, closed, held, attempt>>

\* Whether one more pass of t's loop would end its wait.
CanProceed(t) ==
    \/ closed
    \/ t \in Callers /\ handoffs[t] # None
    \/ t \in Callers /\ IsTurn(t) /\ idle # <<>>
    \/ t \in Warmers /\ Len(idle) >= IdleTarget
    \/ MayReserve(t)

Saturated(t) ==
    /\ ~CanProceed(t) /\ ~Queued(t)
    /\ Len(waiters) >= MaxPending
    /\ Goto(t, "out")
    /\ Returned(t)
    /\ UNCHANGED poolVars

Enqueued(t) == IF Queued(t) THEN waiters ELSE Append(waiters, t)

\* The deadline has passed and nothing could be taken: the waiter leaves and
\* its successor may be the head now.
TimeOut(t) ==
    /\ ~CanProceed(t)
    /\ Queued(t) \/ Len(waiters) < MaxPending
    /\ t \in late
    /\ RemoveWaiter(t)
    /\ NotifyAll(t, "out")
    /\ Returned(t)
    /\ UNCHANGED <<connections, idle, connecting, handoffs, closed>>

Wait(t) ==
    /\ ~CanProceed(t)
    /\ Queued(t) \/ Len(waiters) < MaxPending
    /\ t \notin late
    /\ waiters' = Enqueued(t)
    /\ Goto(t, "waiting")
    /\ UNCHANGED <<connections, idle, connecting, handoffs, closed, held, late,
                   attempt>>

Admit(t) ==
    /\ pc[t] = "lock"
    /\ \/ RaiseClosed(t) \/ TakeHandoff(t) \/ TakeIdle(t) \/ WarmEnough(t)
       \/ Reserve(t) \/ Saturated(t) \/ TimeOut(t) \/ Wait(t)
    /\ UNCHANGED <<open, keepaliveVars>>

-----------------------------------------------------------------------------
(* _new_connection(): dialling with a reserved slot.                       *)

\* The session gives a kept slot back once more when its dial raises.
Overpaid(t) == IF pc[t] = "redial_kept" THEN 1 ELSE 0

\* The handshake succeeds; a pool closed meanwhile closes the socket at once
\* and the call raises.
Dialed(t) ==
    /\ pc[t] \in {"dial", "redial", "redial_kept"}
    /\ IF closed
       THEN /\ connecting' = connecting - 1 - Overpaid(t)
            /\ NotifyAll(t, "out")
            /\ Returned(t)
            /\ UNCHANGED <<connections, open>>
       ELSE /\ connecting' = connecting - 1
            /\ connections' = connections \cup {Fresh}
            /\ open' = open \cup {Fresh}
            /\ held' = [held EXCEPT ![t] = Fresh]
            /\ NotifyAll(t, "leased")
            /\ UNCHANGED <<late, attempt>>
    /\ UNCHANGED <<idle, waiters, handoffs, closed, keepaliveVars>>

\* All attempts of a first dial fail, or the pool is closed before one.
DialFails(t) ==
    /\ pc[t] = "dial"
    /\ connecting' = connecting - 1
    /\ NotifyAll(t, "out")
    /\ Returned(t)
    /\ UNCHANGED <<connections, idle, waiters, handoffs, closed, open,
                   keepaliveVars>>

\* Whether an attempt that fails now leaves another one.
MoreAttempts(t) == attempt[t] < ResumeAttempts

\* A redial fails on the network: the slot is kept for the next attempt
\* unless this was the last one or the pool is closed.  The session believes
\* it still has the slot whenever it has an attempt left.
RedialFails(t) ==
    /\ pc[t] \in {"redial", "redial_kept"}
    /\ connecting' = IF MoreAttempts(t) /\ ~closed THEN connecting
                     ELSE connecting - 1
    /\ IF MoreAttempts(t)
       THEN NotifyAll(t, "reserved") /\ UNCHANGED <<held, late, attempt>>
       ELSE NotifyAll(t, "out") /\ Returned(t)
    /\ UNCHANGED <<connections, idle, waiters, handoffs, closed, open,
                   keepaliveVars>>

\* The next attempt dials on the kept slot.  On a closed pool the dial raises
\* and gives the slot back, and so does the end of the recovery.
Redial(t) ==
    /\ pc[t] = "reserved" /\ MoreAttempts(t)
    /\ IF closed
       THEN /\ connecting' = connecting - 2
            /\ NotifyAll(t, "out")
            /\ Returned(t)
       ELSE /\ attempt' = [attempt EXCEPT ![t] = @ + 1]
            /\ Goto(t, "redial_kept")
            /\ UNCHANGED <<connecting, held, late>>
    /\ UNCHANGED <<connections, idle, waiters, handoffs, closed, open,
                   keepaliveVars>>

\* _release_reserved_replacement(): the stream's deadline passed or the
\* stream was closed between two attempts.
ReleaseReserved(t) ==
    /\ pc[t] = "reserved"
    /\ connecting' = connecting - 1
    /\ NotifyAll(t, "out")
    /\ Returned(t)
    /\ UNCHANGED <<connections, idle, waiters, handoffs, closed, open,
                   keepaliveVars>>

-----------------------------------------------------------------------------
(* The end of a lease.                                                     *)

Without(c) ==
    /\ connections' = connections \ {c}
    /\ idle' = WithoutConn(idle, c)
    /\ open' = open \ {c}

\* _discard_connection(): the stream, the probe or the start write failed.
Discard(t) ==
    /\ pc[t] = "leased"
    /\ Without(held[t])
    /\ NotifyAll(t, "out")
    /\ Returned(t)
    /\ UNCHANGED <<connecting, waiters, handoffs, closed, keepaliveVars>>

\* The probe before reuse or the first write of a stream fails: the connection
\* is discarded and the caller asks for another one.
Retry(t) ==
    /\ pc[t] = "leased" /\ t \in Callers /\ attempt[t] = 0
    /\ Without(held[t])
    /\ NotifyAll(t, "expire")
    /\ Returned(t)
    /\ UNCHANGED <<connecting, waiters, handoffs, closed, keepaliveVars>>

\* A worker of prewarm() wants a new connection and is not given an old one.
HandsOver == waiters # <<>> /\ Head(waiters) \notin Warmers

\* _release_connection(): to the first waiter, to the idle stack, or closed.
ReleaseConnection(c) ==
    \/ /\ closed \/ c \notin connections \/ Eviction
       /\ Without(c)
       /\ UNCHANGED <<waiters, handoffs>>
    \/ /\ ~closed /\ c \in connections
       /\ IF HandsOver
          THEN /\ waiters' = Tail(waiters)
               /\ handoffs' = [handoffs EXCEPT ![Head(waiters)] = c]
               /\ UNCHANGED <<connections, idle, open>>
          ELSE /\ UNCHANGED <<waiters, handoffs>>
               /\ IF Len(idle) >= MaxIdle
                  THEN Without(c)
                  ELSE /\ idle' = IF c \in Idle THEN idle ELSE Append(idle, c)
                       /\ UNCHANGED <<connections, open>>

Release(t) ==
    /\ pc[t] = "leased"
    /\ ReleaseConnection(held[t])
    /\ NotifyAll(t, "out")
    /\ Returned(t)
    /\ UNCHANGED <<connecting, closed, keepaliveVars>>

\* The slot is free for whoever comes first until the redial takes it.
ReplaceReleasing(t) ==
    /\ pc[t] = "leased" /\ t \in Callers /\ MoreAttempts(t)
    /\ ~closed /\ held[t] \in connections
    /\ Without(held[t])
    /\ held' = [held EXCEPT ![t] = None]
    /\ attempt' = [attempt EXCEPT ![t] = @ + 1]
    /\ NotifyAll(t, "redial")
    /\ UNCHANGED <<connecting, late, waiters, handoffs, closed, keepaliveVars>>

\* _replace_connection(): a broken stream swaps its connection for a slot.
\* If the pool no longer owns the connection the recovery ends in Discard.
Replace(t) ==
    /\ pc[t] = "leased" /\ t \in Callers /\ MoreAttempts(t)
    /\ ~closed /\ held[t] \in connections
    /\ Without(held[t])
    /\ connecting' = connecting + 1
    /\ held' = [held EXCEPT ![t] = None]
    /\ attempt' = [attempt EXCEPT ![t] = @ + 1]
    /\ NotifyAll(t, "redial")
    /\ UNCHANGED <<late, waiters, handoffs, closed, keepaliveVars>>

\* The stream goes on over the new connection; a later loss starts afresh.
Resumed(t) ==
    /\ pc[t] = "leased" /\ attempt[t] > 0
    /\ attempt' = [attempt EXCEPT ![t] = 0]
    /\ UNCHANGED <<poolVars, open, pc, held, late, keepaliveVars>>

-----------------------------------------------------------------------------
(* The keepalive thread and close().                                       *)

\* A round begins: expired connections go, the others are to be probed.
KeepaliveRound ==
    /\ ~closed /\ snapshot = <<>> /\ probing = None /\ idle # <<>>
    /\ \E old \in SUBSET (IF Eviction THEN Idle ELSE {}) :
          /\ connections' = connections \ old
          /\ idle' = Kept(idle, connections \ old)
          /\ open' = open \ old
          /\ IF idle' # idle THEN Notify ELSE UNCHANGED pc
    /\ snapshot' = idle'
    /\ UNCHANGED <<connecting, waiters, handoffs, closed, held, late, attempt,
                   probing>>

\* The connection stays in the idle stack while it is probed.
KeepaliveTakeInPlace ==
    /\ snapshot # <<>> /\ probing = None
    /\ snapshot' = IF closed \/ waiters # <<>> THEN <<>> ELSE Tail(snapshot)
    /\ probing' = IF ~closed /\ waiters = <<>>
                        /\ Head(snapshot) \in connections \cap Idle
                  THEN Head(snapshot) ELSE probing
    /\ UNCHANGED <<connections, idle, connecting, waiters, handoffs, closed, open,
                   threadVars>>

\* The next connection of the round: the round ends as soon as a caller
\* waits, and a connection that was taken meanwhile is skipped.
KeepaliveTake ==
    /\ snapshot # <<>> /\ probing = None
    /\ snapshot' = IF closed \/ waiters # <<>> THEN <<>> ELSE Tail(snapshot)
    /\ IF ~closed /\ waiters = <<>> /\ Head(snapshot) \in connections \cap Idle
       THEN /\ idle' = WithoutConn(idle, Head(snapshot))
            /\ probing' = Head(snapshot)
       ELSE UNCHANGED <<idle, probing>>
    /\ UNCHANGED <<connections, connecting, waiters, handoffs, closed, open,
                   threadVars>>

\* The probe is answered or fails.
KeepaliveProbed ==
    /\ probing # None
    /\ \/ ReleaseConnection(probing)
       \/ Without(probing) /\ UNCHANGED <<waiters, handoffs>>
    /\ Notify
    /\ probing' = None
    /\ UNCHANGED <<connecting, closed, held, late, attempt, snapshot>>

\* close(): every tracked socket is closed, whoever uses it.
Close ==
    /\ ~closed
    /\ closed' = TRUE
    /\ open' = open \ connections
    /\ connections' = {} /\ idle' = <<>>
    /\ waiters' = <<>> /\ handoffs' = [t \in Threads |-> None]
    /\ Notify
    /\ UNCHANGED <<connecting, held, late, attempt, keepaliveVars>>

-----------------------------------------------------------------------------

PoolNext ==
    \/ \E t \in Threads :
          \/ Enter(t) \/ Expire(t) \/ DeadlinePasses(t) \/ Admit(t)
          \/ Dialed(t) \/ DialFails(t) \/ RedialFails(t)
          \/ Redial(t) \/ ReleaseReserved(t)
          \/ Discard(t) \/ Retry(t) \/ Release(t) \/ Replace(t) \/ Resumed(t)
    \/ KeepaliveRound \/ KeepaliveTake \/ KeepaliveProbed \/ Close

\* What a thread does once it runs; opening a stream is up to the application.
Runs(t) ==
    \/ Expire(t) \/ Admit(t) \/ Dialed(t) \/ DialFails(t) \/ RedialFails(t)
    \/ Redial(t) \/ ReleaseReserved(t)

\* The stream of t is over.
Ends(t) == Release(t) \/ Discard(t)

\* Threads run, dials and probes end because they have time-outs, the deadline
\* of a prewarm worker passes, and a stream ends however often it is resumed.
PoolSpec ==
    /\ PoolInit /\ [][PoolNext]_vars
    /\ \A t \in Callers : WF_vars(Runs(t)) /\ SF_vars(Ends(t))
    /\ \A t \in Warmers : WF_vars(Runs(t) \/ Ends(t) \/ DeadlinePasses(t))
    /\ WF_vars(KeepaliveTake \/ KeepaliveProbed)

-----------------------------------------------------------------------------
(* Properties.                                                             *)

\* The threads that own a reserved slot.
Dialing == {t \in Threads : pc[t] \in {"dial", "redial", "redial_kept", "reserved"}}

\* "_connections + _connecting never exceeds max_connections"
\* (_checkout_connection), whatever fails, is replaced, retried or probed; the
\* reserved slots are those of the threads that dial, so none leaks; no socket
\* is open that the pool does not own, and a closed pool has none at all.
SlotsCounted ==
    /\ open = connections
    /\ IF closed THEN connections = {}
       ELSE /\ connecting = Cardinality(Dialing)
            /\ Cardinality(connections) + connecting <= MaxConnections

\* The threads and places that claim connection c.
Claims(c) ==
    {<<"leased", t>> : t \in {u \in Threads : held[u] = c}}
    \cup {<<"handoff", t>> : t \in {u \in Threads : handoffs[u] = c}}
    \cup {<<"idle", i>> : i \in {j \in DOMAIN idle : idle[j] = c}}
    \cup {<<"probing", p>> : p \in {probing} \cap {c}}

\* A websocket carries one session at a time: each connection of the pool is
\* in exactly one place, an idle place, a hand-off, a lease or a probe; none is
\* shared by two streams and none is forgotten.
ConnectionsExclusive ==
    /\ \A c \in connections : Cardinality(Claims(c)) = 1
    /\ Idle \subseteq connections
    /\ Len(idle) <= MaxIdle

\* No thread sleeps on the condition when one more pass of its loop would end
\* its wait: every change that could help a waiter notifies, also when the
\* waiter before it gives up.
NoLostWakeup == \A t \in Threads : pc[t] = "waiting" => ~CanProceed(t)

\* A caller that asks for a connection gets one or an error, even without
\* acquire_timeout and however often others come back: admission is first
\* come, first served.
AcquireSettles ==
    \A t \in Callers :
        pc[t] \in {"expire", "lock", "waiting"} ~>
            pc[t] \notin {"expire", "lock", "waiting"}
=============================================================================
