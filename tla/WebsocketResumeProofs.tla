------------------------ MODULE WebsocketResumeProofs ------------------------
(***************************************************************************)
(* Proofs about WebsocketResume: whatever connections break, text reaches  *)
(* the engine once and in order, the last connection to attach keeps the   *)
(* stream, a closed input has been told to the engine, and the caller is   *)
(* given the stream that ReliableStream promises, for any number of texts, *)
(* deliveries and connections.                                             *)
(***************************************************************************)
EXTENDS WebsocketResume, SequenceTheorems, TLAPS

-----------------------------------------------------------------------------
(* The inductive invariant.                                                *)

\* A frame on its way to the client, or in a handler's queue: it acknowledges
\* no more text than was accepted, names a delivery that was published, and is
\* "done" exactly if that is the terminal one.
Down == {m \in [t : {"none", "text_ack", "resumed", "resumed_closed", "resume_error",
                     "error", "event", "audio", "header", "payload", "done", "fence",
                     "failure"}, n : Nat] :
            /\ m.t \in {"text_ack", "resumed", "resumed_closed"} =>
                  m.n <= acked_text_seq /\ generation # 0
            /\ m.t \in {"event", "audio", "header", "payload"} =>
                  m.n <= produced /\ (terminal => m.n < produced)
            /\ m.t = "done" => terminal /\ m.n = produced}

\* A message on its way to a handler: it carries text that was sent, ends the
\* text where it ends, and acknowledges nothing that was not heard.
Up == {m \in [t : {"start", "text", "stop", "resume", "ack", "terminal_ack", "cancel"},
              n : Nat] :
            /\ m.t = "text" => m.n < next_text_seq
            /\ m.t = "stop" => stop_sent /\ m.n = next_text_seq - 1
            /\ m.t \in {"ack", "terminal_ack"} => m.n <= last_delivery_seq
            /\ m.t = "start" => generation = 0}

LinksInv ==
    /\ handler \in [Conns -> {"none", "ready", "ended"}]
    /\ alive \in [Conns -> BOOLEAN]
    /\ queue \in [Conns -> Seq(Down)]
    /\ wire \in [Conns -> Seq(Down)]
    /\ rframe \in Down

UplinkInv == uplink \in [Conns -> Seq(Up)]

\* Before the session is started nothing but the start and resumes that will
\* be refused reaches a handler.
StartInv ==
    generation = 0 =>
        /\ ~registered /\ attachment = 0 /\ produced = 0 /\ ~terminal
        /\ cancel_by = 0 /\ conn = 1 /\ phase # "commit"
        /\ handler[1] # "none" /\ (handler[1] = "ready" => uplink[1] # <<>>)
        /\ \A i \in DOMAIN uplink[1] : uplink[1][i].t = "start" <=> i = 1
        /\ \A g \in Conns \ {1} : \A i \in DOMAIN uplink[g] : uplink[g][i].t = "resume"

SessionInv ==
    /\ attachment \in Conns \cup {0} /\ generation \in Conns \cup {0}
    /\ grace_task \in Conns \cup {0} /\ cancel_by \in Conns \cup {0}
    /\ produced \in Nat /\ trimmed \in Nat

\* The owner is the last connection that attached.
OwnerInv ==
    /\ attachment \in {0, generation}
    /\ generation # 0 => handler[generation] # "none"
    /\ registered => generation # 0
    /\ NewestOwns

\* The text in the session, in the engine and with the client.
TextInv ==
    /\ acked_text_seq \in Nat /\ client_acked \in Nat
    /\ next_text_seq \in 1..(NumTexts + 1) /\ acked_text_seq < next_text_seq
    /\ final_text_seq \in -1..NumTexts
    /\ input_lock \in [g : Conns \cup {0}, op : {"free", "push", "close"}, n : Nat]
    /\ input_lock.op # "free" => input_lock.g \in Conns
    /\ input_lock.op = "push" => /\ input_lock.n = acked_text_seq + 1
                                 /\ input_lock.n < next_text_seq
    /\ input_lock.op = "close" => /\ input_lock.n = acked_text_seq /\ stop_sent
                                  /\ input_lock.n = next_text_seq - 1
    /\ stop_sent => send_closed
    /\ fed \in Seq(Nat)
    /\ TextOnce

\* What the caller has heard.
HeardInv ==
    /\ heard \in Seq(Nat) /\ last_delivery_seq = Len(heard)
    /\ \A i \in 1..Len(heard) : heard[i] = i
    /\ last_delivery_seq <= produced /\ trimmed <= last_delivery_seq
    /\ produced - trimmed <= MaxRetained
    /\ pending_header \in Nat /\ pending_header <= last_delivery_seq + 1
    /\ pending_header <= produced
    /\ terminal /\ pending_header # 0 => pending_header < produced
    /\ deliveries_since_ack \in Nat
    /\ outcome # "none" => finished
    /\ outcome = "done" => terminal /\ last_delivery_seq = produced

\* The threads of the client.
ClientInv ==
    /\ conn \in Conns /\ rconn \in Conns
    /\ cancel_conn \in Conns \cup {0} /\ sconn \in Conns \cup {0}
    /\ new_conn \in Conns \cup {0}
    /\ phase \in {"none", "dial", "resume", "await", "commit"}
    /\ phase \in {"resume", "await", "commit"} => new_conn \in Conns
    /\ leader \in Threads \cup {"none"}
    /\ phase = "none" <=> leader = "none"
    /\ attempt \in 0..Attempts

WsInv ==
    /\ SessionInv /\ OwnerInv /\ ClosedMeansTold /\ TextInv /\ ClientInv
    /\ HeardInv /\ LinksInv /\ UplinkInv /\ StartInv


USE ResumeAssumption

\* The steps are first-order reasoning unless they say otherwise; a leaf that needs
\* arithmetic, records or function updates cites SMT.
USE ZenonT(30)

\* Connections are numbered from 1; 0 is none.
LEMMA ConnFacts == 0 \notin Conns /\ 1 \in Conns
BY SMTT(30) DEF Conns

\* The invariant, part by part.
LEMMA WsParts ==
    ASSUME WsInv
    PROVE  /\ SessionInv /\ OwnerInv /\ ClosedMeansTold /\ TextInv /\ ClientInv
           /\ HeardInv /\ LinksInv /\ UplinkInv /\ StartInv
BY DEF WsInv

-----------------------------------------------------------------------------
(* Frames and messages.                                                    *)

\* What the operations on sequences make of sequences over a set.
LEMMA SeqForms ==
    ASSUME NEW S, NEW s \in Seq(S), NEW t \in Seq(S), NEW x \in S
    PROVE  /\ <<>> \in Seq(S) /\ <<x>> \in Seq(S)
           /\ Append(s, x) \in Seq(S) /\ s \o t \in Seq(S)
           /\ s # <<>> => Head(s) \in S /\ Tail(s) \in Seq(S) /\ Head(s) = s[1]
           /\ \A T : S \subseteq T => s \in Seq(T)
<1>1. <<>> \in Seq(S) /\ <<x>> \in Seq(S)
  BY SMTT(30)
<1>2. Append(s, x) \in Seq(S)
  BY AppendProperties
<1>3. s \o t \in Seq(S)
  BY ConcatProperties
<1>4. s # <<>> => Head(s) \in S /\ Tail(s) \in Seq(S) /\ Head(s) = s[1]
  BY SMTT(30), HeadTailProperties, EmptySeq, ElementOfSeq
<1>5. ASSUME NEW T, S \subseteq T PROVE s \in Seq(T)
  BY SMTT(30), <1>5
<1> QED BY <1>1, <1>2, <1>3, <1>4, <1>5

\* A sequence is over every set that has its elements.
LEMMA SeqOf ==
    ASSUME NEW S, NEW T, NEW s \in Seq(S), \A i \in 1..Len(s) : s[i] \in T
    PROVE  s \in Seq(T)
<1>1. Len(s) \in Nat /\ s \in [1..Len(s) -> S]
  BY LenProperties
<1>2. s \in [1..Len(s) -> T]
  BY <1>1
<1> QED BY SMTT(30), <1>1, <1>2, SeqDef

\* A frame stays true: text stays accepted, and deliveries stay published.
LEMMA DownGrows ==
    ASSUME SessionInv, TextInv, acked_text_seq' \in Nat, acked_text_seq <= acked_text_seq',
           generation # 0 => generation' # 0,
           \/ UNCHANGED <<produced, terminal>>
           \/ ~terminal /\ produced' = produced + 1
    PROVE  Down \subseteq Down'
BY SMTT(30) DEF Down, SessionInv, TextInv

\* A message stays true: what was sent and heard stays so, and no text follows
\* its end.
LEMMA UpGrows ==
    ASSUME TextInv, HeardInv, UNCHANGED generation,
           next_text_seq' \in Nat, next_text_seq <= next_text_seq',
           stop_sent => stop_sent' /\ next_text_seq' = next_text_seq,
           last_delivery_seq' \in Nat, last_delivery_seq <= last_delivery_seq'
    PROVE  Up \subseteq Up'
<1>1. next_text_seq \in Nat /\ last_delivery_seq \in Nat
  BY SMTT(30), LenProperties DEF TextInv, HeardInv
<1> QED BY SMTT(30), <1>1 DEF Up

\* The frames that say nothing about text or deliveries.
LEMMA PlainFrames ==
    /\ F("error", 0) \in Down /\ F("resume_error", 0) \in Down
    /\ F("fence", 0) \in Down /\ F("failure", 0) \in Down /\ NoFrame \in Down
BY DEF F, NoFrame, Down

\* An acknowledgement of the text that was accepted.
LEMMA AckFrame ==
    ASSUME acked_text_seq' \in Nat, generation' # 0
    PROVE  F("text_ack", acked_text_seq') \in Down'
BY SMTT(30) DEF F, Down

-----------------------------------------------------------------------------
(* What leaves a part of the invariant alone.                              *)

TextSame ==
    /\ UNCHANGED <<acked_text_seq, client_acked, next_text_seq, final_text_seq, input_lock,
                   stop_sent, fed, input_complete>>
    /\ send_closed => send_closed'
    /\ engine_cancelled => engine_cancelled'
    /\ terminal => terminal'

\* A step that takes, closes or sends no text keeps what is known of the text.
LEMMA TextKept ==
    ASSUME TextInv, TextSame
    PROVE  TextInv'
BY DEF TextInv, TextSame, TextOnce

StartSame ==
    /\ UNCHANGED <<generation, registered, attachment, produced, terminal, cancel_by, conn,
                   uplink>>
    /\ generation = 0 => handler'[1] = handler[1]
    /\ phase' # "commit"

\* A step that starts and sends nothing keeps what is known before the start.
LEMMA StartUntouched ==
    ASSUME StartInv, StartSame
    PROVE  StartInv'
BY SMTT(30) DEF StartInv, StartSame

HeardSame ==
    /\ UNCHANGED <<heard, last_delivery_seq, produced, trimmed, terminal>>
    /\ pending_header' \in {0, pending_header}
    /\ deliveries_since_ack' \in Nat
    /\ finished => finished'
    /\ outcome' # outcome => outcome' # "done" /\ finished'

\* A step that delivers nothing keeps what is known of the deliveries.
LEMMA HeardKept ==
    ASSUME SessionInv, HeardInv, HeardSame
    PROVE  HeardInv'
<1>1. last_delivery_seq \in Nat /\ produced \in Nat
  BY LenProperties DEF HeardInv, SessionInv
<1> QED BY SMTT(30), <1>1 DEF HeardInv, HeardSame

\* Trimming what was heard leaves room in the replay buffer.
LEMMA TrimKept ==
    ASSUME SessionInv, HeardInv,
           UNCHANGED <<heard, last_delivery_seq, produced, terminal, pending_header,
                       deliveries_since_ack, finished, outcome>>,
           trimmed' \in Nat, trimmed <= trimmed', trimmed' <= last_delivery_seq
    PROVE  HeardInv'
<1>1. produced \in Nat /\ trimmed \in Nat /\ produced - trimmed <= MaxRetained
  BY DEF SessionInv, HeardInv
<1>2. produced' - trimmed' <= MaxRetained
  <2>1. PICK y \in Nat : y = trimmed' /\ trimmed <= y
    OBVIOUS
  <2>2. MaxRetained \in Int /\ trimmed <= y
    BY SMTT(30), <2>1
  <2>3. produced - y <= MaxRetained
    BY ONLY <1>1, <2>2, y \in Nat
  <2> QED BY <2>1, <2>3
<1> QED BY <1>2 DEF HeardInv

\* A step of the server leaves the threads of the client where they are.
LEMMA ClientKept ==
    ASSUME ClientInv, UNCHANGED clientVars
    PROVE  ClientInv'
BY DEF ClientInv, clientVars, streamVars, hearVars, readerVars, senderVars, leaderVars

\* Messages reach a handler at the end of its uplink.
LEMMA Delivered ==
    ASSUME UplinkInv, Up \subseteq Up', NEW g \in Conns, NEW m \in Up', Deliver(g, m)
    PROVE  UplinkInv'
<1> USE DEF UplinkInv
<1>1. uplink \in [Conns -> Seq(Up')]
  BY SMTT(30), SeqForms
<1>2. Append(uplink[g], m) \in Seq(Up')
  BY SMTT(30), <1>1, SeqForms
<1> QED BY <1>1, <1>2 DEF Deliver

\* Nothing but a start starts the session.
LEMMA StartKept ==
    ASSUME StartInv, UplinkInv,
           UNCHANGED <<registered, attachment, produced, terminal, cancel_by, generation,
                       handler>>,
           generation = 0 => conn' = 1 /\ phase' # "commit",
           \/ UNCHANGED uplink
           \/ \E g \in Conns, m \in Up' : /\ Deliver(g, m) /\ m.t # "start"
                                         /\ (generation = 0 /\ g # 1 => m.t = "resume")
    PROVE  StartInv'
<1>1. CASE UNCHANGED uplink
  BY SMTT(30), <1>1 DEF StartInv
<1>2. ASSUME NEW g \in Conns, NEW m \in Up', Deliver(g, m), m.t # "start",
             generation = 0 /\ g # 1 => m.t = "resume", uplink' # uplink, generation = 0
      PROVE  StartInv'
  <2>1. handler[g] = "ready" /\ uplink' = [uplink EXCEPT ![g] = Append(@, m)]
    BY <1>2 DEF Deliver
  <2>2. /\ uplink[g] \in Seq(Up) /\ uplink \in [Conns -> Seq(Up)]
    BY DEF UplinkInv
  <2>3. PICK n \in Nat : Len(uplink[g]) = n
    BY <2>2, LenProperties
  <2>4. /\ Len(uplink'[g]) = n + 1 /\ uplink'[g][n + 1] = m
        /\ \A i \in 1..n : uplink'[g][i] = uplink[g][i]
        /\ DOMAIN uplink'[g] = 1..(n + 1) /\ DOMAIN uplink[g] = 1..n
        /\ uplink'[g] # <<>>
    <3>1. uplink'[g] = Append(uplink[g], m)
      BY <2>1, <2>2
    <3>2. uplink[g] \in Seq(Up \cup {m}) /\ m \in Up \cup {m}
      BY SMTT(30), <2>2
    <3>3. PICK s : s = uplink[g] /\ uplink'[g] = Append(s, m)
      BY <3>1
    <3>4. /\ Len(Append(s, m)) = n + 1 /\ Append(s, m)[n + 1] = m
          /\ \A i \in 1..n : Append(s, m)[i] = s[i]
          /\ Append(s, m) \in Seq(Up \cup {m}) /\ Append(s, m) # <<>>
      BY SMTT(30), <3>2, <3>3, <2>3, AppendProperties
    <3>5. DOMAIN Append(s, m) = 1..(n + 1) /\ DOMAIN s = 1..n
      BY SMTT(30), <3>2, <3>3, <3>4, <2>3, LenProperties
    <3> QED BY <3>3, <3>4, <3>5
  <2>5. g = 1 => n # 0
    BY SMTT(30), <2>1, <2>2, <2>3, <1>2, EmptySeq DEF StartInv
  <2>6. \A h \in Conns \ {g} : uplink'[h] = uplink[h]
    BY <2>1, <2>2
  <2>7. /\ handler'[1] = "ready" => uplink'[1] # <<>>
        /\ \A i \in DOMAIN uplink'[1] : uplink'[1][i].t = "start" <=> i = 1
    <3>1. CASE g = 1
      BY SMTT(30), <3>1, <2>4, <2>5, <1>2 DEF StartInv
    <3>2. CASE g # 1
      BY <3>2, <2>6, ConnFacts, <1>2 DEF StartInv
    <3> QED BY <3>1, <3>2
  <2>8. \A h \in Conns \ {1} : \A i \in DOMAIN uplink'[h] : uplink'[h][i].t = "resume"
    <3>1. ASSUME NEW h \in Conns \ {1}, NEW i \in DOMAIN uplink'[h]
          PROVE  uplink'[h][i].t = "resume"
      <4>1. CASE h = g
        BY SMTT(30), <4>1, <3>1, <2>4, <1>2 DEF StartInv
      <4>2. CASE h # g
        BY SMTT(30), <4>2, <3>1, <2>6, <1>2 DEF StartInv
      <4> QED BY <4>1, <4>2
    <3> QED BY <3>1
  <2> QED BY <2>7, <2>8, <1>2 DEF StartInv
<1>3. CASE generation # 0
  BY <1>3 DEF StartInv
<1> QED BY <1>1, <1>2, <1>3

-----------------------------------------------------------------------------
(* The session and its handlers.                                           *)

\* What a handler receives was sent; before the session is started, only a
\* start on the first connection, or a resume on a later one.
LEMMA Received ==
    ASSUME UplinkInv, StartInv, NEW g \in Conns, NEW t, Receives(g, t)
    PROVE  /\ uplink[g] # <<>> /\ handler[g] = "ready" /\ ~Busy(g)
           /\ Head(uplink[g]) \in Up /\ Head(uplink[g]).t = t
           /\ t = "start" => generation = 0 /\ g = 1
           /\ t \notin {"start", "resume"} => generation # 0
<1>1. uplink[g] # <<>> /\ handler[g] = "ready" /\ ~Busy(g) /\ Head(uplink[g]).t = t
  BY DEF Receives, Ready
<1>2. Head(uplink[g]) \in Up /\ Head(uplink[g]) = uplink[g][1] /\ 1 \in DOMAIN uplink[g]
  <2>1. uplink[g] \in Seq(Up)
    BY DEF UplinkInv
  <2> QED BY SMTT(30), <2>1, <1>1, HeadTailProperties, EmptySeq, ElementOfSeq
<1>3. t = "start" => generation = 0
  BY <1>1, <1>2 DEF Up
<1> QED BY SMTT(30), <1>1, <1>2, <1>3 DEF StartInv

\* A message that was taken is gone.
LEMMA Consumed ==
    ASSUME UplinkInv, Up \subseteq Up', NEW g \in Conns, uplink[g] # <<>>, Consume(g)
    PROVE  UplinkInv'
<1> USE DEF UplinkInv
<1>1. uplink \in [Conns -> Seq(Up')]
  BY SMTT(30), SeqForms
<1>2. Tail(uplink[g]) \in Seq(Up')
  BY <1>1, HeadTailProperties, EmptySeq
<1> QED BY <1>1, <1>2 DEF Consume

\* The frames under way stay true.
LEMMA LinksGrow ==
    ASSUME LinksInv, Down \subseteq Down'
    PROVE  /\ queue \in [Conns -> Seq(Down')] /\ wire \in [Conns -> Seq(Down')]
           /\ rframe \in Down'
BY SMTT(30), SeqForms DEF LinksInv

\* Frames reach the wire behind those already there.
LEMMA Sent ==
    ASSUME LinksInv, Down \subseteq Down', NEW g \in Conns, NEW fs \in Seq(Down'),
           Send(g, fs)
    PROVE  wire' \in [Conns -> Seq(Down')]
<1>1. wire \in [Conns -> Seq(Down')]
  BY LinksGrow
<1>2. wire[g] \o fs \in Seq(Down')
  BY <1>1, ConcatProperties
<1> QED BY <1>1, <1>2 DEF Send

\* Nothing that a server step leaves to the client changes what a message or a
\* frame says.
LEMMA SameWords ==
    ASSUME SessionInv, TextInv, HeardInv,
           UNCHANGED <<acked_text_seq, generation, produced, terminal, clientVars>>
    PROVE  Down \subseteq Down' /\ Up \subseteq Up'
<1>1. last_delivery_seq \in Nat /\ next_text_seq \in Nat
  BY SMTT(30), LenProperties DEF HeardInv, TextInv
<1>2. UNCHANGED <<next_text_seq, stop_sent, last_delivery_seq>>
  BY DEF clientVars, streamVars, hearVars
<1>3. acked_text_seq \in Nat
  BY DEF TextInv
<1>4. Down \subseteq Down'
  BY SMTT(30), <1>3, DownGrows
<1>5. Up \subseteq Up'
  BY SMTT(30), <1>1, <1>2, UpGrows
<1> QED BY <1>4, <1>5

\* A handler that ends detaches the session if it owns it, and nothing else.
LEMMA Ends ==
    ASSUME WsInv, NEW g \in Conns, End(g), closed => closed',
           \/ UNCHANGED wire
           \/ Send(g, <<F("error", 0)>>) \/ Send(g, <<F("resume_error", 0)>>),
           UNCHANGED <<registered, expiring, failure, terminal, generation, terminal_task,
                       produced, trimmed, acked_text_seq, cancel_by, clientVars>>,
           TextInv', ClosedMeansTold'
    PROVE  WsInv'
<1> USE WsParts
<1>1. Down \subseteq Down' /\ Up \subseteq Up'
  BY SameWords
<1>2. LinksInv'
  <2>1. F("error", 0) \in Down' /\ F("resume_error", 0) \in Down'
    BY PlainFrames, <1>1
  <2>2. wire' \in [Conns -> Seq(Down')]
    <3>1. <<F("error", 0)>> \in Seq(Down') /\ <<F("resume_error", 0)>> \in Seq(Down')
      BY SMTT(30), <2>1
    <3>2. CASE UNCHANGED wire
      BY <3>2, <1>1, LinksGrow
    <3> QED BY <3>1, <3>2, <1>1, Sent
  <2>3. <<>> \in Seq(Down')
    BY SMTT(30)
  <2>4. queue' \in [Conns -> Seq(Down')]
    BY <2>3, <1>1, LinksGrow DEF End
  <2>5. rframe' \in Down'
    BY <1>1, LinksGrow DEF clientVars, readerVars
  <2> QED BY <2>2, <2>4, <2>5 DEF LinksInv, End
<1>3. UplinkInv'
  <2>1. uplink \in [Conns -> Seq(Up')] /\ <<>> \in Seq(Up')
    BY SMTT(30), <1>1, SeqForms DEF UplinkInv
  <2> QED BY <2>1 DEF UplinkInv, End
<1>4. attachment' \in {0, attachment} /\ (attachment' # attachment => Current(g))
  BY DEF End, Detach
<1>5. SessionInv'
  BY <1>4 DEF SessionInv, End, Detach
<1>6. OwnerInv'
  <2>1. handler' = [handler EXCEPT ![g] = "ended"] /\ handler \in [Conns -> {"none", "ready", "ended"}]
    BY DEF End, LinksInv
  <2>2. generation \in Conns \cup {0}
    BY DEF SessionInv
  <2> QED BY <1>4, <2>1, <2>2 DEF OwnerInv, NewestOwns, Current
<1>7. HeardInv'
  <2>1. HeardSame
    BY DEF HeardSame, clientVars, streamVars, hearVars, HeardInv
  <2> QED BY <2>1, HeardKept
<1>8. StartInv'
  <2>1. /\ handler' = [handler EXCEPT ![g] = "ended"] /\ handler \in [Conns -> {"none", "ready", "ended"}]
        /\ uplink' = [uplink EXCEPT ![g] = <<>>] /\ uplink \in [Conns -> Seq(Up)]
    BY DEF End, LinksInv, UplinkInv
  <2>2. \A h \in Conns : \/ handler'[h] = "ended" /\ uplink'[h] = <<>> /\ DOMAIN uplink'[h] = {}
                         \/ handler'[h] = handler[h] /\ uplink'[h] = uplink[h]
    BY SMTT(30), <2>1
  <2>3. UNCHANGED <<conn, phase>>
    BY DEF clientVars, streamVars, leaderVars
  <2> QED BY SMTT(30), <1>4, <2>2, <2>3, ConnFacts DEF StartInv
<1> QED BY <1>2, <1>3, <1>5, <1>6, <1>7, <1>8, ClientKept DEF WsInv

\* A delivery is published once, in the queue of the connection that owns the
\* session if there is one; a full replay buffer ends the stream instead.
LEMMA Puts ==
    ASSUME WsInv, NEW last \in BOOLEAN, Put(last), generation # 0,
           cancel_by' \in {0, cancel_by},
           UNCHANGED <<registered, closed, expiring, attachment, generation, grace_task,
                       trimmed, acked_text_seq, input_closed, final_text_seq, input_lock,
                       fed, input_complete, handler, alive, wire, uplink, clientVars>>
    PROVE  WsInv'
<1> USE WsParts
<1>1. /\ attachment \in Conns \cup {0} /\ produced \in Nat /\ trimmed \in Nat
      /\ acked_text_seq \in Nat /\ last_delivery_seq \in Nat /\ next_text_seq \in Nat
  BY SMTT(30), LenProperties DEF SessionInv, TextInv, HeardInv
<1>2. UNCHANGED <<heard, last_delivery_seq, pending_header, deliveries_since_ack, outcome,
                  finished, next_text_seq, client_acked, stop_sent, send_closed, rframe,
                  conn, phase>>
  BY DEF clientVars, streamVars, hearVars, readerVars, leaderVars
<1>3. /\ terminal => terminal' /\ UNCHANGED produced
      /\ engine_cancelled => engine_cancelled'
      /\ \/ UNCHANGED <<produced, terminal>>
         \/ ~terminal /\ produced' = produced + 1 /\ produced' - trimmed <= MaxRetained
  BY SMTT(30), <1>1 DEF Put
<1>4. Down \subseteq Down'
  BY SMTT(30), <1>1, <1>3, DownGrows
<1>5. Up \subseteq Up'
  BY SMTT(30), <1>1, <1>2, UpGrows
<1>6. queue' \in [Conns -> Seq(Down')]
  <2>1. queue \in [Conns -> Seq(Down')] /\ F("failure", 0) \in Down'
    BY <1>4, LinksGrow, PlainFrames
  <2>2. produced' = produced + 1 /\ terminal' = last
          => F(Kind(produced + 1, last), produced + 1) \in Down'
    BY SMTT(30), <1>1 DEF F, Kind, Down
  <2>3. PICK m \in Down' :
            \/ queue' = queue
            \/ attachment # 0 /\ queue' = [queue EXCEPT ![attachment] = Append(@, m)]
    BY <2>1, <2>2 DEF Put
  <2>4. attachment # 0 => Append(queue[attachment], m) \in Seq(Down')
    BY <2>1, <1>1, AppendProperties
  <2> QED BY <2>1, <2>3, <2>4, <1>1
<1>7. LinksInv'
  BY <1>2, <1>4, <1>6, LinksGrow DEF LinksInv
<1>8. UplinkInv'
  BY SMTT(30), <1>5, SeqForms DEF UplinkInv
<1>9. SessionInv' /\ OwnerInv' /\ StartInv'
  BY SMTT(30), <1>1, <1>3 DEF SessionInv, OwnerInv, NewestOwns, StartInv
<1>10. TextInv' /\ ClosedMeansTold'
  <2>1. TextSame
    BY <1>2, <1>3 DEF TextSame
  <2> QED BY <2>1, <1>3, TextKept DEF ClosedMeansTold
<1>11. HeardInv'
  BY SMTT(30), <1>1, <1>2, <1>3 DEF HeardInv
<1> QED BY <1>7, <1>8, <1>9, <1>10, <1>11, ClientKept DEF WsInv

\* The session is removed: nobody owns it any more.
LEMMA Removes ==
    ASSUME WsInv, NEW fence \in BOOLEAN, RemoveSession(fence),
           UNCHANGED <<failure, terminal, generation, produced, trimmed, inputVars,
                       engineVars, handler, alive, wire, uplink, clientVars>>
    PROVE  WsInv'
<1> USE WsParts
<1>1. UNCHANGED <<acked_text_seq, input_closed, final_text_seq, input_lock, cancel_by, fed,
                  input_complete, engine_cancelled>>
  BY DEF inputVars, engineVars
<1>2. Down \subseteq Down' /\ Up \subseteq Up'
  BY <1>1, SameWords
<1>3. queue' \in [Conns -> Seq(Down')]
  <2>1. queue \in [Conns -> Seq(Down')] /\ F("fence", 0) \in Down'
    BY <1>2, LinksGrow, PlainFrames
  <2>2. attachment \in Conns \cup {0}
    BY DEF SessionInv
  <2>3. attachment # 0 => Append(queue[attachment], F("fence", 0)) \in Seq(Down')
    BY <2>1, <2>2, AppendProperties
  <2> QED BY <2>1, <2>2, <2>3 DEF RemoveSession
<1>4. UNCHANGED <<heard, last_delivery_seq, pending_header, deliveries_since_ack, outcome,
                  finished, next_text_seq, client_acked, stop_sent, send_closed, rframe,
                  conn, phase>>
  BY DEF clientVars, streamVars, hearVars, readerVars, leaderVars
<1>5. LinksInv' /\ UplinkInv'
  BY SMTT(30), <1>2, <1>3, <1>4, LinksGrow, SeqForms DEF LinksInv, UplinkInv
<1>6. SessionInv' /\ OwnerInv' /\ StartInv' /\ ClosedMeansTold'
  BY SMTT(30), <1>1, <1>4 DEF SessionInv, OwnerInv, NewestOwns, StartInv, RemoveSession, ClosedMeansTold
<1>7. TextInv'
  <2>1. TextSame
    BY <1>1, <1>4 DEF TextSame
  <2> QED BY <2>1, TextKept
<1>8. HeardInv'
  <2>1. HeardSame
    BY <1>4 DEF HeardSame, HeardInv
  <2> QED BY <2>1, HeardKept
<1> QED BY <1>5, <1>6, <1>7, <1>8, ClientKept DEF WsInv

\* What a handler takes from its uplink changes, in most cases, only what the
\* message is about.
LEMMA Takes ==
    ASSUME WsInv, NEW g \in Conns, NEW t, t \notin {"start", "resume"}, Receives(g, t),
           Consume(g),
           \/ UNCHANGED wire
           \/ Send(g, <<F("text_ack", acked_text_seq)>>),
           cancel_by' \in {g, cancel_by},
           UNCHANGED <<registered, closed, expiring, failure, terminal, attachment,
                       generation, grace_task, terminal_task, produced, acked_text_seq,
                       handler, queue, alive, clientVars>>,
           trimmed' \in Nat, trimmed <= trimmed', trimmed' <= last_delivery_seq,
           TextInv', ClosedMeansTold'
    PROVE  WsInv'
<1> USE WsParts
<1>1. uplink[g] # <<>> /\ generation # 0
  BY Received
<1>2. Down \subseteq Down' /\ Up \subseteq Up'
  BY SameWords
<1>3. UNCHANGED <<heard, last_delivery_seq, pending_header, deliveries_since_ack, outcome,
                  finished, rframe>>
  BY DEF clientVars, streamVars, hearVars, readerVars
<1>4. wire' \in [Conns -> Seq(Down')]
  <2>1. F("text_ack", acked_text_seq) \in Down'
    <3>1. acked_text_seq \in Nat
      BY DEF TextInv
    <3> QED BY <1>1, <3>1, AckFrame
  <2>2. <<F("text_ack", acked_text_seq)>> \in Seq(Down')
    BY SMTT(30), <2>1
  <2>3. CASE UNCHANGED wire
    BY <2>3, <1>2, LinksGrow
  <2> QED BY <2>2, <2>3, <1>2, Sent
<1>5. LinksInv' /\ UplinkInv'
  BY <1>1, <1>2, <1>3, <1>4, LinksGrow, Consumed DEF LinksInv
<1>6. SessionInv' /\ OwnerInv' /\ StartInv'
  BY <1>1 DEF SessionInv, OwnerInv, NewestOwns, StartInv
<1>7. HeardInv'
  BY <1>3, TrimKept
<1> QED BY <1>5, <1>6, <1>7, ClientKept DEF WsInv

\* "text" keeps the invariant.
LEMMA AcceptTextKeeps ==
    ASSUME WsInv, NEW g \in Conns, AcceptText(g)
    PROVE  WsInv'
<1> USE WsParts
<1>1. Receives(g, "text") /\ input_lock = Free
  BY DEF AcceptText
<1>2. PICK n \in Nat : n = Head(uplink[g]).n /\ n < next_text_seq
  BY <1>1, Received DEF Up
<1>3. /\ UNCHANGED <<registered, closed, expiring, failure, terminal, generation,
                     terminal_task, produced, trimmed, acked_text_seq, input_closed,
                     final_text_seq, cancel_by, fed, input_complete, engine_cancelled,
                     clientVars>>
      /\ UNCHANGED <<send_closed, client_acked, next_text_seq, stop_sent>>
  BY DEF AcceptText, engineVars, clientVars, streamVars
<1>4. trimmed \in Nat /\ trimmed <= last_delivery_seq
  BY DEF SessionInv, HeardInv
<1>5. UNCHANGED input_lock => TextInv' /\ ClosedMeansTold'
  <2>1. UNCHANGED input_lock => TextSame
    BY <1>3 DEF TextSame
  <2> QED BY <2>1, <1>3, TextKept DEF ClosedMeansTold
<1>6. CASE Refuse(g, "resume_error") /\ UNCHANGED input_lock
  BY <1>3, <1>5, <1>6, Ends DEF Refuse
<1>7. CASE /\ Consume(g) /\ Send(g, <<F("text_ack", acked_text_seq)>>)
           /\ UNCHANGED <<handler, alive, queue, attachment, grace_task, input_lock>>
  BY SMTT(30), <1>1, <1>3, <1>4, <1>5, <1>7, Takes
<1>8. CASE /\ n = acked_text_seq + 1 /\ ~input_closed /\ Consume(g)
           /\ input_lock' = [g |-> g, op |-> "push", n |-> n]
           /\ UNCHANGED <<handler, alive, queue, attachment, grace_task, wire>>
  <2>1. TextInv' /\ ClosedMeansTold'
    BY <1>2, <1>3, <1>8 DEF TextInv, TextOnce, ClosedMeansTold
  <2> QED BY SMTT(30), <1>1, <1>3, <1>4, <1>8, <2>1, Takes
<1> QED BY <1>2, <1>6, <1>7, <1>8 DEF AcceptText

\* "stop" keeps the invariant: the text ends where the client ended it.
LEMMA CloseInputKeeps ==
    ASSUME WsInv, NEW g \in Conns, CloseInput(g)
    PROVE  WsInv'
<1> USE WsParts
<1>1. Receives(g, "stop") /\ input_lock = Free
  BY DEF CloseInput
<1>2. PICK n \in Nat : n = Head(uplink[g]).n /\ stop_sent /\ n = next_text_seq - 1
  BY SMTT(30), <1>1, Received DEF Up
<1>3. /\ UNCHANGED <<registered, closed, expiring, failure, terminal, generation,
                     terminal_task, produced, trimmed, acked_text_seq, cancel_by, fed,
                     input_complete, engine_cancelled, clientVars>>
      /\ UNCHANGED <<send_closed, client_acked, next_text_seq, stop_sent>>
  BY DEF CloseInput, engineVars, clientVars, streamVars
<1>4. trimmed \in Nat /\ trimmed <= last_delivery_seq
  BY DEF SessionInv, HeardInv
<1>5. UNCHANGED <<input_lock, input_closed, final_text_seq>> => TextInv' /\ ClosedMeansTold'
  <2>1. UNCHANGED <<input_lock, final_text_seq>> => TextSame
    BY <1>3 DEF TextSame
  <2> QED BY SMTT(30), <2>1, <1>3, TextKept DEF ClosedMeansTold
<1>6. CASE Refuse(g, "resume_error") /\ UNCHANGED <<input_lock, input_closed, final_text_seq>>
  BY <1>3, <1>5, <1>6, Ends DEF Refuse
<1>7. CASE /\ Consume(g)
           /\ UNCHANGED <<handler, alive, queue, attachment, grace_task, input_lock,
                          input_closed, final_text_seq, wire>>
  BY SMTT(30), <1>1, <1>3, <1>4, <1>5, <1>7, Takes
<1>8. CASE /\ n = acked_text_seq /\ Consume(g) /\ final_text_seq' = n
           /\ input_lock' = [g |-> g, op |-> "close", n |-> n]
           /\ UNCHANGED <<handler, alive, queue, attachment, grace_task, wire>>
  <2>1. TextInv' /\ ClosedMeansTold'
    BY SMTT(30), <1>2, <1>3, <1>8 DEF TextInv, TextOnce, ClosedMeansTold
  <2> QED BY SMTT(30), <1>1, <1>3, <1>4, <1>8, <2>1, Takes
<1> QED BY <1>2, <1>6, <1>7, <1>8 DEF CloseInput

\* "ack" keeps the invariant: what it trims was heard.
LEMMA AcknowledgeKeeps ==
    ASSUME WsInv, NEW g \in Conns, Acknowledge(g)
    PROVE  WsInv'
<1> USE WsParts
<1>1. Receives(g, "ack")
  BY DEF Acknowledge
<1>2. PICK n \in Nat : n = Head(uplink[g]).n /\ n <= last_delivery_seq
  BY <1>1, Received DEF Up
<1>3. UNCHANGED <<registered, closed, expiring, failure, terminal, generation,
                  terminal_task, produced, acked_text_seq, input_closed, final_text_seq,
                  input_lock, cancel_by, fed, input_complete, engine_cancelled, clientVars>>
  BY DEF Acknowledge, inputVars, engineVars
<1>4. TextInv' /\ ClosedMeansTold'
  <2>1. TextSame
    BY <1>3 DEF TextSame, clientVars, streamVars
  <2> QED BY <2>1, <1>3, TextKept DEF ClosedMeansTold
<1>5. trimmed \in Nat /\ trimmed <= last_delivery_seq
  BY DEF SessionInv, HeardInv
<1>6. CASE Refuse(g, "resume_error") /\ UNCHANGED trimmed
  BY <1>3, <1>4, <1>6, Ends DEF Refuse
<1>7. CASE /\ Consume(g) /\ trimmed' = IF n < trimmed THEN trimmed ELSE n
           /\ UNCHANGED <<handler, alive, queue, attachment, grace_task, wire>>
  <2>1. trimmed' \in Nat /\ trimmed <= trimmed' /\ trimmed' <= last_delivery_seq
    BY SMTT(30), <1>2, <1>5, <1>7
  <2> QED BY <1>1, <1>3, <1>4, <1>7, <2>1, Takes
<1> QED BY <1>2, <1>6, <1>7 DEF Acknowledge

\* "terminal_ack" keeps the invariant: the session is removed by its owner.
LEMMA TerminalAckKeeps ==
    ASSUME WsInv, NEW g \in Conns, TerminalAck(g)
    PROVE  WsInv'
<1> USE WsParts
<1>1. Receives(g, "terminal_ack")
  BY DEF TerminalAck
<1>2. PICK n \in Nat : n = Head(uplink[g]).n /\ n <= last_delivery_seq
  BY <1>1, Received DEF Up
<1>3. UNCHANGED <<expiring, failure, terminal, generation, produced, acked_text_seq,
                  input_closed, final_text_seq, input_lock, cancel_by, fed, input_complete,
                  engine_cancelled, clientVars>>
  BY DEF TerminalAck, inputVars, engineVars
<1>4. TextInv'
  <2>1. TextSame
    BY <1>3 DEF TextSame, clientVars, streamVars
  <2> QED BY <2>1, TextKept
<1>5. trimmed \in Nat /\ trimmed <= last_delivery_seq
  BY DEF SessionInv, HeardInv
<1>6. CASE /\ Refuse(g, "resume_error")
           /\ UNCHANGED <<trimmed, registered, closed, terminal_task>>
  <2>1. ClosedMeansTold'
    BY <1>3, <1>6 DEF ClosedMeansTold
  <2> QED BY <1>3, <1>4, <1>6, <2>1, Ends DEF Refuse
<1>7. CASE /\ trimmed' = IF n < trimmed THEN trimmed ELSE n
           /\ Consume(g) /\ RemoveSession(FALSE)
           /\ handler' = [handler EXCEPT ![g] = "ended"]
           /\ UNCHANGED <<alive, wire>>
  <2>1. trimmed' \in Nat /\ trimmed <= trimmed' /\ trimmed' <= last_delivery_seq
    BY SMTT(30), <1>2, <1>5, <1>7
  <2>2. uplink[g] # <<>> /\ generation # 0
    BY SMTT(30), <1>1, Received
  <2>3. Down \subseteq Down' /\ Up \subseteq Up'
    BY <1>3, SameWords
  <2>4. UNCHANGED <<heard, last_delivery_seq, pending_header, deliveries_since_ack,
                    outcome, finished, rframe>>
    BY <1>3 DEF clientVars, streamVars, hearVars, readerVars
  <2>5. UNCHANGED queue /\ attachment' = 0 /\ ~registered' /\ grace_task' = 0 /\ closed'
    BY <1>7 DEF RemoveSession
  <2>6. LinksInv' /\ UplinkInv'
    BY <1>7, <2>2, <2>3, <2>4, <2>5, LinksGrow, Consumed DEF LinksInv
  <2>7. SessionInv' /\ OwnerInv' /\ StartInv' /\ ClosedMeansTold'
    BY <1>3, <1>7, <2>1, <2>2, <2>5
    DEF SessionInv, OwnerInv, NewestOwns, StartInv, ClosedMeansTold, LinksInv
  <2>8. HeardInv'
    BY <1>3, <2>1, <2>4, TrimKept
  <2> QED BY <1>3, <1>4, <2>6, <2>7, <2>8, ClientKept DEF WsInv
<1> QED BY <1>2, <1>6, <1>7 DEF TerminalAck

\* "cancel" keeps the invariant: the engine is cancelled with the input.
LEMMA CancelStreamKeeps ==
    ASSUME WsInv, NEW g \in Conns, CancelStream(g)
    PROVE  WsInv'
<1> USE WsParts
<1>1. /\ Receives(g, "cancel") /\ Consume(g) /\ cancel_by' \in {g, cancel_by}
      /\ UNCHANGED <<registered, closed, expiring, failure, terminal, attachment, generation,
                     grace_task, terminal_task, produced, trimmed, acked_text_seq, input_lock,
                     fed, input_complete, handler, queue, alive, wire, clientVars>>
      /\ UNCHANGED <<client_acked, next_text_seq, stop_sent, send_closed>>
      /\ engine_cancelled => engine_cancelled'
  BY DEF CancelStream, sessionVars, clientVars, streamVars
<1>2. acked_text_seq \in Nat /\ next_text_seq \in 1..(NumTexts + 1) /\ acked_text_seq < next_text_seq
  BY DEF TextInv
<1>3. TextInv'
  <2>1. final_text_seq' \in -1..NumTexts
    BY SMTT(30), <1>2 DEF CancelStream, TextInv
  <2> QED BY <1>1, <2>1 DEF TextInv, TextOnce
<1>4. ClosedMeansTold'
  BY <1>1 DEF CancelStream, ClosedMeansTold
<1>5. trimmed \in Nat /\ trimmed <= last_delivery_seq
  BY DEF SessionInv, HeardInv
<1> QED BY SMTT(30), <1>1, <1>3, <1>4, <1>5, Takes

\* Sending what is queued, and finding the connection gone, keep the invariant.
LEMMA OutputKeeps ==
    ASSUME WsInv, NEW g \in Conns, SendOutput(g) \/ Notices(g)
    PROVE  WsInv'
<1> USE WsParts
<1>1. UNCHANGED <<registered, closed, expiring, failure, terminal, generation,
                  terminal_task, produced, trimmed, acked_text_seq, input_closed,
                  final_text_seq, input_lock, cancel_by, fed, input_complete,
                  engine_cancelled, clientVars>>
  BY DEF SendOutput, Notices, inputVars, engineVars
<1>2. TextInv' /\ ClosedMeansTold'
  <2>1. TextSame
    BY <1>1 DEF TextSame, clientVars, streamVars
  <2> QED BY <2>1, <1>1, TextKept DEF ClosedMeansTold
<1>3. CASE End(g) /\ (UNCHANGED wire \/ Send(g, <<F("resume_error", 0)>>))
  BY <1>1, <1>2, <1>3, Ends
<1>4. CASE /\ queue[g] # <<>> /\ queue' = [queue EXCEPT ![g] = Tail(@)]
           /\ Head(queue[g]).t \in {"event", "audio", "done"}
           /\ Send(g, Frames(Head(queue[g])))
           /\ UNCHANGED <<handler, alive, uplink, attachment, grace_task>>
  <2>1. Down \subseteq Down' /\ Up \subseteq Up'
    BY <1>1, SameWords
  <2>2. queue \in [Conns -> Seq(Down')]
    BY <2>1, LinksGrow
  <2>3. Head(queue[g]) \in Down' /\ Tail(queue[g]) \in Seq(Down')
    BY <1>4, <2>2, HeadTailProperties, EmptySeq
  <2>4. Frames(Head(queue[g])) \in Seq(Down')
    <3>1. PICK q \in Down' : q = Head(queue[g])
      BY <2>3
    <3>2. q.t = "audio" => F("header", q.n) \in Down' /\ F("payload", q.n) \in Down'
      BY DEF F, Down
    <3>3. Frames(q) \in Seq(Down')
      BY SMTT(30), <3>2 DEF Frames
    <3> QED BY <3>1, <3>3
  <2>5. wire' \in [Conns -> Seq(Down')]
    BY <1>4, <2>1, <2>4, Sent
  <2>6. UNCHANGED <<heard, last_delivery_seq, pending_header, deliveries_since_ack,
                    outcome, finished, rframe, conn, phase>>
    BY <1>1 DEF clientVars, streamVars, hearVars, readerVars, leaderVars
  <2>7. LinksInv'
    BY <1>4, <2>1, <2>2, <2>3, <2>5, <2>6, LinksGrow DEF LinksInv
  <2>8. UplinkInv'
    BY SMTT(30), <1>4, <2>1, SeqForms DEF UplinkInv
  <2>9. SessionInv' /\ OwnerInv' /\ StartInv'
    BY SMTT(30), <1>1, <1>4, <2>6 DEF SessionInv, OwnerInv, NewestOwns, StartInv
  <2>10. HeardInv'
    <3>1. HeardSame
      BY <1>1, <2>6 DEF HeardSame, HeardInv
    <3> QED BY <3>1, HeardKept
  <2> QED BY <1>1, <1>2, <2>7, <2>8, <2>9, <2>10, ClientKept DEF WsInv
<1> QED BY <1>3, <1>4 DEF SendOutput, Notices, Refuse

\* The start event is the first delivery, and the connection that started the
\* session owns it.
LEMMA StartKeeps ==
    ASSUME WsInv, NEW g \in Conns, Start(g)
    PROVE  WsInv'
<1> USE WsParts
<1>1. uplink[g] # <<>> /\ handler[g] = "ready" /\ generation = 0 /\ g = 1
  BY Received DEF Start
<1>2. UNCHANGED <<expiring, failure, terminal, terminal_task, grace_task, trimmed,
                  acked_text_seq, input_closed, final_text_seq, input_lock, cancel_by,
                  fed, input_complete, clientVars>>
  BY DEF Start, inputVars
<1>3. UNCHANGED <<heard, last_delivery_seq, pending_header, deliveries_since_ack,
                  outcome, finished, rframe, next_text_seq, client_acked, stop_sent,
                  send_closed>>
  BY <1>2 DEF clientVars, streamVars, hearVars, readerVars
<1>4. engine_cancelled => engine_cancelled'
  BY DEF Start
<1>5. TextInv'
  <2>1. TextSame
    BY <1>2, <1>3, <1>4 DEF TextSame
  <2> QED BY <2>1, TextKept
<1>6. ClosedMeansTold'
  BY SMTT(30), <1>2, <1>4 DEF Start, ClosedMeansTold
<1>7. CASE /\ closed' = TRUE /\ Refuse(g, "error")
           /\ UNCHANGED <<registered, generation, produced>>
  BY <1>2, <1>5, <1>6, <1>7, Ends DEF Refuse, Start
<1>8. CASE /\ Consume(g) /\ registered' = TRUE /\ attachment' = g /\ generation' = g
           /\ produced' = 1 /\ queue' = [queue EXCEPT ![g] = <<F("event", 1)>>]
           /\ UNCHANGED <<closed, handler, alive, wire, engine_cancelled>>
  <2>1. produced = 0 /\ ~terminal /\ generation' # 0
    BY <1>1, <1>8, ConnFacts DEF StartInv
  <2>2. acked_text_seq \in Nat
    BY DEF TextInv
  <2>3. Down \subseteq Down'
    BY SMTT(30), <1>2, <1>8, <2>1, <2>2, DownGrows
  <2>4. F("event", 1) \in Down'
    BY SMTT(30), <1>2, <1>8, <2>1 DEF F, Down
  <2>5. <<F("event", 1)>> \in Seq(Down')
    BY SMTT(30), <2>4
  <2>6. LinksInv'
    BY <1>3, <1>8, <2>3, <2>5, LinksGrow DEF LinksInv
  <2>7. UplinkInv'
    <3>1. ASSUME NEW h \in Conns PROVE uplink'[h] \in Seq(Up')
      <4>1. uplink[h] \in Seq(Up) /\ uplink \in [Conns -> Seq(Up)]
        BY DEF UplinkInv
      <4>2. ASSUME NEW m \in Up, m.t # "start" PROVE m \in Up'
        BY <1>3, <4>2 DEF Up
      <4>3. uplink'[h] \in Seq(Up)
        BY <1>1, <1>8, <4>1, HeadTailProperties, EmptySeq DEF Consume
      <4>4. \A i \in 1..Len(uplink'[h]) : uplink'[h][i].t # "start"
        <5>1. CASE h = 1
          <6>1. uplink'[h] = Tail(uplink[h]) /\ uplink[h] # <<>>
            BY <1>1, <1>8, <4>1, <5>1 DEF Consume
          <6>2. /\ Len(uplink[h]) \in Nat /\ Len(uplink'[h]) = Len(uplink[h]) - 1
                /\ \A i \in 1..Len(uplink'[h]) : uplink'[h][i] = uplink[h][i + 1]
                /\ DOMAIN uplink[h] = 1..Len(uplink[h])
            BY <6>1, <4>1, HeadTailProperties, EmptySeq, LenProperties
          <6>3. ASSUME NEW i \in 1..Len(uplink'[h]) PROVE uplink'[h][i].t # "start"
            <7>1. i + 1 \in DOMAIN uplink[h] /\ i + 1 # 1
              BY SMTT(30), <6>2
            <7> QED BY SMTT(30), <7>1, <6>2, <5>1, <1>1 DEF StartInv
          <6> QED BY <6>3
        <5>2. CASE h # 1
          <6>1. uplink'[h] = uplink[h] /\ DOMAIN uplink[h] = 1..Len(uplink[h])
            BY <1>1, <1>8, <4>1, <5>2, LenProperties DEF Consume
          <6> QED BY <6>1, <5>2, <1>1 DEF StartInv
        <5> QED BY <5>1, <5>2
      <4>5. \A i \in 1..Len(uplink'[h]) : uplink'[h][i] \in Up'
        BY <4>2, <4>3, <4>4, ElementOfSeq
      <4> QED BY <4>3, <4>5, SeqOf
    <3> QED BY <3>1, <1>8 DEF UplinkInv, Consume
  <2>8. SessionInv' /\ StartInv'
    BY <1>2, <1>8, <2>1 DEF SessionInv, StartInv
  <2>9. OwnerInv'
    BY SMTT(30), <1>1, <1>8 DEF OwnerInv, NewestOwns
  <2>10. HeardInv'
    <3>1. last_delivery_seq \in Nat /\ trimmed \in Nat
      BY LenProperties DEF HeardInv, SessionInv
    <3>2. trimmed = 0 /\ last_delivery_seq = 0 /\ pending_header = 0
      BY SMTT(30), <2>1, <3>1 DEF HeardInv
    <3>3. produced' - trimmed' <= MaxRetained
      BY SMTT(30), <1>2, <1>8, <3>2
    <3> QED BY SMTT(30), <1>2, <1>3, <1>8, <2>1, <3>2, <3>3 DEF HeardInv
  <2> QED BY <1>2, <1>5, <1>6, <2>6, <2>7, <2>8, <2>9, <2>10, ClientKept DEF WsInv
<1> QED BY <1>7, <1>8 DEF Start

\* A resume fences the owner and takes its place, with the deliveries behind
\* the cursor in its queue.
LEMMA ResumeKeeps ==
    ASSUME WsInv, NEW g \in Conns, Resume(g)
    PROVE  WsInv'
<1> USE WsParts
<1>1. uplink[g] # <<>> /\ handler[g] = "ready" /\ Head(uplink[g]) \in Up
  BY Received DEF Resume
<1>2. PICK n \in Nat : n = Head(uplink[g]).n
  BY <1>1 DEF Up
<1>3. UNCHANGED <<registered, closed, expiring, failure, terminal, terminal_task, produced,
                  trimmed, acked_text_seq, input_closed, final_text_seq, input_lock,
                  cancel_by, fed, input_complete, engine_cancelled, clientVars>>
  BY DEF Resume, inputVars, engineVars
<1>4. TextInv' /\ ClosedMeansTold'
  <2>1. TextSame
    BY <1>3 DEF TextSame, clientVars, streamVars
  <2> QED BY <2>1, <1>3, TextKept DEF ClosedMeansTold
<1>5. CASE Refuse(g, "resume_error") /\ UNCHANGED generation
  BY <1>3, <1>4, <1>5, Ends DEF Refuse
<1>6. CASE /\ MayAttach(n) /\ Consume(g) /\ Attach(g, n)
           /\ Send(g, <<F(IF input_closed THEN "resumed_closed" ELSE "resumed",
                          acked_text_seq)>>)
           /\ UNCHANGED <<handler, alive>>
  <2>1. /\ generation # 0 /\ generation' # 0 /\ generation' = g
        /\ attachment' = g /\ grace_task' = 0
    BY <1>6, ConnFacts DEF OwnerInv, MayAttach, Attach
  <2>2. n \in 0..produced /\ produced \in Nat /\ acked_text_seq \in Nat
    BY SMTT(30), <1>6 DEF MayAttach, ValidCursor, SessionInv, TextInv
  <2>3. Down \subseteq Down'
    BY SMTT(30), <1>3, <2>1, <2>2, DownGrows
  <2>4. UNCHANGED <<heard, last_delivery_seq, pending_header, deliveries_since_ack,
                    outcome, finished, rframe, next_text_seq, stop_sent>>
    BY <1>3 DEF clientVars, streamVars, hearVars, readerVars
  <2>5. Up \subseteq Up'
    BY <2>1, <2>4 DEF Up
  <2>6. queue' \in [Conns -> Seq(Down')]
    <3>1. queue \in [Conns -> Seq(Down')] /\ F("fence", 0) \in Down'
      BY <2>3, LinksGrow, PlainFrames
    <3>2. \A q \in Conns : Append(queue[q], F("fence", 0)) \in Seq(Down')
      BY <3>1, AppendProperties
    <3>3. Replay(n) \in Seq(Down')
      <4>1. produced - n \in Nat
        BY SMTT(30), <2>2
      <4>2. \A i \in 1..(produced - n) :
              F(Kind(n + i, terminal /\ n + i = produced), n + i) \in Down'
        BY SMTT(30), <1>3, <2>2 DEF F, Kind, Down
      <4>3. Replay(n) \in [1..(produced - n) -> Down']
        BY <4>2 DEF Replay
      <4> QED BY <4>1, <4>3, SeqDef
    <3> QED BY <1>6, <3>1, <3>2, <3>3 DEF Attach
  <2>7. wire' \in [Conns -> Seq(Down')]
    <3>1. F(IF input_closed THEN "resumed_closed" ELSE "resumed", acked_text_seq) \in Down'
      BY SMTT(30), <1>3, <2>1, <2>2 DEF F, Down
    <3>2. <<F(IF input_closed THEN "resumed_closed" ELSE "resumed", acked_text_seq)>>
            \in Seq(Down')
      BY SMTT(30), <3>1
    <3> QED BY <1>6, <2>3, <3>2, Sent
  <2>8. LinksInv' /\ UplinkInv'
    BY <1>1, <1>6, <2>3, <2>4, <2>5, <2>6, <2>7, LinksGrow, Consumed DEF LinksInv
  <2>9. SessionInv' /\ OwnerInv' /\ StartInv'
    BY <1>1, <1>3, <1>6, <2>1 DEF SessionInv, OwnerInv, NewestOwns, StartInv
  <2>10. HeardInv'
    <3>1. HeardSame
      BY <1>3, <2>4 DEF HeardSame, HeardInv
    <3> QED BY <3>1, HeardKept
  <2> QED BY <1>3, <1>4, <2>8, <2>9, <2>10, ClientKept DEF WsInv
<1> QED BY <1>2, <1>5, <1>6 DEF Resume

\* The text reaches the engine and counts as accepted, whoever owns the stream.
LEMMA TextAcceptedKeeps ==
    ASSUME WsInv, TextAccepted
    PROVE  WsInv'
<1> USE WsParts
<1>1. PICK n \in Nat : /\ n = input_lock.n /\ n = acked_text_seq + 1 /\ n < next_text_seq
                       /\ acked_text_seq' = n /\ input_lock.g \in Conns
  BY DEF TextAccepted, TextInv
<1>2. UNCHANGED <<registered, closed, expiring, failure, terminal, attachment, generation,
                  grace_task, terminal_task, produced, trimmed, input_closed, final_text_seq,
                  cancel_by, input_complete, engine_cancelled, handler, queue, alive, uplink,
                  clientVars>>
  BY DEF TextAccepted, sessionVars
<1>3. UNCHANGED <<heard, last_delivery_seq, pending_header, deliveries_since_ack,
                  outcome, finished, rframe, next_text_seq, client_acked, stop_sent,
                  send_closed, conn, phase>>
  BY <1>2 DEF clientVars, streamVars, hearVars, readerVars, leaderVars
<1>4. /\ acked_text_seq \in Nat /\ next_text_seq \in Nat /\ last_delivery_seq \in Nat
      /\ fed \in Seq(Nat) /\ client_acked \in Nat /\ Len(fed) \in Nat
  BY SMTT(30), LenProperties DEF TextInv, HeardInv
<1>5. TextInv'
  <2>1. CASE ~EngineTakesText
    <3>1. UNCHANGED fed /\ input_lock' = Free
      BY <2>1 DEF TextAccepted
    <3>2. Free \in [g : Conns \cup {0}, op : {"free", "push", "close"}, n : Nat]
      BY DEF Free
    <3>3. engine_cancelled \/ terminal \/ input_complete
      BY <2>1 DEF EngineTakesText
    <3>4. ~engine_cancelled /\ ~terminal => ~input_complete
      BY SMTT(30), <1>1, <1>4 DEF TextInv, TextOnce
    <3>5. TextOnce'
      BY ONLY SMTT(30), WsParts, WsInv, <1>1, <1>2, <1>3, <1>4, <3>1, <3>3, <3>4 DEF TextInv, TextOnce
    <3> QED BY <1>1, <1>2, <1>3, <1>4, <3>1, <3>2, <3>5 DEF TextInv, Free
  <2>2. CASE EngineTakesText
    <3>1. fed' = Append(fed, n) /\ input_lock' = Free
      BY <1>1, <2>2 DEF TextAccepted
    <3>2. Free \in [g : Conns \cup {0}, op : {"free", "push", "close"}, n : Nat]
      BY DEF Free
    <3>3. Len(fed) = acked_text_seq /\ ~input_complete
      BY <2>2 DEF EngineTakesText, TextInv, TextOnce
    <3>4. /\ fed' \in Seq(Nat) /\ Len(fed') = n /\ fed'[n] = n
          /\ \A i \in 1..Len(fed) : fed'[i] = fed[i]
          /\ DOMAIN fed' = 1..n /\ DOMAIN fed = 1..Len(fed)
      BY ONLY SMTT(30), <1>1, <1>4, <3>1, <3>3, AppendProperties, LenProperties
    <3>5. \A i \in 1..n : fed'[i] = i
      BY ONLY SMTT(30), WsParts, WsInv, <1>1, <1>4, <3>3, <3>4 DEF TextInv, TextOnce
    <3>6. TextOnce'
      BY ONLY SMTT(30), WsParts, WsInv, <1>1, <1>2, <1>3, <1>4, <3>3, <3>4, <3>5 DEF TextInv, TextOnce
    <3> QED BY <1>1, <1>2, <1>3, <1>4, <3>1, <3>2, <3>4, <3>6 DEF TextInv, Free
  <2> QED BY <2>1, <2>2
<1>6. ClosedMeansTold'
  BY SMTT(30), <1>2 DEF ClosedMeansTold, TextAccepted
<1>7. Down \subseteq Down'
  BY SMTT(30), <1>1, <1>2, <1>4, DownGrows
<1>8. Up \subseteq Up'
  BY SMTT(30), <1>2, <1>3, <1>4, UpGrows
<1>9. LinksInv'
  <2>1. ASSUME Current(input_lock.g) PROVE F("text_ack", n) \in Down'
    <3>1. generation' # 0
      BY <1>1, <1>2, <2>1, ConnFacts DEF Current, OwnerInv
    <3> QED BY <1>1, <3>1, AckFrame
  <2>2. Current(input_lock.g) => <<F("text_ack", n)>> \in Seq(Down')
    BY SMTT(30), <2>1
  <2>3. wire' \in [Conns -> Seq(Down')]
    BY <1>1, <1>7, <2>2, Sent, LinksGrow DEF TextAccepted
  <2> QED BY <1>2, <1>3, <1>7, <2>3, LinksGrow DEF LinksInv
<1>10. UplinkInv'
  BY SMTT(30), <1>2, <1>8, SeqForms DEF UplinkInv
<1>11. SessionInv' /\ OwnerInv' /\ StartInv'
  BY ONLY SMTT(30), WsParts, WsInv, <1>2, <1>3 DEF SessionInv, OwnerInv, NewestOwns, StartInv
<1>12. HeardInv'
  <2>1. HeardSame
    BY <1>2, <1>3 DEF HeardSame, HeardInv
  <2> QED BY <2>1, HeardKept
<1> QED BY <1>2, <1>5, <1>6, <1>9, <1>10, <1>11, <1>12, ClientKept DEF WsInv

\* A call of the engine that fails frees the lock and ends the handler; a close
\* that failed is undone unless the stream is over.
LEMMA InputFailsKeep ==
    ASSUME WsInv, PushFails \/ CloseFails
    PROVE  WsInv'
<1> USE WsParts
<1>1. /\ input_lock.op # "free" /\ Refuse(input_lock.g, "error") /\ input_lock' = Free
      /\ UNCHANGED <<registered, closed, expiring, failure, terminal, generation,
                     terminal_task, produced, trimmed, acked_text_seq, cancel_by, fed,
                     input_complete, engine_cancelled, clientVars>>
      /\ final_text_seq' \in {-1, final_text_seq}
  BY DEF PushFails, CloseFails, engineVars
<1>2. input_lock.g \in Conns
  BY <1>1 DEF TextInv
<1>3. UNCHANGED <<next_text_seq, client_acked, stop_sent, send_closed>>
  BY <1>1 DEF clientVars, streamVars
<1>4. Free \in [g : Conns \cup {0}, op : {"free", "push", "close"}, n : Nat]
  BY DEF Free
<1>5. TextInv'
  BY SMTT(30), <1>1, <1>3, <1>4 DEF TextInv, TextOnce, Free
<1>6. ClosedMeansTold'
  BY <1>1 DEF PushFails, CloseFails, ClosedMeansTold
<1> QED BY <1>1, <1>2, <1>5, <1>6, Ends DEF Refuse

\* The engine is told that the input is complete, and has all of it.
LEMMA InputClosedKeeps ==
    ASSUME WsInv, InputClosed
    PROVE  WsInv'
<1> USE WsParts
<1>1. UNCHANGED <<registered, closed, expiring, failure, terminal, attachment, generation,
                  grace_task, terminal_task, produced, trimmed, acked_text_seq,
                  input_closed, final_text_seq, cancel_by, fed, engine_cancelled, handler,
                  queue, alive, wire, uplink, clientVars>>
  BY DEF InputClosed, sessionVars, linkVars
<1>2. UNCHANGED <<heard, last_delivery_seq, pending_header, deliveries_since_ack,
                  outcome, finished, rframe, next_text_seq, client_acked, stop_sent,
                  send_closed, conn, phase>>
  BY <1>1 DEF clientVars, streamVars, hearVars, readerVars, leaderVars
<1>3. Free \in [g : Conns \cup {0}, op : {"free", "push", "close"}, n : Nat]
  BY DEF Free
<1>4. input_lock' = Free /\ (input_complete' <=> input_complete \/ EngineTakesText)
  BY DEF InputClosed
<1>5. EngineTakesText => stop_sent /\ Len(fed) = next_text_seq - 1
  BY DEF InputClosed, EngineTakesText, TextInv, TextOnce
<1>6. TextOnce'
  BY <1>1, <1>2, <1>4, <1>5 DEF TextInv, TextOnce
<1>7. TextInv'
  BY <1>1, <1>2, <1>3, <1>4, <1>6 DEF TextInv, Free
<1>8. ClosedMeansTold'
  BY SMTT(30), <1>1, <1>4 DEF ClosedMeansTold, InputClosed, EngineTakesText
<1>9. Down \subseteq Down' /\ Up \subseteq Up'
  BY <1>1, SameWords
<1>10. LinksInv' /\ UplinkInv'
  BY SMTT(30), <1>1, <1>2, <1>9, LinksGrow, SeqForms DEF LinksInv, UplinkInv
<1>11. SessionInv' /\ OwnerInv' /\ StartInv'
  <2>1. SessionInv'
    BY <1>1, <1>2 DEF SessionInv
  <2>2. OwnerInv'
    BY <1>1, <1>2 DEF OwnerInv, NewestOwns
  <2>3. StartInv'
    BY <1>1, <1>2 DEF StartInv
  <2> QED BY <2>1, <2>2, <2>3
<1>12. HeardInv'
  <2>1. HeardSame
    BY <1>1, <1>2 DEF HeardSame, HeardInv
  <2> QED BY <2>1, HeardKept
<1> QED BY <1>1, <1>7, <1>8, <1>10, <1>11, <1>12, ClientKept DEF WsInv

\* The engine's deliveries, and the end of a cancellation, keep the invariant.
LEMMA PublishingKeeps ==
    ASSUME WsInv, CancelPublished \/ EngineAudio \/ EngineDone
    PROVE  WsInv'
<1> USE WsParts
<1>1. generation # 0
  BY DEF CancelPublished, EngineAudio, EngineDone, EngineRuns, OwnerInv, StartInv
<1>2. CASE CancelPublished
  BY <1>1, <1>2, Puts DEF CancelPublished
<1>3. CASE EngineAudio
  BY <1>1, <1>3, Puts DEF EngineAudio, inputVars
<1>4. CASE EngineDone
  BY <1>1, <1>4, Puts DEF EngineDone, inputVars
<1> QED BY <1>2, <1>3, <1>4 DEF WsInv

\* The timers keep the invariant.
LEMMA TimersKeep ==
    ASSUME WsInv, TimerStep
    PROVE  WsInv'
<1> USE WsParts
<1>1. ASSUME UNCHANGED <<registered, closed, terminal, attachment, generation, produced,
                         trimmed, inputVars, fed, input_complete, linkVars, clientVars>>,
             grace_task' \in {0, grace_task}, engine_cancelled => engine_cancelled'
      PROVE  WsInv'
  <2>1. UNCHANGED <<acked_text_seq, input_closed, final_text_seq, input_lock, cancel_by,
                    handler, queue, alive, wire, uplink>>
    BY <1>1 DEF inputVars, linkVars
  <2>2. UNCHANGED <<heard, last_delivery_seq, pending_header, deliveries_since_ack,
                    outcome, finished, rframe, next_text_seq, client_acked, stop_sent,
                    send_closed, conn, phase>>
    BY <1>1 DEF clientVars, streamVars, hearVars, readerVars, leaderVars
  <2>3. Down \subseteq Down' /\ Up \subseteq Up'
    BY <1>1, <2>1, SameWords
  <2>4. LinksInv' /\ UplinkInv'
    BY SMTT(30), <2>1, <2>2, <2>3, LinksGrow, SeqForms DEF LinksInv, UplinkInv
  <2>5. SessionInv' /\ OwnerInv' /\ StartInv' /\ ClosedMeansTold'
    BY SMTT(30), <1>1, <2>1, <2>2 DEF SessionInv, OwnerInv, NewestOwns, StartInv, ClosedMeansTold
  <2>6. TextInv'
    <3>1. TextSame
      BY <1>1, <2>1, <2>2 DEF TextSame
    <3> QED BY <3>1, TextKept
  <2>7. HeardInv'
    <3>1. HeardSame
      BY <1>1, <2>2 DEF HeardSame, HeardInv
    <3> QED BY <3>1, HeardKept
  <2> QED BY <1>1, <2>4, <2>5, <2>6, <2>7, ClientKept DEF WsInv
<1>2. CASE GraceExpires
  BY <1>1, <1>2 DEF GraceExpires
<1>3. CASE TerminalExpires
  <2>1. CASE expiring
    BY <1>1, <1>3, <2>1 DEF TerminalExpires, engineVars, linkVars
  <2>2. CASE ~expiring
    BY <1>3, <2>2, Removes DEF TerminalExpires
  <2> QED BY <2>1, <2>2
<1>4. CASE Expired
  BY <1>4, Removes DEF Expired
<1> QED BY <1>2, <1>3, <1>4 DEF TimerStep

-----------------------------------------------------------------------------
(* The client.                                                             *)

\* What a step of the client has to show: the session does not move.
LEMMA ClientMoves ==
    ASSUME WsInv, UNCHANGED <<serverVars, queue>>,
           handler' \in [Conns -> {"none", "ready", "ended"}],
           generation # 0 => handler'[generation] = handler[generation],
           alive' \in [Conns -> BOOLEAN], wire' \in [Conns -> Seq(Down)], rframe' \in Down,
           TextInv', ClientInv', HeardInv', UplinkInv', StartInv'
    PROVE  WsInv'
<1> USE WsParts
<1>1. UNCHANGED <<registered, closed, terminal, attachment, generation, grace_task, produced,
                  trimmed, acked_text_seq, input_closed, input_lock, cancel_by,
                  input_complete, engine_cancelled>>
  BY DEF serverVars, sessionVars, inputVars, engineVars
<1>2. Down' = Down
  BY <1>1 DEF Down
<1>3. LinksInv'
  BY <1>2 DEF LinksInv
<1>4. SessionInv' /\ ClosedMeansTold'
  BY <1>1 DEF SessionInv, ClosedMeansTold
<1>5. OwnerInv'
  BY <1>1 DEF OwnerInv, NewestOwns
<1> QED BY <1>3, <1>4, <1>5 DEF WsInv

\* What the client does to its wires leaves frames on them.
LEMMA WiresKept ==
    ASSUME LinksInv, NEW c
    PROVE  /\ alive \in [Conns -> BOOLEAN] /\ wire \in [Conns -> Seq(Down)] /\ rframe \in Down
           /\ [alive EXCEPT ![c] = FALSE] \in [Conns -> BOOLEAN]
           /\ [wire EXCEPT ![c] = <<>>] \in [Conns -> Seq(Down)]
           /\ handler \in [Conns -> {"none", "ready", "ended"}]
           /\ NoFrame \in Down
<1>1. alive \in [Conns -> BOOLEAN] /\ wire \in [Conns -> Seq(Down)] /\ rframe \in Down
  BY DEF LinksInv
<1>2. <<>> \in Seq(Down)
  BY SMTT(30)
<1>3. [alive EXCEPT ![c] = FALSE] \in [Conns -> BOOLEAN]
  BY <1>1
<1>4. [wire EXCEPT ![c] = <<>>] \in [Conns -> Seq(Down)]
  BY <1>1, <1>2
<1> QED BY <1>1, <1>3, <1>4, PlainFrames DEF LinksInv

\* The next frame of a wire, and what is behind it.
LEMMA WireHead ==
    ASSUME LinksInv, NEW c \in Conns, wire[c] # <<>>
    PROVE  /\ Head(wire[c]) \in Down
           /\ [wire EXCEPT ![c] = Tail(@)] \in [Conns -> Seq(Down)]
<1>1. wire \in [Conns -> Seq(Down)]
  BY DEF LinksInv
<1>2. Head(wire[c]) \in Down /\ Tail(wire[c]) \in Seq(Down)
  BY <1>1, HeadTailProperties, EmptySeq
<1> QED BY <1>1, <1>2

\* Steps of the client that send nothing and take no frame.
LEMMA QuietKeeps ==
    ASSUME WsInv, ClientInv',
           \/ ReaderLoop \/ ReaderRecv \/ ReaderFails \/ UNCHANGED vars
           \/ (\E w \in Threads : RecoverNothing(w) \/ Lead(w))
           \/ (\E g \in Conns : Break(g))
    PROVE  WsInv'
<1> USE WsParts
<1>1. /\ UNCHANGED <<serverVars, queue, handler, uplink>>
      /\ UNCHANGED <<acked_text_seq, final_text_seq, input_lock, fed, input_complete,
                     engine_cancelled, terminal, produced, trimmed, registered, attachment,
                     cancel_by, generation>>
  BY DEF ReaderLoop, ReaderRecv, ReaderFails, RecoverNothing, Lead, Break, linkVars,
         vars, serverVars, sessionVars, inputVars, engineVars
<1>2. UNCHANGED <<conn, finished, send_closed, outcome, next_text_seq, client_acked,
                  stop_sent, last_delivery_seq, deliveries_since_ack, heard>>
  BY DEF ReaderLoop, ReaderRecv, ReaderFails, RecoverNothing, Lead, Break, vars,
         clientVars, streamVars, hearVars
<1>3. /\ pending_header' \in {0, pending_header}
      /\ phase' \in {"dial", phase}
  BY DEF ReaderLoop, ReaderRecv, ReaderFails, RecoverNothing, Lead, Break, vars,
         clientVars, hearVars, leaderVars
<1>4. alive' \in [Conns -> BOOLEAN] /\ wire' \in [Conns -> Seq(Down)] /\ rframe' \in Down
  <2>1. CASE ReaderRecv
    <3>1. rconn \in Conns
      BY DEF ClientInv
    <3> QED BY <2>1, <3>1, WireHead, WiresKept DEF ReaderRecv
  <2>2. ASSUME NEW g \in Conns, Break(g)
        PROVE  alive' \in [Conns -> BOOLEAN] /\ UNCHANGED <<wire, rframe>>
    BY <2>2, WiresKept DEF Break, clientVars, readerVars
  <2>3. CASE ~ReaderRecv /\ ~(\E g \in Conns : Break(g))
    <3>1. UNCHANGED <<alive, wire, rframe>>
      BY <2>3 DEF ReaderLoop, ReaderFails, RecoverNothing, Lead, linkVars, vars,
                  clientVars, readerVars
    <3> QED BY <3>1, WiresKept
  <2> QED BY <2>1, <2>2, <2>3, WiresKept
<1>5. TextInv'
  <2>1. TextSame
    BY <1>1, <1>2 DEF TextSame
  <2> QED BY <2>1, TextKept
<1>6. HeardInv'
  <2>1. HeardSame
    BY <1>1, <1>2, <1>3 DEF HeardSame, HeardInv
  <2> QED BY <2>1, HeardKept
<1>7. UplinkInv'
  BY <1>1, <1>2 DEF UplinkInv, Up
<1>8. StartInv'
  <2>1. phase # "commit" => phase' # "commit"
    BY ONLY SMTT(30), <1>3
  <2> QED BY <1>1, <1>2, <2>1 DEF StartInv
<1> QED BY <1>1, <1>4, <1>5, <1>6, <1>7, <1>8, ClientMoves, WiresKept DEF WsInv

\* A thread returns from the recovery to where it came from, and the leader
\* leaves nothing behind.
LEMMA ThreadsKept ==
    ASSUME ClientInv,
           \/ ReaderLoop \/ ReaderRecv \/ ReaderFails \/ UNCHANGED vars
           \/ (\E w \in Threads : RecoverNothing(w) \/ Lead(w))
           \/ (\E g \in Conns : Break(g))
    PROVE  ClientInv'
<1>1. CASE ReaderLoop \/ ReaderRecv \/ ReaderFails
  BY <1>1 DEF ReaderLoop, ReaderRecv, ReaderFails, ClientInv, streamVars, senderVars,
              leaderVars
<1>2. CASE UNCHANGED vars \/ (\E g \in Conns : Break(g))
  BY <1>2, ClientKept DEF Break, vars
<1>3. ASSUME NEW w \in Threads, RecoverNothing(w)
      PROVE  ClientInv'
  BY <1>3 DEF RecoverNothing, Returns, ClientInv, streamVars, leaderVars
<1>4. ASSUME NEW w \in Threads, Lead(w)
      PROVE  ClientInv'
  <2>1. w # "none"
    BY DEF Threads
  <2> QED BY SMTT(30), <1>4, <2>1 DEF Lead, ClientInv, readerVars, senderVars
<1> QED BY <1>1, <1>2, <1>3, <1>4

\* Sending text, ending it and cancelling keep the invariant.
LEMMA AppKeeps ==
    ASSUME WsInv, AppStep
    PROVE  WsInv'
<1> USE WsParts
<1>1. /\ UNCHANGED <<serverVars, queue, handler>>
      /\ UNCHANGED <<acked_text_seq, final_text_seq, input_lock, fed, input_complete,
                     engine_cancelled, terminal, produced, trimmed, registered, attachment,
                     cancel_by, generation>>
  BY DEF AppStep, SendText, FinishInput, Cancel, serverVars, sessionVars, inputVars, engineVars
<1>2. UNCHANGED <<conn, client_acked, last_delivery_seq, pending_header, deliveries_since_ack,
                  heard, rconn, rframe, phase>>
  BY DEF AppStep, SendText, FinishInput, Cancel, hearVars, readerVars, leaderVars
<1>3. conn \in Conns /\ (generation = 0 => conn = 1 /\ phase # "commit")
  BY DEF ClientInv, StartInv
<1>4. ClientInv'
  BY DEF AppStep, SendText, FinishInput, Cancel, SendOrFail, ClientInv, readerVars, senderVars,
         leaderVars
<1>5. alive' \in [Conns -> BOOLEAN] /\ wire' \in [Conns -> Seq(Down)] /\ rframe' \in Down
  BY <1>2, WiresKept DEF AppStep, SendText, FinishInput, Cancel, GiveUp, Shut
<1>6. HeardInv'
  <2>1. HeardSame
    BY SMTT(30), <1>1, <1>2 DEF HeardSame, HeardInv, AppStep, SendText, FinishInput, Cancel, GiveUp, Finish
  <2> QED BY <2>1, HeardKept
<1>7. last_delivery_seq \in Nat /\ next_text_seq \in Nat /\ next_text_seq # 0
  BY SMTT(30), LenProperties DEF HeardInv, TextInv
<1>8. CASE SendText
  <2>1. /\ next_text_seq' = next_text_seq + 1 /\ next_text_seq <= NumTexts /\ ~send_closed
        /\ UNCHANGED <<stop_sent, send_closed>>
        /\ Deliver(conn, F("text", next_text_seq))
    BY <1>8 DEF SendText, SendOrFail
  <2>2. TextInv'
    <3>1. /\ next_text_seq' \in 1..(NumTexts + 1) /\ acked_text_seq < next_text_seq'
          /\ \A n \in Nat : n < next_text_seq => n < next_text_seq'
      <4>1. acked_text_seq \in Nat /\ acked_text_seq < next_text_seq
        BY DEF TextInv
      <4> QED BY ONLY SMTT(30), ResumeAssumption, <1>7, <2>1, <4>1
    <3>2. ~stop_sent
      BY <2>1 DEF TextInv
    <3>3. input_lock.op = "push" => input_lock.n < next_text_seq'
      <4>1. input_lock.n \in Nat
        BY DEF TextInv
      <4> QED BY <3>1, <4>1 DEF TextInv
    <3>4. TextOnce'
      BY <1>1, <1>2, <2>1, <3>2 DEF TextInv, TextOnce
    <3> QED BY <1>1, <1>2, <2>1, <3>1, <3>2, <3>3, <3>4 DEF TextInv
  <2>3. Up \subseteq Up'
    BY SMTT(30), <1>1, <1>2, <1>7, <2>1, UpGrows DEF TextInv
  <2>4. F("text", next_text_seq) \in Up'
    BY SMTT(30), <1>7, <2>1 DEF F, Up
  <2>5. UplinkInv'
    BY <1>3, <2>1, <2>3, <2>4, Delivered
  <2>6. StartInv'
    <3>1. F("text", next_text_seq).t # "start"
      BY DEF F
    <3> QED BY <1>1, <1>2, <1>3, <2>1, <2>4, <3>1, StartKept
  <2> QED BY <1>1, <1>4, <1>5, <1>6, <2>2, <2>5, <2>6, ClientMoves, WiresKept DEF WsInv
<1>9. CASE FinishInput
  <2>1. /\ stop_sent' = TRUE /\ send_closed' = TRUE /\ UNCHANGED next_text_seq
        /\ Deliver(conn, F("stop", next_text_seq - 1))
    BY <1>9 DEF FinishInput, SendOrFail
  <2>2. TextInv'
    BY <1>1, <1>2, <2>1 DEF TextInv, TextOnce
  <2>3. Up \subseteq Up'
    BY SMTT(30), <1>1, <1>2, <1>7, <2>1, UpGrows
  <2>4. F("stop", next_text_seq - 1) \in Up'
    BY SMTT(30), <1>7, <2>1 DEF F, Up
  <2>5. UplinkInv'
    BY <1>3, <2>1, <2>3, <2>4, Delivered
  <2>6. StartInv'
    <3>1. F("stop", next_text_seq - 1).t # "start"
      BY DEF F
    <3> QED BY <1>1, <1>2, <1>3, <2>1, <2>4, <3>1, StartKept
  <2> QED BY <1>1, <1>4, <1>5, <1>6, <2>2, <2>5, <2>6, ClientMoves, WiresKept DEF WsInv
<1>10. CASE Cancel
  <2>1. /\ UNCHANGED <<next_text_seq, stop_sent>> /\ send_closed' = TRUE
        /\ UNCHANGED uplink \/ Deliver(conn, F("cancel", 0))
    BY <1>10 DEF Cancel, GiveUp, Finish
  <2>2. TextInv'
    <3>1. TextSame
      BY <1>1, <1>2, <2>1 DEF TextSame
    <3> QED BY <3>1, TextKept
  <2>3. Up' = Up
    BY <1>1, <1>2, <2>1 DEF Up
  <2>4. F("cancel", 0) \in Up' /\ F("cancel", 0).t # "start"
    BY DEF F, Up
  <2>5. UplinkInv'
    <3>1. CASE UNCHANGED uplink
      BY <3>1, <2>3 DEF UplinkInv
    <3> QED BY <1>3, <2>1, <2>3, <2>4, <3>1, Delivered
  <2>6. StartInv'
    BY <1>1, <1>2, <1>3, <2>1, <2>4, StartKept
  <2> QED BY <1>1, <1>4, <1>5, <1>6, <2>2, <2>5, <2>6, ClientMoves, WiresKept DEF WsInv
<1> QED BY <1>8, <1>9, <1>10 DEF AppStep

-----------------------------------------------------------------------------
(* The reader.                                                             *)

\* What handling a frame comes to: nothing is heard, a header is remembered,
\* the next delivery is heard, or the terminal one.
HearsNothing ==
    /\ UNCHANGED <<uplink, last_delivery_seq, heard, deliveries_since_ack>>
    /\ finished => finished'
    /\ send_closed => send_closed'
    /\ outcome' # outcome => outcome' # "done" /\ finished' /\ outcome = "none"
    /\ UNCHANGED <<alive, wire>> \/ Shut(conn)

HearsNext ==
    /\ UNCHANGED <<finished, send_closed, outcome, alive, wire>>
    /\ ~finished
    /\ pending_header' \in {0, pending_header}
    /\ last_delivery_seq + 1 <= produced
    /\ terminal => last_delivery_seq + 1 < produced
    /\ Accept(last_delivery_seq + 1)

HearsLast ==
    /\ ~finished /\ terminal /\ produced = last_delivery_seq + 1
    /\ HandleDone(produced)

\* A frame in the reader's hands is one of those four things: the cursor lets
\* nothing be heard twice or out of order.
LEMMA HandleKinds ==
    ASSUME SessionInv, HeardInv, LinksInv, Handle
    PROVE  /\ \/ UNCHANGED client_acked
              \/ client_acked' = rframe.n /\ rframe.n <= acked_text_seq
           /\ \/ HearsNothing /\ pending_header' \in {0, pending_header}
              \/ /\ HearsNothing /\ pending_header' \in Nat
                 /\ pending_header' <= last_delivery_seq + 1 /\ pending_header' <= produced
                 /\ terminal => pending_header' < produced
              \/ HearsNext
              \/ HearsLast
<1>1. rframe \in Down
  BY DEF LinksInv
<1>2. PICK n \in Nat : n = rframe.n
  BY <1>1 DEF Down
<1>3. last_delivery_seq \in Nat /\ produced \in Nat
  BY LenProperties DEF HeardInv, SessionInv
<1>4. \/ UNCHANGED client_acked
      \/ client_acked' = rframe.n /\ rframe.n <= acked_text_seq
  BY <1>1 DEF Handle, Down
<1>5. ASSUME NEW o, o # "done", ReaderGivesUp(o)
      PROVE  HearsNothing /\ UNCHANGED pending_header
  BY <1>5 DEF ReaderGivesUp, GiveUp, Finish, HearsNothing, HeardInv
<1>6. ASSUME Skip PROVE HearsNothing
  BY <1>6 DEF Skip, Continue, HearsNothing
<1>7. CASE rframe.t = "header" /\ HandleHeader(n)
  <2>1. n <= produced /\ (terminal => n < produced)
    BY <1>1, <1>2, <1>7 DEF Down
  <2>2. CASE ReaderGivesUp("protocol_error")
    BY <2>2, <1>4, <1>5
  <2>3. CASE Skip /\ UNCHANGED pending_header
    BY <2>3, <1>4, <1>6
  <2>4. CASE Skip /\ pending_header' = n /\ n <= last_delivery_seq + 1
    BY <2>1, <2>4, <1>4, <1>6
  <2> QED BY SMTT(30), <1>3, <1>7, <2>2, <2>3, <2>4 DEF HandleHeader
<1>8. CASE HandlePayload
  <2>1. CASE ReaderGivesUp("protocol_error")
    BY <2>1, <1>4, <1>5
  <2>2. CASE Skip /\ pending_header' \in {0, pending_header}
    BY <2>2, <1>4, <1>6
  <2>3. CASE /\ ~Stale /\ pending_header' = 0 /\ pending_header # 0
             /\ ~(pending_header <= last_delivery_seq)
             /\ Continue /\ Accept(pending_header)
    <3>1. pending_header = last_delivery_seq + 1
      BY SMTT(30), <2>3, <1>3 DEF HeardInv
    <3>2. last_delivery_seq + 1 <= produced /\ (terminal => last_delivery_seq + 1 < produced)
      BY <2>3, <3>1 DEF HeardInv
    <3>3. HearsNext
      BY <2>3, <3>1, <3>2 DEF HearsNext, Continue, Stale
    <3> QED BY <3>3, <1>4
  <2> QED BY <1>8, <2>1, <2>2, <2>3 DEF HandlePayload
<1>9. CASE rframe.t \in {"event", "done"} /\ HandleEvent(n, rframe.t = "done")
  <2>1. CASE ReaderGivesUp("protocol_error")
    BY <2>1, <1>4, <1>5
  <2>2. CASE Skip /\ UNCHANGED pending_header
    BY <2>2, <1>4, <1>6
  <2>3. CASE ~Stale /\ n = last_delivery_seq + 1 /\ rframe.t = "done" /\ HandleDone(n)
    <3>1. terminal /\ n = produced
      BY <1>1, <1>2, <2>3 DEF Down
    <3>2. HearsLast
      BY <2>3, <3>1 DEF HearsLast, Stale
    <3> QED BY <3>2, <1>4
  <2>4. CASE /\ ~Stale /\ n = last_delivery_seq + 1 /\ rframe.t = "event"
             /\ Continue /\ Accept(n) /\ UNCHANGED pending_header
    <3>1. n <= produced /\ (terminal => n < produced)
      BY <1>1, <1>2, <2>4 DEF Down
    <3>2. HearsNext
      BY <2>4, <3>1 DEF HearsNext, Continue, Stale
    <3> QED BY <3>2, <1>4
  <2> QED BY <1>9, <2>1, <2>2, <2>3, <2>4 DEF HandleEvent
<1>10. CASE Skip /\ UNCHANGED pending_header
  BY <1>10, <1>4, <1>6
<1>11. CASE ReaderGivesUp("protocol_error") \/ ReaderGivesUp("refused")
  BY <1>11, <1>4, <1>5
<1> QED BY <1>2, <1>7, <1>8, <1>9, <1>10, <1>11 DEF Handle

\* Hearing one more delivery keeps what is known of the deliveries.
LEMMA HeardNext ==
    ASSUME SessionInv, HeardInv, UNCHANGED <<produced, trimmed, terminal>>,
           last_delivery_seq + 1 <= produced,
           heard' = Append(heard, last_delivery_seq + 1),
           last_delivery_seq' = last_delivery_seq + 1,
           pending_header' \in {0, pending_header}, deliveries_since_ack' \in Nat,
           outcome' # "none" => finished',
           outcome' = "done" => terminal /\ last_delivery_seq + 1 = produced
    PROVE  HeardInv'
<1>1. /\ last_delivery_seq \in Nat /\ heard \in Seq(Nat) /\ Len(heard) = last_delivery_seq
      /\ produced \in Nat /\ trimmed \in Nat /\ pending_header \in Nat
  BY LenProperties DEF HeardInv, SessionInv
<1>2. /\ heard' \in Seq(Nat) /\ Len(heard') = last_delivery_seq + 1
      /\ heard'[last_delivery_seq + 1] = last_delivery_seq + 1
      /\ \A i \in 1..last_delivery_seq : heard'[i] = heard[i]
  BY SMTT(30), <1>1, AppendProperties
<1>3. \A i \in 1..Len(heard') : heard'[i] = i
  BY SMTT(30), <1>1, <1>2 DEF HeardInv
<1>4. pending_header' \in Nat /\ pending_header' <= last_delivery_seq' + 1
      /\ pending_header' <= produced /\ (terminal /\ pending_header' # 0 => pending_header' < produced)
  BY SMTT(30), <1>1 DEF HeardInv
<1>5. trimmed <= last_delivery_seq + 1 /\ produced - trimmed <= MaxRetained
  BY SMTT(30), <1>1 DEF HeardInv
<1> QED BY <1>2, <1>3, <1>4, <1>5 DEF HeardInv

\* Handling a frame keeps the invariant.
LEMMA HandleKeeps ==
    ASSUME WsInv, Handle
    PROVE  WsInv'
<1> USE WsParts
<1>1. /\ UNCHANGED <<serverVars, queue, handler>>
      /\ UNCHANGED <<acked_text_seq, final_text_seq, input_lock, fed, input_complete,
                     engine_cancelled, terminal, produced, trimmed, registered, attachment,
                     cancel_by, generation>>
  BY DEF Handle, serverVars, sessionVars, inputVars, engineVars
<1>2. /\ UNCHANGED <<conn, cancel_conn, next_text_seq, stop_sent, phase>>
      /\ rframe' = NoFrame
  BY DEF Handle, leaderVars
<1>3. rconn' \in {rconn, conn}
  BY DEF Handle, HandleHeader, HandlePayload, HandleEvent, HandleDone, Skip, Continue,
         ReaderGivesUp
<1>4. ClientInv'
  BY <1>2, <1>3 DEF Handle, ClientInv, senderVars, leaderVars
<1>5. conn \in Conns /\ (generation = 0 => conn = 1 /\ phase # "commit")
  BY DEF ClientInv, StartInv
<1>6. /\ last_delivery_seq \in Nat /\ next_text_seq \in Nat /\ produced \in Nat
      /\ deliveries_since_ack \in Nat
  BY SMTT(30), LenProperties DEF HeardInv, TextInv, SessionInv
<1>7. \/ UNCHANGED client_acked
      \/ client_acked' \in Nat /\ client_acked' <= acked_text_seq
  BY HandleKinds DEF LinksInv, Down
<1>8. (send_closed => send_closed') => TextInv'
  BY <1>1, <1>2, <1>7 DEF TextInv, TextOnce
<1>9. CASE HearsNothing
  <2>1. HeardInv'
    <3>1. CASE pending_header' \in {0, pending_header}
      <4>1. HeardSame
        BY <1>1, <1>6, <1>9, <3>1 DEF HeardSame, HearsNothing
      <4> QED BY <4>1, HeardKept
    <3>2. CASE /\ pending_header' \in Nat
               /\ pending_header' <= last_delivery_seq + 1 /\ pending_header' <= produced
               /\ terminal => pending_header' < produced
      <4>1. outcome' # "none" => finished'
        BY <1>9 DEF HearsNothing, HeardInv
      <4>2. outcome' = "done" => outcome = "done"
        BY <1>9 DEF HearsNothing
      <4> QED BY <1>1, <1>9, <3>2, <4>1, <4>2 DEF HeardInv, HearsNothing
    <3>3. CASE HearsNext \/ HearsLast
      <4>1. last_delivery_seq' = last_delivery_seq + 1
        BY <3>3, <1>6 DEF HearsNext, HearsLast, Accept, HandleDone
      <4> QED BY SMTT(30), <4>1, <1>6, <1>9 DEF HearsNothing
    <3> QED BY <3>1, <3>2, <3>3, HandleKinds
  <2>2. alive' \in [Conns -> BOOLEAN] /\ wire' \in [Conns -> Seq(Down)]
    BY <1>9, WiresKept DEF HearsNothing, Shut
  <2>3. UplinkInv'
    BY <1>1, <1>2, <1>9 DEF UplinkInv, Up, HearsNothing
  <2>4. StartInv'
    BY <1>1, <1>2, <1>5, <1>9, StartKept DEF HearsNothing
  <2>5. TextInv'
    BY <1>8, <1>9 DEF HearsNothing
  <2> QED BY <1>1, <1>2, <1>4, <2>1, <2>2, <2>3, <2>4, <2>5, ClientMoves, WiresKept DEF WsInv
<1>10. CASE HearsNext \/ HearsLast
  <2>1. /\ heard' = Append(heard, last_delivery_seq + 1)
        /\ last_delivery_seq' = last_delivery_seq + 1
        /\ last_delivery_seq + 1 <= produced
        /\ pending_header' \in {0, pending_header}
        /\ send_closed => send_closed'
        /\ UNCHANGED <<alive, wire>>
    BY SMTT(30), <1>10, <1>6 DEF HearsNext, HearsLast, Accept, HandleDone, Finish
  <2>2. deliveries_since_ack' \in Nat
    BY SMTT(30), <1>10, <1>6 DEF HearsNext, HearsLast, Accept, HandleDone, MaybeAck
  <2>3. /\ outcome' # "none" => finished'
        /\ outcome' = "done" => terminal /\ last_delivery_seq + 1 = produced
    BY <1>10 DEF HearsNext, HearsLast, HandleDone, Finish, HeardInv
  <2>4. HeardInv'
    BY <1>1, <2>1, <2>2, <2>3, HeardNext
  <2>5. Up \subseteq Up'
    BY SMTT(30), <1>1, <1>2, <1>6, <2>1, UpGrows
  <2>6. PICK t \in {"ack", "terminal_ack"} :
           UNCHANGED uplink \/ Deliver(conn, F(t, last_delivery_seq + 1))
    BY <1>10 DEF HearsNext, HearsLast, Accept, HandleDone, MaybeAck
  <2>7. F(t, last_delivery_seq + 1) \in Up' /\ F(t, last_delivery_seq + 1).t # "start"
    BY SMTT(30), <1>6, <2>1 DEF F, Up
  <2>8. UplinkInv'
    <3>1. CASE UNCHANGED uplink
      BY SMTT(30), <3>1, <2>5, SeqForms DEF UplinkInv
    <3> QED BY <1>5, <2>5, <2>6, <2>7, <3>1, Delivered
  <2>9. StartInv'
    BY <1>1, <1>2, <1>5, <2>6, <2>7, StartKept
  <2>10. TextInv'
    BY <1>8, <2>1
  <2> QED BY <1>1, <1>2, <1>4, <2>1, <2>4, <2>8, <2>9, <2>10, ClientMoves, WiresKept DEF WsInv
<1> QED BY <1>9, <1>10, HandleKinds DEF WsInv

-----------------------------------------------------------------------------
(* The recovery.                                                           *)

\* An attempt that came to nothing keeps the invariant, whether another one
\* follows or not.
LEMMA AttemptKeeps ==
    ASSUME WsInv, phase # "none",
           \/ NextAttempt \/ RecoverAbandoned \/ RecoverFails("recovery_error")
           \/ RecoverFails("protocol_error") \/ RecoverFails("refused"),
           UNCHANGED <<serverVars, queue, conn, cancel_conn, next_text_seq, client_acked,
                       stop_sent, hearVars, rconn, rframe>>
    PROVE  WsInv'
<1> USE WsParts
<1>1. /\ UNCHANGED <<acked_text_seq, final_text_seq, input_lock, fed, input_complete,
                     engine_cancelled, terminal, produced, trimmed, registered, attachment,
                     cancel_by, generation>>
      /\ UNCHANGED <<last_delivery_seq, pending_header, deliveries_since_ack, heard>>
  BY DEF serverVars, sessionVars, inputVars, engineVars, hearVars
<1>2. /\ UNCHANGED <<uplink, handler>>
      /\ phase' \in {"none", "dial"}
      /\ finished => finished'
      /\ send_closed => send_closed'
      /\ outcome' # outcome => outcome' # "done" /\ finished'
  <2>1. ASSUME NEW o, o # "done", RecoverFails(o)
        PROVE  /\ UNCHANGED <<uplink, handler>> /\ phase' = "none" /\ finished' /\ send_closed'
               /\ outcome' # outcome => outcome' # "done"
    BY <2>1 DEF RecoverFails, LeaderReturns, Finish
  <2>2. CASE RecoverAbandoned
    BY <2>2 DEF RecoverAbandoned, LeaderReturns
  <2>3. CASE NextAttempt /\ attempt < Attempts
    BY <2>3 DEF NextAttempt
  <2>4. CASE NextAttempt /\ ~(attempt < Attempts)
    BY <2>1, <2>4 DEF NextAttempt
  <2> QED BY <2>1, <2>2, <2>3, <2>4
<1>3. ClientInv'
  <2>1. CASE LeaderReturns(FALSE)
    BY SMTT(30), <2>1 DEF LeaderReturns, Returns, ClientInv
  <2>2. CASE /\ attempt < Attempts /\ attempt' = attempt + 1 /\ phase' = "dial"
             /\ UNCHANGED <<sconn, leader, new_conn>>
    BY SMTT(30), <2>2 DEF ClientInv
  <2> QED BY <2>1, <2>2 DEF NextAttempt, RecoverAbandoned, RecoverFails
<1>4. alive' \in [Conns -> BOOLEAN] /\ wire' \in [Conns -> Seq(Down)] /\ rframe' \in Down
  BY WiresKept DEF NextAttempt, RecoverAbandoned, RecoverFails, Shut
<1>5. TextInv'
  <2>1. TextSame
    BY <1>1, <1>2 DEF TextSame
  <2> QED BY <2>1, TextKept
<1>6. HeardInv'
  <2>1. HeardSame
    BY <1>1, <1>2 DEF HeardSame, HeardInv
  <2> QED BY <2>1, HeardKept
<1>7. UplinkInv'
  BY <1>1, <1>2 DEF UplinkInv, Up
<1>8. StartInv'
  BY SMTT(30), <1>1, <1>2 DEF StartInv
<1> QED BY <1>2, <1>3, <1>4, <1>5, <1>6, <1>7, <1>8, ClientMoves, WiresKept DEF WsInv

\* Dialling keeps the invariant: a new connection has carried nothing.
LEMMA DialKeeps ==
    ASSUME WsInv, Dial
    PROVE  WsInv'
<1> USE WsParts
<1>1. /\ UNCHANGED <<serverVars, queue, conn, cancel_conn, next_text_seq, client_acked,
                     stop_sent, hearVars, rconn, rframe>>
      /\ phase = "dial"
  BY DEF Dial
<1>2. CASE NextAttempt \/ RecoverFails("recovery_error")
  BY <1>1, <1>2, AttemptKeeps
<1>3. ASSUME NEW g \in Conns, handler[g] = "none", new_conn' = g,
             handler' = [handler EXCEPT ![g] = "ready"],
             alive' = [alive EXCEPT ![g] = TRUE, ![Current_conn] = FALSE],
             wire' = [wire EXCEPT ![Current_conn] = <<>>], phase' = "resume",
             UNCHANGED <<finished, recovering, send_closed, outcome, uplink, rpc, spc,
                         sconn, leader, attempt>>
      PROVE  WsInv'
  <2>1. /\ UNCHANGED <<acked_text_seq, final_text_seq, input_lock, fed, input_complete,
                       engine_cancelled, terminal, produced, trimmed, registered,
                       attachment, cancel_by, generation>>
        /\ UNCHANGED <<last_delivery_seq, pending_header, deliveries_since_ack, heard>>
    BY <1>1 DEF serverVars, sessionVars, inputVars, engineVars, hearVars
  <2>2. ClientInv'
    BY <1>1, <1>3 DEF ClientInv
  <2>3. alive' \in [Conns -> BOOLEAN] /\ wire' \in [Conns -> Seq(Down)]
    BY <1>3, WiresKept
  <2>4. /\ handler' \in [Conns -> {"none", "ready", "ended"}]
        /\ \A h \in Conns : handler[h] # "none" => handler'[h] = handler[h]
    BY <1>3, WiresKept
  <2>5. generation # 0 => handler'[generation] = handler[generation]
    BY <2>4 DEF OwnerInv, SessionInv
  <2>6. TextInv'
    <3>1. TextSame
      BY <1>1, <1>3, <2>1 DEF TextSame
    <3> QED BY <3>1, TextKept
  <2>7. HeardInv'
    <3>1. HeardSame
      BY <1>3, <2>1 DEF HeardSame, HeardInv
    <3> QED BY <3>1, HeardKept
  <2>8. UplinkInv'
    BY <1>1, <1>3, <2>1 DEF UplinkInv, Up
  <2>9. StartInv'
    <3>1. generation = 0 => handler'[1] = handler[1]
      BY <2>4, ConnFacts DEF StartInv
    <3>2. StartSame
      BY <1>1, <1>3, <2>1, <3>1 DEF StartSame
    <3> QED BY <3>2, StartUntouched
  <2>10. rframe' \in Down
    BY <1>1, WiresKept
  <2> QED BY <1>1, <2>2, <2>3, <2>4, <2>5, <2>6, <2>7, <2>8, <2>9, <2>10, ClientMoves DEF WsInv
<1> QED BY <1>2, <1>3 DEF Dial

\* Asking to resume keeps the invariant: the cursor is what was heard.
LEMMA SendResumeKeeps ==
    ASSUME WsInv, SendResume
    PROVE  WsInv'
<1> USE WsParts
<1>1. /\ UNCHANGED <<serverVars, queue, conn, cancel_conn, next_text_seq, client_acked,
                     stop_sent, hearVars, rconn, rframe>>
      /\ phase = "resume"
  BY DEF SendResume
<1>2. CASE NextAttempt \/ RecoverAbandoned
  BY <1>1, <1>2, AttemptKeeps
<1>3. CASE /\ Deliver(new_conn, F("resume", last_delivery_seq)) /\ phase' = "await"
           /\ UNCHANGED <<finished, recovering, send_closed, outcome, alive, wire,
                          handler, rpc, spc, sconn, leader, new_conn, attempt>>
  <2>1. /\ UNCHANGED <<acked_text_seq, final_text_seq, input_lock, fed, input_complete,
                       engine_cancelled, terminal, produced, trimmed, registered,
                       attachment, cancel_by, generation>>
        /\ UNCHANGED <<last_delivery_seq, pending_header, deliveries_since_ack, heard>>
    BY <1>1 DEF serverVars, sessionVars, inputVars, engineVars, hearVars
  <2>2. ClientInv' /\ new_conn \in Conns
    BY <1>1, <1>3 DEF ClientInv
  <2>3. TextInv'
    <3>1. TextSame
      BY <1>1, <1>3, <2>1 DEF TextSame
    <3> QED BY <3>1, TextKept
  <2>4. HeardInv'
    <3>1. HeardSame
      BY <1>3, <2>1 DEF HeardSame, HeardInv
    <3> QED BY <3>1, HeardKept
  <2>5. Up' = Up
    BY <1>1, <2>1 DEF Up
  <2>6. F("resume", last_delivery_seq) \in Up' /\ F("resume", last_delivery_seq).t = "resume"
    <3>1. last_delivery_seq \in Nat
      BY LenProperties DEF HeardInv
    <3> QED BY <3>1 DEF F, Up
  <2>7. UplinkInv'
    BY <1>3, <2>2, <2>5, <2>6, Delivered
  <2>8. StartInv'
    <3>1. generation = 0 => conn' = 1 /\ phase' # "commit"
      BY <1>1, <1>3 DEF StartInv
    <3> QED BY <1>3, <2>1, <2>2, <2>6, <3>1, StartKept
  <2> QED BY <1>1, <1>3, <2>2, <2>3, <2>4, <2>7, <2>8, ClientMoves, WiresKept DEF WsInv
<1> QED BY <1>2, <1>3 DEF SendResume

\* The answer to a resume says what the server has, and the rest is sent again.
LEMMA AwaitResumedKeeps ==
    ASSUME WsInv, AwaitResumed
    PROVE  WsInv'
<1> USE WsParts
<1>1. /\ UNCHANGED <<serverVars, queue, conn, cancel_conn, next_text_seq, stop_sent,
                     hearVars, rconn, rframe>>
      /\ phase = "await"
  BY DEF AwaitResumed
<1>2. CASE /\ UNCHANGED client_acked
           /\ \/ NextAttempt \/ RecoverFails("recovery_error")
              \/ RecoverFails("protocol_error") \/ RecoverFails("refused")
  BY <1>1, <1>2, AttemptKeeps
<1>3. ASSUME NEW m, wire[new_conn] # <<>>, m = Head(wire[new_conn]),
             m.t \in {"resumed", "resumed_closed"}, ValidTextAck(m.n), Resumed(m)
      PROVE  WsInv'
  <2>1. /\ UNCHANGED <<acked_text_seq, final_text_seq, input_lock, fed, input_complete,
                       engine_cancelled, terminal, produced, trimmed, registered,
                       attachment, cancel_by, generation>>
        /\ UNCHANGED <<last_delivery_seq, pending_header, deliveries_since_ack, heard>>
    BY <1>1 DEF serverVars, sessionVars, inputVars, engineVars, hearVars
  <2>2. new_conn \in Conns
    BY <1>1 DEF ClientInv
  <2>3. /\ m \in Down /\ wire' \in [Conns -> Seq(Down)]
        /\ UNCHANGED <<finished, recovering, send_closed, outcome, alive, handler, rpc, spc,
                       sconn, leader, new_conn, attempt>>
        /\ client_acked' = m.n /\ phase' = "commit"
    BY <1>3, <2>2, WireHead DEF Resumed
  <2>4. m.n \in Nat /\ m.n <= acked_text_seq /\ generation # 0 /\ m.n < next_text_seq
    BY <1>3, <2>3 DEF Down, ValidTextAck
  <2>5. ClientInv'
    BY <1>1, <2>3 DEF ClientInv
  <2>6. TextInv'
    BY <1>1, <2>1, <2>3, <2>4 DEF TextInv, TextOnce
  <2>7. HeardInv'
    <3>1. HeardSame
      BY <2>1, <2>3 DEF HeardSame, HeardInv
    <3> QED BY <3>1, HeardKept
  <2>8. Up' = Up
    BY <1>1, <2>1 DEF Up
  <2>9. ASSUME NEW c PROVE Unacked(m.n, c) \in Seq(Up)
    <3>1. PICK n \in Nat : n = m.n /\ n < next_text_seq
      BY <2>4
    <3>2. next_text_seq \in Nat /\ next_text_seq - 1 - n \in Nat /\ next_text_seq - 1 \in Nat
      BY SMTT(30), <3>1 DEF TextInv
    <3>3. \A i \in 1..(next_text_seq - 1 - n) : F("text", n + i) \in Up
      BY SMTT(30), <3>2 DEF F, Up
    <3>4. [i \in 1..(next_text_seq - 1 - n) |-> F("text", n + i)]
            \in [1..(next_text_seq - 1 - n) -> Up]
      BY <3>3
    <3>5. [i \in 1..(next_text_seq - 1 - n) |-> F("text", n + i)] \in Seq(Up)
      BY SMTT(30), <3>2, <3>4, SeqDef
    <3>6. stop_sent => F("stop", next_text_seq - 1) \in Up
      BY <3>2 DEF F, Up
    <3>7. (IF stop_sent /\ ~c THEN <<F("stop", next_text_seq - 1)>> ELSE <<>>) \in Seq(Up)
      BY SMTT(30), <3>6
    <3> QED BY <3>1, <3>5, <3>7, ConcatProperties DEF Unacked
  <2>10. UplinkInv'
    <3>1. uplink \in [Conns -> Seq(Up)]
      BY DEF UplinkInv
    <3>2. uplink[new_conn] \o Unacked(m.n, m.t = "resumed_closed") \in Seq(Up)
      BY <2>2, <2>9, <3>1, ConcatProperties
    <3> QED BY <1>3, <2>2, <2>8, <3>1, <3>2 DEF UplinkInv, Resumed
  <2>11. StartInv'
    BY <2>1, <2>4 DEF StartInv
  <2> QED BY <1>1, <2>3, <2>5, <2>6, <2>7, <2>10, <2>11, ClientMoves, WiresKept DEF WsInv
<1> QED BY <1>2, <1>3 DEF AwaitResumed

\* Committing to the new connection keeps the invariant.
LEMMA CommitKeeps ==
    ASSUME WsInv, Commit
    PROVE  WsInv'
<1> USE WsParts
<1>1. /\ UNCHANGED <<serverVars, queue, cancel_conn, next_text_seq, client_acked,
                     stop_sent, last_delivery_seq, heard, rconn, rframe>>
      /\ phase = "commit"
  BY DEF Commit
<1>2. CASE RecoverAbandoned /\ UNCHANGED <<conn, pending_header, deliveries_since_ack>>
  BY <1>1, <1>2, AttemptKeeps DEF hearVars
<1>3. CASE /\ conn' = new_conn /\ pending_header' = 0 /\ deliveries_since_ack' = 0
           /\ LeaderReturns(TRUE)
           /\ UNCHANGED <<finished, send_closed, outcome, alive, wire, uplink, handler>>
  <2>1. UNCHANGED <<acked_text_seq, final_text_seq, input_lock, fed, input_complete,
                    engine_cancelled, terminal, produced, trimmed, registered,
                    attachment, cancel_by, generation>>
    BY <1>1 DEF serverVars, sessionVars, inputVars, engineVars
  <2>2. ClientInv'
    BY SMTT(30), <1>1, <1>3 DEF LeaderReturns, Returns, ClientInv
  <2>3. TextInv'
    <3>1. TextSame
      BY <1>1, <1>3, <2>1 DEF TextSame
    <3> QED BY <3>1, TextKept
  <2>4. HeardInv'
    <3>1. HeardSame
      BY <1>1, <1>3, <2>1 DEF HeardSame
    <3> QED BY <3>1, HeardKept
  <2>5. UplinkInv'
    BY <1>1, <1>3, <2>1 DEF UplinkInv, Up
  <2>6. StartInv'
    BY <1>1, <2>1 DEF StartInv
  <2> QED BY <1>1, <1>3, <2>2, <2>3, <2>4, <2>5, <2>6, ClientMoves, WiresKept DEF WsInv
<1> QED BY <1>2, <1>3 DEF Commit

-----------------------------------------------------------------------------
(* The theorems.                                                           *)

\* The invariant holds when the client has written its start.
LEMMA WsStarts == ResumeInit => WsInv
<1> SUFFICES ASSUME ResumeInit PROVE WsInv
  OBVIOUS
<1> USE DEF ResumeInit
<1>1. SessionInv /\ OwnerInv /\ ClosedMeansTold
  BY ConnFacts DEF SessionInv, OwnerInv, NewestOwns, ClosedMeansTold
<1>2. TextInv
  <2>1. <<>> \in Seq(Nat) /\ Len(<<>>) = 0
    BY SMTT(30)
  <2> QED BY SMTT(30), <2>1 DEF TextInv, TextOnce, Free
<1>3. ClientInv
  BY SMTT(30), ConnFacts DEF ClientInv, Threads
<1>4. HeardInv
  <2>1. <<>> \in Seq(Nat) /\ Len(<<>>) = 0
    BY SMTT(30)
  <2> QED BY SMTT(30), <2>1 DEF HeardInv
<1>5. LinksInv
  <2>1. <<>> \in Seq(Down)
    BY SMTT(30)
  <2> QED BY <2>1, PlainFrames DEF LinksInv
<1>6. UplinkInv
  <2>1. F("start", 0) \in Up
    BY DEF F, Up
  <2>2. <<F("start", 0)>> \in Seq(Up) /\ <<>> \in Seq(Up)
    BY SMTT(30), <2>1
  <2> QED BY <2>2 DEF UplinkInv
<1>7. StartInv
  <2>1. /\ uplink[1] = <<F("start", 0)>> /\ handler[1] = "ready"
        /\ \A g \in Conns \ {1} : uplink[g] = <<>>
    BY ConnFacts
  <2>2. uplink[1] # <<>> /\ DOMAIN uplink[1] = {1} /\ uplink[1][1].t = "start"
    BY SMTT(30), <2>1 DEF F
  <2> QED BY SMTT(30), <2>1, <2>2 DEF StartInv
<1> QED BY <1>1, <1>2, <1>3, <1>4, <1>5, <1>6, <1>7 DEF WsInv

\* Every step keeps it.
LEMMA WsSteps == WsInv /\ [ResumeNext]_vars => WsInv'
<1> SUFFICES ASSUME WsInv, [ResumeNext]_vars PROVE WsInv'
  OBVIOUS
<1>1. CASE \E g \in Conns : HandlerStep(g)
  BY <1>1, StartKeeps, ResumeKeeps, AcceptTextKeeps, CloseInputKeeps, AcknowledgeKeeps,
     TerminalAckKeeps, CancelStreamKeeps, OutputKeeps DEF HandlerStep
<1>2. CASE InputStep \/ EngineAudio \/ EngineDone
  BY <1>2, TextAcceptedKeeps, InputFailsKeep, InputClosedKeeps, PublishingKeeps DEF InputStep
<1>3. CASE TimerStep
  BY <1>3, TimersKeep
<1>4. CASE Handle \/ AppStep
  BY <1>4, HandleKeeps, AppKeeps
<1>5. CASE LeaderStep
  BY <1>5, DialKeeps, SendResumeKeeps, AwaitResumedKeeps, CommitKeeps DEF LeaderStep
<1>6. CASE \/ ReaderLoop \/ ReaderRecv \/ ReaderFails \/ UNCHANGED vars
           \/ (\E w \in Threads : RecoverNothing(w) \/ Lead(w))
           \/ (\E g \in Conns : Break(g))
  <2>1. ClientInv'
    BY <1>6, ThreadsKept DEF WsInv
  <2> QED BY <1>6, <2>1, QuietKeeps
<1> QED BY <1>1, <1>2, <1>3, <1>4, <1>5, <1>6 DEF ResumeNext, ReaderStep, Over

\* The invariant holds always.
THEOREM WsSafe == ResumeSpec => []WsInv
BY WsStarts, WsSteps, PTL DEF ResumeSpec

\* Text is fed once and in order, the journal forgets only what the server has,
\* and the engine is told that its input is complete only with all of it,
\* whatever was replayed: TextOnce.
THEOREM TextReachesOnce == ResumeSpec => []TextOnce
<1>1. WsInv => TextOnce
  BY DEF WsInv, TextInv
<1> QED BY <1>1, WsSafe, PTL

\* A closed input has been told to the engine, is being told, or no longer
\* matters: ClosedMeansTold.
THEOREM ClosedIsTold == ResumeSpec => []ClosedMeansTold
<1>1. WsInv => ClosedMeansTold
  BY DEF WsInv
<1> QED BY <1>1, WsSafe, PTL

\* While its handler runs, the last connection to attach owns the stream,
\* however late the cleanups of earlier ones come: NewestOwns.
THEOREM NewestIsOwner == ResumeSpec => []NewestOwns
<1>1. WsInv => NewestOwns
  BY DEF WsInv, OwnerInv
<1> QED BY <1>1, WsSafe, PTL

-----------------------------------------------------------------------------
(* The flags, and with them the type invariant.                            *)

SessionFlags ==
    /\ registered \in BOOLEAN /\ closed \in BOOLEAN /\ expiring \in BOOLEAN
    /\ failure \in BOOLEAN /\ terminal \in BOOLEAN /\ terminal_task \in BOOLEAN
    /\ input_closed \in BOOLEAN /\ input_complete \in BOOLEAN
    /\ engine_cancelled \in BOOLEAN

ClientFlags ==
    /\ finished \in BOOLEAN /\ recovering \in BOOLEAN /\ send_closed \in BOOLEAN
    /\ stop_sent \in BOOLEAN

\* The steps of the client leave the session's flags alone, and the steps of the
\* server the client's.
LEMMA FlagSteps ==
    ASSUME SessionFlags, ClientFlags, [ResumeNext]_vars
    PROVE  SessionFlags' /\ ClientFlags'
<1>1. UNCHANGED clientVars => ClientFlags'
  BY DEF ClientFlags, clientVars, streamVars
<1>2. UNCHANGED serverVars => SessionFlags'
  BY DEF SessionFlags, serverVars, sessionVars, inputVars, engineVars
<1>3. ASSUME NEW g \in Conns, Start(g) \/ Resume(g) \/ SendOutput(g) \/ Notices(g)
      PROVE  SessionFlags' /\ UNCHANGED clientVars
  <2>1. CASE Start(g)
    BY <2>1 DEF Start, SessionFlags, inputVars, engineVars
  <2>2. CASE Resume(g)
    BY <2>2 DEF Resume, SessionFlags, inputVars, engineVars
  <2>3. CASE SendOutput(g) \/ Notices(g)
    BY <2>3 DEF SendOutput, Notices, SessionFlags, inputVars, engineVars
  <2> QED BY <1>3, <2>1, <2>2, <2>3
<1>4. ASSUME NEW g \in Conns, AcceptText(g) \/ CloseInput(g) \/ Acknowledge(g)
      PROVE  SessionFlags' /\ UNCHANGED clientVars
  <2>1. /\ UNCHANGED <<registered, closed, expiring, failure, terminal, terminal_task,
                       input_complete, engine_cancelled, clientVars>>
        /\ UNCHANGED input_closed \/ input_closed' = TRUE
    BY <1>4 DEF AcceptText, CloseInput, Acknowledge, inputVars, engineVars
  <2> QED BY <2>1 DEF SessionFlags
<1>5. ASSUME NEW g \in Conns, TerminalAck(g) \/ CancelStream(g)
      PROVE  SessionFlags' /\ UNCHANGED clientVars
  <2>1. CASE TerminalAck(g)
    BY <2>1 DEF TerminalAck, RemoveSession, SessionFlags, inputVars, engineVars
  <2>2. CASE CancelStream(g)
    BY <2>2 DEF CancelStream, SessionFlags, inputVars, engineVars, sessionVars
  <2> QED BY <1>5, <2>1, <2>2
<1>6. ASSUME TextAccepted \/ PushFails \/ InputClosed \/ CloseFails
      PROVE  SessionFlags' /\ UNCHANGED clientVars
  <2>1. (input_complete \/ EngineTakesText) \in BOOLEAN
    OBVIOUS
  <2>2. CASE TextAccepted \/ PushFails
    BY <2>2 DEF TextAccepted, PushFails, SessionFlags, sessionVars, engineVars
  <2>3. CASE InputClosed
    BY <2>1, <2>3 DEF InputClosed, SessionFlags, sessionVars
  <2>4. CASE CloseFails
    BY <2>4 DEF CloseFails, SessionFlags, sessionVars, engineVars
  <2> QED BY <1>6, <2>2, <2>3, <2>4
<1>7. ASSUME CancelPublished \/ EngineAudio \/ EngineDone
      PROVE  SessionFlags' /\ UNCHANGED clientVars
  <2>1. ASSUME NEW last \in BOOLEAN, Put(last)
        PROVE  /\ failure' \in BOOLEAN /\ terminal' \in BOOLEAN /\ terminal_task' \in BOOLEAN
               /\ engine_cancelled' \in BOOLEAN
    <3>1. (terminal_task \/ last) \in BOOLEAN
      OBVIOUS
    <3> QED BY <2>1, <3>1 DEF Put, SessionFlags
  <2> QED BY <1>7, <2>1 DEF CancelPublished, EngineAudio, EngineDone, SessionFlags, inputVars
<1>8. ASSUME GraceExpires \/ TerminalExpires \/ Expired
      PROVE  SessionFlags' /\ UNCHANGED clientVars
  <2>1. (expiring \/ MayExpire) \in BOOLEAN /\ (engine_cancelled \/ MayExpire) \in BOOLEAN
    OBVIOUS
  <2>2. CASE GraceExpires
    BY <2>1, <2>2 DEF GraceExpires, SessionFlags, inputVars, engineVars
  <2>3. CASE TerminalExpires
    BY <2>3 DEF TerminalExpires, RemoveSession, SessionFlags, inputVars, engineVars
  <2>4. CASE Expired
    BY <2>4 DEF Expired, RemoveSession, SessionFlags, inputVars, engineVars
  <2> QED BY <1>8, <2>2, <2>3, <2>4
<1>9. ASSUME \/ AppStep \/ Handle
      PROVE  ClientFlags' /\ UNCHANGED serverVars
  <2>1. CASE AppStep
    BY <2>1 DEF AppStep, SendText, FinishInput, Cancel, GiveUp, Finish, ClientFlags
  <2>2. CASE Handle
    <3>1. UNCHANGED <<finished, recovering, send_closed>> \/ (\E o : Finish(o))
      BY <2>2 DEF Handle, HandleHeader, HandlePayload, HandleEvent, HandleDone, Skip,
                  Continue, ReaderGivesUp, GiveUp
    <3> QED BY <2>2, <3>1 DEF Handle, Finish, ClientFlags
  <2> QED BY <1>9, <2>1, <2>2
<1>10. ASSUME LeaderStep
       PROVE  ClientFlags' /\ UNCHANGED serverVars
  <2>1. \/ UNCHANGED <<finished, recovering, send_closed>>
        \/ UNCHANGED <<finished, send_closed>> /\ recovering' = FALSE
        \/ \E o : Finish(o)
    BY <1>10 DEF LeaderStep, Dial, SendResume, AwaitResumed, Commit, NextAttempt, Resumed,
                 RecoverFails, RecoverAbandoned
  <2> QED BY <1>10, <2>1 DEF LeaderStep, Dial, SendResume, AwaitResumed, Commit, Finish,
                             ClientFlags
<1>11. ASSUME \/ ReaderLoop \/ ReaderRecv \/ ReaderFails \/ UNCHANGED vars
              \/ (\E w \in Threads : RecoverNothing(w) \/ Lead(w))
              \/ (\E g \in Conns : Break(g))
       PROVE  ClientFlags' /\ UNCHANGED serverVars
  BY <1>11 DEF ReaderLoop, ReaderRecv, ReaderFails, RecoverNothing, Lead, Break, vars,
               clientVars, streamVars, ClientFlags
<1>12. CASE \E g \in Conns : HandlerStep(g)
  BY <1>1, <1>3, <1>4, <1>5, <1>12 DEF HandlerStep
<1>13. CASE InputStep \/ TimerStep \/ EngineAudio \/ EngineDone
  BY <1>1, <1>6, <1>7, <1>8, <1>13 DEF InputStep, TimerStep
<1> QED BY <1>2, <1>9, <1>10, <1>11, <1>12, <1>13 DEF ResumeNext, ReaderStep, Over

\* Every variable has its type, and no counter leaves its range, for any number
\* of texts, deliveries and connections: ResumeTypeOK.
THEOREM ResumeTypesHold == ResumeSpec => []ResumeTypeOK
<1>1. ResumeInit => SessionFlags /\ ClientFlags
  BY DEF ResumeInit, SessionFlags, ClientFlags
<1>2. SessionFlags /\ ClientFlags /\ [ResumeNext]_vars => SessionFlags' /\ ClientFlags'
  BY FlagSteps
<1>3. ResumeSpec => [](SessionFlags /\ ClientFlags)
  BY <1>1, <1>2, PTL DEF ResumeSpec
<1>4. ASSUME WsInv, SessionFlags, ClientFlags PROVE ResumeTypeOK
  <2>1. /\ last_delivery_seq \in Nat /\ last_delivery_seq = Len(heard) /\ produced \in Nat
        /\ trimmed \in Nat /\ trimmed <= last_delivery_seq /\ last_delivery_seq <= produced
        /\ produced - trimmed <= MaxRetained
        /\ pending_header \in Nat /\ pending_header <= produced
    BY <1>4, LenProperties DEF WsInv, HeardInv, SessionInv
  <2>2. trimmed \in 0..Len(heard) /\ last_delivery_seq \in 0..produced
        /\ pending_header \in 0..produced
    BY SMTT(30), <2>1
  <2>3. /\ acked_text_seq \in 0..NumTexts /\ client_acked \in 0..NumTexts
        /\ final_text_seq \in -1..NumTexts /\ next_text_seq \in 1..(NumTexts + 1)
        /\ input_lock.g \in Conns \cup {0}
    BY SMTT(30), <1>4 DEF WsInv, TextInv, TextOnce
  <2>4. /\ attachment \in Conns \cup {0} /\ generation \in Conns \cup {0}
        /\ grace_task \in Conns \cup {0} /\ cancel_by \in Conns \cup {0}
        /\ conn \in Conns \cup {0} /\ cancel_conn \in Conns \cup {0}
        /\ rconn \in Conns \cup {0} /\ sconn \in Conns \cup {0}
        /\ new_conn \in Conns \cup {0} /\ attempt \in 0..Attempts
        /\ phase = "none" <=> leader = "none"
    BY <1>4 DEF WsInv, SessionInv, ClientInv
  <2>5. {attachment, generation, grace_task, cancel_by, conn, cancel_conn, rconn, sconn,
         new_conn, input_lock.g} \subseteq Conns \cup {0}
    BY <2>3, <2>4
  <2>6. {registered, closed, expiring, failure, terminal, terminal_task, input_closed,
         input_complete, engine_cancelled, finished, recovering, send_closed,
         stop_sent} \subseteq BOOLEAN
    BY <1>4 DEF SessionFlags, ClientFlags
  <2> QED BY <2>1, <2>2, <2>3, <2>4, <2>5, <2>6 DEF ResumeTypeOK
<1>5. WsInv /\ SessionFlags /\ ClientFlags => ResumeTypeOK
  BY <1>4
<1> QED BY <1>3, <1>5, WsSafe, PTL

-----------------------------------------------------------------------------
(* The stream the caller is promised.                                      *)

\* Every step publishes one more delivery, lets the caller hear the next one,
\* fails the stream, or is not seen by the caller.
LEMMA StreamStep ==
    ASSUME WsInv, SessionFlags, [ResumeNext]_vars
    PROVE  [Stream!StreamNext]_(Stream!streamVars)
<1> USE WsParts
<1>1. ASSUME UNCHANGED <<produced, terminal, heard, outcome>>
      PROVE  UNCHANGED Stream!streamVars
  BY <1>1 DEF Stream!streamVars
<1>2. ASSUME UNCHANGED <<produced, terminal, heard>>, outcome = "none", outcome' # "none",
             outcome' # "done"
      PROVE  Stream!Fail
  BY <1>2 DEF Stream!Fail
<1>3. ASSUME UNCHANGED clientVars,
             \/ UNCHANGED <<produced, terminal>>
             \/ ~terminal /\ produced' = produced + 1 /\ terminal' \in BOOLEAN
      PROVE  [Stream!StreamNext]_(Stream!streamVars)
  <2>1. UNCHANGED <<heard, outcome>>
    BY <1>3 DEF clientVars, streamVars, hearVars
  <2>2. CASE UNCHANGED <<produced, terminal>>
    BY <1>1, <2>1, <2>2
  <2>3. CASE ~terminal /\ produced' = produced + 1 /\ terminal' \in BOOLEAN
    BY <2>1, <2>3 DEF Stream!Publish, Stream!StreamNext
  <2> QED BY <1>3, <2>2, <2>3
<1>4. ASSUME UNCHANGED serverVars, UNCHANGED heard,
             outcome' # outcome => outcome = "none" /\ outcome' # "done"
      PROVE  [Stream!StreamNext]_(Stream!streamVars)
  <2>1. UNCHANGED <<produced, terminal>>
    BY <1>4 DEF serverVars, sessionVars
  <2> QED BY <1>1, <1>2, <1>4, <2>1 DEF Stream!StreamNext
<1>5. CASE \E g \in Conns : HandlerStep(g)
  <2>1. PICK g \in Conns : HandlerStep(g)
    BY <1>5
  <2>2. CASE Start(g)
    <3>1. generation = 0
      BY <2>2, Received DEF Start
    <3>2. produced = 0 /\ ~terminal /\ terminal \in BOOLEAN
      BY <3>1 DEF StartInv, SessionFlags
    <3> QED BY SMTT(30), <1>3, <2>2, <3>2 DEF Start
  <2>3. CASE ~Start(g)
    <3>1. UNCHANGED <<produced, terminal, clientVars>>
      BY <2>1, <2>3 DEF HandlerStep, Resume, AcceptText, CloseInput, Acknowledge, TerminalAck,
                        CancelStream, SendOutput, Notices, sessionVars
    <3> QED BY <1>3, <3>1
  <2> QED BY <2>2, <2>3
<1>6. CASE InputStep \/ TimerStep \/ EngineAudio \/ EngineDone
  <2>1. CASE CancelPublished \/ EngineAudio \/ EngineDone
    <3>1. PICK last \in BOOLEAN : Put(last)
      BY <2>1 DEF CancelPublished, EngineAudio, EngineDone
    <3>2. \/ UNCHANGED <<produced, terminal>>
          \/ ~terminal /\ produced' = produced + 1 /\ terminal' \in BOOLEAN
      BY <3>1 DEF Put
    <3> QED BY <1>3, <2>1, <3>2 DEF CancelPublished, EngineAudio, EngineDone
  <2>2. CASE ~(CancelPublished \/ EngineAudio \/ EngineDone)
    <3>1. UNCHANGED <<produced, terminal, clientVars>>
      BY <1>6, <2>2 DEF InputStep, TimerStep, TextAccepted, PushFails, InputClosed, CloseFails,
                        GraceExpires, TerminalExpires, Expired, sessionVars
    <3> QED BY <1>3, <3>1
  <2> QED BY <2>1, <2>2
<1>7. CASE \/ ReaderLoop \/ ReaderRecv \/ ReaderFails \/ UNCHANGED vars
           \/ (\E w \in Threads : RecoverNothing(w) \/ Lead(w))
           \/ (\E g \in Conns : Break(g))
  <2>1. UNCHANGED <<serverVars, heard, outcome>>
    BY <1>7 DEF ReaderLoop, ReaderRecv, ReaderFails, RecoverNothing, Lead, Break, vars,
                clientVars, streamVars, hearVars
  <2> QED BY <1>4, <2>1
<1>8. CASE AppStep
  <2>1. /\ UNCHANGED <<serverVars, heard>>
        /\ outcome' # outcome => outcome = "none" /\ outcome' # "done"
    BY <1>8 DEF AppStep, SendText, FinishInput, Cancel, GiveUp, Finish, hearVars
  <2> QED BY <1>4, <2>1
<1>9. CASE LeaderStep
  <2>1. UNCHANGED <<serverVars, heard>>
    BY <1>9 DEF LeaderStep, Dial, SendResume, AwaitResumed, Commit, hearVars
  <2>2. ASSUME NEW o, o # "done", RecoverFails(o)
        PROVE  outcome' # outcome => outcome = "none" /\ outcome' # "done"
    BY <2>2 DEF RecoverFails, Finish
  <2>3. ASSUME NextAttempt PROVE outcome' # outcome => outcome = "none" /\ outcome' # "done"
    BY <2>2, <2>3 DEF NextAttempt
  <2>4. outcome' # outcome => outcome = "none" /\ outcome' # "done"
    BY <1>9, <2>2, <2>3 DEF LeaderStep, Dial, SendResume, AwaitResumed, Commit, Resumed,
                            RecoverAbandoned
  <2> QED BY <1>4, <2>1, <2>4
<1>10. CASE Handle
  <2>1. UNCHANGED serverVars /\ UNCHANGED <<produced, terminal>>
    BY <1>10 DEF Handle, serverVars, sessionVars
  <2>2. CASE HearsNothing
    BY <1>4, <2>1, <2>2 DEF HearsNothing
  <2>3. ASSUME HearsNext \/ HearsLast PROVE Stream!Hear
    <3>1. last_delivery_seq \in Nat /\ heard \in Seq(Nat) /\ Len(heard) = last_delivery_seq
          /\ produced \in Nat
      BY LenProperties DEF HeardInv, SessionInv
    <3>2. outcome = "none"
      BY <2>3 DEF HearsNext, HearsLast, HeardInv
    <3>3. heard' = Append(heard, Len(heard) + 1) /\ Len(heard) < produced
      BY SMTT(30), <2>3, <3>1 DEF HearsNext, HearsLast, Accept, HandleDone
    <3>4. Len(heard') = last_delivery_seq + 1
      BY SMTT(30), <3>1, <3>3, AppendProperties
    <3>5. CASE HearsNext
      <4>1. outcome' = "none" /\ ~(terminal /\ Len(heard') = produced)
        BY SMTT(30), <3>1, <3>2, <3>4, <3>5 DEF HearsNext
      <4> QED BY <2>1, <3>2, <3>3, <4>1 DEF Stream!Hear
    <3>6. CASE HearsLast
      <4>1. outcome' = "done" /\ terminal /\ Len(heard') = produced
        BY <3>1, <3>2, <3>4, <3>6 DEF HearsLast, HandleDone, Finish
      <4> QED BY <2>1, <3>2, <3>3, <4>1 DEF Stream!Hear
    <3> QED BY <2>3, <3>5, <3>6
  <2> QED BY <1>10, <2>2, <2>3, HandleKinds DEF Stream!StreamNext
<1> QED BY <1>5, <1>6, <1>7, <1>8, <1>9, <1>10 DEF ResumeNext, ReaderStep, Over

\* The gateway, its handlers and the two threads of the client implement the
\* stream that ReliableStream promises, for any number of deliveries and of
\* broken connections: StreamImplemented.
THEOREM WsStreamIsImplemented == ResumeSpec => StreamImplemented
<1>1. ResumeInit => Stream!StreamInit
  BY DEF ResumeInit, Stream!StreamInit
<1>2. ResumeInit => SessionFlags /\ ClientFlags
  BY DEF ResumeInit, SessionFlags, ClientFlags
<1>3. SessionFlags /\ ClientFlags /\ [ResumeNext]_vars => SessionFlags' /\ ClientFlags'
  BY FlagSteps
<1>4. WsInv /\ SessionFlags /\ [ResumeNext]_vars => [Stream!StreamNext]_(Stream!streamVars)
  BY StreamStep
<1> QED BY <1>1, <1>2, <1>3, <1>4, WsSafe, PTL
        DEF ResumeSpec, StreamImplemented, Stream!StreamSpec

=============================================================================
