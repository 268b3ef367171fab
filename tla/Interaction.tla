---------------------------- MODULE Interaction ----------------------------
(***************************************************************************)
(* One client connection and the path every answer takes to it:            *)
(*                                                                         *)
(*   client <-> WebsocketReceiver <-> API handler (websocket_endpoint and  *)
(*   stream_response) <-> broker (activation stream, one answer stream per *)
(*   question, one reply stream per feedback request) <-> SessionManager   *)
(*   (activation_listener, one answer task and one keep_alive task per     *)
(*   question).                                                            *)
(*                                                                         *)
(* Questions are numbered in the order the receiver accepts them.  The     *)
(* answer stream of a question is the sequence of its messages the API has *)
(* not read yet: each stream has one reader, which takes all it finds.     *)
(* Time advances in halves of broker.keepalive_seconds (action Tick).      *)
(***************************************************************************)
EXTENDS Naturals, Sequences, FiniteSets

CONSTANTS
  MaxQuestions, \* bound: questions accepted on the connection
  MaxSteps,     \* bound: intermediate messages of the agents for one question
  StepKinds,    \* the intermediate messages to explore, of "step" and "oauth"
  MaxFeedback,  \* bound: feedback requests of the agent for one question
  MaxDrop,      \* bound: publications that fail for one question
  MaxCrash,     \* bound: times the server process stops
  MaxLen,       \* XADD maxlen: newest entries a trimmed stream keeps (100)
  TrimSlack,    \* entries beyond MaxLen that approximate trimming may leave
  Endpoints     \* the endpoints to explore, of "http" (POST, no receiver),
                \* "once" and "keep_open" (websocket without and with keep_open)

ASSUME BoundsAssumption ==
  /\ MaxQuestions \in Nat \ {0} /\ MaxSteps \in Nat /\ MaxFeedback \in Nat
  /\ MaxDrop \in Nat /\ MaxCrash \in Nat
  /\ MaxLen \in Nat \ {0} /\ TrimSlack \in Nat
  /\ Endpoints \subseteq {"http", "once", "keep_open"}
  /\ StepKinds \subseteq {"step", "oauth"}

VARIABLES
  \* the client and the API process
  endpoint,    \* how the client has connected; never changes
  connected,   \* the client has not closed the websocket
  rcv,         \* task of WebsocketReceiver.run: "reading", "closing", "stopped"
  expecting,   \* WebsocketReceiver.expecting
  queue,       \* WebsocketReceiver.queue
  accepted,    \* number of questions the receiver has accepted
  replied,     \* requests <<q, k>> the client has answered
  pc,          \* where the handler coroutine is
  cur,         \* the question the handler is serving (0: none yet)
  batch,       \* messages read from the stream and not handled yet
  idle,        \* ticks since the pending XREAD was sent
  out,         \* what stream_response has yielded for each question
  \* the broker
  activations, \* the activation stream
  stream,      \* unread messages of each question's answer stream
  mailbox,     \* reply stream of each request: which request the client meant
  \* the server process
  listener,    \* the question being activated (0: none)
  run,         \* stage of each question on the server
  steps,       \* intermediate messages published for each question
  asked,       \* feedback requests published for each question
  waiting,     \* feedback requests whose reply an agent waits for
  others,      \* an agent has failed while others it runs with were running
  pingDue,     \* keep_alive has slept and has not published its ping yet
  drops,       \* publications lost for each question
  crashes      \* times the server has stopped

clientVars == <<endpoint, connected, replied>>
receiverVars == <<rcv, expecting, queue, accepted>>
handlerVars == <<pc, cur, batch, idle, out>>
brokerVars == <<activations, stream, mailbox>>
agentVars == <<steps, asked, waiting, others>>
serverVars == <<listener, run, agentVars, pingDue, drops, crashes>>
apiVars == <<clientVars, receiverVars, handlerVars>>
vars == <<clientVars, receiverVars, handlerVars, brokerVars, serverVars>>

Questions == 1..MaxQuestions
Requests == Questions \X (1..MaxFeedback)
NoReply == <<0, 0>>

\* Messages of an answer stream; k numbers the feedback requests.  "start",
\* "step" and "final" are AgentAnswer messages: START, any intermediate
\* answer, and the one answer() or activate() publishes before AgentDone.
Msg(t) == [type |-> t, k |-> 0]
Request(n) == [type |-> "request", k |-> n]
MsgTypes == {"start", "step", "oauth", "request", "final", "done", "ping"}
Message == [type : MsgTypes, k : 0..MaxFeedback]

\* What the client receives: the answers, DONE, or an ERROR of the API itself.
OutTypes == (MsgTypes \ {"ping"}) \cup {"apierror"}
Output == [type : OutTypes, k : 0..MaxFeedback]

\* What the receiver puts in its queue.
QuestionItem(q) == [kind |-> "question", re |-> <<q, 0>>]
FeedbackItem(r) == [kind |-> "feedback", re |-> r]
ShutdownItem == [kind |-> "shutdown", re |-> NoReply]
Item == {QuestionItem(q) : q \in Questions} \cup {FeedbackItem(r) : r \in Requests}
          \cup {ShutdownItem}

Stages == {"none", "queued", "activating", "actfailed", "start", "work", "closing",
           "final", "done", "saving", "ended", "lost"}
\* Mutations of Alive: keep_alive cancelled before the manager is closed, and
\* never cancelled.
AliveUntilAgentEnds == {"start", "work"}
AliveForever == AliveUntilAgentEnds \cup {"closing", "final", "done", "saving", "ended"}
\* the keep_alive task of the question is running
Alive == {"start", "work", "closing"}
\* the agent has been started and the question is not answered yet
Answering == {"work", "closing", "final", "done"}
Places == {"validating", "ask", "waitq", "publish", "read", "batch",
           "requested", "waitfb", "closed"}
Streaming == {"publish", "read", "batch", "requested", "waitfb"}

-----------------------------------------------------------------------------
Http == endpoint = "http"
KeepOpen == endpoint = "keep_open"

Init ==
  /\ endpoint \in Endpoints
  /\ connected = TRUE /\ replied = {}
  /\ expecting = "question" /\ queue = <<>>
  /\ rcv = IF Http THEN "stopped" ELSE "reading"
  /\ accepted = IF Http THEN 1 ELSE 0
  /\ pc = IF Http THEN "publish" ELSE "validating"
  /\ cur = IF Http THEN 1 ELSE 0
  /\ batch = <<>> /\ idle = 0
  /\ out = [q \in Questions |-> <<>>]
  /\ activations = <<>>
  /\ stream = [q \in Questions |-> <<>>]
  /\ mailbox = [r \in Requests |-> NoReply]
  /\ listener = 0
  /\ run = [q \in Questions |-> "none"]
  /\ steps = [q \in Questions |-> 0]
  /\ asked = [q \in Questions |-> 0]
  /\ waiting = [q \in Questions |-> {}]
  /\ others = [q \in Questions |-> FALSE]
  /\ pingDue = [q \in Questions |-> FALSE]
  /\ drops = [q \in Questions |-> 0]
  /\ crashes = 0

-----------------------------------------------------------------------------
(* The client: any legal message at any time, or nothing at all.           *)

\* The receiver parses a message as the kind it expects: a message of the
\* other kind fails validation, and one it does not expect is answered with
\* an error.  Neither changes any state.
Accept(kind, item) ==
  /\ rcv = "reading" /\ connected
  /\ expecting = kind /\ queue = <<>>
  /\ queue' = <<item>>
  /\ expecting' = "nothing"
  /\ UNCHANGED rcv

SendQuestion ==
  /\ accepted < MaxQuestions
  /\ Accept("question", QuestionItem(accepted + 1))
  /\ accepted' = accepted + 1
  /\ UNCHANGED <<clientVars, handlerVars, brokerVars, serverVars>>

\* Requests of the question being served that the client has been shown.
Shown == {<<cur, k>> : k \in {j \in 1..MaxFeedback :
             cur # 0 /\ \E i \in DOMAIN out[cur] : out[cur][i] = Request(j)}}

\* The client answers a request once; an answer the receiver does not expect
\* is discarded with "Unexpected message from user".
SendFeedback(r) ==
  /\ r \in Shown \ replied /\ connected /\ rcv = "reading"
  /\ replied' = replied \cup {r}
  /\ \/ /\ Accept("feedback", FeedbackItem(r))
        /\ UNCHANGED accepted
     \/ /\ expecting # "feedback"
        /\ UNCHANGED receiverVars
  /\ UNCHANGED <<endpoint, connected, handlerVars, brokerVars, serverVars>>

Disconnect ==
  /\ connected /\ ~Http
  /\ connected' = FALSE
  /\ rcv' = IF rcv = "reading" THEN "closing" ELSE rcv
  /\ UNCHANGED <<endpoint, replied, expecting, queue, accepted, handlerVars, brokerVars, serverVars>>

\* Mutation of PutShutdown: put_nowait, which drops the item on a full queue.
PutShutdownNoWait ==
  /\ rcv = "closing" /\ rcv' = "stopped"
  /\ queue' = IF queue = <<>> THEN <<ShutdownItem>> ELSE queue
  /\ UNCHANGED <<clientVars, expecting, accepted, handlerVars, brokerVars, serverVars>>

\* iter_json has ended: `finally: await self.queue.put(Shutdown())` waits for
\* a free place in the queue.
PutShutdown ==
  /\ rcv = "closing" /\ queue = <<>>
  /\ queue' = <<ShutdownItem>>
  /\ rcv' = "stopped"
  /\ UNCHANGED <<clientVars, expecting, accepted, handlerVars, brokerVars, serverVars>>

-----------------------------------------------------------------------------
(* The API handler.                                                        *)

Emit(t, n) == out' = [out EXCEPT ![cur] = Append(@, [type |-> t, k |-> n])]

\* The handler coroutine returns: it cancels the receiver task.
Close ==
  /\ pc' = "closed" /\ rcv' = "stopped"
  /\ UNCHANGED <<expecting, queue, accepted>>

\* Mutation of EndStream: what was read of the old stream is kept.
EndStreamKeepsBatch ==
  /\ idle' = 0 /\ UNCHANGED batch
  /\ IF KeepOpen
     THEN pc' = "ask" /\ UNCHANGED receiverVars
     ELSE Close

\* The stream of the current question is over: wait for the next question or
\* leave the loop.
EndStream ==
  /\ batch' = <<>> /\ idle' = 0
  /\ IF KeepOpen
     THEN pc' = "ask" /\ UNCHANGED receiverVars
     ELSE Close

\* ensure_workflow_active and ensure_session_exists succeed, or the socket is
\* closed with an error.
ValidateConnection ==
  /\ pc = "validating"
  /\ \/ pc' = "ask" /\ UNCHANGED receiverVars
     \/ Close
  /\ UNCHANGED <<clientVars, cur, batch, idle, out, brokerVars, serverVars>>

\* What receive_question does with the item it gets from the queue.
TakeQuestion(item) ==
  \/ /\ item.kind = "question"
     /\ cur' = item.re[1] /\ pc' = "publish"
     /\ UNCHANGED rcv
  \/ /\ item.kind # "question" \* WebSocketDisconnect or ValueError
     /\ pc' = "closed" /\ rcv' = "stopped"
     /\ UNCHANGED cur

\* Mutation of Expect: only a receiver that expects nothing is armed.
ExpectIfIdle(kind) == expecting' = IF expecting = "nothing" THEN kind ELSE expecting
Expect(kind) == expecting' = kind

\* receive_question sets expecting; get() returns at once on a full queue.
ReceiveQuestion ==
  /\ pc = "ask"
  /\ Expect("question")
  /\ IF queue = <<>>
     THEN pc' = "waitq" /\ UNCHANGED <<rcv, queue, cur>>
     ELSE queue' = <<>> /\ TakeQuestion(Head(queue))
  /\ UNCHANGED <<clientVars, accepted, batch, idle, out, brokerVars, serverVars>>

WakeWithQuestion ==
  /\ pc = "waitq" /\ queue # <<>>
  /\ queue' = <<>> /\ TakeQuestion(Head(queue))
  /\ UNCHANGED <<clientVars, expecting, accepted, batch, idle, out, brokerVars, serverVars>>

\* stream_response up to subscribe: an inactive workflow ends the stream with
\* an error, a failing publish_activation ends the handler.
PublishActivation ==
  /\ pc = "publish"
  /\ \/ /\ activations' = Append(activations, cur)
        /\ run' = [run EXCEPT ![cur] = "queued"]
        /\ pc' = "read" /\ idle' = 0
        /\ UNCHANGED <<receiverVars, batch, out, drops>>
     \/ /\ Emit("apierror", 0) /\ EndStream
        /\ UNCHANGED <<activations, run, drops>>
     \/ /\ drops[cur] < MaxDrop
        /\ drops' = [drops EXCEPT ![cur] = @ + 1]
        /\ Close
        /\ UNCHANGED <<activations, run, batch, idle, out>>
  /\ UNCHANGED <<clientVars, cur, stream, mailbox, listener, agentVars, pingDue, crashes>>

\* XREAD from the cursor returns every message it has not returned yet.
ReadStream ==
  /\ pc = "read" /\ stream[cur] # <<>>
  /\ batch' = stream[cur]
  /\ stream' = [stream EXCEPT ![cur] = <<>>]
  /\ pc' = "batch" /\ idle' = 0
  /\ UNCHANGED <<clientVars, receiverVars, cur, out, activations, mailbox, serverVars>>

\* Mutation of CanTimeOut: XREAD blocks without a limit.
NeverTimesOut == FALSE

\* The XREAD that is pending may return empty: it has blocked for the keepalive.
CanTimeOut == pc = "read" /\ stream[cur] = <<>> /\ idle = 2

\* Mutation of AgentTimeout: the error is reported and reading goes on.
AgentTimeoutReadsOn ==
  /\ CanTimeOut
  /\ Emit("apierror", 0) /\ idle' = 0 /\ UNCHANGED <<pc, batch, receiverVars>>
  /\ UNCHANGED <<clientVars, cur, brokerVars, serverVars>>

\* "Agent has stopped responding. Please, try again."
AgentTimeout ==
  /\ CanTimeOut
  /\ Emit("apierror", 0) /\ EndStream
  /\ UNCHANGED <<clientVars, cur, brokerVars, serverVars>>

\* XREAD has failed more than five times.
ReadFails ==
  /\ pc = "read" /\ drops[cur] < MaxDrop
  /\ drops' = [drops EXCEPT ![cur] = @ + 1]
  /\ Emit("apierror", 0) /\ EndStream
  /\ UNCHANGED <<clientVars, cur, brokerVars, listener, run, agentVars, pingDue, crashes>>

\* The next message of the batch; an empty batch goes back to XREAD.
NextMessage ==
  /\ batch' = Tail(batch)
  /\ pc' = IF Len(batch) = 1 THEN "read" ELSE "batch"
  /\ UNCHANGED idle

\* Mutation of Unsupported: the return after the error is missing.
UnsupportedReadsOn == Emit("apierror", 0) /\ NextMessage /\ UNCHANGED receiverVars
\* Requests to the user need a websocket.
Unsupported == Emit("apierror", 0) /\ EndStream

HandleMessage ==
  /\ pc = "batch"
  /\ LET m == Head(batch) IN
     \/ /\ m.type \in {"start", "step", "final"}
        /\ Emit(m.type, 0) /\ NextMessage /\ UNCHANGED receiverVars
     \/ /\ m.type = "ping"
        /\ NextMessage /\ UNCHANGED <<receiverVars, out>>
     \/ /\ m.type = "oauth" /\ ~Http
        /\ Emit("oauth", 0) /\ NextMessage /\ UNCHANGED receiverVars
     \/ /\ m.type = "request" /\ ~Http
        /\ Emit("request", m.k) /\ pc' = "requested"
        /\ UNCHANGED <<receiverVars, batch, idle>>
     \/ /\ m.type \in {"oauth", "request"} /\ Http
        /\ Unsupported
     \/ /\ m.type = "done"
        /\ Emit("done", 0) /\ EndStream
  /\ UNCHANGED <<clientVars, cur, brokerVars, serverVars>>

\* Mutation of ReplyKey: replies addressed to the request the server waits
\* for now.
ReplyKeyOfServer(m) == <<cur, asked[cur]>>
\* send_reply is given the feedback_id of the request message.
ReplyKey(m) == <<cur, m.k>>

\* EndStream, for a step that also changes the queue.
AbandonStream ==
  /\ batch' = <<>> /\ idle' = 0
  /\ pc' = IF KeepOpen THEN "ask" ELSE "closed"
  /\ rcv' = IF KeepOpen THEN rcv ELSE "stopped"

\* What receive_feedback does with the item it gets: send_reply to the
\* request the handler has read, or the end of the stream.
TakeFeedback(item) ==
  \/ /\ item.kind = "feedback"
     /\ mailbox' = [mailbox EXCEPT ![ReplyKey(Head(batch))] = item.re]
     /\ NextMessage /\ UNCHANGED <<rcv, out, drops>>
  \/ /\ item.kind = "feedback" /\ drops[cur] < MaxDrop \* send_reply fails
     /\ drops' = [drops EXCEPT ![cur] = @ + 1]
     /\ pc' = "closed" /\ rcv' = "stopped" /\ batch' = <<>>
     /\ UNCHANGED <<idle, out, mailbox>>
  \/ /\ item.kind = "question" \* ValueError
     /\ Emit("apierror", 0) /\ AbandonStream
     /\ UNCHANGED <<mailbox, drops>>
  \/ /\ item.kind = "shutdown" \* WebSocketDisconnect
     /\ AbandonStream
     /\ UNCHANGED <<mailbox, out, drops>>

\* Between the AGENT_REQUEST reaching the client and this step the receiver
\* does not expect an answer.
ReceiveFeedback ==
  /\ pc = "requested"
  /\ Expect("feedback")
  /\ IF queue = <<>>
     THEN pc' = "waitfb" /\ UNCHANGED <<rcv, queue, batch, idle, out, mailbox, drops>>
     ELSE queue' = <<>> /\ TakeFeedback(Head(queue))
  /\ UNCHANGED <<clientVars, accepted, cur, activations, stream, listener, run,
                 agentVars, pingDue, crashes>>

WakeWithFeedback ==
  /\ pc = "waitfb" /\ queue # <<>>
  /\ queue' = <<>> /\ TakeFeedback(Head(queue))
  /\ UNCHANGED <<clientVars, expecting, accepted, cur, activations, stream, listener,
                 run, agentVars, pingDue, crashes>>

-----------------------------------------------------------------------------
(* The broker.                                                             *)

\* Nobody reads the stream of a question the handler is done with: what is
\* published on it from then on is not recorded.
HasReader(q) == q = cur /\ pc \in Streaming

\* Mutation of Newest: a full stream refuses new entries.
Oldest(s, n) == SubSeq(s, 1, IF Len(s) > n THEN n ELSE Len(s))
\* XADD with approximate trimming keeps at least the newest MaxLen entries.
Newest(s, n) == SubSeq(s, IF Len(s) > n THEN Len(s) - n + 1 ELSE 1, Len(s))

\* Mutation of Publish: it waits for room in the stream.
PublishWithBackpressure(q, m) ==
  /\ Len(stream[q]) < MaxLen
  /\ stream' = [stream EXCEPT ![q] = Append(@, m)]
  /\ UNCHANGED drops

\* Publish m on the stream of q: it is added, or the call fails and
\* send_message swallows the error.
Publish(q, m) ==
  \/ /\ \E n \in MaxLen..(MaxLen + TrimSlack) :
          stream' = [stream EXCEPT ![q] =
                       IF HasReader(q) THEN Newest(Append(@, m), n) ELSE <<>>]
     /\ UNCHANGED drops
  \/ /\ drops[q] < MaxDrop
     /\ drops' = [drops EXCEPT ![q] = @ + 1]
     /\ UNCHANGED stream

\* The stream's TTL (300s after its last message) elapses: nothing publishes
\* on it any more and the API is held up by the client.
ExpireStream(q) ==
  /\ run[q] \in {"saving", "ended", "lost"} /\ stream[q] # <<>>
  /\ pc = "waitfb" \/ cur # q \/ pc \notin Streaming
  /\ stream' = [stream EXCEPT ![q] = <<>>]
  /\ UNCHANGED <<apiVars, activations, mailbox, serverVars>>

-----------------------------------------------------------------------------
(* The server: activation_listener and activate.                           *)

Stage(q, s) == run' = [run EXCEPT ![q] = s]
TaskFrame == UNCHANGED <<apiVars, activations, listener, crashes>>

TakeActivation ==
  /\ listener = 0 /\ activations # <<>>
  /\ listener' = Head(activations)
  /\ activations' = Tail(activations)
  /\ Stage(Head(activations), "activating")
  /\ UNCHANGED <<apiVars, stream, mailbox, agentVars, pingDue, drops, crashes>>

\* Configuration, state and memory are loaded and the answer task is created,
\* with its keep_alive task.
Activate ==
  /\ listener # 0 /\ run[listener] = "activating"
  /\ Stage(listener, "start") /\ listener' = 0
  /\ UNCHANGED <<apiVars, brokerVars, agentVars, pingDue, drops, crashes>>

\* The exception path of activate: ERROR, then AgentDone.
ActivationError ==
  /\ listener # 0 /\ run[listener] = "activating"
  /\ Publish(listener, Msg("final")) /\ Stage(listener, "actfailed")
  /\ UNCHANGED <<apiVars, activations, mailbox, listener, agentVars, pingDue, crashes>>

ActivationErrorDone ==
  /\ listener # 0 /\ run[listener] = "actfailed"
  /\ Publish(listener, Msg("done")) /\ Stage(listener, "ended") /\ listener' = 0
  /\ UNCHANGED <<apiVars, activations, mailbox, agentVars, pingDue, crashes>>

(* The answer task of question q.                                          *)

PublishStart(q) ==
  /\ run[q] = "start"
  /\ Publish(q, Msg("start")) /\ Stage(q, "work")
  /\ TaskFrame /\ UNCHANGED <<mailbox, agentVars, pingDue>>

(* Its agents run at once, started by asyncio.gather: what one of them     *)
(* publishes does not wait for the others.                                 *)

\* The agents of the question run; when one of them raises, gather leaves the
\* others running and nothing ends them.
Active(q) ==
  \/ run[q] = "work"
  \/ others[q] /\ run[q] \in {"closing", "final", "done", "saving", "ended"}

\* callback: an intermediate answer, or oauth: a request to authenticate,
\* whose callback is waited for like a reply, for a capped time.
AgentStep(q) ==
  /\ Active(q) /\ steps[q] < MaxSteps
  /\ steps' = [steps EXCEPT ![q] = @ + 1]
  /\ \E t \in StepKinds : Publish(q, Msg(t))
  /\ TaskFrame /\ UNCHANGED <<mailbox, run, asked, waiting, others, pingDue>>

\* SessionManager.feedback: publish the request, then receive_reply.
AgentAsks(q) ==
  /\ Active(q) /\ asked[q] < MaxFeedback
  /\ asked' = [asked EXCEPT ![q] = @ + 1]
  /\ waiting' = [waiting EXCEPT ![q] = @ \cup {asked[q] + 1}]
  /\ Publish(q, Request(asked[q] + 1))
  /\ TaskFrame /\ UNCHANGED <<mailbox, run, steps, others, pingDue>>

\* The reply is read and its stream deleted, or timeout_ms elapses.
ReplyReceived(q) ==
  /\ \E k \in waiting[q] :
       /\ mailbox[<<q, k>>] # NoReply
       /\ mailbox' = [mailbox EXCEPT ![<<q, k>>] = NoReply]
       /\ waiting' = [waiting EXCEPT ![q] = @ \ {k}]
  /\ TaskFrame /\ UNCHANGED <<stream, run, steps, asked, others, pingDue, drops>>

ReplyTimeout(q) ==
  /\ \E k \in waiting[q] : waiting' = [waiting EXCEPT ![q] = @ \ {k}]
  /\ TaskFrame /\ UNCHANGED <<stream, mailbox, run, steps, asked, others, pingDue, drops>>

\* The agents have returned, or question_timeout_seconds elapses and they are
\* cancelled wherever they wait.
AgentEnds(q) ==
  /\ run[q] = "work" /\ Stage(q, "closing")
  /\ waiting' = [waiting EXCEPT ![q] = {}]
  /\ TaskFrame /\ UNCHANGED <<stream, mailbox, steps, asked, others, pingDue, drops>>

\* One agent raises: gather passes the exception on and the others go on.
AgentFails(q) ==
  /\ run[q] = "work" /\ Stage(q, "closing")
  /\ others' = [others EXCEPT ![q] = TRUE]
  /\ TaskFrame /\ UNCHANGED <<stream, mailbox, steps, asked, waiting, pingDue, drops>>

\* finally: the manager is closed, then keep_alive is cancelled.
CloseManager(q) ==
  /\ run[q] = "closing" /\ Stage(q, "final")
  /\ pingDue' = [pingDue EXCEPT ![q] = FALSE]
  /\ TaskFrame /\ UNCHANGED <<stream, mailbox, agentVars, drops>>

PublishFinal(q) ==
  /\ run[q] = "final"
  /\ Publish(q, Msg("final")) /\ Stage(q, "done")
  /\ TaskFrame /\ UNCHANGED <<mailbox, agentVars, pingDue>>

PublishDone(q) ==
  /\ run[q] = "done"
  /\ Publish(q, Msg("done")) /\ Stage(q, "saving")
  /\ TaskFrame /\ UNCHANGED <<mailbox, agentVars, pingDue>>

SaveMemory(q) ==
  /\ run[q] = "saving" /\ Stage(q, "ended")
  /\ TaskFrame /\ UNCHANGED <<stream, mailbox, agentVars, pingDue, drops>>

\* keep_alive publishes the ping it has slept for.
Ping(q) ==
  /\ run[q] \in Alive /\ pingDue[q]
  /\ pingDue' = [pingDue EXCEPT ![q] = FALSE]
  /\ Publish(q, Msg("ping"))
  /\ TaskFrame /\ UNCHANGED <<mailbox, run, agentVars>>

\* The process stops (finalize cancels the tasks, or it dies) and starts
\* again: what it was doing is gone, activations are read without an
\* acknowledgement and are not delivered again.
Crash ==
  /\ crashes < MaxCrash
  /\ crashes' = crashes + 1
  /\ listener' = 0
  /\ run' = [q \in Questions |->
               IF run[q] \in {"none", "queued", "ended"} THEN run[q] ELSE "lost"]
  /\ pingDue' = [q \in Questions |-> FALSE]
  /\ waiting' = [q \in Questions |-> {}]
  /\ UNCHANGED <<apiVars, brokerVars, steps, asked, others, drops>>

\* Half of keepalive_seconds goes by.  A publication, and the read of a stream
\* that has messages, take less than that.
Tick ==
  /\ idle < 2 /\ (pc = "read" => stream[cur] = <<>>)
  /\ \A q \in Questions : ~pingDue[q] /\ run[q] \notin {"start", "final", "done"}
  /\ idle' = IF pc = "read" THEN idle + 1 ELSE idle
  /\ pingDue' = [q \in Questions |-> run[q] \in Alive]
  /\ UNCHANGED <<clientVars, receiverVars, pc, cur, batch, out, brokerVars,
                 listener, run, agentVars, drops, crashes>>

-----------------------------------------------------------------------------
Client == SendQuestion \/ (\E r \in Requests : SendFeedback(r)) \/ Disconnect

Handler ==
  \/ ValidateConnection \/ ReceiveQuestion \/ WakeWithQuestion \/ PublishActivation
  \/ ReadStream \/ AgentTimeout \/ ReadFails \/ HandleMessage
  \/ ReceiveFeedback \/ WakeWithFeedback

Listener == TakeActivation \/ Activate \/ ActivationError \/ ActivationErrorDone

AnswerTask(q) ==
  \/ PublishStart(q) \/ AgentStep(q) \/ AgentAsks(q) \/ ReplyReceived(q)
  \/ ReplyTimeout(q) \/ AgentEnds(q) \/ AgentFails(q) \/ CloseManager(q)
  \/ PublishFinal(q) \/ PublishDone(q) \/ SaveMemory(q)

Next ==
  \/ Client \/ PutShutdown \/ Handler \/ Listener
  \/ \E q \in Questions : AnswerTask(q) \/ Ping(q) \/ ExpireStream(q)
  \/ Crash \/ Tick

Spec == Init /\ [][Next]_vars

\* The tasks of both processes run when they can and time passes; the client
\* owes nothing, the server does not have to stop.  question_timeout_seconds
\* ends the agent of every question.
Fairness ==
  /\ WF_vars(PutShutdown) /\ WF_vars(Handler) /\ WF_vars(Listener) /\ WF_vars(Tick)
  /\ \A q \in Questions :
       /\ WF_vars(AnswerTask(q)) /\ WF_vars(Ping(q)) /\ WF_vars(AgentEnds(q))

FairSpec == Spec /\ Fairness

-----------------------------------------------------------------------------
TypeOK ==
  /\ endpoint \in Endpoints
  /\ connected \in BOOLEAN /\ replied \in SUBSET Requests
  /\ rcv \in {"reading", "closing", "stopped"}
  /\ expecting \in {"nothing", "question", "feedback"}
  /\ queue \in Seq(Item) /\ accepted \in 0..MaxQuestions
  /\ pc \in Places /\ cur \in 0..MaxQuestions
  /\ batch \in Seq(Message) /\ idle \in 0..2
  /\ out \in [Questions -> Seq(Output)]
  /\ activations \in Seq(Questions)
  /\ stream \in [Questions -> Seq(Message)]
  /\ mailbox \in [Requests -> Requests \cup {NoReply}]
  /\ listener \in 0..MaxQuestions
  /\ run \in [Questions -> Stages]
  /\ steps \in [Questions -> 0..MaxSteps]
  /\ asked \in [Questions -> 0..MaxFeedback]
  /\ waiting \in [Questions -> SUBSET (1..MaxFeedback)]
  /\ others \in [Questions -> BOOLEAN]
  /\ pingDue \in [Questions -> BOOLEAN]
  /\ drops \in [Questions -> 0..MaxDrop]
  /\ crashes \in 0..MaxCrash
  \* the handler has a question while it streams, messages to handle exactly
  \* where it handles one, and an XREAD pending only in "read"
  /\ pc # "read" => idle = 0
  /\ pc \in Streaming => cur # 0
  /\ batch # <<>> <=> pc \in {"batch", "requested", "waitfb"}
  /\ pc \in {"requested", "waitfb"} => Head(batch).type = "request"

-----------------------------------------------------------------------------
(* Safety.                                                                 *)

\* The API tells the client that the agent has stopped responding only if it
\* has: while the agent works, waits or hands in its answer, a ping or an
\* answer reaches the pending XREAD in time, unless a publication was lost.
NoFalseTimeout ==
  CanTimeOut => run[cur] \notin Answering \/ drops[cur] > 0

\* The handler and the receiver task never wait for each other: when the
\* handler is blocked on the queue the receiver accepts what it waits for.
ReceiverReady ==
  (queue = <<>> /\ rcv = "reading") =>
     /\ pc = "waitq" => expecting = "question"
     /\ pc = "waitfb" => expecting = "feedback"

\* An answer of the client reaches the request it was given for: the handler,
\* which ignores request_id, sends it to the feedback_id it has read last,
\* however many requests have timed out on the server in the meantime.
ReplyMatchesRequest == \A r \in Requests : mailbox[r] \in {NoReply, r}

\* The client is told DONE only after the final answer or error, whatever was
\* trimmed from the stream, expired or crashed, if no publication was lost and
\* no agent was left running (whose messages may push the final one out of the
\* stream while the API waits for the user).
DoneAfterFinal ==
  \A q \in Questions : drops[q] = 0 /\ ~others[q] =>
     \A i \in DOMAIN out[q] : out[q][i] = Msg("done") =>
        i > 1 /\ out[q][i - 1] = Msg("final")

\* Once AgentDone is published nothing more is, but by agents that were left
\* running: no ping, step or error of the answer task.
DoneIsLast ==
  [][\A q \in Questions : run[q] \in {"saving", "ended"} /\ ~others[q] =>
        Len(stream'[q]) <= Len(stream[q])]_vars

\* A question sent while the previous one is being answered is rejected.
QuestionsWaitTheirTurn == [][accepted' > accepted => pc \notin Streaming]_vars

\* What the client receives is an answer stream.
Client_AnswerStream == INSTANCE AnswerStream WITH
  Questions <- Questions, MaxFeedback <- MaxFeedback, out <- out
ImplementsAnswerStream == Client_AnswerStream!Spec

(* Liveness.                                                               *)

\* A question being answered ends for the client, whatever the server does,
\* or waits for an answer of the client.
StreamEnds ==
  \A q \in Questions :
     (cur = q /\ pc \in Streaming) ~> (cur # q \/ pc \notin Streaming \/ pc = "waitfb")

\* The server finishes with every question it is given, whether or not the
\* client answers its requests or is still there.
ServerFinishes ==
  \A q \in Questions : run[q] = "queued" ~> run[q] \in {"ended", "lost"}

\* The handler of a connection that was closed returns.
HandlerReturns == ~connected ~> pc = "closed"

\* A question is done with on either side, and its connection is given up:
\* neither the client nor the API nor the server waits forever for another.
AnswersEnd == StreamEnds /\ ServerFinishes /\ HandlerReturns
=============================================================================
