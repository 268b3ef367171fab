---------------------------- MODULE A2AExecutor ----------------------------
(***************************************************************************)
(* One A2A task: the instance that executes it, the instances its client's *)
(* feedback and cancellation reach, and what they share in Redis.          *)
(*                                                                         *)
(* The answer stream of the task is consumed in rounds.  Consumer 0 is     *)
(* execute() itself; when the agent asks for feedback k the consumer hands *)
(* over to the feedback waiter of request k, which becomes consumer k when *)
(* the reply arrives.  Consumer 0 reports to the client of the first       *)
(* message, consumer k > 0 to the relay topic of the feedback message      *)
(* whose reply it took.                                                    *)
(***************************************************************************)
EXTENDS Naturals, Sequences, FiniteSets

CONSTANTS
  Instances,   \* the A2A server processes
  MaxRounds,   \* bound: feedback requests of the agent
  MaxMessages, \* bound: feedback messages of the client
  MaxFailures  \* bound: times the owner stops or its listener fails

ASSUME A2ABounds ==
  /\ Instances # {} /\ "none" \notin Instances
  /\ MaxRounds \in Nat /\ MaxMessages \in Nat /\ MaxFailures \in Nat

VARIABLES
  \* the client
  asked,      \* requests for input the client has been shown
  told,       \* whether consumer 0 has reported to the client
  cancel,     \* the client's cancellation: the instance and where it is
  \* the owner process
  owner,      \* the instance that executes the task
  consumer,   \* where each consumer is
  takes,      \* feedback message whose reply a consumer has taken (0: none)
  pending,    \* _pending_tasks: the request waiting for feedback (0: none)
  waiter,     \* _pending_waiters: the registered waiter (0: none)
  active,     \* the task is in _active_receivers
  listening,  \* _cancel_waiters: the cancellation listener runs
  cancelled,  \* the task is in _cancelled_tasks
  failures,
  \* Redis
  record,     \* pending record: request waiting for feedback (0: none)
  ownerRec,   \* owner record
  replies,    \* feedback reply stream of the owner
  cancelMail, \* cancel reply stream of the owner
  relay,      \* unread messages of each feedback message's relay topic
  \* the instances that forward feedback
  forward     \* each feedback message: the request it answers, and its handler

clientVars == <<asked, told, cancel>>
ownerVars == <<owner, consumer, takes, pending, waiter, active, listening, cancelled, failures>>
redisVars == <<record, ownerRec, replies, cancelMail, relay>>
vars == <<clientVars, ownerVars, redisVars, forward>>

Rounds == 1..MaxRounds
Messages == 1..MaxMessages
Consumers == 0..MaxRounds

ConsumerStates == {"off", "waiting", "consuming", "saving", "asking", "finishing", "ended"}
ForwardStates == {"off", "checked", "claimed", "relaying", "ended"}
\* What a consumer reports: a request for input, the end, or an error.
Request(k) == [type |-> "request", k |-> k]
Done == [type |-> "done", k |-> 0]
Failed == [type |-> "failed", k |-> 0]
Report == {Request(k) : k \in Rounds} \cup {Done, Failed}

Init ==
  /\ asked = {} /\ told = FALSE
  /\ cancel = [by |-> "none", at |-> "off"]
  /\ owner \in Instances
  /\ consumer = [c \in Consumers |-> "off"]
  /\ takes = [c \in Consumers |-> 0]
  /\ pending = 0 /\ waiter = 0
  /\ active = FALSE /\ listening = FALSE /\ cancelled = FALSE
  /\ failures = 0
  /\ record = 0 /\ ownerRec = "none"
  /\ replies = <<>> /\ cancelMail = FALSE
  /\ relay = [m \in Messages |-> <<>>]
  /\ forward = [m \in Messages |-> [k |-> 0, at |-> "off"]]

-----------------------------------------------------------------------------
(* The owner.                                                              *)

Become(c, s) == consumer' = [consumer EXCEPT ![c] = s]

\* Mutation of Tell: a failure of the first round is only logged.
TellUnlessFailed(c, report) ==
  IF c = 0
  THEN /\ told' = (told \/ report # Failed)
       /\ asked' = IF report.type = "request" THEN asked \cup {report.k} ELSE asked
       /\ UNCHANGED <<cancel, relay>>
  ELSE /\ relay' = [relay EXCEPT ![takes[c]] = Append(@, report)]
       /\ UNCHANGED clientVars

\* Consumer 0 updates the task of the first message's client, the others
\* publish on a relay topic.
Tell(c, report) ==
  IF c = 0
  THEN /\ told' = TRUE
       /\ asked' = IF report.type = "request" THEN asked \cup {report.k} ELSE asked
       /\ UNCHANGED <<cancel, relay>>
  ELSE /\ relay' = [relay EXCEPT ![takes[c]] = Append(@, report)]
       /\ UNCHANGED clientVars

\* _finish_owned_task.
FinishOwnedTask ==
  /\ listening' = FALSE
  /\ ownerRec' = "none"
  /\ cancelled' = FALSE

\* execute(): validation fails and the task with it, or the owner is
\* recorded and the cancellation listener started.
Execute ==
  /\ consumer[0] = "off"
  /\ \/ /\ Become(0, "ended") /\ told' = TRUE
        /\ UNCHANGED <<active, listening, ownerRec>>
     \/ /\ Become(0, "consuming") /\ ownerRec' = owner
        /\ active' = TRUE /\ listening' = TRUE
        /\ UNCHANGED told
  /\ UNCHANGED <<asked, cancel, owner, takes, pending, waiter, cancelled, failures, record,
                 replies, cancelMail, relay, forward>>

\* Mutation of Leave: a waiter that ends stays registered.
LeaveReceiver(c) == active' = (c # 0 /\ active) /\ UNCHANGED waiter
\* `finally`: execute pops the receiver, a waiter pops itself.
Leave(c) ==
  /\ active' = IF c = 0 THEN FALSE ELSE active
  /\ waiter' = IF waiter = c THEN 0 ELSE waiter

\* The next message of the answer stream, or its end, finds the task
\* cancelled: nothing is reported.
StopCancelled(c) ==
  /\ consumer[c] = "consuming" /\ cancelled
  /\ Become(c, "ended") /\ FinishOwnedTask /\ Leave(c)
  /\ UNCHANGED <<clientVars, owner, takes, pending, failures, record, replies,
                 cancelMail, relay, forward>>

\* An ERROR, or a stream that ends without DONE, or an exception.
ConsumeError(c) ==
  /\ consumer[c] = "consuming" /\ ~cancelled
  /\ Become(c, "ended") /\ FinishOwnedTask /\ Leave(c)
  /\ pending' = 0
  /\ \/ Tell(c, Failed) /\ record' \in {0, record}
     \/ /\ c > 0 \* _wait_for_feedback: publishing has raised, the relay hears nothing
        /\ record' = 0 /\ UNCHANGED <<clientVars, relay>>
  /\ UNCHANGED <<owner, takes, failures, replies, cancelMail, forward>>

\* DONE: the records are removed before the client is told.
ConsumeDone(c) ==
  /\ consumer[c] = "consuming" /\ ~cancelled
  /\ Become(c, "finishing") /\ pending' = 0 /\ record' = 0
  /\ UNCHANGED <<clientVars, owner, takes, waiter, active, listening, cancelled, failures,
                 ownerRec, replies, cancelMail, relay, forward>>

ReportDone(c) ==
  /\ consumer[c] = "finishing"
  /\ Become(c, "ended") /\ FinishOwnedTask /\ Leave(c) /\ Tell(c, Done)
  /\ UNCHANGED <<owner, takes, pending, failures, record, replies, cancelMail, forward>>

NextRound(c) == c + 1

\* AGENT_REQUEST: the request is registered, ...
ConsumeRequest(c) ==
  /\ consumer[c] = "consuming" /\ ~cancelled /\ c < MaxRounds
  /\ Become(c, "saving") /\ pending' = NextRound(c)
  /\ UNCHANGED <<clientVars, owner, takes, waiter, active, listening, cancelled, failures,
                 redisVars, forward>>

\* Mutation of SaveRequest: no waiter is started.
SaveRequestOnly(c) ==
  /\ consumer[c] = "saving" /\ Become(c, "asking")
  /\ record' = NextRound(c)
  /\ ownerRec' = IF c = 0 THEN ownerRec ELSE owner
  /\ UNCHANGED <<clientVars, owner, takes, pending, waiter, active, listening, cancelled,
                 failures, replies, cancelMail, relay, forward>>

\* ... saved for the instances that forward feedback, its waiter is started ...
SaveRequest(c) ==
  /\ consumer[c] = "saving"
  /\ record' = NextRound(c)
  /\ ownerRec' = IF c = 0 THEN ownerRec ELSE owner
  /\ consumer' = [consumer EXCEPT ![c] = "asking", ![NextRound(c)] = "waiting"]
  /\ waiter' = NextRound(c)
  /\ UNCHANGED <<clientVars, owner, takes, pending, active, listening, cancelled, failures,
                 replies, cancelMail, relay, forward>>

\* Mutation of Ask: the consumer reads on after the request.
AskAndReadOn(c) ==
  /\ consumer[c] = "asking" /\ Become(c, "consuming")
  /\ Tell(c, Request(NextRound(c)))
  /\ UNCHANGED <<owner, takes, pending, waiter, active, listening, cancelled, failures, record,
                 ownerRec, replies, cancelMail, forward>>

\* ... and the client is asked.
Ask(c) ==
  /\ consumer[c] = "asking" /\ Become(c, "ended")
  /\ Tell(c, Request(NextRound(c))) /\ Leave(c)
  /\ UNCHANGED <<owner, takes, pending, listening, cancelled, failures, record,
                 ownerRec, replies, cancelMail, forward>>

\* The waiter of request k reads a reply, and deletes the stream it was in.
TakeReply(k) ==
  /\ consumer[k] = "waiting" /\ replies # <<>>
  /\ replies' = <<>>
  /\ IF pending = 0
     THEN Become(k, "ended") /\ Leave(k) /\ UNCHANGED takes
     ELSE /\ Become(k, "consuming") /\ takes' = [takes EXCEPT ![k] = Head(replies)]
          /\ UNCHANGED <<active, waiter>>
  /\ UNCHANGED <<clientVars, owner, pending, listening, cancelled, failures, record,
                 ownerRec, cancelMail, relay, forward>>

\* No reply within a2a_task_ttl_seconds, which is longer than it takes to ask
\* for it.
WaiterTimeout(k) ==
  /\ consumer[k] = "waiting" /\ \A c \in Consumers : consumer[c] # "asking"
  /\ Become(k, "ended") /\ Leave(k)
  /\ pending' = 0 /\ record' = 0 /\ FinishOwnedTask
  /\ UNCHANGED <<clientVars, owner, takes, failures, replies, cancelMail, relay, forward>>

-----------------------------------------------------------------------------
(* Cancellation.                                                           *)

\* _cancel_feedback_waiter.
StopWaiter ==
  /\ waiter' = 0
  /\ consumer' = IF waiter = 0 THEN consumer ELSE [consumer EXCEPT ![waiter] = "ended"]

\* _cancel_local_task where the task is executed; elsewhere it only finds the
\* records.
CancelLocalTask(i) ==
  /\ record' = 0 /\ ownerRec' = "none"
  /\ IF i = owner
     THEN /\ pending' = 0 /\ active' = FALSE /\ listening' = FALSE
          /\ cancelled' = active \* discarded at once when no receiver was active
          /\ StopWaiter
     ELSE UNCHANGED <<pending, active, listening, cancelled, waiter, consumer>>
  /\ UNCHANGED <<owner, takes, failures, replies, relay, forward>>

\* cancel() at instance i reads the owner's record, ...
ReadOwner(i) ==
  /\ cancel.at = "off"
  /\ cancel' = [by |-> i, at |-> IF ownerRec \in {"none", i} THEN "local" ELSE "remote"]
  /\ UNCHANGED <<asked, told, ownerVars, redisVars, forward>>

\* ... and cancels what it has of the task, or sends the cancellation on.
Cancel ==
  /\ \/ cancel.at = "local" /\ CancelLocalTask(cancel.by) /\ UNCHANGED cancelMail
     \/ /\ cancel.at = "remote" /\ cancelMail' = TRUE
        /\ UNCHANGED <<ownerVars, record, ownerRec, replies, relay, forward>>
  /\ cancel' = [cancel EXCEPT !.at = "told"]
  /\ UNCHANGED <<asked, told>>

\* Mutation of ListenerRuns: the listener only looks at streaming tasks.
ListenerOfActive == active
\* The listener goes on while the task is streaming or waiting for feedback.
ListenerRuns == active \/ pending # 0

\* The listener receives the cancellation.
TakeCancel ==
  /\ listening /\ cancelMail /\ ListenerRuns
  /\ cancelMail' = FALSE
  /\ CancelLocalTask(owner)
  /\ UNCHANGED clientVars

\* The listener finds the task gone, or Redis fails under it.
ListenerEnds ==
  /\ listening /\ listening' = FALSE
  /\ \/ ~ListenerRuns /\ UNCHANGED failures
     \/ failures < MaxFailures /\ failures' = failures + 1
  /\ UNCHANGED <<clientVars, owner, consumer, takes, pending, waiter, active, cancelled,
                 redisVars, forward>>

-----------------------------------------------------------------------------
(* Feedback messages, at any instance.                                     *)

At(m, s) == forward' = [forward EXCEPT ![m].at = s]
ForwardFrame == UNCHANGED <<ownerVars, ownerRec, cancelMail>>

\* The client answers a request it has been shown, possibly again.
Feedback(m) ==
  /\ forward[m].at = "off" /\ (m > 1 => forward[m - 1].at # "off")
  /\ \E k \in asked :
       \/ /\ record = k
          /\ forward' = [forward EXCEPT ![m] = [k |-> k, at |-> "checked"]]
       \/ /\ record # k \* expired, or another request is pending
          /\ forward' = [forward EXCEPT ![m] = [k |-> k, at |-> "ended"]]
         
  /\ UNCHANGED <<clientVars, record, replies, relay>> /\ ForwardFrame

\* Mutation of ClaimedRecord: the record is left for another message.
KeptRecord(m) == record
\* The script that claims the record deletes it.
ClaimedRecord(m) == 0

\* claim_pending: one message gets the record.
Claim(m) ==
  /\ forward[m].at = "checked"
  /\ \/ /\ record = forward[m].k /\ record' = ClaimedRecord(m)
        /\ At(m, "claimed")
     \/ /\ record # forward[m].k /\ At(m, "ended")
        /\ UNCHANGED record
  /\ UNCHANGED <<clientVars, replies, relay>> /\ ForwardFrame

\* The reply is sent to the owner with the topic to answer on, or cannot be.
ForwardReply(m) ==
  /\ forward[m].at = "claimed"
  /\ \/ /\ replies' = Append(replies, m) /\ At(m, "relaying")
        /\ UNCHANGED record
     \/ /\ record' = 0 /\ At(m, "ended")
        /\ UNCHANGED replies
  /\ UNCHANGED <<clientVars, relay>> /\ ForwardFrame

\* The relay's first report ends the message.
ReadRelay(m) ==
  /\ forward[m].at = "relaying" /\ relay[m] # <<>>
  /\ At(m, "ended")
  /\ asked' = IF Head(relay[m]).type = "request" THEN asked \cup {Head(relay[m]).k} ELSE asked
  /\ relay' = [relay EXCEPT ![m] = Tail(@)]
  /\ UNCHANGED <<told, cancel, record, replies>> /\ ForwardFrame

\* Mutation of RelayTimeout: _subscribe_relay retries for ever.
RelayNeverTimesOut(m) == FALSE /\ UNCHANGED vars
\* Nothing for a2a_task_ttl_seconds: "interrupted by a server restart".
RelayTimeout(m) ==
  /\ forward[m].at = "relaying" /\ relay[m] = <<>>
  /\ At(m, "ended")
  /\ UNCHANGED <<clientVars, record, replies, relay>> /\ ForwardFrame

-----------------------------------------------------------------------------
(* Failures.                                                               *)

\* The owner stops: what it had in memory is gone, Redis keeps the rest.
Crash ==
  /\ failures < MaxFailures /\ failures' = failures + 1
  /\ consumer' = [c \in Consumers |-> IF consumer[c] = "off" /\ c > 0 THEN "off" ELSE "ended"]
  /\ pending' = 0 /\ waiter' = 0
  /\ active' = FALSE /\ listening' = FALSE /\ cancelled' = FALSE
  /\ UNCHANGED <<clientVars, owner, takes, redisVars, forward>>

\* Records live for a2a_task_ttl_seconds; the owner's is refreshed by the
\* listener, the pending one dies with the waiter's timeout.
ExpireRecord ==
  /\ record # 0 /\ record' = 0
  /\ UNCHANGED <<clientVars, ownerVars, ownerRec, replies, cancelMail, relay, forward>>

ExpireOwner ==
  /\ ~listening /\ ownerRec # "none" /\ ownerRec' = "none"
  /\ UNCHANGED <<clientVars, ownerVars, record, replies, cancelMail, relay, forward>>

-----------------------------------------------------------------------------
Consume(c) ==
  \/ StopCancelled(c) \/ ConsumeError(c) \/ ConsumeDone(c) \/ ReportDone(c)
  \/ ConsumeRequest(c) \/ SaveRequest(c) \/ Ask(c)

Wait(k) == TakeReply(k) \/ WaiterTimeout(k)

HandleFeedback(m) == Claim(m) \/ ForwardReply(m) \/ ReadRelay(m) \/ RelayTimeout(m)

Next ==
  \/ Execute
  \/ \E c \in Consumers : Consume(c)
  \/ \E k \in Rounds : Wait(k)
  \/ (\E i \in Instances : ReadOwner(i)) \/ Cancel
  \/ TakeCancel \/ ListenerEnds
  \/ \E m \in Messages : Feedback(m) \/ HandleFeedback(m)
  \/ Crash \/ ExpireRecord \/ ExpireOwner

Spec == Init /\ [][Next]_vars

\* Every coroutine runs when it can, agents answer or fail, waits time out;
\* the client owes nothing.
Fairness ==
  /\ \A c \in Consumers : WF_vars(Consume(c))
  /\ \A k \in Rounds : WF_vars(Wait(k))
  /\ \A m \in Messages : WF_vars(HandleFeedback(m))
  /\ WF_vars(Cancel) /\ WF_vars(TakeCancel)

FairSpec == Spec /\ Fairness

-----------------------------------------------------------------------------
TypeOK ==
  /\ asked \subseteq Rounds /\ told \in BOOLEAN
  /\ cancel \in [by : Instances \cup {"none"}, at : {"off", "local", "remote", "told"}]
  /\ owner \in Instances
  /\ consumer \in [Consumers -> ConsumerStates]
  /\ takes \in [Consumers -> 0..MaxMessages]
  /\ pending \in 0..MaxRounds /\ waiter \in 0..MaxRounds
  /\ active \in BOOLEAN /\ listening \in BOOLEAN /\ cancelled \in BOOLEAN
  /\ failures \in 0..MaxFailures
  /\ record \in 0..MaxRounds /\ ownerRec \in Instances \cup {"none"}
  /\ replies \in Seq(Messages) /\ cancelMail \in BOOLEAN
  /\ relay \in [Messages -> Seq(Report)]
  /\ forward \in [Messages -> [k : 0..MaxRounds, at : ForwardStates]]
  \* a waiter is registered for a request it has not handed over, and consumer
  \* k > 0 has a reply to report on
  /\ waiter # 0 => consumer[waiter] \notin {"off", "ended"}
  /\ \A k \in Rounds :
       consumer[k] \in {"consuming", "saving", "asking", "finishing"} => takes[k] # 0

-----------------------------------------------------------------------------
(* Safety.                                                                 *)

\* The reply the agent gets for a request was given for that request, however
\* often the client answers it and whichever instances forward the answers.
RepliesReachTheirRequest ==
  \A k \in Rounds : takes[k] # 0 => forward[takes[k]].k = k

\* The answer stream, an asynchronous generator, has one consumer at a time.
OneConsumer ==
  Cardinality({c \in Consumers : consumer[c] \in {"consuming", "saving", "finishing"}}) <= 1

\* A record that a feedback message can claim has a waiter behind it that
\* will take the reply, as long as nothing fails or cancels the task.
RecordHasWaiter ==
  (record # 0 /\ failures = 0 /\ cancel.at = "off") =>
     consumer[record] = "waiting" /\ pending = record

\* While the task runs or waits for feedback, a cancellation at any instance
\* finds its owner.
TaskCanBeCancelled ==
  (failures = 0 /\ cancel.at = "off" /\ (active \/ pending # 0)) =>
     listening /\ ownerRec = owner

\* A task in progress is served by one coroutine, which a cancellation stops; a
\* request for feedback that can be claimed is waited for, and gets the reply
\* that was made to it (a2a/executor.py, a2a/task_store.py).
TaskIsServed == RepliesReachTheirRequest /\ OneConsumer /\ RecordHasWaiter /\ TaskCanBeCancelled

\* A task that another instance has cancelled does not ask the client any more.
QuietOnceCancelled ==
  [][cancelled /\ cancel.by # owner => asked' = asked]_vars

-----------------------------------------------------------------------------
(* Liveness.                                                               *)

\* A feedback message that was accepted gets an outcome, even if the owner
\* stops or the task is cancelled under it.
FeedbackSettles ==
  \A m \in Messages : forward[m].at = "checked" ~> forward[m].at = "ended"

\* The client of a task that has begun hears of its first round, unless it has
\* cancelled the task or the owner has stopped.
FirstRoundSettles ==
  consumer[0] = "consuming" ~> (told \/ cancel.at # "off" \/ failures > 0)
=============================================================================
