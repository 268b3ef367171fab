------------------------------ MODULE CodeMode ------------------------------
(***************************************************************************)
(* Code Mode executions: the tool and the SandboxRunner of the agent's     *)
(* process, the sandbox server that admits their connections, one worker   *)
(* process per admitted run, and the capability calls the worker sends     *)
(* back over the connection.                                               *)
(***************************************************************************)
EXTENDS Naturals, Sequences, FiniteSets

CONSTANTS
  Executions,  \* calls of the tool
  MaxActive,   \* CodeModeExecutionLimiter: max_concurrent_executions
  MaxConcurrentSessions, \* sandbox_max_concurrent_sessions, of the client's process and the server
  MaxNested,   \* CodeModeLimits: max_nested_calls
  MaxCalls,    \* bound: calls a worker makes
  MaxCancels   \* bound: interruptions and timeouts per execution

VARIABLES
  \* the agent's process
  tool,     \* where each call of the tool is
  verdict,  \* what its run ended with
  callback, \* the task that runs the capability the worker has asked for
  invocation, \* _InvocationState, _OutputState and nested_calls
  active,   \* places of the limiter that are taken
  tickets,  \* _remote_admission_counter
  cancels,
  \* the connection
  open,     \* the client's end
  up,       \* the message from the client the server has not read
  down,     \* the messages from the server the client has not read
  \* the sandbox server
  handler,  \* where the handler of each connection is
  sessions, \* active_sessions
  worker,   \* the worker process
  calls     \* calls it has made

toolVars == <<tool, verdict, callback, invocation, active, tickets, cancels>>
wireVars == <<open, up, down>>
serverVars == <<handler, sessions, worker, calls>>
codeVars == <<toolVars, wireVars, serverVars>>

Kinds == {"output", "capability"}
\* Fail-fast admission.
PlaceFree == active < MaxActive
\* A callback that holds its call's place: run_when_callbacks_complete.
Live(e) == callback[e] \in {"running", "cancelling", "orphan"}
Admitted(e) == tool[e] \notin {"idle", "refused", "settled"}
\* Between _acquire_remote_session and _release_remote_session.
HasTicket(e) == tool[e] \in {"connecting", "reading", "calling", "cbcancel", "closing"}
\* The process runs the script or waits for the answer of a call.
Alive(e) == worker[e] \in {"computing", "pending", "asking"}

CodeModeTypeOK ==
  /\ tool \in [Executions -> {"idle", "refused", "waiting", "connecting", "reading", "calling",
                              "cbcancel", "closing", "draining", "settled"}]
  /\ verdict \in [Executions -> {"none", "finished", "failed", "result"}]
  /\ callback \in [Executions -> {"none", "running", "cancelling", "orphan", "ended"}]
  /\ invocation \in [Executions -> [attempts : Nat, called : BOOLEAN, violated : BOOLEAN,
                                    nested : 0..MaxNested]]
  /\ active \in Nat /\ tickets \in Nat /\ sessions \in Nat
  /\ cancels \in [Executions -> 0..MaxCancels]
  /\ open \in [Executions -> BOOLEAN]
  /\ up \in [Executions -> {"none", "run", "response"}]
  /\ down \in [Executions -> Seq(Kinds \cup {"done", "error"})]
  /\ handler \in [Executions -> {"none", "handshake", "admission", "running", "stopping", "closed"}]
  /\ worker \in [Executions -> {"none", "computing", "pending", "asking", "dead"}]
  /\ calls \in [Executions -> 0..MaxCalls]

CodeInit ==
  /\ tool = [e \in Executions |-> "idle"]
  /\ verdict = [e \in Executions |-> "none"]
  /\ callback = [e \in Executions |-> "none"]
  /\ invocation = [e \in Executions |->
                     [attempts |-> 0, called |-> FALSE, violated |-> FALSE, nested |-> 0]]
  /\ active = 0 /\ tickets = 0
  /\ cancels = [e \in Executions |-> 0]
  /\ open = [e \in Executions |-> FALSE]
  /\ up = [e \in Executions |-> "none"]
  /\ down = [e \in Executions |-> <<>>]
  /\ handler = [e \in Executions |-> "none"]
  /\ sessions = 0
  /\ worker = [e \in Executions |-> "none"]
  /\ calls = [e \in Executions |-> 0]

-----------------------------------------------------------------------------
(* The tool and its SandboxRunner.                                         *)

To(e, s) == tool' = [tool EXCEPT ![e] = s]

\* The limiter refuses at once; the ticket of the connection is waited for.
Acquire(e) ==
  /\ tool[e] = "idle"
  /\ IF PlaceFree THEN To(e, "waiting") /\ active' = active + 1
                           ELSE To(e, "refused") /\ UNCHANGED active
  /\ UNCHANGED <<verdict, callback, invocation, tickets, cancels, wireVars, serverVars>>

AcquireRemoteSession(e) ==
  /\ tool[e] = "waiting" /\ tickets < MaxConcurrentSessions
  /\ To(e, "connecting") /\ tickets' = tickets + 1
  /\ UNCHANGED <<verdict, callback, invocation, active, cancels, wireVars, serverVars>>

\* open_unix_connection and the Run message; either can fail.
Connect(e) ==
  /\ tool[e] = "connecting"
  /\ \/ /\ To(e, "reading")
        /\ open' = [open EXCEPT ![e] = TRUE] /\ up' = [up EXCEPT ![e] = "run"]
        /\ UNCHANGED verdict
     \/ /\ To(e, "closing") /\ verdict' = [verdict EXCEPT ![e] = "failed"]
        /\ UNCHANGED <<open, up>>
  /\ UNCHANGED <<callback, invocation, active, tickets, cancels, down, serverVars>>

\* _run_remotely reads a message, or the end of the stream.
ReadMessage(e) ==
  /\ tool[e] = "reading"
  /\ \/ /\ down[e] # <<>> /\ Head(down[e]) \in Kinds
        /\ To(e, "calling") /\ callback' = [callback EXCEPT ![e] = "running"]
        /\ UNCHANGED <<verdict, down>>
     \/ /\ down[e] # <<>> /\ Head(down[e]) \notin Kinds
        /\ To(e, "closing") /\ down' = [down EXCEPT ![e] = Tail(@)]
        /\ verdict' = [verdict EXCEPT ![e] = IF Head(down[e]) = "done" THEN "finished" ELSE "failed"]
        /\ UNCHANGED callback
     \/ /\ down[e] = <<>> /\ handler[e] = "closed"
        /\ To(e, "closing") /\ verdict' = [verdict EXCEPT ![e] = "failed"]
        /\ UNCHANGED <<callback, down>>
  /\ UNCHANGED <<invocation, active, tickets, cancels, open, up, serverVars>>

\* Mutation of Record: a second output replaces the first.
RecordAgain(i, valid) ==
  [i EXCEPT !.attempts = @ + 1, !.called = @ \/ valid, !.violated = @ \/ ~valid]
\* _OutputState.record: a second attempt or a bad value is latched.
Record(i, valid) ==
  LET attempts == i.attempts + 1
      fine == ~i.violated /\ attempts = 1 /\ valid
  IN  [i EXCEPT !.attempts = attempts, !.called = @ \/ fine, !.violated = ~fine]

\* dispatch: unknown names, exhausted limits, results that are too large and
\* events that cannot be published are latched; the capability's own failure
\* is only reported to the worker.
Dispatch(i, kind, latches) ==
  IF kind = "output" THEN Record(i, ~latches)
  ELSE IF i.violated \/ i.nested = MaxNested THEN [i EXCEPT !.violated = TRUE]
  ELSE [i EXCEPT !.nested = @ + 1, !.violated = latches]

\* The callback ends.  The runner writes its response if it still waits for
\* it; a call that is over gives its place back, if it was held.
CallbackEnds(e) ==
  /\ Live(e)
  /\ callback' = [callback EXCEPT ![e] = "ended"]
  /\ \E latches \in BOOLEAN :
       invocation' = [invocation EXCEPT ![e] = Dispatch(@, Head(down[e]), latches)]
  /\ down' = [down EXCEPT ![e] = Tail(@)]
  /\ IF tool[e] = "calling"
     THEN To(e, "reading") /\ up' = [up EXCEPT ![e] = "response"]
     ELSE UNCHANGED <<tool, up>>
  /\ active' = IF tool[e] = "settled" THEN active - 1 ELSE active
  /\ UNCHANGED <<verdict, tickets, cancels, open, serverVars>>

\* Another message, or the end of the stream, during the callback.
CallbackInterrupted(e) ==
  /\ tool[e] = "calling" /\ callback[e] = "running"
  /\ Len(down[e]) > 1 \/ handler[e] = "closed"
  /\ To(e, "cbcancel") /\ verdict' = [verdict EXCEPT ![e] = "failed"]
  /\ callback' = [callback EXCEPT ![e] = "cancelling"]
  /\ UNCHANGED <<invocation, active, tickets, cancels, wireVars, serverVars>>

\* The task of the tool is cancelled, by an interruption or by the runner's
\* own timeout: at every await, its clean-up included.
CancelTool(e) ==
  /\ tool[e] \in {"waiting", "connecting", "reading", "calling", "cbcancel", "closing", "draining"}
  /\ cancels[e] < MaxCancels
  /\ cancels' = [cancels EXCEPT ![e] = @ + 1]
  /\ verdict' = [verdict EXCEPT ![e] = "failed"]
  /\ To(e, CASE tool[e] = "waiting" -> "draining"
             [] tool[e] = "calling" -> "cbcancel"
             [] tool[e] \in {"connecting", "reading", "cbcancel"} -> "closing"
             [] OTHER -> tool[e])
  /\ callback' = IF tool[e] = "calling" THEN [callback EXCEPT ![e] = "cancelling"] ELSE callback
  /\ UNCHANGED <<invocation, active, tickets, wireVars, serverVars>>

\* The wait for a cancelled callback ends with it, or after a second: the
\* callback is then an orphan.  _run_remote_callback and _cancel_callbacks.
AwaitCancelled(e) ==
  callback' = [callback EXCEPT ![e] = IF Live(e) THEN "orphan" ELSE @]
CallbackCancelled(e) ==
  /\ tool[e] = "cbcancel"
  /\ AwaitCancelled(e) /\ To(e, "closing")
  /\ UNCHANGED <<verdict, invocation, active, tickets, cancels, wireVars, serverVars>>

\* Mutation of Close: the ticket is kept when the run has failed.
CloseKeepTicket(e) ==
  /\ tool[e] = "closing" /\ To(e, "draining")
  /\ open' = [open EXCEPT ![e] = FALSE]
  /\ tickets' = IF verdict[e] = "failed" THEN tickets ELSE tickets - 1
  /\ UNCHANGED <<verdict, callback, invocation, active, cancels, up, down, serverVars>>
\* The connection is closed and the ticket released.
Close(e) ==
  /\ tool[e] = "closing" /\ To(e, "draining")
  /\ open' = [open EXCEPT ![e] = FALSE]
  /\ tickets' = tickets - 1
  /\ UNCHANGED <<verdict, callback, invocation, active, cancels, up, down, serverVars>>

\* Mutation of Settle: orphans do not hold the place.
SettleUnlessTracked(e) ==
  /\ tool[e] = "draining" /\ To(e, "settled")
  /\ AwaitCancelled(e)
  /\ active' = IF callback[e] \in {"running", "cancelling"} THEN active ELSE active - 1
  /\ UNCHANGED <<verdict, invocation, tickets, cancels, wireVars, serverVars>>
\* run() waits for what is left of the callbacks; the tool releases its place,
\* or leaves that to a callback that is still alive, and judges the result.
Settle(e) ==
  /\ tool[e] = "draining" /\ To(e, "settled")
  /\ AwaitCancelled(e)
  /\ active' = IF Live(e) THEN active ELSE active - 1
  /\ verdict' = [verdict EXCEPT ![e] =
       IF @ = "finished" /\ ~invocation[e].violated /\ invocation[e].called THEN "result" ELSE "failed"]
  /\ UNCHANGED <<invocation, tickets, cancels, wireVars, serverVars>>

-----------------------------------------------------------------------------
(* The sandbox server.                                                     *)

Handle(e, s) == handler' = [handler EXCEPT ![e] = s]
Reply(e, m) == down' = [down EXCEPT ![e] = IF open[e] THEN Append(@, m) ELSE @]
Handshakes == {e \in Executions : handler[e] = "handshake"}

Accept(e) ==
  /\ open[e] /\ handler[e] = "none"
  /\ Handle(e, IF Cardinality(Handshakes) < MaxConcurrentSessions THEN "handshake" ELSE "closed")
  /\ UNCHANGED <<toolVars, wireVars, sessions, worker, calls>>

\* One second for the Run message and its token.
Handshake(e) ==
  /\ handler[e] = "handshake"
  /\ \E s \in {"admission", "closed"} : Handle(e, s)
  /\ up' = [up EXCEPT ![e] = "none"]
  /\ UNCHANGED <<toolVars, open, down, sessions, worker, calls>>

\* Under admission_lock; a worker that does not start fails the session.
Admit(e) ==
  /\ handler[e] = "admission"
  /\ \/ /\ sessions < MaxConcurrentSessions /\ sessions' = sessions + 1
        /\ Handle(e, "running") /\ worker' = [worker EXCEPT ![e] = "computing"]
        /\ UNCHANGED down
     \/ /\ sessions < MaxConcurrentSessions /\ sessions' = sessions + 1
        /\ Handle(e, "stopping") /\ Reply(e, "error") /\ UNCHANGED worker
     \/ /\ sessions >= MaxConcurrentSessions
        /\ Handle(e, "closed") /\ Reply(e, "error") /\ UNCHANGED <<sessions, worker>>
  /\ UNCHANGED <<toolVars, open, up, calls>>

\* The worker calls a function: its thread registers the intent ...
WorkerCalls(e) ==
  /\ worker[e] = "computing" /\ calls[e] < MaxCalls
  /\ worker' = [worker EXCEPT ![e] = "pending"]
  /\ calls' = [calls EXCEPT ![e] = @ + 1]
  /\ UNCHANGED <<toolVars, wireVars, handler, sessions>>

\* ... and the loop starts the callback: the wait timer stops, the request is
\* sent to the client.
ScheduleCallback(e) ==
  /\ worker[e] = "pending" /\ handler[e] = "running"
  /\ worker' = [worker EXCEPT ![e] = "asking"]
  /\ \E k \in Kinds : Reply(e, k)
  /\ UNCHANGED <<toolVars, open, up, handler, sessions, calls>>

\* The response goes to the worker; a disconnected client kills it.
ReadResponse(e) ==
  /\ worker[e] = "asking" /\ handler[e] = "running"
  /\ \/ /\ up[e] = "response"
        /\ worker' = [worker EXCEPT ![e] = "computing"]
        /\ up' = [up EXCEPT ![e] = "none"]
        /\ UNCHANGED handler
     \/ /\ up[e] # "response" /\ ~open[e]
        /\ worker' = [worker EXCEPT ![e] = "dead"] /\ Handle(e, "stopping")
        /\ UNCHANGED up
  /\ UNCHANGED <<toolVars, open, down, sessions, calls>>

\* The script ends: the process is joined before Done is written.
WorkerFinishes(e) ==
  /\ worker[e] = "computing" /\ handler[e] = "running"
  /\ worker' = [worker EXCEPT ![e] = "dead"]
  /\ Reply(e, "done") /\ Handle(e, "stopping")
  /\ UNCHANGED <<toolVars, open, up, sessions, calls>>

\* Mutation of Fail: the error is sent and the worker left to the clean-up.
FailFirst(e) ==
  /\ handler[e] = "running"
  /\ Reply(e, "error") /\ Handle(e, "stopping")
  /\ UNCHANGED <<toolVars, open, up, sessions, worker, calls>>
\* The script raises, or the worker is lost, or the wait timer (while the
\* worker computes) or the run's own timeout fires: _fail kills the worker
\* and then sends the error.
Fail(e) ==
  /\ handler[e] = "running"
  /\ worker' = [worker EXCEPT ![e] = "dead"]
  /\ Reply(e, "error") /\ Handle(e, "stopping")
  /\ UNCHANGED <<toolVars, open, up, sessions, calls>>

\* Mutation of StopSession: a session whose worker never started keeps its slot.
StopStarted(e) ==
  /\ handler[e] = "stopping" /\ Handle(e, "closed")
  /\ sessions' = IF worker[e] = "none" THEN sessions ELSE sessions - 1
  /\ worker' = [worker EXCEPT ![e] = IF Alive(e) THEN "dead" ELSE @]
  /\ UNCHANGED <<toolVars, wireVars, calls>>
StopSession(e) ==
  /\ handler[e] = "stopping" /\ Handle(e, "closed")
  /\ sessions' = sessions - 1
  /\ worker' = [worker EXCEPT ![e] = IF Alive(e) THEN "dead" ELSE @]
  /\ UNCHANGED <<toolVars, wireVars, calls>>

-----------------------------------------------------------------------------

\* Steps the program takes on its own; the capabilities' code and the client
\* of the tool are its environment.
RunnerStep(e) ==
  \/ AcquireRemoteSession(e) \/ Connect(e) \/ ReadMessage(e) \/ CallbackInterrupted(e)
  \/ CallbackCancelled(e) \/ Close(e) \/ Settle(e)
ServerStep(e) ==
  \/ Accept(e) \/ Handshake(e) \/ Admit(e) \/ ScheduleCallback(e) \/ ReadResponse(e)
  \/ WorkerFinishes(e) \/ (worker[e] # "asking" /\ Fail(e)) \/ StopSession(e)

CodeNext == \E e \in Executions :
  \/ Acquire(e) \/ RunnerStep(e) \/ CallbackEnds(e) \/ CancelTool(e)
  \/ ServerStep(e) \/ WorkerCalls(e) \/ Fail(e)

CodeSpec == CodeInit /\ [][CodeNext]_codeVars
CodeFairSpec == CodeSpec /\ \A e \in Executions : WF_codeVars(RunnerStep(e)) /\ WF_codeVars(ServerStep(e))

-----------------------------------------------------------------------------

\* A place of the limiter is taken by a call that is running and by one that
\* has ended and left a callback alive, which may still use the agent; a
\* ticket by a run that may have a connection.  Both come back exactly once.
PlacesHeld ==
  /\ active = Cardinality({e \in Executions : Admitted(e) \/ (tool[e] = "settled" /\ Live(e))})
  /\ active <= MaxActive
  /\ tickets = Cardinality({e \in Executions : HasTicket(e)})
  /\ tickets <= MaxConcurrentSessions

\* The server counts every session that has, or may still have, a worker.
SlotsHeld ==
  /\ sessions = Cardinality({e \in Executions : handler[e] \in {"running", "stopping"}})
  /\ sessions <= MaxConcurrentSessions

\* A call returns a value only for one accepted output, no violation and a
\* script that ended by itself; whoever is told the end of a run, well or
\* not, is told when its worker no longer runs.
ResultIsOneOutput ==
  \A e \in Executions :
    /\ verdict[e] = "result" =>
         /\ invocation[e].attempts = 1 /\ invocation[e].called /\ ~invocation[e].violated
         /\ worker[e] = "dead"
    /\ (\E i \in DOMAIN down[e] : down[e][i] \in {"done", "error"}) => ~Alive(e)

\* A run whose client has gone ends on the server, and a cancelled call
\* returns, whatever its callback does.
RunsEnd == \A e \in Executions :
  /\ (handler[e] # "none" /\ ~open[e]) ~> (handler[e] = "closed")
  /\ (cancels[e] > 0) ~> (tool[e] = "settled")
=============================================================================
