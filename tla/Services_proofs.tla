---------------------------- MODULE Services_proofs ----------------------------
(***************************************************************************)
(* Proofs about the parts of the server that hold something for others,    *)
(* for every value of the constants.                                       *)
(*   CodeMode: what an execution takes comes back once, and a call that    *)
(* returns a value has run a script to its end.                            *)
(*   MCPSessions: a server's sessions are bounded, a call's record is its  *)
(* own, and the server is given the reply that was taken.                  *)
(*   OAuth: with either broker and any keys, requests ask for one          *)
(* authorization at a time and are given their own callback.               *)
(*   LocalStreams: a subscriber gets the messages of its stream in order.  *)
(***************************************************************************)
EXTENDS CodeMode, MCPSessions, OAuth, LocalStreams, SequenceTheorems, FiniteSetTheorems, TLAPS

-----------------------------------------------------------------------------
(* Code mode.                                                              *)

\* The limits are numbers and finitely many calls of the tool are made.
CodeBounds ==
  /\ IsFiniteSet(Executions)
  /\ MaxActive \in Nat /\ MaxConcurrentSessions \in Nat /\ MaxNested \in Nat
  /\ MaxCalls \in Nat /\ MaxCancels \in Nat

\* A step of one execution, as Next has it.
Step(e) ==
  \/ Acquire(e) \/ RunnerStep(e) \/ CallbackEnds(e) \/ CancelTool(e)
  \/ ServerStep(e) \/ WorkerCalls(e) \/ Fail(e)

-----------------------------------------------------------------------------
(* The invariant of one execution.                                         *)

\* The callback runs while the runner waits for it, and after that only if the
\* runner has given it up; the message it answers is not taken off before.
CallbackHeld(e) ==
  /\ tool[e] = "calling" => callback[e] = "running"
  /\ tool[e] \in {"idle", "refused", "waiting", "connecting", "reading"} => ~Live(e)
  /\ Live(e) => down[e] # <<>> /\ Head(down[e]) \in Kinds

\* The worker lives while its session runs, and the end of the run is sent
\* when it is dead.
EndIsLast(e) ==
  /\ Alive(e) => handler[e] = "running"
  /\ handler[e] \in {"none", "handshake", "admission"} => worker[e] = "none"
  /\ \A i \in DOMAIN down[e] : down[e][i] \in {"done", "error"} =>
        /\ handler[e] \in {"stopping", "closed"}
        /\ down[e][i] = "done" => worker[e] = "dead"

\* What a run has ended with, and what its outputs were.
VerdictEarned(e) ==
  /\ tool[e] \in {"idle", "refused", "waiting", "connecting", "reading", "calling"} =>
        verdict[e] = "none"
  /\ verdict[e] \in {"finished", "result"} =>
        ~Live(e) /\ worker[e] = "dead" /\ handler[e] \in {"stopping", "closed"}
  /\ verdict[e] = "result" =>
        tool[e] = "settled" /\ invocation[e].called /\ ~invocation[e].violated
  /\ invocation[e].called /\ ~invocation[e].violated => invocation[e].attempts = 1

RunOK(e) == CallbackHeld(e) /\ EndIsLast(e) /\ VerdictEarned(e)

\* The types of what is not counted.
TypesOfRuns ==
  /\ tool \in [Executions -> {"idle", "refused", "waiting", "connecting", "reading", "calling",
                              "cbcancel", "closing", "draining", "settled"}]
  /\ verdict \in [Executions -> {"none", "finished", "failed", "result"}]
  /\ callback \in [Executions -> {"none", "running", "cancelling", "orphan", "ended"}]
  /\ invocation \in [Executions -> [attempts : Nat, called : BOOLEAN, violated : BOOLEAN,
                                    nested : 0..MaxNested]]
  /\ cancels \in [Executions -> 0..MaxCancels]
  /\ open \in [Executions -> BOOLEAN]
  /\ up \in [Executions -> {"none", "run", "response"}]
  /\ down \in [Executions -> Seq(Kinds \cup {"done", "error"})]
  /\ handler \in [Executions -> {"none", "handshake", "admission", "running", "stopping", "closed"}]
  /\ worker \in [Executions -> {"none", "computing", "pending", "asking", "dead"}]
  /\ calls \in [Executions -> 0..MaxCalls]

\* A step of one execution leaves the others alone.
LEMMA OthersUnchanged ==
  ASSUME TypesOfRuns, NEW e \in Executions, Step(e), NEW p \in Executions, p # e
  PROVE  /\ tool'[p] = tool[p] /\ verdict'[p] = verdict[p] /\ callback'[p] = callback[p]
         /\ invocation'[p] = invocation[p] /\ down'[p] = down[p] /\ handler'[p] = handler[p]
         /\ worker'[p] = worker[p]
<1> USE DEF To, Handle, Reply, AwaitCancelled, toolVars, wireVars, serverVars
<1>1. CASE Acquire(e) \/ CallbackEnds(e) \/ CancelTool(e)
  BY <1>1 DEF TypesOfRuns, Acquire, CallbackEnds, CancelTool
<1>2. CASE RunnerStep(e)
  <2>1. CASE AcquireRemoteSession(e) \/ Connect(e) \/ ReadMessage(e)
    BY <2>1 DEF TypesOfRuns, AcquireRemoteSession, Connect, ReadMessage
  <2>2. CASE CallbackInterrupted(e) \/ CallbackCancelled(e) \/ Close(e) \/ Settle(e)
    BY <2>2 DEF TypesOfRuns, CallbackInterrupted, CallbackCancelled, Close, Settle
  <2> QED
    BY <1>2, <2>1, <2>2 DEF RunnerStep
<1>3. CASE ServerStep(e) \/ WorkerCalls(e) \/ Fail(e)
  <2>1. CASE Accept(e) \/ Handshake(e) \/ Admit(e) \/ ScheduleCallback(e)
    BY <2>1 DEF TypesOfRuns, Accept, Handshake, Admit, ScheduleCallback
  <2>2. CASE ReadResponse(e) \/ WorkerFinishes(e) \/ Fail(e) \/ StopSession(e) \/ WorkerCalls(e)
    BY <2>2 DEF TypesOfRuns, ReadResponse, WorkerFinishes, Fail, StopSession, WorkerCalls
  <2> QED
    BY <1>3, <2>1, <2>2 DEF ServerStep
<1> QED
  BY <1>1, <1>2, <1>3 DEF Step

\* What the dispatcher makes of an invocation is one: outputs and nested calls
\* are counted, and one accepted output is the only attempt.
LEMMA DispatchType ==
  ASSUME CodeBounds, NEW i \in [attempts : Nat, called : BOOLEAN, violated : BOOLEAN,
                            nested : 0..MaxNested],
         NEW k, NEW l \in BOOLEAN, i.called /\ ~i.violated => i.attempts = 1
  PROVE  /\ Dispatch(i, k, l) \in [attempts : Nat, called : BOOLEAN, violated : BOOLEAN,
                                   nested : 0..MaxNested]
         /\ Dispatch(i, k, l).called /\ ~Dispatch(i, k, l).violated =>
              Dispatch(i, k, l).attempts = 1
<1> DEFINE d == Dispatch(i, k, l)
<1>1. CASE k = "output"
  <2> DEFINE fine == ~i.violated /\ i.attempts + 1 = 1 /\ ~l
  <2>1. d = [i EXCEPT !.attempts = i.attempts + 1, !.called = i.called \/ fine, !.violated = ~fine]
    BY <1>1 DEF Dispatch, Record
  <2>2. i.attempts + 1 \in Nat /\ fine \in BOOLEAN /\ (i.called \/ fine) \in BOOLEAN
    OBVIOUS
  <2>3. d.attempts = i.attempts + 1 /\ d.called = (i.called \/ fine) /\ d.violated = ~fine
    BY <2>1
  <2>4. d \in [attempts : Nat, called : BOOLEAN, violated : BOOLEAN, nested : 0..MaxNested]
    <3> HIDE DEF fine
    <3> QED
      BY <2>1, <2>2
  <2>5. ~d.violated => d.attempts = 1
    BY <2>3
  <2> QED
    BY <2>4, <2>5
<1>2. CASE k # "output" /\ (i.violated \/ i.nested = MaxNested)
  <2>1. d = [i EXCEPT !.violated = TRUE]
    BY <1>2 DEF Dispatch
  <2>2. d.violated
    BY <2>1
  <2> QED
    BY <2>1, <2>2
<1>3. CASE k # "output" /\ ~(i.violated \/ i.nested = MaxNested)
  <2>1. d = [i EXCEPT !.nested = i.nested + 1, !.violated = l]
    BY <1>3 DEF Dispatch
  <2>2. i.nested + 1 \in 0..MaxNested
    BY <1>3 DEF CodeBounds
  <2>3. d.called = i.called /\ d.attempts = i.attempts
    BY <2>1
  <2> QED
    BY <1>3, <2>1, <2>2, <2>3
<1> QED
  BY <1>1, <1>2, <1>3

\* The queue of messages to the client: what a reply adds and what reading
\* takes off.
LEMMA DownTypes ==
  ASSUME TypesOfRuns, NEW e \in Executions
  PROVE  /\ \A m \in Kinds \cup {"done", "error"} : Reply(e, m) =>
              /\ down' \in [Executions -> Seq(Kinds \cup {"done", "error"})]
              /\ \A i \in DOMAIN down'[e] :
                    (i \in DOMAIN down[e] /\ down'[e][i] = down[e][i]) \/ down'[e][i] = m
              /\ down[e] # <<>> => down'[e] # <<>> /\ Head(down'[e]) = Head(down[e])
         /\ down[e] # <<>> /\ down' = [down EXCEPT ![e] = Tail(@)] =>
              /\ down' \in [Executions -> Seq(Kinds \cup {"done", "error"})]
              /\ \A i \in DOMAIN down'[e] : i + 1 \in DOMAIN down[e] /\ down'[e][i] = down[e][i + 1]
<1> DEFINE M == Kinds \cup {"done", "error"}
<1>1. down \in [Executions -> Seq(M)] /\ down[e] \in Seq(M)
  BY DEF TypesOfRuns
<1>2. ASSUME NEW m \in M, Reply(e, m)
      PROVE  /\ down' \in [Executions -> Seq(M)]
             /\ \A i \in DOMAIN down'[e] :
                    (i \in DOMAIN down[e] /\ down'[e][i] = down[e][i]) \/ down'[e][i] = m
             /\ down[e] # <<>> => down'[e] # <<>> /\ Head(down'[e]) = Head(down[e])
  <2> HIDE DEF M
  <2>1. Append(down[e], m) \in Seq(M)
    BY <1>1, AppendProperties
  <2>2. CASE open[e]
    <3>1. down'[e] = Append(down[e], m)
      BY <1>1, <1>2, <2>2 DEF Reply
    <3>2. /\ Len(down[e]) \in Nat /\ Len(down'[e]) = Len(down[e]) + 1 /\ down'[e] # <<>>
          /\ \A i \in 1..Len(down[e]) : down'[e][i] = down[e][i]
          /\ down'[e][Len(down[e]) + 1] = m
      BY <1>1, <3>1, AppendProperties
    <3>3. \A i \in 1..Len(down'[e]) : i \in 1..Len(down[e]) \/ i = Len(down[e]) + 1
      BY <3>2
    <3>4. down[e] # <<>> => Head(down'[e]) = Head(down[e])
      <4> SUFFICES ASSUME down[e] # <<>> PROVE Head(down'[e]) = Head(down[e])
        OBVIOUS
      <4>1. 1 \in 1..Len(down[e])
        BY <1>1, EmptySeq
      <4> QED
        BY <1>1, <2>1, <3>1, <3>2, <4>1
    <3>5. down' \in [Executions -> Seq(M)]
      BY <1>1, <1>2, <2>1 DEF Reply
    <3>6. DOMAIN down[e] = 1..Len(down[e]) /\ DOMAIN down'[e] = 1..Len(down'[e])
      BY <1>1, <2>1, <3>1
    <3> QED
      BY <3>2, <3>3, <3>4, <3>5, <3>6
  <2>3. CASE ~open[e]
    BY <1>1, <1>2, <2>3 DEF Reply
  <2> QED
    BY <2>2, <2>3
<1>3. ASSUME down[e] # <<>>, down' = [down EXCEPT ![e] = Tail(@)]
      PROVE  /\ down' \in [Executions -> Seq(M)]
             /\ \A i \in DOMAIN down'[e] : i + 1 \in DOMAIN down[e] /\ down'[e][i] = down[e][i + 1]
  <2> HIDE DEF M
  <2>1. Tail(down[e]) \in Seq(M) /\ Len(down[e]) \in Nat \ {0}
        /\ Len(Tail(down[e])) = Len(down[e]) - 1
        /\ \A i \in 1..Len(Tail(down[e])) : Tail(down[e])[i] = down[e][i + 1]
    BY <1>1, <1>3, EmptySeq, HeadTailProperties
  <2>2. \A i \in 1..Len(Tail(down[e])) : i + 1 \in 1..Len(down[e])
    BY <2>1
  <2>3. down'[e] = Tail(down[e]) /\ down' \in [Executions -> Seq(M)]
    BY <1>1, <1>3, <2>1
  <2>4. DOMAIN down[e] = 1..Len(down[e]) /\ DOMAIN down'[e] = 1..Len(Tail(down[e]))
    BY <1>1, <2>1, <2>3
  <2> QED
    BY <2>1, <2>2, <2>3, <2>4
<1> QED
  BY <1>2, <1>3

\* Where the call of the tool goes.
LEMMA ToType ==
  ASSUME TypesOfRuns, NEW e \in Executions,
         NEW s \in {"idle", "refused", "waiting", "connecting", "reading", "calling",
                    "cbcancel", "closing", "draining", "settled"}, To(e, s)
  PROVE  tool' \in [Executions -> {"idle", "refused", "waiting", "connecting", "reading",
                                   "calling", "cbcancel", "closing", "draining", "settled"}]
BY DEF TypesOfRuns, To

\* The steps of the tool, its runner and its callbacks keep the invariant of
\* the execution.
LEMMA ToolKeepsRun ==
  ASSUME CodeBounds, TypesOfRuns, NEW e \in Executions, RunOK(e),
         Acquire(e) \/ RunnerStep(e) \/ CallbackEnds(e) \/ CancelTool(e)
  PROVE  TypesOfRuns' /\ RunOK(e)'
<1> USE DEF toolVars, wireVars, serverVars
<1>0. down \in [Executions -> Seq(Kinds \cup {"done", "error"})]
      /\ down[e] \in Seq(Kinds \cup {"done", "error"})
  BY DEF TypesOfRuns
\* a step that leaves the messages and the server alone
<1>1. ASSUME UNCHANGED <<down, handler, worker>> PROVE EndIsLast(e)'
  BY <1>1 DEF RunOK, EndIsLast, Alive
<1>2. CASE Acquire(e) \/ AcquireRemoteSession(e) \/ Connect(e)
  <2>1. TypesOfRuns'
    BY ZenonT(60), <1>2 DEF TypesOfRuns, Acquire, AcquireRemoteSession, Connect, To
  <2>2. UNCHANGED <<down, handler, worker, callback, invocation>>
    BY <1>2 DEF Acquire, AcquireRemoteSession, Connect
  <2>3. CallbackHeld(e)'
    BY <1>2, <2>2 DEF TypesOfRuns, RunOK, CallbackHeld, Live, Acquire, AcquireRemoteSession, Connect, To
  <2>4. VerdictEarned(e)'
    BY <1>2, <2>2 DEF TypesOfRuns, RunOK, VerdictEarned, Live, Acquire, AcquireRemoteSession, Connect, To
  <2> QED
    BY <1>1, <2>1, <2>2, <2>3, <2>4 DEF RunOK
<1>3. CASE ReadMessage(e)
  <2>0. /\ tool[e] = "reading" /\ ~Live(e) /\ verdict[e] = "none"
        /\ UNCHANGED <<invocation, handler, worker, cancels, open, up, calls>>
    BY <1>3 DEF ReadMessage, RunOK, CallbackHeld, VerdictEarned
  <2>1. CASE /\ down[e] # <<>> /\ Head(down[e]) \in Kinds
             /\ To(e, "calling") /\ callback' = [callback EXCEPT ![e] = "running"]
             /\ UNCHANGED <<verdict, down>>
    <3>1. TypesOfRuns'
      BY <2>0, <2>1 DEF TypesOfRuns, To
    <3>2. CallbackHeld(e)' /\ VerdictEarned(e)'
      BY <2>0, <2>1 DEF TypesOfRuns, To, RunOK, CallbackHeld, VerdictEarned
    <3> QED
      BY <1>1, <2>0, <2>1, <3>1, <3>2 DEF RunOK
  <2>2. CASE /\ down[e] # <<>> /\ Head(down[e]) \notin Kinds
             /\ To(e, "closing") /\ down' = [down EXCEPT ![e] = Tail(@)]
             /\ verdict' = [verdict EXCEPT ![e] =
                              IF Head(down[e]) = "done" THEN "finished" ELSE "failed"]
             /\ UNCHANGED callback
    <3>1. /\ down' \in [Executions -> Seq(Kinds \cup {"done", "error"})]
          /\ \A i \in DOMAIN down'[e] : i + 1 \in DOMAIN down[e] /\ down'[e][i] = down[e][i + 1]
      BY <2>2, DownTypes
    <3>2. TypesOfRuns'
      BY <2>0, <2>2, <3>1 DEF TypesOfRuns, To
    <3>3. EndIsLast(e)'
      BY <2>0, <3>1 DEF RunOK, EndIsLast, Alive
    <3>4. CallbackHeld(e)'
      BY <2>0, <2>2 DEF TypesOfRuns, CallbackHeld, Live, To
    <3>5. Head(down[e]) = "done" => worker[e] = "dead" /\ handler[e] \in {"stopping", "closed"}
      <4>1. 1 \in DOMAIN down[e] /\ Head(down[e]) = down[e][1]
        BY <1>0, <2>2, EmptySeq
      <4> QED
        BY <4>1 DEF RunOK, EndIsLast
    <3>6. VerdictEarned(e)'
      BY <2>0, <2>2, <3>5 DEF TypesOfRuns, RunOK, VerdictEarned, Live, To
    <3> QED
      BY <3>2, <3>3, <3>4, <3>6 DEF RunOK
  <2>3. CASE /\ To(e, "closing") /\ verdict' = [verdict EXCEPT ![e] = "failed"]
             /\ UNCHANGED <<callback, down>>
    <3>1. TypesOfRuns'
      BY <2>0, <2>3 DEF TypesOfRuns, To
    <3>2. CallbackHeld(e)' /\ VerdictEarned(e)'
      BY <2>0, <2>3 DEF TypesOfRuns, To, RunOK, CallbackHeld, VerdictEarned, Live
    <3> QED
      BY <1>1, <2>0, <2>3, <3>1, <3>2 DEF RunOK
  <2> QED
    BY <1>3, <2>1, <2>2, <2>3 DEF ReadMessage
<1>4. CASE CallbackEnds(e)
  <2>1. /\ Live(e) /\ down[e] # <<>> /\ down' = [down EXCEPT ![e] = Tail(@)]
        /\ callback' = [callback EXCEPT ![e] = "ended"]
        /\ UNCHANGED <<verdict, cancels, open, handler, worker, calls>>
    BY <1>4 DEF CallbackEnds, RunOK, CallbackHeld
  <2>2. PICK l \in BOOLEAN :
          invocation' = [invocation EXCEPT ![e] = Dispatch(@, Head(down[e]), l)]
    BY <1>4 DEF CallbackEnds
  <2>3. /\ invocation'[e] = Dispatch(invocation[e], Head(down[e]), l)
        /\ invocation' \in [Executions -> [attempts : Nat, called : BOOLEAN, violated : BOOLEAN,
                                           nested : 0..MaxNested]]
        /\ invocation'[e].called /\ ~invocation'[e].violated => invocation'[e].attempts = 1
    <3>1. invocation \in [Executions -> [attempts : Nat, called : BOOLEAN, violated : BOOLEAN,
                                         nested : 0..MaxNested]]
          /\ (invocation[e].called /\ ~invocation[e].violated => invocation[e].attempts = 1)
      BY DEF TypesOfRuns, RunOK, VerdictEarned
    <3> QED
      BY <2>2, <3>1, DispatchType
  <2>4. /\ down' \in [Executions -> Seq(Kinds \cup {"done", "error"})]
        /\ \A i \in DOMAIN down'[e] : i + 1 \in DOMAIN down[e] /\ down'[e][i] = down[e][i + 1]
    BY <2>1, DownTypes
  <2>5. \/ /\ tool[e] = "calling" /\ To(e, "reading") /\ up' = [up EXCEPT ![e] = "response"]
        \/ tool[e] # "calling" /\ UNCHANGED <<tool, up>>
    BY <1>4 DEF CallbackEnds
  <2>6. TypesOfRuns'
    <3>1. /\ tool' \in [Executions -> {"idle", "refused", "waiting", "connecting", "reading",
                                       "calling", "cbcancel", "closing", "draining", "settled"}]
          /\ up' \in [Executions -> {"none", "run", "response"}]
      BY <2>5 DEF TypesOfRuns, To
    <3>2. callback' \in [Executions -> {"none", "running", "cancelling", "orphan", "ended"}]
      BY <2>1 DEF TypesOfRuns
    <3> QED
      BY <2>1, <2>3, <2>4, <3>1, <3>2 DEF TypesOfRuns
  <2>7. EndIsLast(e)'
    BY <2>1, <2>4 DEF RunOK, EndIsLast, Alive
  <2>8. ~Live(e)' /\ (tool'[e] = tool[e] \/ (tool'[e] = "reading" /\ tool[e] = "calling"))
    <3>1. callback'[e] = "ended"
      BY <2>1 DEF TypesOfRuns
    <3>2. tool'[e] = tool[e] \/ (tool'[e] = "reading" /\ tool[e] = "calling")
      BY <2>5 DEF TypesOfRuns, To
    <3> QED
      BY <3>1, <3>2 DEF Live
  <2>9. CallbackHeld(e)'
    BY <2>1, <2>5, <2>8 DEF RunOK, CallbackHeld, TypesOfRuns, To
  <2>10. VerdictEarned(e)'
    BY <2>1, <2>3, <2>8 DEF RunOK, VerdictEarned
  <2> QED
    BY <2>6, <2>7, <2>9, <2>10 DEF RunOK
<1>5. CASE CallbackInterrupted(e) \/ CancelTool(e)
  <2>1. UNCHANGED <<down, handler, worker, invocation, open, up, calls>>
        /\ verdict' = [verdict EXCEPT ![e] = "failed"]
    BY <1>5 DEF CallbackInterrupted, CancelTool
  <2>2. cancels' \in [Executions -> 0..MaxCancels]
    <3>1. cancels' = cancels \/ (cancels[e] < MaxCancels /\ cancels' = [cancels EXCEPT ![e] = @ + 1])
      BY <1>5 DEF CallbackInterrupted, CancelTool
    <3>2. cancels \in [Executions -> 0..MaxCancels]
      BY DEF TypesOfRuns
    <3> QED
      BY <3>1, <3>2 DEF CodeBounds
  <2>3. /\ tool'[e] \in {"cbcancel", "closing", "draining"} /\ To(e, tool'[e])
        /\ tool[e] = "waiting" => tool'[e] = "draining"
        /\ \/ callback' = callback /\ tool[e] # "calling"
           \/ callback' = [callback EXCEPT ![e] = "cancelling"] /\ tool[e] = "calling"
    <3>1. CASE CallbackInterrupted(e)
      BY <3>1 DEF TypesOfRuns, CallbackInterrupted, To
    <3>2. CASE CancelTool(e)
      <4>1. \E s \in {"cbcancel", "closing", "draining"} :
               /\ To(e, s) /\ (tool[e] = "waiting" => s = "draining")
        BY <3>2 DEF CancelTool
      <4>2. \/ callback' = callback /\ tool[e] # "calling"
            \/ callback' = [callback EXCEPT ![e] = "cancelling"] /\ tool[e] = "calling"
        BY <3>2 DEF CancelTool
      <4> QED
        BY <4>1, <4>2 DEF TypesOfRuns, To
    <3> QED
      BY <1>5, <3>1, <3>2
  <2>4. TypesOfRuns'
    <3>1. callback' \in [Executions -> {"none", "running", "cancelling", "orphan", "ended"}]
      BY <2>3 DEF TypesOfRuns
    <3>2. tool' \in [Executions -> {"idle", "refused", "waiting", "connecting", "reading",
                                      "calling", "cbcancel", "closing", "draining", "settled"}]
      BY <2>3, ToType
    <3>3. verdict' \in [Executions -> {"none", "finished", "failed", "result"}]
      BY <2>1 DEF TypesOfRuns
    <3> QED
      BY <2>1, <2>2, <3>1, <3>2, <3>3 DEF TypesOfRuns
  <2>5. Live(e)' => Live(e)
    BY <2>3 DEF TypesOfRuns, RunOK, CallbackHeld, Live
  <2>6. CallbackHeld(e)' /\ VerdictEarned(e)'
    BY <2>1, <2>3, <2>5 DEF TypesOfRuns, RunOK, CallbackHeld, VerdictEarned
  <2> QED
    BY <1>1, <2>1, <2>4, <2>6 DEF RunOK
<1>6. CASE CallbackCancelled(e) \/ Close(e) \/ Settle(e)
  <2>1. UNCHANGED <<down, handler, worker, invocation, cancels, up, calls>>
    BY <1>6 DEF CallbackCancelled, Close, Settle
  <2>2. /\ tool[e] \in {"cbcancel", "closing", "draining"}
        /\ tool'[e] \in {"closing", "draining", "settled"} /\ To(e, tool'[e])
        /\ tool'[e] = "settled" <=> tool[e] = "draining"
        /\ callback' = callback \/ AwaitCancelled(e)
    BY <1>6 DEF TypesOfRuns, CallbackCancelled, Close, Settle, To
  <2>3. open' \in [Executions -> BOOLEAN]
    BY <1>6 DEF TypesOfRuns, CallbackCancelled, Close, Settle
  <2>4. callback' \in [Executions -> {"none", "running", "cancelling", "orphan", "ended"}]
        /\ (Live(e)' => Live(e))
    BY <2>2 DEF TypesOfRuns, AwaitCancelled, Live
  <2>5. /\ verdict' \in [Executions -> {"none", "finished", "failed", "result"}]
        /\ \/ verdict'[e] = verdict[e] /\ tool[e] # "draining"
           \/ verdict'[e] = "failed"
           \/ /\ verdict'[e] = "result" /\ verdict[e] = "finished" /\ tool[e] = "draining"
              /\ invocation[e].called /\ ~invocation[e].violated
    <3>1. CASE CallbackCancelled(e) \/ Close(e)
      BY <3>1 DEF TypesOfRuns, CallbackCancelled, Close
    <3>2. CASE Settle(e)
      BY <3>2 DEF TypesOfRuns, Settle
    <3> QED
      BY <1>6, <3>1, <3>2
  <2>6. TypesOfRuns'
    <3>1. tool' \in [Executions -> {"idle", "refused", "waiting", "connecting", "reading",
                                      "calling", "cbcancel", "closing", "draining", "settled"}]
      BY <2>2, ToType
    <3> QED
      BY <2>1, <2>3, <2>4, <2>5, <3>1 DEF TypesOfRuns
  <2>7. CallbackHeld(e)'
    BY <2>1, <2>2, <2>4 DEF RunOK, CallbackHeld
  <2>8. VerdictEarned(e)'
    BY <2>1, <2>2, <2>4, <2>5 DEF RunOK, VerdictEarned
  <2> QED
    BY <1>1, <2>1, <2>6, <2>7, <2>8 DEF RunOK
<1> QED
  BY <1>2, <1>3, <1>4, <1>5, <1>6 DEF RunnerStep

\* The steps of the server and of the worker keep it.
LEMMA ServerKeepsRun ==
  ASSUME CodeBounds, TypesOfRuns, NEW e \in Executions, RunOK(e),
         ServerStep(e) \/ WorkerCalls(e) \/ Fail(e)
  PROVE  TypesOfRuns' /\ RunOK(e)'
<1> USE DEF toolVars, wireVars, serverVars, Handle
<1>0. UNCHANGED <<tool, verdict, callback, invocation, cancels, open>>
  BY DEF ServerStep, Accept, Handshake, Admit, ScheduleCallback, ReadResponse, WorkerFinishes,
         Fail, StopSession, WorkerCalls
<1>1. ASSUME /\ handler' \in [Executions -> {"none", "handshake", "admission", "running",
                                            "stopping", "closed"}]
             /\ worker' \in [Executions -> {"none", "computing", "pending", "asking", "dead"}]
             /\ up' \in [Executions -> {"none", "run", "response"}]
             /\ calls' \in [Executions -> 0..MaxCalls],
             handler[e] \in {"stopping", "closed"} =>
               handler'[e] \in {"stopping", "closed"} /\ (worker[e] = "dead" => worker'[e] = "dead"),
             Alive(e)' => handler'[e] = "running",
             handler'[e] \in {"none", "handshake", "admission"} => worker'[e] = "none",
             \/ UNCHANGED down
             \/ \E m \in Kinds : Reply(e, m)
             \/ /\ \E m \in {"done", "error"} : Reply(e, m) /\ (m = "done" => worker'[e] = "dead")
                /\ handler'[e] \in {"stopping", "closed"}
      PROVE  TypesOfRuns' /\ RunOK(e)'
  <2>1. PICK m \in Kinds \cup {"done", "error"} :
          \/ UNCHANGED down
          \/ /\ Reply(e, m) /\ (m = "done" => worker'[e] = "dead")
             /\ m \in Kinds \/ handler'[e] \in {"stopping", "closed"}
    BY <1>1 DEF Kinds
  <2>2. /\ down' \in [Executions -> Seq(Kinds \cup {"done", "error"})]
        /\ \A i \in DOMAIN down'[e] :
              (i \in DOMAIN down[e] /\ down'[e][i] = down[e][i]) \/ (Reply(e, m) /\ down'[e][i] = m)
        /\ down[e] # <<>> => down'[e] # <<>> /\ Head(down'[e]) = Head(down[e])
    <3>1. CASE UNCHANGED down
      BY <3>1 DEF TypesOfRuns
    <3>2. CASE Reply(e, m)
      BY <3>2, DownTypes
    <3> QED
      BY <2>1, <3>1, <3>2
  <2>3. TypesOfRuns'
    BY <1>0, <1>1, <2>2 DEF TypesOfRuns
  <2>4. CallbackHeld(e)'
    BY <1>0, <2>2 DEF RunOK, CallbackHeld, Live
  <2>5. VerdictEarned(e)'
    BY <1>0, <1>1 DEF RunOK, VerdictEarned, Live
  <2>6. ASSUME NEW i \in DOMAIN down'[e], down'[e][i] \in {"done", "error"}
        PROVE  handler'[e] \in {"stopping", "closed"} /\ (down'[e][i] = "done" => worker'[e] = "dead")
    <3>1. CASE i \in DOMAIN down[e] /\ down'[e][i] = down[e][i]
      BY <1>1, <2>6, <3>1 DEF RunOK, EndIsLast
    <3>2. CASE ~UNCHANGED down /\ down'[e][i] = m
      BY <2>1, <2>6, <3>2 DEF Kinds
    <3>3. CASE UNCHANGED down
      BY <1>1, <2>6, <3>3 DEF RunOK, EndIsLast
    <3> QED
      BY <2>2, <3>1, <3>2, <3>3
  <2> QED
    BY <1>1, <2>3, <2>4, <2>5, <2>6 DEF RunOK, EndIsLast
<1>2. CASE Accept(e) \/ Handshake(e)
  <2>1. /\ handler[e] \in {"none", "handshake"} /\ UNCHANGED <<down, worker, calls>>
        /\ up' = up \/ up' = [up EXCEPT ![e] = "none"]
        /\ \E s \in {"handshake", "admission", "closed"} : handler' = [handler EXCEPT ![e] = s]
    BY <1>2 DEF Accept, Handshake
  <2>2. up' \in [Executions -> {"none", "run", "response"}]
    BY <2>1 DEF TypesOfRuns
  <2>3. worker[e] = "none"
    BY <2>1 DEF RunOK, EndIsLast
  <2>4. /\ handler' \in [Executions -> {"none", "handshake", "admission", "running",
                                        "stopping", "closed"}]
        /\ worker' \in [Executions -> {"none", "computing", "pending", "asking", "dead"}]
        /\ calls' \in [Executions -> 0..MaxCalls]
    BY <2>1 DEF TypesOfRuns
  <2>5. worker'[e] = "none" /\ ~Alive(e)'
    BY <2>1, <2>3 DEF Alive
  <2> QED
    BY <1>1, <2>1, <2>2, <2>4, <2>5
<1>3. CASE Admit(e)
  <2>1. handler[e] = "admission" /\ worker[e] = "none" /\ UNCHANGED <<up, calls>>
    BY <1>3 DEF Admit, RunOK, EndIsLast
  <2>2. \/ /\ handler' = [handler EXCEPT ![e] = "running"]
           /\ worker' = [worker EXCEPT ![e] = "computing"] /\ UNCHANGED down
        \/ \E s \in {"stopping", "closed"} :
              handler' = [handler EXCEPT ![e] = s] /\ Reply(e, "error") /\ UNCHANGED worker
    BY <1>3 DEF Admit
  <2>3. CASE /\ handler' = [handler EXCEPT ![e] = "running"]
             /\ worker' = [worker EXCEPT ![e] = "computing"] /\ UNCHANGED down
    <3>1. handler'[e] = "running"
      BY <2>3 DEF TypesOfRuns
    <3> QED
      BY <1>1, <2>1, <2>3, <3>1 DEF TypesOfRuns
  <2>4. CASE \E s \in {"stopping", "closed"} :
              handler' = [handler EXCEPT ![e] = s] /\ Reply(e, "error") /\ UNCHANGED worker
    <3>1. handler'[e] \in {"stopping", "closed"} /\ worker'[e] = "none" /\ ~Alive(e)'
      BY <2>1, <2>4 DEF TypesOfRuns, Alive
    <3>2. /\ handler' \in [Executions -> {"none", "handshake", "admission", "running",
                                          "stopping", "closed"}]
          /\ worker' \in [Executions -> {"none", "computing", "pending", "asking", "dead"}]
          /\ up' \in [Executions -> {"none", "run", "response"}]
          /\ calls' \in [Executions -> 0..MaxCalls]
      BY <2>1, <2>4 DEF TypesOfRuns
    <3>3. \E m \in {"done", "error"} : Reply(e, m) /\ (m = "done" => worker'[e] = "dead")
      BY <2>4
    <3> QED
      BY <1>1, <2>1, <3>1, <3>2, <3>3
  <2> QED
    BY <2>2, <2>3, <2>4
<1>4. CASE ScheduleCallback(e) \/ WorkerCalls(e)
  <2>1. /\ handler[e] = "running" /\ UNCHANGED <<up, handler>>
        /\ \E w \in {"pending", "asking"} : worker' = [worker EXCEPT ![e] = w]
        /\ UNCHANGED down \/ \E m \in Kinds : Reply(e, m)
    BY <1>4 DEF ScheduleCallback, WorkerCalls, RunOK, EndIsLast, Alive
  <2>2. calls' \in [Executions -> 0..MaxCalls]
    <3>1. calls' = calls \/ (calls[e] < MaxCalls /\ calls' = [calls EXCEPT ![e] = @ + 1])
      BY <1>4 DEF ScheduleCallback, WorkerCalls
    <3>2. calls \in [Executions -> 0..MaxCalls]
      BY DEF TypesOfRuns
    <3> QED
      BY <3>1, <3>2 DEF CodeBounds
  <2>3. worker' \in [Executions -> {"none", "computing", "pending", "asking", "dead"}]
    BY <2>1 DEF TypesOfRuns
  <2>4. /\ up' \in [Executions -> {"none", "run", "response"}]
        /\ handler' \in [Executions -> {"none", "handshake", "admission", "running",
                                          "stopping", "closed"}]
    BY <2>1 DEF TypesOfRuns
  <2> QED
    BY <1>1, <2>1, <2>2, <2>3, <2>4
<1>5. CASE ReadResponse(e)
  <2>1. /\ handler[e] = "running" /\ UNCHANGED <<down, calls>>
        /\ up' = up \/ up' = [up EXCEPT ![e] = "none"]
        /\ \/ worker' = [worker EXCEPT ![e] = "computing"] /\ UNCHANGED handler
           \/ worker' = [worker EXCEPT ![e] = "dead"] /\ handler' = [handler EXCEPT ![e] = "stopping"]
    BY <1>5 DEF ReadResponse
  <2>2. /\ up' \in [Executions -> {"none", "run", "response"}]
        /\ worker' \in [Executions -> {"none", "computing", "pending", "asking", "dead"}]
        /\ handler' \in [Executions -> {"none", "handshake", "admission", "running",
                                          "stopping", "closed"}]
        /\ handler'[e] = "running" \/ (handler'[e] = "stopping" /\ worker'[e] = "dead")
    BY ZenonT(60), <2>1 DEF TypesOfRuns
  <2> QED
    BY <1>1, <2>1, <2>2 DEF TypesOfRuns, Alive
<1>6. CASE WorkerFinishes(e) \/ Fail(e)
  <2>1. /\ handler[e] = "running" /\ UNCHANGED <<up, calls>>
        /\ worker' = [worker EXCEPT ![e] = "dead"] /\ handler' = [handler EXCEPT ![e] = "stopping"]
        /\ \E m \in {"done", "error"} : Reply(e, m)
    BY <1>6 DEF WorkerFinishes, Fail
  <2>2. /\ up' \in [Executions -> {"none", "run", "response"}]
        /\ calls' \in [Executions -> 0..MaxCalls]
        /\ worker' \in [Executions -> {"none", "computing", "pending", "asking", "dead"}]
        /\ handler' \in [Executions -> {"none", "handshake", "admission", "running",
                                          "stopping", "closed"}]
        /\ handler'[e] = "stopping" /\ worker'[e] = "dead"
    BY <2>1 DEF TypesOfRuns
  <2> QED
    BY <1>1, <2>1, <2>2 DEF Alive
<1>7. CASE StopSession(e)
  <2>1. /\ handler[e] = "stopping" /\ UNCHANGED <<up, calls, down>>
        /\ handler' = [handler EXCEPT ![e] = "closed"]
        /\ worker' = [worker EXCEPT ![e] = IF Alive(e) THEN "dead" ELSE @]
    BY <1>7 DEF StopSession
  <2>2. /\ up' \in [Executions -> {"none", "run", "response"}]
        /\ calls' \in [Executions -> 0..MaxCalls]
        /\ handler' \in [Executions -> {"none", "handshake", "admission", "running",
                                          "stopping", "closed"}]
        /\ handler'[e] = "closed"
    BY <2>1 DEF TypesOfRuns
  <2>3. /\ worker' \in [Executions -> {"none", "computing", "pending", "asking", "dead"}]
        /\ worker'[e] = IF Alive(e) THEN "dead" ELSE worker[e]
    BY <2>1 DEF TypesOfRuns
  <2> QED
    BY <1>1, <2>1, <2>2, <2>3 DEF Alive
<1> QED
  BY <1>2, <1>3, <1>4, <1>5, <1>6, <1>7 DEF ServerStep

-----------------------------------------------------------------------------
(* Places, tickets and slots.                                              *)

\* The executions that hold a place, a ticket and a slot.
Placed == {e \in Executions : Admitted(e) \/ (tool[e] = "settled" /\ Live(e))}
Ticketed == {e \in Executions : HasTicket(e)}
Slotted == {e \in Executions : handler[e] \in {"running", "stopping"}}

\* A set that gains or loses at most one element is counted by adding or
\* subtracting at most one.
LEMMA Recount ==
  ASSUME CodeBounds, NEW S \in SUBSET Executions, NEW T \in SUBSET Executions, NEW e \in Executions,
         \A p \in Executions : p # e => (p \in S <=> p \in T),
         NEW n, NEW m, n = Cardinality(S),
         m = IF e \in T /\ e \notin S THEN n + 1 ELSE IF e \in S /\ e \notin T THEN n - 1 ELSE n
  PROVE  m = Cardinality(T) /\ m \in Nat
<1>1. IsFiniteSet(S) /\ IsFiniteSet(T)
  BY FS_Subset DEF CodeBounds
<1>2. CASE e \in T /\ e \notin S
  <2>1. T = S \cup {e}
    BY <1>2
  <2> QED
    BY <1>1, <1>2, <2>1, FS_AddElement, FS_CardinalityType
<1>3. CASE e \in S /\ e \notin T
  <2>1. T = S \ {e}
    BY <1>3
  <2> QED
    BY <1>1, <1>3, <2>1, FS_RemoveElement, FS_CardinalityType
<1>4. CASE e \in S <=> e \in T
  <2>1. T = S
    BY <1>4
  <2> QED
    BY <1>1, <1>4, <2>1, FS_CardinalityType
<1> QED
  BY <1>2, <1>3, <1>4

\* The tool takes a place when it admits a call and gives it back when the call
\* ends, or when its last callback does.
LEMMA PlacesKept ==
  ASSUME CodeBounds, TypesOfRuns, NEW e \in Executions, RunOK(e), Step(e), PlacesHeld
  PROVE  PlacesHeld' /\ active' \in Nat /\ tickets' \in Nat
<1> USE DEF toolVars, wireVars, serverVars
<1>0. /\ active = Cardinality(Placed) /\ active <= MaxActive
      /\ tickets = Cardinality(Ticketed) /\ tickets <= MaxConcurrentSessions
  BY DEF PlacesHeld, Placed, Ticketed
<1>1. active \in Nat /\ tickets \in Nat
  BY <1>0, Recount DEF Placed, Ticketed
<1>2. \A p \in Executions : p # e =>
        /\ p \in Placed <=> p \in Placed'
        /\ p \in Ticketed <=> p \in Ticketed'
  BY OthersUnchanged DEF Placed, Ticketed, Admitted, HasTicket, Live
<1>3. /\ active' = IF e \in Placed' /\ e \notin Placed THEN active + 1
                   ELSE IF e \in Placed /\ e \notin Placed' THEN active - 1 ELSE active
      /\ tickets' = IF e \in Ticketed' /\ e \notin Ticketed THEN tickets + 1
                    ELSE IF e \in Ticketed /\ e \notin Ticketed' THEN tickets - 1 ELSE tickets
      /\ active' > active => active < MaxActive
      /\ tickets' > tickets => tickets < MaxConcurrentSessions
  <2>1. CASE Acquire(e)
    <3>1. /\ e \notin Placed /\ e \notin Ticketed /\ e \notin Ticketed' /\ tickets' = tickets
          /\ \/ e \in Placed' /\ active' = active + 1 /\ active < MaxActive
             \/ e \notin Placed' /\ active' = active
      BY <2>1 DEF Acquire, PlaceFree, To, TypesOfRuns, RunOK, CallbackHeld, Placed, Ticketed,
         Admitted, HasTicket
    <3> QED
      BY <1>1, <3>1
  <2>2. CASE AcquireRemoteSession(e)
    <3>1. /\ e \in Placed /\ e \in Placed' /\ active' = active
          /\ e \notin Ticketed /\ e \in Ticketed' /\ tickets' = tickets + 1 /\ tickets < MaxConcurrentSessions
      BY <2>2 DEF AcquireRemoteSession, To, TypesOfRuns, Placed, Ticketed, Admitted, HasTicket
    <3> QED
      BY <1>1, <3>1
  <2>3. CASE Connect(e) \/ ReadMessage(e) \/ CallbackInterrupted(e) \/ CallbackCancelled(e)
    <3>1. /\ e \in Placed /\ e \in Placed' /\ active' = active
          /\ e \in Ticketed /\ e \in Ticketed' /\ tickets' = tickets
      BY <2>3 DEF Connect, ReadMessage, CallbackInterrupted, CallbackCancelled, To, TypesOfRuns,
         Placed, Ticketed, Admitted, HasTicket
    <3> QED
      BY <1>1, <3>1
  <2>4. CASE CancelTool(e)
    <3>1. /\ e \in Placed /\ e \in Placed' /\ active' = active
          /\ (e \in Ticketed <=> e \in Ticketed') /\ tickets' = tickets
      BY <2>4 DEF CancelTool, To, TypesOfRuns, Placed, Ticketed, Admitted, HasTicket
    <3> QED
      BY <1>1, <3>1
  <2>5. CASE Close(e)
    <3>1. /\ e \in Placed /\ e \in Placed' /\ active' = active
          /\ e \in Ticketed /\ e \notin Ticketed' /\ tickets' = tickets - 1
      BY <2>5 DEF Close, To, TypesOfRuns, Placed, Ticketed, Admitted, HasTicket
    <3> QED
      BY <1>1, <3>1
  <2>6. CASE Settle(e)
    <3>1. /\ tool[e] = "draining" /\ tool'[e] = "settled" /\ tickets' = tickets
          /\ Live(e)' <=> Live(e)
          /\ active' = IF Live(e) THEN active ELSE active - 1
      BY <2>6 DEF Settle, AwaitCancelled, Live, To, TypesOfRuns
    <3>2. /\ e \in Placed /\ (e \in Placed' <=> Live(e))
          /\ e \notin Ticketed /\ e \notin Ticketed'
      BY <3>1 DEF Placed, Ticketed, Admitted, HasTicket
    <3> QED
      BY <1>1, <3>1, <3>2
  <2>7. CASE CallbackEnds(e)
    <3>1. /\ Live(e) /\ ~Live(e)' /\ tickets' = tickets
          /\ \/ tool[e] = "calling" /\ tool'[e] = "reading" /\ active' = active
             \/ tool[e] \notin {"calling", "settled"} /\ tool'[e] = tool[e] /\ active' = active
             \/ tool[e] = "settled" /\ tool'[e] = tool[e] /\ active' = active - 1
      BY <2>7 DEF CallbackEnds, Live, To, TypesOfRuns
    <3>2. /\ e \in Placed /\ (e \in Placed' <=> tool[e] # "settled")
          /\ e \in Ticketed <=> e \in Ticketed'
      BY <3>1 DEF Placed, Ticketed, Admitted, HasTicket, RunOK, CallbackHeld
    <3> QED
      BY <1>1, <3>1, <3>2
  <2>8. CASE ServerStep(e) \/ WorkerCalls(e) \/ Fail(e)
    <3>1. UNCHANGED <<tool, callback, active, tickets>>
      BY <2>8 DEF ServerStep, Accept, Handshake, Admit, ScheduleCallback, ReadResponse,
         WorkerFinishes, Fail, StopSession, WorkerCalls
    <3>2. (e \in Placed <=> e \in Placed') /\ (e \in Ticketed <=> e \in Ticketed')
      BY <3>1 DEF Placed, Ticketed, Admitted, HasTicket, Live
    <3> QED
      BY <1>1, <3>1, <3>2
  <2> QED
    BY <2>1, <2>2, <2>3, <2>4, <2>5, <2>6, <2>7, <2>8 DEF Step, RunnerStep
<1>4. active' = Cardinality(Placed') /\ active' \in Nat
  <2>1. Placed \in SUBSET Executions /\ Placed' \in SUBSET Executions
    BY DEF Placed
  <2>2. active = Cardinality(Placed)
    BY <1>0
  <2>3. /\ \A p \in Executions : p # e => (p \in Placed <=> p \in Placed')
        /\ active' = IF e \in Placed' /\ e \notin Placed THEN active + 1
                     ELSE IF e \in Placed /\ e \notin Placed' THEN active - 1 ELSE active
    BY <1>2, <1>3
  <2> HIDE DEF Placed
  <2> QED
    BY <2>1, <2>2, <2>3, Recount
<1>5. tickets' = Cardinality(Ticketed') /\ tickets' \in Nat
  <2>1. Ticketed \in SUBSET Executions /\ Ticketed' \in SUBSET Executions
    BY DEF Ticketed
  <2>2. tickets = Cardinality(Ticketed)
    BY <1>0
  <2>3. /\ \A p \in Executions : p # e => (p \in Ticketed <=> p \in Ticketed')
        /\ tickets' = IF e \in Ticketed' /\ e \notin Ticketed THEN tickets + 1
                     ELSE IF e \in Ticketed /\ e \notin Ticketed' THEN tickets - 1 ELSE tickets
    BY <1>2, <1>3
  <2> HIDE DEF Ticketed
  <2> QED
    BY <2>1, <2>2, <2>3, Recount
<1>6. active' <= MaxActive /\ tickets' <= MaxConcurrentSessions
  BY <1>0, <1>1, <1>3 DEF CodeBounds
<1> QED
  BY <1>4, <1>5, <1>6 DEF PlacesHeld, Placed, Ticketed

\* The server takes a slot when it admits a session and gives it back when the
\* session has been stopped.
LEMMA SlotsKept ==
  ASSUME CodeBounds, TypesOfRuns, NEW e \in Executions, Step(e), SlotsHeld
  PROVE  SlotsHeld' /\ sessions' \in Nat
<1> USE DEF toolVars, wireVars, serverVars
<1>0. sessions = Cardinality(Slotted) /\ sessions <= MaxConcurrentSessions
  BY DEF SlotsHeld, Slotted
<1>1. sessions \in Nat
  BY <1>0, Recount DEF Slotted
<1>2. \A p \in Executions : p # e => (p \in Slotted <=> p \in Slotted')
  BY OthersUnchanged DEF Slotted
<1>3. /\ sessions' = IF e \in Slotted' /\ e \notin Slotted THEN sessions + 1
                     ELSE IF e \in Slotted /\ e \notin Slotted' THEN sessions - 1 ELSE sessions
      /\ sessions' > sessions => sessions < MaxConcurrentSessions
  <2>1. CASE Acquire(e) \/ CallbackEnds(e) \/ CancelTool(e)
    <3>1. UNCHANGED <<handler, sessions>>
      BY <2>1 DEF Acquire, CallbackEnds, CancelTool
    <3> QED
      BY <1>1, <3>1 DEF Slotted
  <2>2. CASE RunnerStep(e)
    <3>1. UNCHANGED <<handler, sessions>>
      BY <2>2 DEF RunnerStep, AcquireRemoteSession, Connect, ReadMessage, CallbackInterrupted,
         CallbackCancelled, Close, Settle
    <3> QED
      BY <1>1, <3>1 DEF Slotted
  <2>3. CASE Accept(e) \/ Handshake(e)
    <3>1. sessions' = sessions /\ e \notin Slotted /\ e \notin Slotted'
      BY <2>3 DEF Accept, Handshake, Handle, TypesOfRuns, Slotted
    <3> QED
      BY <1>1, <3>1
  <2>4. CASE Admit(e)
    <3>1. /\ e \notin Slotted
          /\ \/ e \in Slotted' /\ sessions' = sessions + 1 /\ sessions < MaxConcurrentSessions
             \/ e \notin Slotted' /\ sessions' = sessions
      BY <2>4 DEF Admit, Handle, TypesOfRuns, Slotted
    <3> QED
      BY <1>1, <3>1
  <2>5. CASE ScheduleCallback(e) \/ WorkerCalls(e)
    <3>1. UNCHANGED <<handler, sessions>>
      BY <2>5 DEF ScheduleCallback, WorkerCalls
    <3> QED
      BY <1>1, <3>1 DEF Slotted
  <2>6. CASE ReadResponse(e) \/ WorkerFinishes(e) \/ Fail(e)
    <3>1. sessions' = sessions /\ e \in Slotted /\ e \in Slotted'
      BY <2>6 DEF ReadResponse, WorkerFinishes, Fail, Handle, TypesOfRuns, Slotted
    <3> QED
      BY <1>1, <3>1
  <2>7. CASE StopSession(e)
    <3>1. sessions' = sessions - 1 /\ e \in Slotted /\ e \notin Slotted'
      BY <2>7 DEF StopSession, Handle, TypesOfRuns, Slotted
    <3> QED
      BY <1>1, <3>1
  <2> QED
    BY <2>1, <2>2, <2>3, <2>4, <2>5, <2>6, <2>7 DEF Step, ServerStep
<1>4. sessions' = Cardinality(Slotted') /\ sessions' \in Nat
  <2>1. Slotted \in SUBSET Executions /\ Slotted' \in SUBSET Executions
    BY DEF Slotted
  <2> QED
    BY <1>0, <1>2, <1>3, <2>1, Recount
<1>5. sessions' <= MaxConcurrentSessions
  BY <1>0, <1>1, <1>3 DEF CodeBounds
<1> QED
  BY <1>4, <1>5 DEF SlotsHeld, Slotted

-----------------------------------------------------------------------------
(* The invariant of the whole.                                             *)

CodeInv ==
  /\ TypesOfRuns /\ active \in Nat /\ tickets \in Nat /\ sessions \in Nat
  /\ \A e \in Executions : RunOK(e)
  /\ PlacesHeld /\ SlotsHeld

\* Nothing is taken and no call has begun when the process starts.
LEMMA CodeInvInit ==
  ASSUME CodeBounds, CodeInit
  PROVE  CodeInv
<1>1. TypesOfRuns /\ active = 0 /\ tickets = 0 /\ sessions = 0
  <2>1. [attempts |-> 0, called |-> FALSE, violated |-> FALSE, nested |-> 0]
          \in [attempts : Nat, called : BOOLEAN, violated : BOOLEAN, nested : 0..MaxNested]
    BY DEF CodeBounds
  <2>2. <<>> \in Seq(Kinds \cup {"done", "error"}) /\ 0 \in 0..MaxCancels /\ 0 \in 0..MaxCalls
    BY DEF CodeBounds
  <2> QED
    BY <2>1, <2>2 DEF CodeInit, TypesOfRuns
<1>2. ASSUME NEW e \in Executions
      PROVE  RunOK(e)
  <2>1. /\ tool[e] = "idle" /\ verdict[e] = "none" /\ callback[e] = "none"
        /\ invocation[e].called = FALSE /\ down[e] = <<>>
        /\ handler[e] = "none" /\ worker[e] = "none"
    BY DEF CodeInit
  <2>2. DOMAIN down[e] = {}
    BY <2>1
  <2> QED
    BY <2>1, <2>2 DEF RunOK, CallbackHeld, EndIsLast, VerdictEarned, Live, Alive
<1>3. PlacesHeld /\ SlotsHeld
  <2>1. /\ {e \in Executions : Admitted(e) \/ (tool[e] = "settled" /\ Live(e))} = {}
        /\ {e \in Executions : HasTicket(e)} = {}
        /\ {e \in Executions : handler[e] \in {"running", "stopping"}} = {}
    BY DEF CodeInit, Admitted, HasTicket
  <2> QED
    BY <1>1, <2>1, FS_EmptySet DEF PlacesHeld, SlotsHeld, CodeBounds
<1> QED
  BY <1>1, <1>2, <1>3 DEF CodeInv

\* Every step of an execution keeps what holds of it, leaves the others and
\* counts what it takes and gives back.
LEMMA CodeInvStep ==
  ASSUME CodeBounds, CodeInv, [CodeNext]_codeVars
  PROVE  CodeInv'
<1>1. CASE UNCHANGED codeVars
  <2>1. /\ UNCHANGED <<tool, verdict, callback, invocation, active, tickets, cancels>>
        /\ UNCHANGED <<open, up, down, handler, sessions, worker, calls>>
    BY <1>1 DEF codeVars, toolVars, wireVars, serverVars
  <2>2. TypesOfRuns' /\ active' \in Nat /\ tickets' \in Nat /\ sessions' \in Nat
    BY <2>1 DEF CodeInv, TypesOfRuns
  <2>3. \A e \in Executions : RunOK(e)'
    BY <2>1 DEF CodeInv, RunOK, CallbackHeld, EndIsLast, VerdictEarned, Live, Alive
  <2>4. PlacesHeld' /\ SlotsHeld'
    BY <2>1 DEF CodeInv, PlacesHeld, SlotsHeld, Admitted, HasTicket, Live
  <2> QED
    BY <2>2, <2>3, <2>4 DEF CodeInv
<1>2. ASSUME NEW e \in Executions, Step(e)
      PROVE  CodeInv'
  <2>1. TypesOfRuns' /\ RunOK(e)'
    <3>1. CASE Acquire(e) \/ RunnerStep(e) \/ CallbackEnds(e) \/ CancelTool(e)
      BY <3>1, ToolKeepsRun DEF CodeInv
    <3>2. CASE ServerStep(e) \/ WorkerCalls(e) \/ Fail(e)
      BY <3>2, ServerKeepsRun DEF CodeInv
    <3> QED
      BY <1>2, <3>1, <3>2 DEF Step
  <2>2. ASSUME NEW p \in Executions, p # e
        PROVE  RunOK(p)'
    <3>1. /\ tool'[p] = tool[p] /\ verdict'[p] = verdict[p] /\ callback'[p] = callback[p]
          /\ invocation'[p] = invocation[p] /\ down'[p] = down[p] /\ handler'[p] = handler[p]
          /\ worker'[p] = worker[p]
      BY <1>2, <2>2, OthersUnchanged DEF CodeInv
    <3>2. RunOK(p)
      BY DEF CodeInv
    <3> QED
      BY <3>1, <3>2 DEF RunOK, CallbackHeld, EndIsLast, VerdictEarned, Live, Alive
  <2>3. PlacesHeld' /\ active' \in Nat /\ tickets' \in Nat
    BY <1>2, PlacesKept DEF CodeInv
  <2>4. SlotsHeld' /\ sessions' \in Nat
    BY <1>2, SlotsKept DEF CodeInv
  <2> QED
    BY <2>1, <2>2, <2>3, <2>4 DEF CodeInv
<1>3. CodeNext => \E e \in Executions : Step(e)
  BY DEF CodeNext, Step
<1> QED
  BY <1>1, <1>2, <1>3

\* The invariant holds of every behavior of the tool and the sandbox.
LEMMA CodeInvariance == CodeBounds => (CodeSpec => []CodeInv)
<1> SUFFICES ASSUME CodeBounds
             PROVE  CodeSpec => []CodeInv
  OBVIOUS
<1>1. CodeInit => CodeInv
  BY CodeInvInit
<1>2. CodeInv /\ [CodeNext]_codeVars => CodeInv'
  BY CodeInvStep
<1> QED
  BY <1>1, <1>2, PTL DEF CodeSpec

-----------------------------------------------------------------------------
(* What follows for every execution.                                       *)

\* The counters of the tool and of the server, the queue of messages of every
\* connection and what a run has ended with keep their types.
THEOREM CodeModeTypes == CodeBounds => (CodeSpec => []CodeModeTypeOK)
<1>1. CodeInv => CodeModeTypeOK
  BY DEF CodeInv, TypesOfRuns, CodeModeTypeOK
<1> QED
  BY <1>1, CodeInvariance, PTL

\* Places of the limiter and tickets of connections are taken by at most as
\* many calls as there are, come back exactly once, whatever fails, times out
\* or is interrupted, and a call that leaves a callback alive keeps its place
\* (harness_sdk/tools/codemode.py run_when_callbacks_complete).
THEOREM PlacesComeBack == CodeBounds => (CodeSpec => []PlacesHeld)
<1>1. CodeInv => PlacesHeld
  BY DEF CodeInv
<1> QED
  BY <1>1, CodeInvariance, PTL

\* The server's sessions are those that have or may still have a worker
\* (codemode/sandbox.py _admit and _stop_session).
THEOREM SlotsComeBack == CodeBounds => (CodeSpec => []SlotsHeld)
<1>1. CodeInv => SlotsHeld
  BY DEF CodeInv
<1> QED
  BY <1>1, CodeInvariance, PTL

\* A call returns a value only for one accepted output, no violation and a
\* script that has ended by itself, and no end is sent while the worker lives
\* (harness_sdk/tools/codemode.py, codemode/sandbox.py _fail).
THEOREM ResultIsEarned == CodeBounds => (CodeSpec => []ResultIsOneOutput)
<1>1. CodeInv => ResultIsOneOutput
  <2> SUFFICES ASSUME CodeInv, NEW e \in Executions
               PROVE  /\ verdict[e] = "result" =>
                           /\ invocation[e].attempts = 1 /\ invocation[e].called
                           /\ ~invocation[e].violated /\ worker[e] = "dead"
                      /\ (\E i \in DOMAIN down[e] : down[e][i] \in {"done", "error"}) => ~Alive(e)
    BY DEF ResultIsOneOutput
  <2>1. RunOK(e)
    BY DEF CodeInv
  <2> QED
    BY <2>1 DEF RunOK, EndIsLast, VerdictEarned
<1> QED
  BY <1>1, CodeInvariance, PTL

-----------------------------------------------------------------------------
(* The sessions and the calls of an MCP client.                             *)

\* The bounds are numbers, session ids are finitely many, and the keys of
\* Redis have different names.
SessionsBounds ==
  /\ IsFiniteSet(Sids) /\ Sid \in Sids /\ MaxSessions \in Nat /\ MaxTicks \in Nat
  /\ NoCall \notin Calls
  /\ "registry" \notin Sids \cup Calls /\ "call" \notin Sids \cup Calls
  /\ Sids \cap Calls = {}

\* What a request of one call does, and what the client does to it.
CallStep(c) ==
  \/ Control(c) \/ Renew(c) \/ ToolMessage(c) \/ Stop(c) \/ HandlerStep(c)
  \/ \E body \in Bodies : ClientReply(c, body)

-----------------------------------------------------------------------------
(* Types.                                                                  *)

\* What is renewed is a key.
LEMMA KeysRenewed ==
  ASSUME SessionsBounds, SessionsTypeOK, NEW s \in Sids, NEW c \in Calls
  PROVE  Get(s) \subseteq RedisKeys /\ Polled(c) \subseteq RedisKeys
BY DEF SessionsBounds, Get, Polled, RedisKeys

\* Creations, deletions and the passing of time keep the types.
LEMMA SessionTypes ==
  ASSUME SessionsBounds, SessionsTypeOK,
         \/ Tick \/ SessionCount \/ CancelRequest
         \/ \E c \in Creators : CreateRead(c) \/ CreateExec(c)
         \/ \E s \in Sids : Ready(s) \/ Delete(s)
  PROVE  SessionsTypeOK'
<1> USE DEF SessionsTypeOK
<1>1. CASE Tick
  BY <1>1 DEF Tick, SessionsBounds, CallRecord, NoRecord
<1>2. CASE SessionCount
  BY <1>2 DEF SessionCount, callVars
<1>3. CASE CancelRequest
  <2>1. Get(Sid) \subseteq RedisKeys
    BY DEF SessionsBounds, Get, RedisKeys
  <2>2. record' \in CallRecord
    BY <1>3 DEF CancelRequest, CallRecord
  <2> QED
    BY <1>3, <2>1, <2>2 DEF CancelRequest, sessionVars
<1>4. ASSUME NEW c \in Creators, CreateRead(c)
      PROVE  SessionsTypeOK'
  <2>1. Expired(registry) \in SUBSET Sids
    BY DEF Expired
  <2>2. creator' \in [Creators -> [at : {"idle", "read", "ended"}, seen : SUBSET Sids,
                                   expired : SUBSET Sids]]
    BY <1>4, <2>1 DEF CreateRead
  <2> QED
    BY <1>4, <2>2 DEF CreateRead, callVars
<1>5. ASSUME NEW c \in Creators, CreateExec(c)
      PROVE  SessionsTypeOK'
  <2>1. UNCHANGED callVars /\ UNCHANGED ticks
    BY <1>5 DEF CreateExec
  <2>2. creator' \in [Creators -> [at : {"idle", "read", "ended"}, seen : SUBSET Sids,
                                   expired : SUBSET Sids]]
    BY <1>5 DEF CreateExec
  <2>3. /\ session' \in [Sids -> {"none", "created", "ready"}]
        /\ registry' \subseteq Sids /\ used' \subseteq Sids /\ fresh' \subseteq RedisKeys
    BY <1>5 DEF CreateExec, RedisKeys
  <2> QED
    BY <2>1, <2>2, <2>3 DEF callVars
<1>6. ASSUME NEW s \in Sids, Ready(s) \/ Delete(s)
      PROVE  SessionsTypeOK'
  <2>1. Get(s) \subseteq RedisKeys
    BY DEF Get, RedisKeys
  <2> QED
    BY <1>6, <2>1 DEF Ready, Delete, callVars
<1> QED
  BY <1>1, <1>2, <1>3, <1>4, <1>5, <1>6

\* The requests of a call and the client's replies keep the types.
LEMMA CallTypes ==
  ASSUME SessionsBounds, SessionsTypeOK, NEW c \in Calls, CallStep(c)
  PROVE  SessionsTypeOK'
<1> USE DEF SessionsTypeOK
<1>0. /\ Get(Sid) \subseteq RedisKeys /\ Polled(c) \subseteq RedisKeys
      /\ {"call"} \subseteq RedisKeys /\ {c} \subseteq RedisKeys
  BY KeysRenewed DEF SessionsBounds, RedisKeys
<1>1. ASSUME NEW s \in CallStates, Moves(c, s)
      PROVE  call' \in [Calls -> CallStates]
  BY <1>1 DEF Moves
<1>2. call' \in [Calls -> CallStates]
  <2>1. CASE Control(c) \/ Renew(c) \/ ToolMessage(c) \/ Stop(c)
    BY <1>1, <2>1 DEF Control, Renew, ToolMessage, Stop, CallStates
  <2>2. CASE Start(c) \/ Acquired(c) \/ Poll(c)
    BY <1>1, <2>2 DEF Start, Acquired, Poll, CallStates
  <2>3. CASE Acknowledge(c) \/ Finish(c) \/ ReleaseCall(c)
    BY <1>1, <2>3 DEF Acknowledge, Finish, ReleaseCall, CallStates
  <2>4. CASE \E body \in Bodies : ClientReply(c, body)
    BY <2>4 DEF ClientReply
  <2> QED
    BY <2>1, <2>2, <2>3, <2>4 DEF CallStep, HandlerStep
<1>3. CASE Control(c)
  BY <1>0, <1>2, <1>3 DEF Control, sessionVars
<1>4. CASE Renew(c) \/ Acquired(c)
  BY <1>0, <1>2, <1>4 DEF Renew, Acquired, sessionVars
<1>5. CASE Start(c)
  <2>1. record' \in CallRecord /\ fresh' \subseteq RedisKeys
    <3>1. [by |-> c, cancelled |-> FALSE] \in CallRecord
      BY DEF CallRecord
    <3>2. \/ record' = [by |-> c, cancelled |-> FALSE] /\ fresh' = fresh \cup {"call"}
          \/ record' = record /\ fresh' = fresh
      BY <1>5 DEF Start
    <3> QED
      BY <1>0, <3>1, <3>2
  <2>2. UNCHANGED <<sessionVars, mailbox, activeCalls, pending, taken, accepted, delivered, credentials, ticks>>
    BY <1>5 DEF Start
  <2> QED
    BY <1>2, <2>1, <2>2 DEF sessionVars
<1>6. CASE ToolMessage(c)
  BY <1>0, <1>2, <1>6 DEF ToolMessage, sessionVars
<1>7. CASE Poll(c)
  BY <1>0, <1>2, <1>7 DEF Poll, sessionVars, Bodies
<1>8. CASE Acknowledge(c) \/ Stop(c)
  BY <1>2, <1>8 DEF Acknowledge, Stop, sessionVars
<1>9. CASE Finish(c) \/ ReleaseCall(c)
  <2>1. record' \in CallRecord /\ fresh' \subseteq RedisKeys
    <3>1. NoRecord \in CallRecord
      BY DEF CallRecord, NoRecord
    <3>2. /\ record' = NoRecord \/ record' = record
          /\ fresh' \subseteq fresh
      BY <1>9 DEF Finish, ReleaseCall
    <3> QED
      BY <3>1, <3>2
  <2>2. /\ UNCHANGED <<sessionVars, taken, accepted, delivered, credentials, ticks>>
        /\ mailbox' \in [Calls -> {"none", "empty"} \cup Bodies]
        /\ activeCalls' \subseteq Calls /\ pending' \subseteq Calls
    BY <1>9 DEF Finish, ReleaseCall
  <2> QED
    BY <1>2, <2>1, <2>2 DEF sessionVars
<1>10. CASE \E body \in Bodies : ClientReply(c, body)
  BY <1>0, <1>2, <1>10 DEF ClientReply, Told, sessionVars, Bodies
<1> QED
  BY <1>3, <1>4, <1>5, <1>6, <1>7, <1>8, <1>9, <1>10 DEF CallStep, HandlerStep

-----------------------------------------------------------------------------
(* The sessions of a server.                                               *)

\* The registry is renewed with every session it lists, and what an initialize
\* request has read of it stays true until it changes: what had expired then
\* stays so, for its id is never given out again.
RegistryOK ==
  /\ registry \subseteq used
  /\ \A s \in Sids : LiveSession(s) => s \in registry /\ (s \in fresh => "registry" \in fresh)
  /\ \A c \in Creators : creator[c].at = "read" =>
       /\ creator[c].expired \subseteq creator[c].seen /\ creator[c].seen \subseteq used
       /\ \A s \in creator[c].expired : ~LiveSession(s)
       /\ Cardinality(creator[c].seen) - Cardinality(creator[c].expired) < MaxSessions

LiveSessions == {s \in Sids : LiveSession(s)}

\* What the requests of a session renew or delete keeps the registry as fresh
\* as its sessions.
LEMMA FreshKept ==
  ASSUME SessionsBounds, SessionsTypeOK, RegistryOK, UNCHANGED sessionVars,
         \/ \E more \in SUBSET RedisKeys :
              more \cap Sids = {} /\ fresh' = fresh \cup more
         \/ \E more \in SUBSET RedisKeys :
              more \cap Sids = {} /\ fresh' = fresh \cup Get(Sid) \cup more
         \/ \E k \in Calls \cup {"call"} : fresh' = fresh \ {k}
  PROVE  RegistryOK' /\ LiveSessions' = LiveSessions
<1>1. UNCHANGED <<session, registry, used, creator>>
  BY DEF sessionVars
<1>2. \A s \in Sids : LiveSession(s) => s \in registry
  BY DEF RegistryOK
<1>3. \A s \in Sids : LiveSession(s) /\ s \in fresh' => "registry" \in fresh'
  <2> SUFFICES ASSUME NEW s \in Sids, LiveSession(s), s \in fresh'
               PROVE  "registry" \in fresh'
    OBVIOUS
  <2>1. s \in registry /\ registry # {}
    BY <1>2
  <2>2. s \in fresh => "registry" \in fresh
    BY DEF RegistryOK
  <2>3. CASE \E more \in SUBSET RedisKeys : more \cap Sids = {} /\ fresh' = fresh \cup more
    BY <2>2, <2>3
  <2>4. CASE \E more \in SUBSET RedisKeys : more \cap Sids = {} /\ fresh' = fresh \cup Get(Sid) \cup more
    <3>1. s \in fresh \/ s \in Get(Sid)
      BY <2>4
    <3>2. s \in Get(Sid) => "registry" \in Get(Sid)
      BY <2>1 DEF Get, SessionsBounds
    <3> QED
      BY <2>2, <2>4, <3>1, <3>2
  <2>5. CASE \E k \in Calls \cup {"call"} : fresh' = fresh \ {k}
    BY <2>2, <2>5 DEF SessionsBounds
  <2> QED
    BY <2>3, <2>4, <2>5
<1> QED
  BY <1>1, <1>2, <1>3 DEF RegistryOK, LiveSessions, LiveSession

\* The requests of a call leave the sessions as they are.
LEMMA CallKeepsRegistry ==
  ASSUME SessionsBounds, SessionsTypeOK, RegistryOK, CancelRequest \/ \E c \in Calls : CallStep(c)
  PROVE  RegistryOK' /\ LiveSessions' = LiveSessions
<1>1. CASE CancelRequest
  <2>1. UNCHANGED sessionVars /\ fresh' = fresh \cup Get(Sid) \cup {}
    BY <1>1 DEF CancelRequest
  <2> QED
    BY <2>1, FreshKept
<1>2. ASSUME NEW c \in Calls, CallStep(c)
      PROVE  RegistryOK' /\ LiveSessions' = LiveSessions
  <2>0. c \in RedisKeys /\ c \notin Sids /\ "call" \in RedisKeys /\ "call" \notin Sids
    BY DEF RedisKeys, SessionsBounds
  <2>1. CASE Control(c) \/ \E body \in Bodies : ClientReply(c, body)
    <3>1. UNCHANGED sessionVars /\ fresh' = fresh \cup Get(Sid) \cup {}
      BY <2>1 DEF Control, ClientReply
    <3> QED
      BY <3>1, FreshKept
  <2>2. CASE Renew(c) \/ Acquired(c) \/ Poll(c)
    <3>1. UNCHANGED sessionVars /\ fresh' = fresh \cup Polled(c)
      BY <2>2 DEF Renew, Acquired, Poll
    <3>2. PICK more \in SUBSET {"call", c} : Polled(c) = Get(Sid) \cup more
      BY DEF Polled
    <3>3. more \in SUBSET RedisKeys /\ more \cap Sids = {} /\ fresh' = fresh \cup Get(Sid) \cup more
      BY <2>0, <3>1, <3>2
    <3> QED
      BY <3>1, <3>3, FreshKept
  <2>3. CASE Start(c) \/ ToolMessage(c) \/ Stop(c)
    <3>1. /\ UNCHANGED sessionVars
          /\ fresh' = fresh \cup {} \/ fresh' = fresh \cup {c} \/ fresh' = fresh \cup {"call"}
      BY <2>3 DEF Start, ToolMessage, Stop
    <3> QED
      BY <2>0, <3>1, FreshKept
  <2>4. CASE Acknowledge(c) \/ Finish(c) \/ ReleaseCall(c)
    <3>1. /\ UNCHANGED sessionVars
          /\ fresh' = fresh \cup {} \/ fresh' = fresh \ {c} \/ fresh' = fresh \ {"call"}
      BY <2>4 DEF Acknowledge, Finish, ReleaseCall
    <3> QED
      BY <2>0, <3>1, FreshKept
  <2> QED
    BY <1>2, <2>1, <2>2, <2>3, <2>4 DEF CallStep, HandlerStep
<1> QED
  BY <1>1, <1>2

\* Creations, deletions, counting and time keep the registry and the number of
\* sessions, however they interleave.
LEMMA SessionsKeepRegistry ==
  ASSUME SessionsBounds, SessionsTypeOK, RegistryOK, Cardinality(LiveSessions) <= MaxSessions,
         \/ Tick \/ SessionCount
         \/ \E c \in Creators : CreateRead(c) \/ CreateExec(c)
         \/ \E s \in Sids : Ready(s) \/ Delete(s)
  PROVE  RegistryOK' /\ Cardinality(LiveSessions') <= MaxSessions
<1>0. /\ LiveSessions \in SUBSET Sids /\ IsFiniteSet(LiveSessions)
      /\ Cardinality(LiveSessions) \in Nat /\ IsFiniteSet(registry)
      /\ \A T \in SUBSET LiveSessions : Cardinality(T) <= MaxSessions
  <2>1. LiveSessions \in SUBSET Sids /\ registry \in SUBSET Sids
    BY DEF LiveSessions, SessionsTypeOK
  <2>2. IsFiniteSet(LiveSessions) /\ IsFiniteSet(registry)
    BY <2>1, FS_Subset DEF SessionsBounds
  <2>3. Cardinality(LiveSessions) \in Nat
    BY <2>2, FS_CardinalityType
  <2>4. ASSUME NEW T \in SUBSET LiveSessions
        PROVE  Cardinality(T) <= MaxSessions
    <3>1. Cardinality(T) <= Cardinality(LiveSessions) /\ Cardinality(T) \in Nat
      BY <2>2, FS_Subset, FS_CardinalityType
    <3> QED
      BY <2>3, <3>1 DEF SessionsBounds
  <2> QED
    BY <2>1, <2>2, <2>3, <2>4
<1>1. CASE Tick
  <2>1. /\ \A s \in Sids : LiveSession(s)' => LiveSession(s) /\ s \in fresh
        /\ fresh' = {} /\ UNCHANGED <<creator, used>>
        /\ registry' = IF "registry" \in fresh THEN registry ELSE {}
    BY <1>1 DEF Tick, LiveSession
  <2>2. RegistryOK'
    <3>1. registry' \subseteq used'
      BY <2>1 DEF RegistryOK
    <3>2. \A s \in Sids : LiveSession(s)' => s \in registry' /\ s \notin fresh'
      BY <2>1 DEF RegistryOK
    <3>3. ASSUME NEW c \in Creators, creator[c].at = "read"
          PROVE  \A s \in creator[c].expired : ~LiveSession(s)'
      BY <2>1, <3>3 DEF RegistryOK, SessionsTypeOK
    <3> QED
      BY <2>1, <3>1, <3>2, <3>3 DEF RegistryOK
  <2>3. LiveSessions' \in SUBSET LiveSessions
    BY <2>1 DEF LiveSessions
  <2> QED
    BY <1>0, <2>2, <2>3
<1>2. CASE SessionCount
  <2>1. UNCHANGED <<session, creator, used, fresh>> /\ registry' = registry \ Expired(registry)
    BY <1>2 DEF SessionCount
  <2>2. RegistryOK'
    BY <2>1 DEF RegistryOK, LiveSession, Expired
  <2>3. LiveSessions' = LiveSessions
    BY <2>1 DEF LiveSessions, LiveSession
  <2> QED
    BY <2>2, <2>3
<1>3. ASSUME NEW c \in Creators, CreateRead(c)
      PROVE  RegistryOK' /\ LiveSessions' = LiveSessions
  <2>1. UNCHANGED <<session, registry, used, fresh>>
    BY <1>3 DEF CreateRead
  <2>2. Expired(registry) \subseteq registry /\ \A s \in Expired(registry) : ~LiveSession(s)
    BY DEF Expired
  <2>3. Cardinality(registry) \in Nat /\ Cardinality(Expired(registry)) \in Nat
    BY <1>0, <2>2, FS_Subset, FS_CardinalityType
  <2>4. ASSUME NEW d \in Creators, creator'[d].at = "read"
        PROVE  /\ creator'[d].expired \subseteq creator'[d].seen /\ creator'[d].seen \subseteq used
               /\ \A s \in creator'[d].expired : ~LiveSession(s)
               /\ Cardinality(creator'[d].seen) - Cardinality(creator'[d].expired) < MaxSessions
    <3>1. CASE d # c
      <4>1. creator'[d] = creator[d]
        BY <1>3, <3>1 DEF CreateRead, SessionsTypeOK
      <4> QED
        BY <2>4, <4>1 DEF RegistryOK
    <3>2. CASE d = c
      <4>1. /\ creator'[c].seen = registry /\ creator'[c].expired = Expired(registry)
            /\ ~(Cardinality(registry) - Cardinality(Expired(registry)) >= MaxSessions)
        BY <1>3, <2>4, <3>2 DEF CreateRead, SessionsTypeOK
      <4>2. Cardinality(registry) - Cardinality(Expired(registry)) < MaxSessions
        BY <2>3, <4>1 DEF SessionsBounds
      <4> QED
        BY <2>2, <3>2, <4>1, <4>2 DEF RegistryOK
    <3> QED
      BY <3>1, <3>2
  <2>5. \A s \in Sids : LiveSession(s)' <=> LiveSession(s)
    BY <2>1 DEF LiveSession
  <2>6. \A d \in Creators : creator'[d].at = "read" => \A s \in creator'[d].expired : ~LiveSession(s)'
    BY <2>1, <2>4 DEF LiveSession
  <2> QED
    BY <2>1, <2>4, <2>5, <2>6 DEF RegistryOK, LiveSessions
<1>4. ASSUME NEW c \in Creators, CreateExec(c)
      PROVE  RegistryOK' /\ Cardinality(LiveSessions') <= MaxSessions
  <2>1. CASE registry # creator[c].seen
    <3>1. /\ UNCHANGED <<session, registry, used, fresh>>
          /\ \A d \in Creators : creator'[d].at = "read" => creator'[d] = creator[d]
      BY <1>4, <2>1 DEF CreateExec, SessionsTypeOK
    <3>2. RegistryOK'
      BY <3>1 DEF RegistryOK, LiveSession
    <3>3. LiveSessions' = LiveSessions
      BY <3>1 DEF LiveSessions, LiveSession
    <3> QED
      BY <3>2, <3>3
  <2>2. CASE registry = creator[c].seen
    <3> DEFINE gone == creator[c].expired
    <3>1. PICK s \in Sids \ used :
            /\ \A d \in Creators : creator'[d].at = "read" => creator'[d] = creator[d]
            /\ used' = used \cup {s}
            /\ session' = [session EXCEPT ![s] = "created"]
            /\ registry' = (registry \ gone) \cup {s}
            /\ fresh' = fresh \cup {s, "registry"}
      BY <1>4, <2>2 DEF CreateExec, SessionsTypeOK
    <3>2. /\ gone \subseteq registry /\ registry \subseteq used
          /\ \A t \in gone : ~LiveSession(t)
          /\ Cardinality(registry) - Cardinality(gone) < MaxSessions
      BY <1>4, <2>2 DEF RegistryOK, CreateExec
    <3>3. \A t \in Sids : LiveSession(t)' => t = s \/ LiveSession(t)
      BY <3>1 DEF LiveSession, SessionsTypeOK
    <3>4. RegistryOK'
      <4>1. registry' \subseteq used'
        BY <3>1, <3>2
      <4>2. \A t \in Sids : LiveSession(t)' => t \in registry' /\ "registry" \in fresh'
        BY <3>1, <3>2, <3>3 DEF RegistryOK
      <4>3. ASSUME NEW d \in Creators, creator'[d].at = "read"
            PROVE  /\ creator'[d].expired \subseteq creator'[d].seen
                   /\ creator'[d].seen \subseteq used'
                   /\ \A t \in creator'[d].expired : ~LiveSession(t)'
                   /\ Cardinality(creator'[d].seen) - Cardinality(creator'[d].expired) < MaxSessions
        <5>1. creator'[d] = creator[d]
          BY <3>1, <4>3
        <5>2. creator[d].expired \subseteq creator[d].seen /\ creator[d].seen \subseteq used
          BY <4>3, <5>1 DEF RegistryOK
        <5>3. \A t \in creator[d].expired : ~LiveSession(t)'
          BY <3>1, <3>3, <4>3, <5>1, <5>2 DEF RegistryOK, SessionsTypeOK
        <5> QED
          BY <3>1, <4>3, <5>1, <5>2, <5>3 DEF RegistryOK
      <4> QED
        BY <4>1, <4>2, <4>3 DEF RegistryOK
    <3>5. Cardinality(LiveSessions') <= MaxSessions
      <4> DEFINE rest == registry \ gone
      <4>1. IsFiniteSet(rest) /\ Cardinality(rest) = Cardinality(registry) - Cardinality(gone)
        <5>1. registry \cap gone = gone
          BY <3>2
        <5> QED
          BY <1>0, <5>1, FS_Difference
      <4>2. LiveSessions' \in SUBSET (rest \cup {s})
        BY <3>2, <3>3 DEF RegistryOK, LiveSessions
      <4>3. IsFiniteSet(rest \cup {s}) /\ Cardinality(rest \cup {s}) <= Cardinality(rest) + 1
        <5>1. Cardinality(rest) \in Nat
          BY <4>1, FS_CardinalityType
        <5>2. Cardinality(rest \cup {s}) \in {Cardinality(rest), Cardinality(rest) + 1}
          BY <4>1, FS_AddElement
        <5>3. IsFiniteSet(rest \cup {s})
          BY <4>1, FS_AddElement
        <5> QED
          BY <5>1, <5>2, <5>3
      <4>4. /\ IsFiniteSet(LiveSessions') /\ Cardinality(LiveSessions') \in Nat
            /\ Cardinality(LiveSessions') <= Cardinality(rest \cup {s})
        BY <4>2, <4>3, FS_Subset, FS_CardinalityType
      <4>5. Cardinality(rest) \in Nat /\ Cardinality(rest \cup {s}) \in Nat
        BY <4>1, <4>3, FS_CardinalityType
      <4>6. Cardinality(rest) < MaxSessions
        BY <3>2, <4>1
      <4> QED
        BY <4>3, <4>4, <4>5, <4>6 DEF SessionsBounds
    <3> QED
      BY <3>4, <3>5
  <2> QED
    BY <2>1, <2>2
<1>5. ASSUME NEW s \in Sids, Ready(s) \/ Delete(s)
      PROVE  RegistryOK' /\ LiveSessions' \in SUBSET LiveSessions
  <2>1. /\ UNCHANGED <<registry, used, creator>> /\ LiveSession(s)
        /\ \A t \in Sids : LiveSession(t)' => LiveSession(t)
        /\ \A t \in Sids : LiveSession(t)' /\ t \in fresh' => t \in fresh \/ t \in Get(s)
        /\ fresh \cup Get(s) \subseteq fresh' \cup {s}
    BY <1>5 DEF Ready, Delete, LiveSession, SessionsTypeOK
  <2>2. "registry" \in Get(s) /\ "registry" # s
    BY <2>1 DEF Get, RegistryOK, SessionsBounds
  <2>3. RegistryOK'
    BY <2>1, <2>2 DEF RegistryOK, SessionsTypeOK
  <2>4. LiveSessions' \in SUBSET LiveSessions
    BY <2>1 DEF LiveSessions
  <2> QED
    BY <2>3, <2>4
<1> QED
  BY <1>0, <1>1, <1>2, <1>3, <1>4, <1>5

-----------------------------------------------------------------------------
(* The replies of the client.                                              *)

\* A mailbox that is there holds what was taken, and the client was told of
\* nothing else; a request that serves and has no reply has not asked yet.
MailboxOK(c) ==
  /\ mailbox[c] = "empty" => taken[c] = {} /\ delivered[c] = "none"
  /\ mailbox[c] \in Bodies => taken[c] = {mailbox[c]}
  /\ mailbox[c] # "none" => accepted[c] = taken[c]
  /\ call[c] \in {"idle", "refused", "starting", "acquiring", "serving"} /\ delivered[c] = "none" =>
       mailbox[c] = "none" /\ taken[c] = {} /\ accepted[c] = {} /\ c \notin pending
  /\ call[c] = "acknowledge" => delivered[c] # "none"
  /\ delivered[c] # "none" => taken[c] = {delivered[c]}

\* A step of one call leaves the mailboxes of the others alone.
LEMMA OtherMailboxes ==
  ASSUME SessionsTypeOK, NEW c \in Calls, CallStep(c), NEW d \in Calls, d # c
  PROVE  /\ mailbox'[d] = mailbox[d] /\ taken'[d] = taken[d] /\ accepted'[d] = accepted[d]
         /\ delivered'[d] = delivered[d] /\ call'[d] = call[d] /\ (d \in pending' <=> d \in pending)
<1> USE DEF SessionsTypeOK, Moves
<1>1. CASE Control(c) \/ Renew(c) \/ ToolMessage(c) \/ Stop(c)
  BY <1>1 DEF Control, Renew, ToolMessage, Stop
<1>2. CASE Start(c) \/ Acquired(c) \/ Poll(c)
  BY <1>2 DEF Start, Acquired, Poll
<1>3. CASE Acknowledge(c) \/ Finish(c) \/ ReleaseCall(c)
  BY <1>3 DEF Acknowledge, Finish, ReleaseCall
<1>4. CASE \E body \in Bodies : ClientReply(c, body)
  BY <1>4 DEF ClientReply, Told
<1> QED
  BY <1>1, <1>2, <1>3, <1>4 DEF CallStep, HandlerStep

\* What a request of a call, and a reply to it, do to its mailbox.
LEMMA CallKeepsMailbox ==
  ASSUME SessionsTypeOK, NEW c \in Calls, MailboxOK(c), CallStep(c)
  PROVE  MailboxOK(c)'
<1> USE DEF SessionsTypeOK
<1>1. CASE Control(c) \/ Renew(c) \/ Stop(c) \/ Start(c) \/ Acquired(c) \/ Finish(c)
  <2>1. UNCHANGED <<mailbox, pending, taken, accepted, delivered>>
    BY <1>1 DEF Control, Renew, Stop, Start, Acquired, Finish
  <2>2. /\ call'[c] # "acknowledge"
        /\ call'[c] \in {"idle", "refused", "starting", "acquiring", "serving"} =>
             call[c] \in {"idle", "refused", "starting", "acquiring", "serving"}
    BY <1>1 DEF Control, Renew, Stop, Start, Acquired, Finish, Moves
  <2> QED
    BY <2>1, <2>2 DEF MailboxOK
<1>2. CASE ToolMessage(c)
  <2>1. CASE call'[c] = "asking" /\ mailbox'[c] = "empty" /\ delivered[c] = "none"
    <3>1. call[c] = "serving" /\ UNCHANGED <<taken, accepted, delivered>>
      BY <1>2 DEF ToolMessage
    <3> QED
      BY <2>1, <3>1 DEF MailboxOK, Bodies
  <2>2. CASE UNCHANGED <<mailbox, pending>> /\ call'[c] \in {"serving", "cleanup"}
    <3>1. call[c] = "serving" /\ UNCHANGED <<taken, accepted, delivered>>
      BY <1>2 DEF ToolMessage
    <3> QED
      BY <2>2, <3>1 DEF MailboxOK
  <2> QED
    BY <1>2, <2>1, <2>2 DEF ToolMessage, Moves
<1>3. CASE Poll(c)
  <2>1. UNCHANGED <<mailbox, taken, accepted>> /\ call[c] \in {"serving", "asking"}
    BY <1>3 DEF Poll
  <2>2. CASE call'[c] = "acknowledge"
    <3>1. mailbox[c] \in Bodies /\ delivered'[c] = mailbox[c]
      BY <1>3, <2>1, <2>2 DEF Poll, Moves
    <3> QED
      BY <2>1, <2>2, <3>1 DEF MailboxOK, Bodies
  <2>3. CASE call'[c] # "acknowledge"
    <3>1. /\ delivered'[c] = delivered[c] /\ pending' = pending
          /\ call'[c] = call[c] \/ call'[c] = "cancelled"
      BY <1>3, <2>3 DEF Poll, Moves
    <3> QED
      BY <2>1, <2>3, <3>1 DEF MailboxOK
  <2> QED
    BY <2>2, <2>3
<1>4. CASE Acknowledge(c)
  <2>1. /\ call[c] = "acknowledge" /\ UNCHANGED <<taken, accepted, delivered>>
        /\ mailbox'[c] = "none" /\ call'[c] \in {"serving", "cleanup"}
    BY <1>4 DEF Acknowledge, Moves
  <2> QED
    BY <2>1 DEF MailboxOK, Bodies
<1>5. CASE ReleaseCall(c)
  <2>1. /\ call'[c] = "ended" /\ UNCHANGED <<taken, accepted, delivered>>
        /\ mailbox'[c] = "none" \/ mailbox' = mailbox
    BY <1>5 DEF ReleaseCall, Moves
  <2> QED
    BY <2>1 DEF MailboxOK, Bodies
<1>6. ASSUME NEW body \in Bodies, ClientReply(c, body)
      PROVE  MailboxOK(c)'
  <2>1. /\ UNCHANGED <<call, pending, delivered>> /\ (c \in pending \/ delivered[c] # "none")
        /\ mailbox'[c] = IF mailbox[c] = "empty" THEN body ELSE mailbox[c]
        /\ taken'[c] = IF mailbox[c] \in {"empty", body} THEN taken[c] \cup {body} ELSE taken[c]
        /\ accepted'[c] = IF mailbox[c] \in {"none", "empty", body} THEN accepted[c] \cup {body}
                          ELSE accepted[c]
    BY <1>6 DEF ClientReply, Told, Asked
  <2>2. CASE mailbox[c] = "empty"
    BY <2>1, <2>2 DEF MailboxOK, Bodies
  <2>3. CASE mailbox[c] = "none"
    <3>1. taken'[c] = taken[c] /\ mailbox'[c] = "none"
      BY <2>1, <2>3 DEF Bodies
    <3> QED
      BY <2>1, <2>3, <3>1 DEF MailboxOK, Bodies
  <2>4. CASE mailbox[c] \in Bodies
    <3>1. taken'[c] = taken[c] /\ accepted'[c] = accepted[c] /\ mailbox'[c] = mailbox[c]
      BY <2>1, <2>4 DEF MailboxOK, Bodies
    <3> QED
      BY <2>1, <3>1 DEF MailboxOK
  <2> QED
    BY <2>2, <2>3, <2>4
<1> QED
  BY <1>1, <1>2, <1>3, <1>4, <1>5, <1>6 DEF CallStep, HandlerStep

\* Time empties the mailboxes nobody has renewed.
LEMMA TimeKeepsMailboxes ==
  ASSUME SessionsTypeOK, NEW c \in Calls, MailboxOK(c),
         UNCHANGED <<pending, taken, accepted, delivered, call>>, mailbox'[c] \in {mailbox[c], "none"}
  PROVE  MailboxOK(c)'
BY DEF MailboxOK, Bodies

-----------------------------------------------------------------------------
(* The record of the active call.                                          *)

\* Until the clean-up of the call that holds the record has been done, nobody but
\* time takes the record away.
LEMMA RecordKept ==
  ASSUME SessionsBounds, SessionsTypeOK, [SessionsNext]_transportVars, record.by # NoCall, record'.by # record.by
  PROVE  call[record.by] = "cleanup" \/ "call" \notin fresh
<1>1. record' # record
  OBVIOUS
<1>2. CASE Tick
  BY <1>1, <1>2 DEF Tick
<1>3. CASE CancelRequest
  <2>1. record'.by = record.by
    BY <1>3 DEF CancelRequest, SessionsTypeOK, CallRecord
  <2> QED
    BY <2>1
<1>4. ASSUME NEW c \in Calls, CallStep(c)
      PROVE  call[record.by] = "cleanup"
  <2>1. CASE Start(c)
    <3>1. record = NoRecord
      BY <1>1, <2>1 DEF Start
    <3> QED
      BY <3>1 DEF NoRecord
  <2>2. CASE Finish(c)
    BY <1>1, <2>2 DEF Finish
  <2>3. CASE ~Start(c) /\ ~Finish(c)
    <3>1. UNCHANGED record
      BY <1>4, <2>3 DEF CallStep, HandlerStep, Control, Renew, ToolMessage, Stop, Acquired, Poll,
         Acknowledge, ReleaseCall, ClientReply
    <3> QED
      BY <1>1, <3>1
  <2> QED
    BY <2>1, <2>2, <2>3
<1>5. CASE \/ SessionCount
           \/ \E c \in Creators : CreateRead(c) \/ CreateExec(c)
           \/ \E s \in Sids : Ready(s) \/ Delete(s)
  BY <1>1, <1>5 DEF SessionCount, CreateRead, CreateExec, Ready, Delete, callVars
<1>6. CASE UNCHANGED transportVars
  BY <1>1, <1>6 DEF transportVars, callVars
<1> QED
  BY <1>2, <1>3, <1>4, <1>5, <1>6 DEF SessionsNext, CallStep

-----------------------------------------------------------------------------
(* The invariant of the whole.                                             *)

SessionsInv ==
  /\ SessionsTypeOK /\ RegistryOK
  /\ Cardinality(LiveSessions) <= MaxSessions
  /\ \A c \in Calls : MailboxOK(c)

\* A Redis without keys, and a replica that has served nothing.
LEMMA SessionsInvInit ==
  ASSUME SessionsBounds, SessionsInit
  PROVE  SessionsInv
<1>1. SessionsTypeOK
  BY DEF SessionsInit, SessionsTypeOK, SessionsBounds, CallRecord, NoRecord, CallStates
<1>2. \A s \in Sids : ~LiveSession(s)
  BY DEF SessionsInit, LiveSession
<1>3. RegistryOK
  BY <1>2 DEF SessionsInit, RegistryOK
<1>4. Cardinality(LiveSessions) <= MaxSessions
  <2>1. LiveSessions = {}
    BY <1>2 DEF LiveSessions
  <2> QED
    BY <2>1, FS_EmptySet DEF SessionsBounds
<1>5. \A c \in Calls : MailboxOK(c)
  BY DEF SessionsInit, MailboxOK, Bodies
<1> QED
  BY <1>1, <1>3, <1>4, <1>5 DEF SessionsInv

\* Every request, reply and tick of time keeps it.
LEMMA SessionsInvStep ==
  ASSUME SessionsBounds, SessionsInv, [SessionsNext]_transportVars
  PROVE  SessionsInv'
<1> USE DEF SessionsInv
<1>1. CASE \/ Tick \/ SessionCount
           \/ \E c \in Creators : CreateRead(c) \/ CreateExec(c)
           \/ \E s \in Sids : Ready(s) \/ Delete(s)
  <2>1. SessionsTypeOK' /\ RegistryOK' /\ Cardinality(LiveSessions') <= MaxSessions
    BY <1>1, SessionTypes, SessionsKeepRegistry
  <2>2. /\ UNCHANGED <<pending, taken, accepted, delivered, call>>
        /\ \A c \in Calls : mailbox'[c] \in {mailbox[c], "none"}
    BY <1>1 DEF Tick, SessionCount, CreateRead, CreateExec, Ready, Delete, callVars
  <2>3. \A c \in Calls : MailboxOK(c)'
    BY <2>2, TimeKeepsMailboxes
  <2> QED
    BY <2>1, <2>3
<1>2. CASE CancelRequest
  <2>1. SessionsTypeOK' /\ RegistryOK' /\ LiveSessions' = LiveSessions
    BY <1>2, SessionTypes, CallKeepsRegistry
  <2>2. UNCHANGED <<mailbox, pending, taken, accepted, delivered, call>>
    BY <1>2 DEF CancelRequest
  <2>3. \A c \in Calls : MailboxOK(c)'
    BY <2>2, TimeKeepsMailboxes
  <2> QED
    BY <2>1, <2>3
<1>3. ASSUME NEW c \in Calls, CallStep(c)
      PROVE  SessionsInv'
  <2>1. SessionsTypeOK' /\ RegistryOK' /\ LiveSessions' = LiveSessions
    BY <1>3, CallTypes, CallKeepsRegistry
  <2>2. MailboxOK(c)'
    BY <1>3, CallKeepsMailbox
  <2>3. ASSUME NEW d \in Calls, d # c
        PROVE  MailboxOK(d)'
    <3>1. /\ mailbox'[d] = mailbox[d] /\ taken'[d] = taken[d] /\ accepted'[d] = accepted[d]
          /\ delivered'[d] = delivered[d] /\ call'[d] = call[d] /\ (d \in pending' <=> d \in pending)
      BY <1>3, <2>3, OtherMailboxes
    <3> QED
      BY <3>1 DEF MailboxOK
  <2> QED
    BY <2>1, <2>2, <2>3
<1>4. CASE UNCHANGED transportVars
  <2>1. UNCHANGED <<session, registry, creator, used, fresh, ticks>> /\ UNCHANGED callVars
    BY <1>4 DEF transportVars, sessionVars
  <2>2. SessionsTypeOK'
    BY <2>1 DEF SessionsTypeOK, callVars
  <2>3. RegistryOK' /\ LiveSessions' = LiveSessions
    BY <2>1 DEF RegistryOK, LiveSessions, LiveSession
  <2>4. \A c \in Calls : MailboxOK(c)'
    BY <2>1 DEF MailboxOK, callVars
  <2> QED
    BY <2>2, <2>3, <2>4
<1> QED
  BY <1>1, <1>2, <1>3, <1>4 DEF SessionsNext, CallStep

\* The invariant holds of every behavior of the replicas, Redis and the client.
LEMMA SessionsInvariance == SessionsBounds => (SessionsSpec => []SessionsInv)
<1> SUFFICES ASSUME SessionsBounds
             PROVE  SessionsSpec => []SessionsInv
  OBVIOUS
<1>1. SessionsInit => SessionsInv
  BY SessionsInvInit
<1>2. SessionsInv /\ [SessionsNext]_transportVars => SessionsInv'
  BY SessionsInvStep
<1> QED
  BY <1>1, <1>2, PTL DEF SessionsSpec

-----------------------------------------------------------------------------
(* What follows for the sessions and the calls.                            *)

\* The keys of Redis and the places of the handlers keep their types.
THEOREM SessionsTypes == SessionsBounds => (SessionsSpec => []SessionsTypeOK)
<1>1. SessionsInv => SessionsTypeOK
  BY DEF SessionsInv
<1> QED
  BY <1>1, SessionsInvariance, PTL

\* A server never has more sessions than mcp_max_sessions_per_server, and the
\* registry outlives each of them, however creations interleave with expiry,
\* deletion and counting (api/mcp_sessions.py create, get, session_count).
THEOREM NeverTooManySessions == SessionsBounds => (SessionsSpec => []SessionsBounded)
<1>1. SessionsInv => SessionsBounded
  BY DEF SessionsInv, SessionsBounded, LiveSessions, RegistryOK
<1> QED
  BY <1>1, SessionsInvariance, PTL

\* The server gets the one reply that was taken for its request, and no other
\* was told accepted as long as its mailbox was there, whatever is answered
\* twice, late or after the mailbox is gone (api/mcp_sessions.py reply, poll,
\* acknowledge).
THEOREM TakenReplyIsDelivered == SessionsBounds => (SessionsSpec => []ReplyIsTheTaken)
<1>1. SessionsInv => ReplyIsTheTaken
  BY DEF SessionsInv, ReplyIsTheTaken, MailboxOK
<1> QED
  BY <1>1, SessionsInvariance, PTL

\* The record of an active call is not removed by the clean-up of another call
\* of the same request id (api/mcp_sessions.py start, finish).
THEOREM OwnRecord == SessionsBounds => (SessionsSpec => RecordIsOwn)
<1> SUFFICES ASSUME SessionsBounds
             PROVE  SessionsSpec => RecordIsOwn
  OBVIOUS
<1>1. SessionsInv /\ [SessionsNext]_transportVars =>
        [record.by # NoCall /\ record'.by # record.by
           => call[record.by] = "cleanup" \/ "call" \notin fresh]_transportVars
  BY RecordKept DEF SessionsInv
<1> QED
  BY <1>1, SessionsInvariance, PTL DEF SessionsSpec, RecordIsOwn

-----------------------------------------------------------------------------
(* Authorization.                                                          *)

\* The bound is a number, and nobody is the holder of a lock that is free.
AuthBounds == MaxGrants \in Nat /\ NoRequest \notin Requests

\* Between the acquisition of the lock and its release.
InFlow == {"tokens", "sent", "redirect", "listening", "refused", "exchange", "set_tokens"}

RequestStates ==
  [pc : Steps, grant : 0..MaxGrants, given : 0..MaxGrants, token : BOOLEAN, cancelled : BOOLEAN]

RequestTypes ==
  /\ request \in [Requests -> RequestStates]
  /\ lock \in [Keys -> Requests \cup {NoRequest}]
  /\ waiters \in [Keys -> Seq(Requests)]
BrokerTypes ==
  /\ grants \in Seq(Requests) /\ Len(grants) <= MaxGrants
  /\ channel \in [Grants -> Seq(Payloads)]
  /\ exists \subseteq Grants /\ expired \subseteq Grants /\ tokens \subseteq Keys

\* Those who wait for a lock are requests of its key, each once.
QueueOK ==
  \A k \in Keys :
    /\ \A i \in DOMAIN waiters[k] :
         Key(waiters[k][i]) = k /\ request[waiters[k][i]].pc = "waiting"
    /\ \A i, j \in DOMAIN waiters[k] : waiters[k][i] = waiters[k][j] => i = j

\* Whoever is in the flow holds the lock of its key.
LockOK == \A r \in Requests : request[r].pc \in InFlow => lock[Key(r)] = r

LockInv == RequestTypes /\ QueueOK /\ LockOK

\* A channel has what was redirected for its own grant, and a request is given
\* something only after it has made its grant.
ChannelOwn == \A g \in Grants : \A i \in DOMAIN channel[g] : channel[g][i].of = g
GivenOK ==
  \A r \in Requests :
    /\ request[r].pc \in {"redirect", "listening"} => request[r].grant # 0
    /\ request[r].given \in {0, request[r].grant}

-----------------------------------------------------------------------------
(* Queues.                                                                 *)

\* What is left of a queue without one of its elements.
LEMMA Removed ==
  ASSUME NEW S, NEW w \in Seq(S), NEW i \in DOMAIN w
  PROVE  /\ RemoveAt(w, i) \in Seq(S)
         /\ DOMAIN RemoveAt(w, i) = 1..(Len(w) - 1)
         /\ \A j \in DOMAIN RemoveAt(w, i) :
              RemoveAt(w, i)[j] = IF j < i THEN w[j] ELSE w[j + 1]
<1> DEFINE a == SubSeq(w, 1, i - 1)
           b == SubSeq(w, i + 1, Len(w))
<1>1. i \in 1..Len(w) /\ Len(w) \in Nat
  BY LenProperties
<1>2. a \in Seq(S) /\ Len(a) = i - 1 /\ \A j \in 1..(i - 1) : a[j] = w[j]
  BY <1>1, SubSeqProperties
<1>3. b \in Seq(S) /\ Len(b) = Len(w) - i /\ \A j \in 1..(Len(w) - i) : b[j] = w[j + i]
  <2>1. i + 1 \in 1..(Len(w) + 1)
    BY <1>1
  <2>2. b \in Seq(S) /\ Len(b) = IF i + 1 <= Len(w) THEN Len(w) - (i + 1) + 1 ELSE 0
    BY <1>1, <2>1, SubSeqProperties
  <2>3. Len(b) = Len(w) - i
    BY <1>1, <2>2
  <2>4. ASSUME NEW j \in 1..(Len(w) - i)
        PROVE  b[j] = w[j + i]
    <3>1. j \in 1..(Len(w) - (i + 1) + 1)
      BY <1>1
    <3>2. b[j] = w[(i + 1) + j - 1]
      BY SMTT(30), <1>1, <2>1, <3>1, SubSeqProperties
    <3>3. (i + 1) + j - 1 = j + i
      BY <1>1
    <3> QED
      BY <3>2, <3>3
  <2> QED
    BY <2>2, <2>3, <2>4
<1>4. RemoveAt(w, i) = a \o b
  BY DEF RemoveAt
<1>5. /\ a \o b \in Seq(S) /\ Len(a \o b) = Len(w) - 1
      /\ \A j \in 1..(Len(w) - 1) : (a \o b)[j] = IF j <= i - 1 THEN a[j] ELSE b[j - (i - 1)]
  <2> HIDE DEF a, b
  <2>1. Len(a) + Len(b) = Len(w) - 1
    BY <1>1, <1>2, <1>3
  <2>2. /\ a \o b \in Seq(S) /\ Len(a \o b) = Len(a) + Len(b)
        /\ \A j \in 1..(Len(a) + Len(b)) :
             (a \o b)[j] = IF j <= Len(a) THEN a[j] ELSE b[j - Len(a)]
    BY <1>2, <1>3, ConcatProperties
  <2> QED
    BY <1>2, <2>1, <2>2
<1>6. ASSUME NEW j \in 1..(Len(w) - 1)
      PROVE  RemoveAt(w, i)[j] = IF j < i THEN w[j] ELSE w[j + 1]
  <2> HIDE DEF a, b
  <2>1. CASE j < i
    <3>1. j <= i - 1 /\ j \in 1..(i - 1)
      BY <1>1, <2>1
    <3> QED
      BY <1>2, <1>4, <1>5, <2>1, <3>1
  <2>2. CASE ~(j < i)
    <3>1. ~(j <= i - 1) /\ j - (i - 1) \in 1..(Len(w) - i) /\ (j - (i - 1)) + i = j + 1
      BY <1>1, <2>2
    <3> QED
      BY <1>3, <1>4, <1>5, <2>2, <3>1
  <2> QED
    BY <2>1, <2>2
<1>7. DOMAIN RemoveAt(w, i) = 1..(Len(w) - 1)
  BY <1>4, <1>5, LenProperties
<1> QED
  BY <1>4, <1>5, <1>6, <1>7

\* Taking one out of a queue leaves the others waiting in it, each once.
LEMMA QueueWithout ==
  ASSUME RequestTypes, QueueOK, NEW k \in Keys, NEW i \in DOMAIN waiters[k],
         NEW w, w = RemoveAt(waiters[k], i)
  PROVE  /\ w \in Seq(Requests)
         /\ \A j \in DOMAIN w : Key(w[j]) = k /\ request[w[j]].pc = "waiting"
                                /\ w[j] # waiters[k][i]
         /\ \A j, l \in DOMAIN w : w[j] = w[l] => j = l
<1>0. waiters[k] \in Seq(Requests) /\ i \in 1..Len(waiters[k]) /\ Len(waiters[k]) \in Nat
  BY LenProperties DEF RequestTypes
<1>1. /\ w \in Seq(Requests) /\ DOMAIN w = 1..(Len(waiters[k]) - 1)
      /\ \A j \in DOMAIN w : w[j] = IF j < i THEN waiters[k][j] ELSE waiters[k][j + 1]
  BY <1>0, Removed
<1>2. \A j \in DOMAIN w : /\ j \in Nat
                          /\ j \in DOMAIN waiters[k] /\ j + 1 \in DOMAIN waiters[k]
  BY <1>0, <1>1, LenProperties
<1>3. \A j \in DOMAIN w : Key(w[j]) = k /\ request[w[j]].pc = "waiting" /\ w[j] # waiters[k][i]
  <2> TAKE j \in DOMAIN w
  <2> DEFINE p == IF j < i THEN j ELSE j + 1
  <2>1. p \in DOMAIN waiters[k] /\ w[j] = waiters[k][p] /\ p # i
    BY <1>0, <1>1, <1>2
  <2> HIDE DEF p
  <2> QED
    BY <2>1 DEF QueueOK
<1>4. \A j, l \in DOMAIN w : w[j] = w[l] => j = l
  <2> SUFFICES ASSUME NEW j \in DOMAIN w, NEW l \in DOMAIN w, w[j] = w[l]
               PROVE  j = l
    OBVIOUS
  <2> DEFINE at(n) == IF n < i THEN n ELSE n + 1
  <2>1. /\ at(j) \in DOMAIN waiters[k] /\ w[j] = waiters[k][at(j)]
        /\ at(l) \in DOMAIN waiters[k] /\ w[l] = waiters[k][at(l)]
    BY <1>1, <1>2
  <2>2. at(j) = at(l) => j = l
    BY <1>0, <1>2
  <2> HIDE DEF at
  <2>3. at(j) = at(l)
    BY <2>1 DEF QueueOK
  <2> QED
    BY <2>2, <2>3
<1> QED
  BY <1>1, <1>3, <1>4

\* The tail of a queue is the queue without its head.
LEMMA QueueTail ==
  ASSUME RequestTypes, NEW k \in Keys, waiters[k] # <<>>
  PROVE  /\ 1 \in DOMAIN waiters[k] /\ Head(waiters[k]) = waiters[k][1]
         /\ Head(waiters[k]) \in Requests
         /\ Tail(waiters[k]) = RemoveAt(waiters[k], 1)
<1>1. waiters[k] \in Seq(Requests)
  BY DEF RequestTypes
<1>2. Len(waiters[k]) \in Nat /\ Len(waiters[k]) >= 1 /\ DOMAIN waiters[k] = 1..Len(waiters[k])
  BY <1>1, LenProperties, EmptySeq
<1>3. 1 \in DOMAIN waiters[k]
  BY <1>2
<1>4. Head(waiters[k]) = waiters[k][1]
  BY <1>1
<1>5. /\ Tail(waiters[k]) \in Seq(Requests) /\ Len(Tail(waiters[k])) = Len(waiters[k]) - 1
      /\ \A i \in 1..Len(Tail(waiters[k])) : Tail(waiters[k])[i] = waiters[k][i + 1]
      /\ Head(waiters[k]) \in Requests
  BY <1>1, HeadTailProperties
<1>6. /\ RemoveAt(waiters[k], 1) \in Seq(Requests)
      /\ DOMAIN RemoveAt(waiters[k], 1) = 1..(Len(waiters[k]) - 1)
      /\ \A i \in DOMAIN RemoveAt(waiters[k], 1) : RemoveAt(waiters[k], 1)[i] = waiters[k][i + 1]
  <2>1. /\ RemoveAt(waiters[k], 1) \in Seq(Requests)
        /\ DOMAIN RemoveAt(waiters[k], 1) = 1..(Len(waiters[k]) - 1)
        /\ \A i \in DOMAIN RemoveAt(waiters[k], 1) : RemoveAt(waiters[k], 1)[i] =
             IF i < 1 THEN waiters[k][i] ELSE waiters[k][i + 1]
    BY <1>1, <1>3, Removed
  <2>2. \A i \in 1..(Len(waiters[k]) - 1) : ~(i < 1)
    BY <1>2
  <2> QED
    BY <2>1, <2>2
<1>7. Len(RemoveAt(waiters[k], 1)) = Len(waiters[k]) - 1
  BY <1>2, <1>6, LenProperties
<1> QED
  BY <1>3, <1>4, <1>5, <1>6, <1>7, SeqEqual

-----------------------------------------------------------------------------
(* The lock of a key.                                                      *)

\* What leaving the flow does to the requests.
LEMMA ReleaseStates ==
  ASSUME RequestTypes, NEW r \in Requests, request[r].pc \in InFlow, Release(r)
  PROVE  /\ request' \in [Requests -> RequestStates] /\ request'[r].pc \in Ended
         /\ \A s \in Requests :
              /\ request'[s].grant = request[s].grant /\ request'[s].given = request[s].given
              /\ s # r /\ ~(waiters[Key(r)] # <<>> /\ s = Head(waiters[Key(r)])) =>
                   request'[s] = request[s]
              /\ s # r /\ waiters[Key(r)] # <<>> /\ s = Head(waiters[Key(r)]) =>
                   request'[s].pc = "tokens"
<1> DEFINE waits(s) == waiters[Key(r)] # <<>> /\ s = Head(waiters[Key(r)])
           next(s) == IF s = r THEN [request[r] EXCEPT !.pc = IF @ = "sent" THEN "done" ELSE "failed"]
                      ELSE IF waits(s) THEN [request[s] EXCEPT !.pc = "tokens"] ELSE request[s]
<1>1. request' = [s \in Requests |-> next(s)]
  BY DEF Release
<1>2. ASSUME NEW s \in Requests
      PROVE  /\ next(s) \in RequestStates
             /\ next(s).grant = request[s].grant /\ next(s).given = request[s].given
             /\ s = r => next(s).pc \in Ended
             /\ s # r /\ ~waits(s) => next(s) = request[s]
             /\ s # r /\ waits(s) => next(s).pc = "tokens"
  <2>1. request[s] \in RequestStates /\ request[r] \in RequestStates
    BY DEF RequestTypes
  <2>2. CASE s = r
    BY <2>1, <2>2 DEF RequestStates, Steps, Ended
  <2>3. CASE s # r /\ waits(s)
    <3>1. next(s) = [request[s] EXCEPT !.pc = "tokens"]
      BY <2>3
    <3> QED
      BY <2>1, <2>3, <3>1 DEF RequestStates, Steps
  <2>4. CASE s # r /\ ~waits(s)
    BY <2>1, <2>4
  <2> QED
    BY <2>2, <2>3, <2>4
<1> HIDE DEF next
<1> QED
  BY <1>1, <1>2

\* When a request leaves the flow, the first that waits enters it with the lock.
LEMMA ReleaseKeepsLock ==
  ASSUME AuthBounds, LockInv, NEW r \in Requests, request[r].pc \in InFlow, Release(r)
  PROVE  LockInv'
<1>0. RequestTypes /\ QueueOK /\ LockOK /\ Key(r) \in Keys
  BY DEF LockInv, Keys, Key
<1> DEFINE k == Key(r)
<1>1. /\ request' \in [Requests -> RequestStates] /\ request'[r].pc \in Ended
      /\ \A s \in Requests :
           /\ s # r /\ ~(waiters[k] # <<>> /\ s = Head(waiters[k])) => request'[s] = request[s]
           /\ s # r /\ waiters[k] # <<>> /\ s = Head(waiters[k]) => request'[s].pc = "tokens"
  BY <1>0, ReleaseStates
<1>2. /\ lock' = [lock EXCEPT ![k] = IF waiters[k] = <<>> THEN NoRequest ELSE Head(waiters[k])]
      /\ waiters' = [waiters EXCEPT ![k] = IF waiters[k] = <<>> THEN waiters[k] ELSE Tail(waiters[k])]
  BY DEF Release
<1>3. \A s \in Requests : s # r /\ Key(s) = k => request[s].pc \notin InFlow
  BY <1>0 DEF LockOK
<1>4. lock[k] = r
  BY <1>0 DEF LockOK
<1>5. \A h \in Keys : h # k => lock'[h] = lock[h] /\ waiters'[h] = waiters[h]
  BY <1>0, <1>2 DEF RequestTypes
<1>6. CASE waiters[k] = <<>>
  <2>1. waiters' = waiters /\ lock' \in [Keys -> Requests \cup {NoRequest}]
    BY <1>0, <1>2, <1>6 DEF RequestTypes
  <2>2. \A s \in Requests : s # r => request'[s] = request[s]
    BY <1>1, <1>6
  <2>3. RequestTypes'
    BY <1>0, <1>1, <2>1 DEF RequestTypes
  <2>4. QueueOK'
    <3>1. \A h \in Keys : \A i \in DOMAIN waiters[h] :
            waiters[h][i] \in Requests /\ waiters[h][i] # r
      BY <1>0, ElementOfSeq, LenProperties DEF RequestTypes, QueueOK, InFlow
    <3> QED
      BY <1>0, <2>1, <2>2, <3>1 DEF QueueOK, Key
  <2>5. LockOK'
    <3>1. ASSUME NEW s \in Requests, request'[s].pc \in InFlow
          PROVE  lock'[Key(s)] = s
      <4>1. s # r
        BY <1>1, <3>1 DEF Ended, InFlow
      <4>2. lock[Key(s)] = s /\ Key(s) # k
        BY <1>0, <1>3, <2>2, <3>1, <4>1 DEF LockOK
      <4>3. Key(s) \in Keys
        BY DEF Key, Keys
      <4> QED
        BY <1>5, <4>2, <4>3
    <3> QED
      BY <3>1 DEF LockOK, Key
  <2> QED
    BY <2>3, <2>4, <2>5 DEF LockInv
<1>7. CASE waiters[k] # <<>>
  <2> DEFINE h == Head(waiters[k])
  <2>1. /\ 1 \in DOMAIN waiters[k] /\ h = waiters[k][1] /\ h \in Requests
        /\ Tail(waiters[k]) = RemoveAt(waiters[k], 1)
    BY <1>0, <1>7, QueueTail
  <2>2. /\ Tail(waiters[k]) \in Seq(Requests)
        /\ \A i \in DOMAIN Tail(waiters[k]) :
             /\ Key(Tail(waiters[k])[i]) = k /\ request[Tail(waiters[k])[i]].pc = "waiting"
             /\ Tail(waiters[k])[i] # h
        /\ \A i, j \in DOMAIN Tail(waiters[k]) :
             Tail(waiters[k])[i] = Tail(waiters[k])[j] => i = j
    <3>1. k \in Keys
      BY <1>0
    <3> HIDE DEF h, k
    <3> DEFINE w == RemoveAt(waiters[k], 1)
    <3>2. /\ w \in Seq(Requests)
          /\ \A i \in DOMAIN w : Key(w[i]) = k /\ request[w[i]].pc = "waiting"
                                 /\ w[i] # waiters[k][1]
          /\ \A i, j \in DOMAIN w : w[i] = w[j] => i = j
      BY <1>0, <2>1, <3>1, QueueWithout
    <3>3. w = Tail(waiters[k])
      BY <2>1
    <3> HIDE DEF w
    <3> QED
      BY <2>1, <3>2, <3>3
  <2>3. Key(h) = k /\ request[h].pc = "waiting" /\ h # r
    BY <1>0, <2>1 DEF QueueOK, InFlow
  <2>4. /\ lock'[k] = h /\ waiters'[k] = Tail(waiters[k])
        /\ lock' \in [Keys -> Requests \cup {NoRequest}] /\ waiters' \in [Keys -> Seq(Requests)]
    BY <1>0, <1>2, <1>7, <2>1, <2>2 DEF RequestTypes
  <2>5. RequestTypes'
    BY <1>1, <2>4 DEF RequestTypes
  <2>6. \A s \in Requests : s # r /\ s # h => request'[s] = request[s]
    BY <1>1
  <2>7. QueueOK'
    <3>1. ASSUME NEW q \in Keys
          PROVE  /\ \A i \in DOMAIN waiters'[q] :
                      Key(waiters'[q][i]) = q /\ request'[waiters'[q][i]].pc = "waiting"
                 /\ \A i, j \in DOMAIN waiters'[q] : waiters'[q][i] = waiters'[q][j] => i = j
      <4>1. CASE q = k
        <5>1. \A i \in DOMAIN Tail(waiters[k]) : Tail(waiters[k])[i] \in Requests
          BY <2>2, ElementOfSeq, LenProperties
        <5>2. \A i \in DOMAIN Tail(waiters[k]) : Tail(waiters[k])[i] # r
          BY <2>2 DEF InFlow
        <5>3. waiters'[q] = Tail(waiters[k])
          BY <2>4, <4>1
        <5> HIDE DEF h, k
        <5>4. \A i \in DOMAIN Tail(waiters[k]) :
                request'[Tail(waiters[k])[i]] = request[Tail(waiters[k])[i]]
          BY <2>2, <2>6, <5>1, <5>2
        <5> QED
          BY <2>2, <4>1, <5>3, <5>4
      <4>2. CASE q # k
        <5>1. waiters'[q] = waiters[q]
          BY <1>5, <4>2
        <5>2. \A i \in DOMAIN waiters[q] :
                waiters[q][i] \in Requests /\ waiters[q][i] # r /\ waiters[q][i] # h
          BY <1>0, <2>3, <4>2, ElementOfSeq, LenProperties DEF RequestTypes, QueueOK, InFlow
        <5> QED
          BY <1>0, <2>6, <5>1, <5>2 DEF QueueOK
      <4> QED
        BY <4>1, <4>2
    <3> QED
      BY <3>1 DEF QueueOK, Key
  <2>8. LockOK'
    <3>1. ASSUME NEW s \in Requests, request'[s].pc \in InFlow
          PROVE  lock'[Key(s)] = s
      <4>1. s # r
        BY <1>1, <3>1 DEF Ended, InFlow
      <4>2. CASE s = h
        BY <2>3, <2>4, <4>2
      <4>3. CASE s # h
        <5>1. lock[Key(s)] = s /\ Key(s) # k
          BY <1>0, <1>3, <2>6, <3>1, <4>1, <4>3 DEF LockOK
        <5>2. Key(s) \in Keys
          BY DEF Key, Keys
        <5> QED
          BY <1>5, <5>1, <5>2
      <4> QED
        BY <4>2, <4>3
    <3> QED
      BY <3>1 DEF LockOK, Key
  <2> QED
    BY <2>5, <2>7, <2>8 DEF LockInv
<1> QED
  BY <1>6, <1>7

\* A request that moves within the flow keeps the lock.
LEMMA MoveKeepsLock ==
  ASSUME LockInv, NEW r \in Requests, request[r].pc \in InFlow, UNCHANGED flowVars,
         NEW v \in RequestStates, v.pc \in InFlow, request' = [request EXCEPT ![r] = v]
  PROVE  LockInv'
<1>0. RequestTypes /\ QueueOK /\ LockOK /\ UNCHANGED <<lock, waiters>>
  BY DEF LockInv, flowVars
<1>1. /\ request' \in [Requests -> RequestStates] /\ request'[r].pc \in InFlow
      /\ \A s \in Requests : s # r => request'[s] = request[s]
  BY <1>0 DEF RequestTypes
<1>2. RequestTypes'
  BY <1>0, <1>1 DEF RequestTypes
<1>3. QueueOK'
  <2>1. \A k \in Keys : \A i \in DOMAIN waiters[k] :
          waiters[k][i] \in Requests /\ waiters[k][i] # r
    BY <1>0, ElementOfSeq, LenProperties DEF RequestTypes, QueueOK, InFlow
  <2> QED
    BY <1>0, <1>1, <2>1 DEF QueueOK, Key
<1>4. LockOK'
  BY <1>0, <1>1 DEF LockOK, Key
<1> QED
  BY <1>2, <1>3, <1>4 DEF LockInv

\* A request enters the flow of a key that nobody holds, or the end of its queue.
LEMMA EntryKeepsLock ==
  ASSUME AuthBounds, LockInv, NEW r \in Requests, AsyncAuthFlow(r)
  PROVE  LockInv'
<1>0. RequestTypes /\ QueueOK /\ LockOK /\ Key(r) \in Keys
  BY DEF LockInv, Keys, Key
<1> DEFINE k == Key(r)
<1>1. request[r] \in RequestStates /\ request[r].pc = "idle"
  BY <1>0 DEF AsyncAuthFlow, RequestTypes
<1>2. \A q \in Keys : \A i \in DOMAIN waiters[q] :
        waiters[q][i] \in Requests /\ waiters[q][i] # r
  BY <1>0, <1>1, ElementOfSeq, LenProperties DEF RequestTypes, QueueOK
<1>3. CASE lock[k] = NoRequest
  <2>1. /\ lock' = [lock EXCEPT ![k] = r] /\ waiters' = waiters
        /\ request' = [request EXCEPT ![r].pc = "tokens"]
    BY <1>3 DEF AsyncAuthFlow, Goto
  <2>2. /\ request' \in [Requests -> RequestStates]
        /\ \A s \in Requests : s # r => request'[s] = request[s]
    BY <1>0, <2>1 DEF RequestTypes, RequestStates, Steps
  <2>3. RequestTypes'
    BY <1>0, <2>1, <2>2 DEF RequestTypes
  <2>4. QueueOK'
    BY <1>0, <1>2, <2>1, <2>2 DEF QueueOK, Key
  <2>5. LockOK'
    <3>1. ASSUME NEW s \in Requests, request'[s].pc \in InFlow
          PROVE  lock'[Key(s)] = s
      <4>1. CASE s = r
        BY <1>0, <2>1, <4>1 DEF RequestTypes
      <4>2. CASE s # r
        <5>1. lock[Key(s)] = s
          BY <1>0, <2>2, <3>1, <4>2 DEF LockOK
        <5>2. Key(s) # k
          BY <1>3, <5>1 DEF AuthBounds
        <5> QED
          BY <1>0, <2>1, <5>1, <5>2 DEF RequestTypes, Keys, Key
      <4> QED
        BY <4>1, <4>2
    <3> QED
      BY <3>1 DEF LockOK, Key
  <2> QED
    BY <2>3, <2>4, <2>5 DEF LockInv
<1>4. CASE lock[k] # NoRequest
  <2> DEFINE w == Append(waiters[k], r)
  <2>1. /\ lock' = lock /\ waiters' = [waiters EXCEPT ![k] = w]
        /\ request' = [request EXCEPT ![r].pc = "waiting"]
    BY <1>4 DEF AsyncAuthFlow, Goto
  <2>2. /\ request' \in [Requests -> RequestStates] /\ request'[r].pc = "waiting"
        /\ \A s \in Requests : s # r => request'[s] = request[s]
    BY <1>0, <2>1 DEF RequestTypes, RequestStates, Steps
  <2>3. /\ w \in Seq(Requests) /\ DOMAIN w = 1..(Len(waiters[k]) + 1)
        /\ DOMAIN waiters[k] = 1..Len(waiters[k]) /\ Len(waiters[k]) \in Nat
        /\ \A i \in 1..Len(waiters[k]) : w[i] = waiters[k][i]
        /\ w[Len(waiters[k]) + 1] = r
    <3>1. waiters[k] \in Seq(Requests)
      BY <1>0 DEF RequestTypes
    <3> QED
      BY <3>1, AppendProperties, LenProperties
  <2> HIDE DEF w
  <2>4. waiters' \in [Keys -> Seq(Requests)] /\ waiters'[k] = w
        /\ \A q \in Keys : q # k => waiters'[q] = waiters[q]
    BY <1>0, <2>1, <2>3 DEF RequestTypes
  <2>5. RequestTypes'
    BY <1>0, <2>1, <2>2, <2>4 DEF RequestTypes
  <2>6. QueueOK'
    <3>1. ASSUME NEW q \in Keys
          PROVE  /\ \A i \in DOMAIN waiters'[q] :
                      Key(waiters'[q][i]) = q /\ request'[waiters'[q][i]].pc = "waiting"
                 /\ \A i, j \in DOMAIN waiters'[q] : waiters'[q][i] = waiters'[q][j] => i = j
      <4>1. CASE q = k
        <5>1. \A i \in DOMAIN w : i = Len(waiters[k]) + 1 \/ i \in DOMAIN waiters[k]
          BY <2>3
        <5>2. \A i \in DOMAIN w : Key(w[i]) = k /\ request'[w[i]].pc = "waiting"
          BY <1>0, <1>2, <2>2, <2>3, <5>1 DEF QueueOK
        <5>3. \A i, j \in DOMAIN w : w[i] = w[j] => i = j
          BY <1>0, <1>2, <2>3, <5>1 DEF QueueOK
        <5> QED
          BY <2>4, <4>1, <5>2, <5>3
      <4>2. CASE q # k
        BY <1>0, <1>2, <2>2, <2>4, <4>2 DEF QueueOK
      <4> QED
        BY <4>1, <4>2
    <3> QED
      BY <3>1 DEF QueueOK, Key
  <2>7. LockOK'
    BY <1>0, <2>1, <2>2 DEF LockOK, InFlow, Key
  <2> QED
    BY <2>5, <2>6, <2>7 DEF LockInv
<1> QED
  BY <1>3, <1>4

\* A request whose question is over leaves the queue it waits in.
LEMMA LeavingKeepsLock ==
  ASSUME AuthBounds, LockInv, NEW r \in Requests, NEW i \in DOMAIN waiters[Key(r)],
         waiters[Key(r)][i] = r, lock' = lock,
         request' = [request EXCEPT ![r].pc = "failed", ![r].cancelled = TRUE],
         waiters' = [waiters EXCEPT ![Key(r)] = RemoveAt(@, i)]
  PROVE  LockInv'
<1>0. RequestTypes /\ QueueOK /\ LockOK /\ Key(r) \in Keys
  BY DEF LockInv, Keys, Key
<1> DEFINE k == Key(r)
           w == RemoveAt(waiters[k], i)
<1>1. /\ w \in Seq(Requests)
      /\ \A j \in DOMAIN w : Key(w[j]) = k /\ request[w[j]].pc = "waiting" /\ w[j] # r
      /\ \A j, l \in DOMAIN w : w[j] = w[l] => j = l
  <2>1. k \in Keys /\ i \in DOMAIN waiters[k] /\ waiters[k][i] = r
    BY <1>0
  <2> HIDE DEF k
  <2>2. /\ w \in Seq(Requests)
        /\ \A j \in DOMAIN w : Key(w[j]) = k /\ request[w[j]].pc = "waiting"
                               /\ w[j] # waiters[k][i]
        /\ \A j, l \in DOMAIN w : w[j] = w[l] => j = l
    BY <1>0, <2>1, QueueWithout
  <2> HIDE DEF w
  <2> QED
    BY <2>1, <2>2
<1>2. waiters' = [waiters EXCEPT ![k] = w]
  OBVIOUS
<1> HIDE DEF w
<1>3. /\ request' \in [Requests -> RequestStates] /\ request'[r].pc = "failed"
      /\ \A s \in Requests : s # r => request'[s] = request[s]
  BY ZenonT(60), <1>0 DEF RequestTypes, RequestStates, Steps
<1>4. /\ waiters' \in [Keys -> Seq(Requests)] /\ waiters'[k] = w
      /\ \A q \in Keys : q # k => waiters'[q] = waiters[q]
  BY <1>0, <1>1, <1>2 DEF RequestTypes
<1>5. RequestTypes'
  BY <1>0, <1>3, <1>4 DEF RequestTypes
<1>6. QueueOK'
  <2>1. ASSUME NEW q \in Keys
        PROVE  /\ \A j \in DOMAIN waiters'[q] :
                    Key(waiters'[q][j]) = q /\ request'[waiters'[q][j]].pc = "waiting"
               /\ \A j, l \in DOMAIN waiters'[q] : waiters'[q][j] = waiters'[q][l] => j = l
    <3>1. CASE q = k
      <4>1. \A j \in DOMAIN w : w[j] \in Requests
        BY <1>1, ElementOfSeq, LenProperties
      <4> QED
        BY <1>1, <1>3, <1>4, <3>1, <4>1
    <3>2. CASE q # k
      <4>1. \A j \in DOMAIN waiters[q] : waiters[q][j] \in Requests /\ waiters[q][j] # r
        BY <1>0, <3>2, ElementOfSeq, LenProperties DEF RequestTypes, QueueOK
      <4> QED
        BY <1>0, <1>3, <1>4, <3>2, <4>1 DEF QueueOK
    <3> QED
      BY <3>1, <3>2
  <2> QED
    BY <2>1 DEF QueueOK, Key
<1>7. LockOK'
  BY <1>0, <1>3 DEF LockOK, InFlow, Key
<1> QED
  BY <1>5, <1>6, <1>7 DEF LockInv

-----------------------------------------------------------------------------
(* The invariant of the whole.                                             *)

OAuthInv == LockInv /\ BrokerTypes /\ ChannelOwn /\ GivenOK

\* The channel of a grant is emptied with the reply that is received.
LEMMA DeletedKeeps ==
  ASSUME BrokerTypes, ChannelOwn, NEW g \in Grants, Deleted(g)
  PROVE  channel' \in [Grants -> Seq(Payloads)] /\ exists' \subseteq Grants /\ ChannelOwn'
<1>1. /\ exists' = exists \ {g} /\ channel' = [channel EXCEPT ![g] = <<>>]
      /\ <<>> \in Seq(Payloads)
  BY EmptySeq DEF Deleted
<1>2. /\ channel' \in [Grants -> Seq(Payloads)] /\ exists' \subseteq Grants
      /\ channel'[g] = <<>> /\ \A h \in Grants : h # g => channel'[h] = channel[h]
  BY <1>1 DEF BrokerTypes
<1>3. \A i \in DOMAIN channel'[g] : FALSE
  BY <1>2
<1> QED
  BY <1>2, <1>3 DEF ChannelOwn

\* Leaving the flow gives no callback and asks for none.
LEMMA ReleaseKeepsGiven ==
  ASSUME RequestTypes, GivenOK, NEW r \in Requests, request[r].pc \in InFlow, Release(r)
  PROVE  GivenOK'
<1>1. ASSUME NEW s \in Requests
      PROVE  /\ request'[s].grant = request[s].grant /\ request'[s].given = request[s].given
             /\ request'[s].pc \in {"redirect", "listening"} => request'[s].pc = request[s].pc
  <2>1. /\ request'[s].grant = request[s].grant /\ request'[s].given = request[s].given
        /\ request'[r].pc \in Ended
        /\ s # r => request'[s] = request[s] \/ request'[s].pc = "tokens"
    BY ReleaseStates
  <2> QED
    BY <2>1 DEF Ended
<1> QED
  BY <1>1 DEF GivenOK

\* The steps of a request's flow keep the lock of its key and the callback of
\* its grant.
LEMMA RequestKeeps ==
  ASSUME AuthBounds, OAuthInv, NEW r \in Requests, RequestStep(r) \/ Cancel(r)
  PROVE  OAuthInv'
<1>0. /\ LockInv /\ RequestTypes /\ BrokerTypes /\ ChannelOwn /\ GivenOK
      /\ request \in [Requests -> RequestStates] /\ request[r] \in RequestStates
      /\ Key(r) \in Keys
  BY DEF OAuthInv, LockInv, RequestTypes, Key, Keys
<1> DEFINE g == request[r].grant
\* What a move within the flow has to show.
<1>m. ASSUME request[r].pc \in InFlow, UNCHANGED flowVars,
             NEW v \in RequestStates, v.pc \in InFlow, request' = [request EXCEPT ![r] = v],
             v.pc \in {"redirect", "listening"} => v.grant # 0, v.given \in {0, v.grant}
      PROVE  LockInv' /\ GivenOK'
  <2>1. LockInv'
    BY <1>0, <1>m, MoveKeepsLock
  <2>2. /\ request'[r] = v
        /\ \A s \in Requests : s # r => request'[s] = request[s]
    BY <1>0, <1>m
  <2> QED
    BY <1>0, <1>m, <2>1, <2>2 DEF GivenOK
<1>b. ASSUME UNCHANGED <<grants, channel, exists, expired, tokens>>
      PROVE  BrokerTypes' /\ ChannelOwn'
  BY <1>0, <1>b DEF BrokerTypes, ChannelOwn
<1>l. ASSUME request[r].pc = "listening"
      PROVE  g \in Grants
  BY <1>0, <1>l DEF GivenOK, RequestStates, Grants, AuthBounds
<1>r. ASSUME request[r].pc \in InFlow, Release(r)
      PROVE  LockInv' /\ GivenOK'
  BY <1>0, <1>r, ReleaseKeepsLock, ReleaseKeepsGiven
<1>d. ASSUME g \in Grants, Deleted(g), UNCHANGED <<grants, expired, tokens>>
      PROVE  BrokerTypes' /\ ChannelOwn'
  BY <1>0, <1>d, DeletedKeeps DEF BrokerTypes
<1>1. CASE AsyncAuthFlow(r)
  <2>1. LockInv'
    BY <1>0, <1>1, EntryKeepsLock
  <2>2. UNCHANGED <<grants, channel, exists, expired, tokens>>
    BY <1>1 DEF AsyncAuthFlow, brokerVars, userVars
  <2>3. \A s \in Requests : /\ request'[s].grant = request[s].grant
                            /\ request'[s].given = request[s].given
                            /\ request'[s].pc \in {request[s].pc, "tokens", "waiting"}
    <3>1. PICK pc \in {"tokens", "waiting"} : request' = [request EXCEPT ![r].pc = pc]
      BY <1>1 DEF AsyncAuthFlow, Goto
    <3> QED
      BY <1>0, <3>1 DEF RequestStates
  <2>4. GivenOK'
    BY <1>0, <2>3 DEF GivenOK
  <2> QED
    BY <1>b, <2>1, <2>2, <2>4 DEF OAuthInv
<1>2. CASE GetTokens(r)
  <2>1. PICK token \in BOOLEAN :
          request' = [request EXCEPT ![r].pc = "sent", ![r].token = token]
    BY <1>2 DEF GetTokens
  <2> DEFINE v == [request[r] EXCEPT !.pc = "sent", !.token = token]
  <2>2. request' = [request EXCEPT ![r] = v]
    BY <2>1
  <2>3. /\ v \in RequestStates /\ v.pc = "sent" /\ v.grant = g /\ v.given = request[r].given
        /\ request[r].pc = "tokens" /\ UNCHANGED flowVars
        /\ UNCHANGED <<grants, channel, exists, expired, tokens>>
    BY <1>0, <1>2 DEF GetTokens, RequestStates, Steps, brokerVars, userVars
  <2> HIDE DEF v
  <2> QED
    BY <1>0, <1>m, <1>b, <2>2, <2>3 DEF OAuthInv, InFlow, GivenOK
<1>3. CASE Respond(r) \/ Refused(r)
  <2>1. /\ request[r].pc \in InFlow /\ Release(r)
        /\ UNCHANGED <<grants, channel, exists, expired, tokens>>
    BY <1>3 DEF Respond, Refused, InFlow, brokerVars, userVars
  <2> QED
    BY <1>r, <1>b, <2>1 DEF OAuthInv
<1>4. CASE PerformAuthorizationCodeGrant(r)
  <2> DEFINE v == [request[r] EXCEPT !.pc = "redirect", !.grant = Len(grants')]
  <2>1. /\ grants' = Append(grants, r) /\ Len(grants) < MaxGrants /\ request[r].pc = "sent"
        /\ g = 0 /\ UNCHANGED flowVars
        /\ UNCHANGED <<channel, exists, expired, tokens>>
        /\ request' = [request EXCEPT ![r] = v]
    BY <1>4 DEF PerformAuthorizationCodeGrant, brokerVars, userVars
  <2>2. grants' \in Seq(Requests) /\ Len(grants') = Len(grants) + 1 /\ Len(grants) \in Nat
    BY <1>0, <2>1, AppendProperties, LenProperties DEF BrokerTypes
  <2>3. Len(grants') \in 0..MaxGrants /\ Len(grants') # 0 /\ Len(grants') <= MaxGrants
    BY <2>1, <2>2 DEF AuthBounds
  <2>4. v \in RequestStates /\ v.pc = "redirect" /\ v.grant = Len(grants') /\ v.given = 0
    BY <1>0, <2>1, <2>3 DEF RequestStates, Steps, GivenOK
  <2>5. BrokerTypes' /\ ChannelOwn'
    BY <1>0, <2>1, <2>2, <2>3 DEF BrokerTypes, ChannelOwn
  <2> HIDE DEF v
  <2>6. LockInv' /\ GivenOK'
    BY <1>m, <2>1, <2>3, <2>4 DEF InFlow
  <2> QED
    BY <2>5, <2>6 DEF OAuthInv
<1>5. CASE HandleCallback(r)
  <2> DEFINE v == [request[r] EXCEPT !.pc = "listening"]
  <2>1. /\ request[r].pc = "redirect" /\ request' = [request EXCEPT ![r] = v]
        /\ UNCHANGED flowVars /\ UNCHANGED <<grants, channel, expired, tokens>>
        /\ exists' \subseteq exists \cup {g}
    BY <1>5 DEF HandleCallback, Goto, Subject, userVars
  <2>2. g # 0 /\ g \in Grants
    BY <1>0, <2>1 DEF GivenOK, RequestStates, Grants, AuthBounds
  <2>3. v \in RequestStates /\ v.pc = "listening" /\ v.grant = g /\ v.given = request[r].given
    BY <1>0 DEF RequestStates, Steps
  <2>4. BrokerTypes' /\ ChannelOwn'
    BY <1>0, <2>1, <2>2 DEF BrokerTypes, ChannelOwn
  <2> HIDE DEF v
  <2>5. LockInv' /\ GivenOK'
    BY <1>0, <1>m, <2>1, <2>2, <2>3 DEF InFlow, GivenOK
  <2> QED
    BY <2>4, <2>5 DEF OAuthInv
<1>6. CASE ReceiveReply(r)
  <2> DEFINE to == IF Head(channel[g]).kind = "code" /\ Head(channel[g]).of = g
                   THEN "exchange" ELSE "refused"
             v == [request[r] EXCEPT !.given = Head(channel[g]).of, !.pc = to]
  <2>1. /\ request[r].pc = "listening" /\ channel[g] # <<>> /\ g \in Grants
        /\ request' = [request EXCEPT ![r] = v]
        /\ UNCHANGED flowVars /\ UNCHANGED <<grants, expired, tokens>>
        /\ Deleted(g) \/ UNCHANGED <<channel, exists>>
    BY <1>6, <1>l DEF ReceiveReply, Subject, brokerVars
  <2>2. Head(channel[g]).of = g
    <3>1. channel[g] \in Seq(Payloads)
      BY <1>0, <2>1 DEF BrokerTypes
    <3>2. Head(channel[g]) = channel[g][1] /\ 1 \in DOMAIN channel[g]
      BY <2>1, <3>1, EmptySeq, LenProperties
    <3> QED
      BY <1>0, <2>1, <3>2 DEF ChannelOwn
  <2>3. to \in {"exchange", "refused"}
    OBVIOUS
  <2> HIDE DEF to
  <2>4. v \in RequestStates /\ v.pc = to /\ v.given = g /\ v.grant = g
    BY <1>0, <2>1, <2>2, <2>3 DEF RequestStates, Steps, Grants
  <2>5. BrokerTypes' /\ ChannelOwn'
    BY <1>b, <1>d, <2>1
  <2> HIDE DEF v
  <2>6. LockInv' /\ GivenOK'
    BY <1>m, <2>1, <2>3, <2>4 DEF InFlow
  <2> QED
    BY <2>5, <2>6 DEF OAuthInv
<1>7. CASE ReceiveTimesOut(r)
  <2>1. /\ request[r].pc = "listening" /\ Release(r) /\ g \in Grants
        /\ UNCHANGED <<grants, expired, tokens>>
        /\ Deleted(g) \/ UNCHANGED <<channel, exists>>
    BY <1>7, <1>l DEF ReceiveTimesOut, Subject, brokerVars, userVars
  <2> QED
    BY <1>r, <1>b, <1>d, <2>1 DEF OAuthInv, InFlow
<1>8. CASE ExchangeToken(r)
  <2>1. request[r].pc = "exchange" /\ UNCHANGED <<grants, channel, exists, expired, tokens>>
    BY <1>8 DEF ExchangeToken, brokerVars, userVars
  <2>2. CASE Release(r)
    BY <1>r, <1>b, <2>1, <2>2 DEF OAuthInv, InFlow
  <2>3. CASE Goto(r, "set_tokens") /\ UNCHANGED flowVars
    <3> DEFINE v == [request[r] EXCEPT !.pc = "set_tokens"]
    <3>1. request' = [request EXCEPT ![r] = v]
      BY <2>3 DEF Goto
    <3>2. /\ v \in RequestStates /\ v.pc = "set_tokens" /\ v.grant = g
          /\ v.given = request[r].given
      BY <1>0 DEF RequestStates, Steps
    <3> HIDE DEF v
    <3> QED
      BY <1>0, <1>m, <1>b, <2>1, <2>3, <3>1, <3>2 DEF OAuthInv, InFlow, GivenOK
  <2> QED
    BY <1>8, <2>2, <2>3 DEF ExchangeToken
<1>9. CASE SetTokens(r)
  <2> DEFINE v == [request[r] EXCEPT !.pc = "sent", !.token = TRUE]
  <2>1. /\ request[r].pc = "set_tokens" /\ request' = [request EXCEPT ![r] = v]
        /\ UNCHANGED flowVars /\ UNCHANGED <<grants, channel, exists, expired>>
        /\ tokens' \subseteq tokens \cup {Key(r)}
    BY <1>9 DEF SetTokens, brokerVars, userVars
  <2>2. v \in RequestStates /\ v.pc = "sent" /\ v.grant = g /\ v.given = request[r].given
    BY <1>0 DEF RequestStates, Steps
  <2>3. BrokerTypes' /\ ChannelOwn'
    BY <1>0, <2>1 DEF BrokerTypes, ChannelOwn
  <2> HIDE DEF v
  <2>4. LockInv' /\ GivenOK'
    BY <1>0, <1>m, <2>1, <2>2 DEF InFlow, GivenOK
  <2> QED
    BY <2>3, <2>4 DEF OAuthInv
<1>10. CASE Cancel(r)
  <2>1. /\ request[r].pc \notin {"done", "failed", "idle"}
        /\ UNCHANGED <<grants, expired, tokens>>
        /\ \/ request[r].pc = "listening" /\ Deleted(g)
           \/ UNCHANGED <<channel, exists>>
    BY <1>10 DEF Cancel, Subject, brokerVars, userVars, Ended
  <2>2. BrokerTypes' /\ ChannelOwn'
    BY <1>b, <1>d, <1>l, <2>1
  <2>3. CASE request[r].pc \in {"tokens", "set_tokens"}
    <3> DEFINE v == [request[r] EXCEPT !.pc = "sent", !.cancelled = TRUE]
    <3>1. request' = [request EXCEPT ![r] = v] /\ UNCHANGED flowVars
      BY <1>10, <2>3 DEF Cancel
    <3>2. v \in RequestStates /\ v.pc = "sent" /\ v.grant = g /\ v.given = request[r].given
      BY <1>0 DEF RequestStates, Steps
    <3> HIDE DEF v
    <3>3. LockInv' /\ GivenOK'
      BY <1>0, <1>m, <2>3, <3>1, <3>2 DEF InFlow, GivenOK
    <3> QED
      BY <2>2, <3>3 DEF OAuthInv
  <2>4. CASE request[r].pc = "waiting"
    <3>1. PICK i \in DOMAIN waiters[Key(r)] :
            /\ waiters[Key(r)][i] = r
            /\ request' = [request EXCEPT ![r].pc = "failed", ![r].cancelled = TRUE]
            /\ waiters' = [waiters EXCEPT ![Key(r)] = RemoveAt(@, i)]
            /\ UNCHANGED lock
      BY <1>10, <2>4 DEF Cancel
    <3>2. LockInv'
      BY <1>0, <3>1, LeavingKeepsLock
    <3>3. \A s \in Requests : /\ request'[s].grant = request[s].grant
                              /\ request'[s].given = request[s].given
                              /\ request'[s].pc \in {request[s].pc, "failed"}
      BY <1>0, <3>1
    <3>4. GivenOK'
      BY <1>0, <3>3 DEF GivenOK
    <3> QED
      BY <2>2, <3>2, <3>4 DEF OAuthInv
  <2>5. CASE request[r].pc \notin {"tokens", "set_tokens", "waiting"}
    <3>1. Release(r)
      BY <1>10, <2>5 DEF Cancel
    <3>2. request[r].pc \in InFlow
      BY <1>0, <2>1, <2>5 DEF InFlow, RequestStates, Steps
    <3> QED
      BY <1>r, <2>2, <3>1, <3>2 DEF OAuthInv
  <2> QED
    BY <2>3, <2>4, <2>5
<1> QED
  BY <1>1, <1>2, <1>3, <1>4, <1>5, <1>6, <1>7, <1>8, <1>9, <1>10 DEF RequestStep

\* A redirect brings the callback of its own grant, however often and late.
LEMMA RedirectKeeps ==
  ASSUME AuthBounds, OAuthInv, NEW g \in Grants, MCPOAuthCallback(g) \/ StateExpires(g)
  PROVE  OAuthInv'
<1>0. LockInv /\ BrokerTypes /\ ChannelOwn /\ GivenOK
  BY DEF OAuthInv
<1>1. UNCHANGED <<request, lock, waiters, grants, tokens>>
  BY DEF MCPOAuthCallback, StateExpires, flowVars
<1>2. LockInv' /\ GivenOK'
  BY <1>0, <1>1 DEF LockInv, RequestTypes, QueueOK, LockOK, GivenOK, Key
<1>3. exists' \subseteq Grants /\ expired' \subseteq Grants
  BY <1>0 DEF MCPOAuthCallback, StateExpires, BrokerTypes, brokerVars, Subject
<1>4. CASE UNCHANGED channel
  BY <1>0, <1>1, <1>2, <1>3, <1>4 DEF OAuthInv, BrokerTypes, ChannelOwn
<1>5. ASSUME NEW kind \in {"code", "error"},
             channel' = [channel EXCEPT ![g] = Append(@, [of |-> g, kind |-> kind])]
      PROVE  OAuthInv'
  <2> DEFINE payload == [of |-> g, kind |-> kind]
             old == channel[g]
             new == Append(old, payload)
  <2>1. payload \in Payloads /\ payload.of = g
    BY DEF Payloads
  <2>2. old \in Seq(Payloads)
    BY <1>0 DEF BrokerTypes
  <2> HIDE DEF payload
  <2>3. /\ new \in Seq(Payloads) /\ DOMAIN new = 1..(Len(old) + 1) /\ DOMAIN old = 1..Len(old)
        /\ Len(old) \in Nat /\ new[Len(old) + 1] = payload
        /\ \A i \in 1..Len(old) : new[i] = old[i]
    BY <2>1, <2>2, AppendProperties, LenProperties
  <2>4. channel' = [channel EXCEPT ![g] = new]
    BY <1>5 DEF payload
  <2>5. \A i \in DOMAIN old : old[i].of = g
    BY <1>0 DEF ChannelOwn
  <2> HIDE DEF new, old
  <2>6. \A i \in DOMAIN new : new[i].of = g
    <3>1. \A i \in DOMAIN new : i = Len(old) + 1 \/ i \in 1..Len(old)
      BY <2>3
    <3> QED
      BY <2>1, <2>3, <2>5, <3>1
  <2>7. /\ channel' \in [Grants -> Seq(Payloads)] /\ channel'[g] = new
        /\ \A h \in Grants : h # g => channel'[h] = channel[h]
    BY <1>0, <2>3, <2>4 DEF BrokerTypes
  <2>8. ChannelOwn'
    BY <1>0, <2>6, <2>7 DEF ChannelOwn
  <2>9. BrokerTypes'
    BY <1>0, <1>1, <1>3, <2>7 DEF BrokerTypes
  <2> QED
    BY <1>2, <2>8, <2>9 DEF OAuthInv
<1>6. \/ UNCHANGED channel
      \/ \E kind \in {"code", "error"} :
           channel' = [channel EXCEPT ![g] = Append(@, [of |-> g, kind |-> kind])]
  BY DEF MCPOAuthCallback, StateExpires, Subject, brokerVars
<1> QED
  BY <1>4, <1>5, <1>6

\* No request has begun, and nobody has been sent a URL.
LEMMA OAuthInvInit ==
  ASSUME AuthBounds, OAuthInit
  PROVE  OAuthInv
<1>1. RequestTypes /\ BrokerTypes
  <2>1. [pc |-> "idle", grant |-> 0, given |-> 0, token |-> FALSE, cancelled |-> FALSE]
          \in RequestStates
    BY DEF RequestStates, Steps, AuthBounds
  <2>2. \A S : <<>> \in Seq(S)
    BY EmptySeq
  <2>3. grants = <<>> /\ Len(<<>>) = 0
    BY DEF OAuthInit
  <2>4. RequestTypes
    BY <2>1, <2>2 DEF OAuthInit, RequestTypes
  <2>5. BrokerTypes
    BY <2>2, <2>3 DEF OAuthInit, BrokerTypes, AuthBounds
  <2> QED
    BY <2>4, <2>5
<1>2. QueueOK
  BY DEF OAuthInit, QueueOK
<1>3. LockOK /\ GivenOK
  BY DEF OAuthInit, LockOK, GivenOK, InFlow
<1>4. ChannelOwn
  BY DEF OAuthInit, ChannelOwn
<1> QED
  BY <1>1, <1>2, <1>3, <1>4 DEF OAuthInv, LockInv

\* The invariant holds of every behavior of the requests and the redirects.
LEMMA OAuthInvariance == AuthBounds => (OAuthSpec => []OAuthInv)
<1> SUFFICES ASSUME AuthBounds
             PROVE  OAuthSpec => []OAuthInv
  OBVIOUS
<1>1. OAuthInit => OAuthInv
  BY OAuthInvInit
<1>2. OAuthInv /\ [OAuthNext]_oauthVars => OAuthInv'
  <2> SUFFICES ASSUME OAuthInv, [OAuthNext]_oauthVars
               PROVE  OAuthInv'
    OBVIOUS
  <2>1. CASE UNCHANGED oauthVars
    <3>1. /\ UNCHANGED <<request, lock, waiters, grants, channel>>
          /\ UNCHANGED <<exists, expired, tokens>>
      BY <2>1 DEF oauthVars
    <3>2. LockInv'
      BY <3>1 DEF OAuthInv, LockInv, RequestTypes, QueueOK, LockOK, Key
    <3>3. BrokerTypes' /\ ChannelOwn' /\ GivenOK'
      BY <3>1 DEF OAuthInv, BrokerTypes, ChannelOwn, GivenOK
    <3> QED
      BY <3>2, <3>3 DEF OAuthInv
  <2> QED
    BY <2>1, RequestKeeps, RedirectKeeps DEF OAuthNext
<1> QED
  BY <1>1, <1>2, PTL DEF OAuthSpec

-----------------------------------------------------------------------------
(* What follows for the requests.                                          *)

\* The places of the requests, the locks and the replies keep their types.
THEOREM AuthorizationTypes == AuthBounds => (OAuthSpec => []OAuthTypeOK)
<1> SUFFICES ASSUME AuthBounds
             PROVE  OAuthSpec => []OAuthTypeOK
  OBVIOUS
<1>1. OAuthInv => OAuthTypeOK
  <2> SUFFICES ASSUME OAuthInv
               PROVE  OAuthTypeOK
    OBVIOUS
  <2>1. RequestTypes /\ BrokerTypes
    BY DEF OAuthInv, LockInv
  <2>2. \A r \in Requests : request[r].pc \in Steps /\ request[r].grant \in 0..MaxGrants
                            /\ request[r].given \in 0..MaxGrants
    BY <2>1 DEF RequestTypes, RequestStates
  <2>3. \A g \in Grants : \A i \in 1..Len(channel[g]) : channel[g][i] \in Payloads
    BY <2>1, ElementOfSeq DEF BrokerTypes
  <2> QED
    BY <2>1, <2>2, <2>3 DEF OAuthTypeOK, RequestTypes, BrokerTypes
<1> QED
  BY <1>1, OAuthInvariance, PTL

\* However many requests of one question are refused by one server, the user is
\* sent to authorize one at a time: the lock of the key is handed over before
\* another begins (agents/mcp http.py async_auth_flow, single_flight_key).
THEOREM OneAtATime == AuthBounds => (OAuthSpec => []OneAuthorizationPending)
<1>1. OAuthInv => OneAuthorizationPending
  <2> SUFFICES ASSUME OAuthInv, NEW r \in Requests, NEW s \in Requests,
                      Authorizing(r), Authorizing(s), Key(r) = Key(s)
               PROVE  r = s
    BY DEF OneAuthorizationPending
  <2>1. lock[Key(r)] = r /\ lock[Key(s)] = s
    BY DEF OAuthInv, LockInv, LockOK, Authorizing, InFlow
  <2> QED
    BY <2>1
<1> QED
  BY <1>1, OAuthInvariance, PTL

\* No request is given the callback of a grant that is not its own, with either
\* broker and whatever comes late or twice (api/v1/oauth.py, agents/mcp http.py).
THEOREM OwnCallback == AuthBounds => (OAuthSpec => []CallbackReachesItsGrant)
<1>1. OAuthInv => CallbackReachesItsGrant
  BY DEF OAuthInv, GivenOK, CallbackReachesItsGrant
<1> QED
  BY <1>1, OAuthInvariance, PTL

-----------------------------------------------------------------------------
(* The streams of the in-process broker.                                   *)

\* The cache has a size, and subscribers subscribe to topics.
StreamsBounds == MaxStreams \in Nat /\ \A s \in Subscribers : Topic[s] \in Topics

Entries == [topic : Topics, list : Nat]
Readers == [at : {"away", "reading", "waiting"}, list : Nat, index : Nat, subscribed : Nat]

StreamTypes ==
  /\ lists \in Seq(Seq(Nat)) /\ counter \in Nat
  /\ streams \in Seq(Entries)
  /\ \A i \in DOMAIN streams : streams[i].list \in DOMAIN lists
  /\ reader \in [Subscribers -> Readers]
  /\ received \in [Subscribers -> Seq(Nat)]

\* The cache has one list of a topic, and a list for one topic.
CacheOK ==
  \A i, j \in DOMAIN streams :
    streams[i].topic = streams[j].topic \/ streams[i].list = streams[j].list => i = j

\* Messages are numbered as they are published.
Growing(w) == \A i, j \in DOMAIN w : i < j => w[i] < w[j]
Numbered(w) == Growing(w) /\ \A i \in DOMAIN w : w[i] \in 1..counter
NumbersOK ==
  /\ \A l \in DOMAIN lists : Numbered(lists[l])
  /\ \A s \in Subscribers : Numbered(received[s])

\* The last message a subscriber was given.
Cursor(s) == IF received[s] = <<>> THEN 0 ELSE Last(received[s])

\* Of a list that the broker has, a subscriber of its topic has been given all
\* that is not newer than its cursor, and the cursor is in the list unless
\* all of the list is newer.
CaughtUp(s, l) ==
  /\ \A i \in DOMAIN lists[l] : lists[l][i] <= Cursor(s) => lists[l][i] \in ToSet(received[s])
  /\ \/ \E i \in DOMAIN lists[l] : lists[l][i] = Cursor(s)
     \/ \A i \in DOMAIN lists[l] : lists[l][i] > Cursor(s)

\* A reader stands in its list after its cursor; if the list is not the broker's
\* any more, the broker's list of the topic is newer throughout.
PlaceOK(s) ==
  /\ reader[s].list \in DOMAIN lists
  /\ reader[s].index \in 0..Len(lists[reader[s].list])
  /\ \A i \in DOMAIN lists[reader[s].list] :
       i <= reader[s].index <=> lists[reader[s].list][i] <= Cursor(s)
OlderOK(s) ==
  /\ \A e \in Cached(Topic[s]) : e.list # reader[s].list =>
       \A i \in DOMAIN lists[e.list] : \A j \in DOMAIN lists[reader[s].list] :
         lists[reader[s].list][j] < lists[e.list][i]
  /\ \A e \in ToSet(streams) : e.list = reader[s].list => e.topic = Topic[s]

SubscriberOK(s) ==
  /\ \A e \in Cached(Topic[s]) : CaughtUp(s, e.list)
  /\ reader[s].at # "away" => PlaceOK(s) /\ OlderOK(s)

StreamsInv == StreamTypes /\ CacheOK /\ NumbersOK /\ \A s \in Subscribers : SubscriberOK(s)

\* The list of a topic is the broker's, or a new one.
LEMMA ListOfTopic ==
  ASSUME StreamTypes, NEW topic, topic \in Topics
  PROVE  /\ Len(lists) \in Nat /\ DOMAIN lists = 1..Len(lists)
         /\ Cached(topic) = {} => ListOf(topic) = Len(lists) + 1 /\ ListOf(topic) \notin DOMAIN lists
         /\ Cached(topic) # {} =>
              /\ [topic |-> topic, list |-> ListOf(topic)] \in Cached(topic)
              /\ ListOf(topic) \in DOMAIN lists
<1>1. Len(lists) \in Nat /\ DOMAIN lists = 1..Len(lists)
  BY LenProperties DEF StreamTypes
<1>2. CASE Cached(topic) = {}
  BY <1>1, <1>2 DEF ListOf
<1>3. CASE Cached(topic) # {}
  <2> DEFINE e == CHOOSE x \in Cached(topic) : TRUE
  <2>1. e \in Cached(topic) /\ ListOf(topic) = e.list
    BY <1>3 DEF ListOf
  <2>2. PICK i \in DOMAIN streams : e = streams[i] /\ e.topic = topic
    BY <2>1 DEF Cached, ToSet
  <2> HIDE DEF e
  <2>3. e \in Entries /\ e.list \in DOMAIN lists
    <3>1. streams[i] \in Entries /\ streams[i].list \in DOMAIN lists
      BY <2>2, ElementOfSeq, LenProperties DEF StreamTypes
    <3> QED
      BY <2>2, <3>1
  <2>4. e = [topic |-> topic, list |-> e.list]
    BY <2>2, <2>3 DEF Entries
  <2> QED
    BY <1>1, <1>3, <2>1, <2>3, <2>4
<1> QED
  BY <1>1, <1>2, <1>3

\* _get_or_create_stream leaves the list of the topic used last, and of the
\* others some: those of other topics.
LEMMA UseEffect ==
  ASSUME StreamsBounds, StreamTypes, CacheOK, NEW topic, topic \in Topics, Use(topic),
         NEW l, l = ListOf(topic)
  PROVE  /\ streams' \in Seq(Entries) /\ CacheOK'
         /\ \A e \in ToSet(streams') :
              \/ e = [topic |-> topic, list |-> l]
              \/ e \in ToSet(streams) /\ e.topic # topic /\ e.list # l
<1> DEFINE entry == [topic |-> topic, list |-> l]
           others == IF Cached(topic) = {} THEN streams
                     ELSE RemoveAt(streams, CHOOSE i \in DOMAIN streams : streams[i].topic = topic)
           usedNow == <<entry>> \o others
           size == IF Len(usedNow) > MaxStreams THEN MaxStreams ELSE Len(usedNow)
<1>0. /\ Len(lists) \in Nat /\ DOMAIN lists = 1..Len(lists) /\ l \in Nat
      /\ Cached(topic) = {} => l \notin DOMAIN lists
      /\ Cached(topic) # {} => entry \in Cached(topic)
  BY ListOfTopic
<1>1. entry \in Entries
  BY <1>0 DEF Entries
<1>2. /\ others \in Seq(Entries)
      /\ \A i \in DOMAIN others :
           others[i] \in ToSet(streams) /\ others[i].topic # topic /\ others[i].list # l
      /\ \A i, j \in DOMAIN others :
           others[i].topic = others[j].topic \/ others[i].list = others[j].list => i = j
  <2>0. streams \in Seq(Entries) /\ DOMAIN streams = 1..Len(streams) /\ Len(streams) \in Nat
    BY LenProperties DEF StreamTypes
  <2>1. CASE Cached(topic) = {}
    <3>1. others = streams
      BY <2>1
    <3>2. \A i \in DOMAIN streams :
            streams[i] \in ToSet(streams) /\ streams[i].topic # topic /\ streams[i].list # l
      BY <1>0, <2>1 DEF Cached, ToSet, StreamTypes
    <3> HIDE DEF others
    <3> QED
      BY <2>0, <3>1, <3>2 DEF CacheOK
  <2>2. CASE Cached(topic) # {}
    <3> DEFINE n == CHOOSE i \in DOMAIN streams : streams[i].topic = topic
    <3>1. PICK m \in DOMAIN streams : streams[m] = entry
      BY <1>0, <2>2 DEF Cached, ToSet
    <3>2. n \in DOMAIN streams /\ streams[n].topic = topic
      BY <3>1
    <3>3. n = m
      BY <3>1, <3>2 DEF CacheOK
    <3>4. others = RemoveAt(streams, n)
      BY <2>2
    <3> HIDE DEF n, others
    <3>5. streams[n].topic = topic /\ streams[n].list = l
      <4>1. entry.topic = topic /\ entry.list = l
        OBVIOUS
      <4> HIDE DEF entry
      <4> QED
        BY <3>1, <3>3, <4>1
    <3>6. /\ others \in Seq(Entries) /\ DOMAIN others = 1..(Len(streams) - 1)
          /\ \A i \in DOMAIN others : others[i] = IF i < n THEN streams[i] ELSE streams[i + 1]
      BY <2>0, <3>2, <3>4, Removed
    <3> DEFINE at(i) == IF i < n THEN i ELSE i + 1
    <3>7. ASSUME NEW i \in DOMAIN others
          PROVE  at(i) \in DOMAIN streams /\ others[i] = streams[at(i)] /\ at(i) # n
      BY <2>0, <3>2, <3>6
    <3>8. \A i, j \in DOMAIN others : at(i) = at(j) => i = j
      BY <2>0, <3>2, <3>6
    <3> HIDE DEF at
    <3>9. \A i \in DOMAIN others :
            others[i] \in ToSet(streams) /\ others[i].topic # topic /\ others[i].list # l
      BY <3>2, <3>5, <3>7 DEF CacheOK, ToSet
    <3>10. \A i, j \in DOMAIN others :
             others[i].topic = others[j].topic \/ others[i].list = others[j].list => i = j
      BY <3>7, <3>8 DEF CacheOK
    <3> QED
      BY <3>6, <3>9, <3>10
  <2> QED
    BY <2>1, <2>2
<1>3. streams' = SubSeq(usedNow, 1, size)
  BY DEF Use
<1> HIDE DEF others, entry
<1>4. /\ usedNow \in Seq(Entries) /\ Len(usedNow) = Len(others) + 1 /\ Len(others) \in Nat
      /\ usedNow[1] = entry
      /\ \A i \in 2..(Len(others) + 1) : usedNow[i] = others[i - 1] /\ i - 1 \in DOMAIN others
  <2>1. <<entry>> \in Seq(Entries) /\ Len(<<entry>>) = 1 /\ <<entry>>[1] = entry
    BY <1>1
  <2>2. /\ usedNow \in Seq(Entries) /\ Len(usedNow) = Len(<<entry>>) + Len(others)
        /\ \A i \in 1..(Len(<<entry>>) + Len(others)) :
             usedNow[i] = IF i <= Len(<<entry>>) THEN <<entry>>[i] ELSE others[i - Len(<<entry>>)]
    BY <1>2, <2>1, ConcatProperties
  <2>3. Len(others) \in Nat /\ DOMAIN others = 1..Len(others)
    BY <1>2, LenProperties
  <2> HIDE DEF usedNow
  <2> QED
    BY <2>1, <2>2, <2>3
<1> HIDE DEF usedNow
<1>5. size \in 0..Len(usedNow)
  BY <1>4 DEF StreamsBounds
<1> HIDE DEF size
<1>6. /\ streams' \in Seq(Entries) /\ DOMAIN streams' = 1..size
      /\ \A i \in 1..size : streams'[i] = usedNow[i]
  <2>1. size \in Int /\ \A i \in 1..size : usedNow[i] \in Entries
    BY <1>4, <1>5, ElementOfSeq
  <2>2. /\ SubSeq(usedNow, 1, size) \in Seq(Entries)
        /\ Len(SubSeq(usedNow, 1, size)) = IF 1 <= size THEN size - 1 + 1 ELSE 0
        /\ \A i \in 1..(size - 1 + 1) : SubSeq(usedNow, 1, size)[i] = usedNow[1 + i - 1]
    BY <2>1, SubSeqProperties
  <2>3. Len(SubSeq(usedNow, 1, size)) = size /\ size - 1 + 1 = size
    BY <1>4, <1>5, <2>2
  <2>4. \A i \in 1..size : 1 + i - 1 = i
    BY <1>4, <1>5
  <2> QED
    BY <1>3, <2>2, <2>3, <2>4, LenProperties
<1>7. ASSUME NEW i \in DOMAIN streams'
      PROVE  \/ i = 1 /\ streams'[i] = entry
             \/ i \in 2..(Len(others) + 1) /\ streams'[i] = others[i - 1] /\ i - 1 \in DOMAIN others
  <2>1. i = 1 \/ i \in 2..(Len(others) + 1)
    BY <1>4, <1>5, <1>6
  <2> QED
    BY <1>4, <1>6, <2>1
<1>8. entry.topic = topic /\ entry.list = l
  BY DEF entry
<1>9. CacheOK'
  <2> SUFFICES ASSUME NEW i \in DOMAIN streams', NEW j \in DOMAIN streams',
                      streams'[i].topic = streams'[j].topic \/ streams'[i].list = streams'[j].list
               PROVE  i = j
    BY DEF CacheOK
  <2>1. CASE i = 1 /\ j = 1
    BY <2>1
  <2>2. CASE i # 1 /\ j # 1
    <3>1. i - 1 = j - 1
      BY <1>2, <1>7, <2>2
    <3> QED
      BY <1>6, <3>1, <1>5, <1>4
  <2>3. CASE ~(i = 1 <=> j = 1)
    BY <1>2, <1>7, <1>8, <2>3
  <2> QED
    BY <2>1, <2>2, <2>3
<1>10. \A e \in ToSet(streams') :
         e = entry \/ (e \in ToSet(streams) /\ e.topic # topic /\ e.list # l)
  BY <1>2, <1>7 DEF ToSet
<1> QED
  BY <1>6, <1>9, <1>10 DEF entry

\* A list of the broker is made, or found, and gains the next message or nothing.
Extended(l) ==
  /\ lists' \in Seq(Seq(Nat)) /\ DOMAIN lists' = DOMAIN lists \cup {l}
  /\ \A k \in DOMAIN lists : k # l => lists'[k] = lists[k]
  /\ counter' \in {counter, counter + 1}
  /\ lists'[l] \in Seq(Nat)
  /\ l \in DOMAIN lists =>
       /\ Len(lists'[l]) >= Len(lists[l])
       /\ \A i \in DOMAIN lists[l] : lists'[l][i] = lists[l][i]
  /\ \A i \in DOMAIN lists'[l] :
       \/ l \in DOMAIN lists /\ i \in DOMAIN lists[l]
       \/ /\ i = Len(lists'[l]) /\ lists'[l][i] = counter + 1 /\ counter' = counter + 1
          /\ l \in DOMAIN lists => i = Len(lists[l]) + 1

\* The list of a topic after its broker has found it, with or without a message.
LEMMA ExtendEffect ==
  ASSUME StreamTypes, NEW topic, topic \in Topics, NEW l, l = ListOf(topic),
         NEW more \in {<<>>, <<counter + 1>>},
         counter' = IF more = <<>> THEN counter ELSE counter + 1,
         lists' = IF Cached(topic) = {} THEN Append(lists, more)
                  ELSE IF more = <<>> THEN lists
                  ELSE [lists EXCEPT ![l] = Append(@, counter + 1)]
  PROVE  Extended(l)
<1>0. /\ Len(lists) \in Nat /\ DOMAIN lists = 1..Len(lists) /\ lists \in Seq(Seq(Nat))
      /\ counter \in Nat
      /\ Cached(topic) = {} => l = Len(lists) + 1 /\ l \notin DOMAIN lists
      /\ Cached(topic) # {} => l \in DOMAIN lists
  BY ListOfTopic DEF StreamTypes
<1>1. /\ more \in Seq(Nat) /\ Len(more) \in {0, 1}
      /\ \A i \in DOMAIN more : i = 1 /\ more[i] = counter + 1 /\ Len(more) = 1 /\ more # <<>>
  <2>1. CASE more = <<>>
    BY <2>1
  <2>2. CASE more = <<counter + 1>>
    BY <1>0, <2>2
  <2> QED
    BY <2>1, <2>2
<1>2. CASE Cached(topic) = {}
  <2>1. /\ lists' \in Seq(Seq(Nat)) /\ Len(lists') = Len(lists) + 1
        /\ lists'[Len(lists) + 1] = more
        /\ \A k \in 1..Len(lists) : lists'[k] = lists[k]
    BY <1>0, <1>1, <1>2, AppendProperties
  <2>2. DOMAIN lists' = DOMAIN lists \cup {l}
    BY <1>0, <1>2, <2>1, LenProperties
  <2> QED
    BY <1>0, <1>1, <1>2, <2>1, <2>2 DEF Extended
<1>3. CASE Cached(topic) # {} /\ more = <<>>
  <2>1. lists' = lists /\ l \in DOMAIN lists /\ counter' = counter
    BY <1>0, <1>3
  <2>2. lists[l] \in Seq(Nat) /\ Len(lists[l]) \in Nat
    BY <1>0, <2>1, ElementOfSeq, LenProperties
  <2>3. /\ lists'[l] = lists[l] /\ DOMAIN lists' = DOMAIN lists \cup {l}
        /\ lists' \in Seq(Seq(Nat)) /\ lists'[l] \in Seq(Nat)
        /\ Len(lists'[l]) >= Len(lists[l])
    <3>1. lists'[l] = lists[l] /\ lists' \in Seq(Seq(Nat)) /\ lists'[l] \in Seq(Nat)
      BY <1>0, <2>1, <2>2
    <3>2. DOMAIN lists = DOMAIN lists \cup {l}
      BY <2>1
    <3>3. Len(lists'[l]) >= Len(lists[l])
      BY <2>1, <2>2
    <3> QED
      BY <2>1, <3>1, <3>2, <3>3
  <2>4. /\ \A k \in DOMAIN lists : k # l => lists'[k] = lists[k]
        /\ \A i \in DOMAIN lists[l] : lists'[l][i] = lists[l][i]
        /\ \A i \in DOMAIN lists'[l] : l \in DOMAIN lists /\ i \in DOMAIN lists[l]
    BY <2>1
  <2> QED
    BY <2>1, <2>3, <2>4 DEF Extended
<1>4. CASE Cached(topic) # {} /\ more # <<>>
  <2>1. l \in DOMAIN lists /\ counter' = counter + 1 /\ counter + 1 \in Nat
    BY <1>0, <1>4
  <2>2. lists[l] \in Seq(Nat) /\ Len(lists[l]) \in Nat /\ DOMAIN lists[l] = 1..Len(lists[l])
    BY <1>0, <2>1, ElementOfSeq, LenProperties
  <2> DEFINE w == Append(lists[l], counter + 1)
  <2>3. /\ w \in Seq(Nat) /\ Len(w) = Len(lists[l]) + 1 /\ w[Len(lists[l]) + 1] = counter + 1
        /\ \A i \in 1..Len(lists[l]) : w[i] = lists[l][i]
        /\ DOMAIN w = 1..(Len(lists[l]) + 1)
    BY <2>1, <2>2, AppendProperties, LenProperties
  <2>4. lists' = [lists EXCEPT ![l] = w]
    BY <1>4
  <2> HIDE DEF w
  <2>5. lists' \in Seq(Seq(Nat)) /\ DOMAIN lists' = DOMAIN lists /\ lists'[l] = w
        /\ \A k \in DOMAIN lists : k # l => lists'[k] = lists[k]
    BY <1>0, <2>1, <2>3, <2>4, ExceptSeq, LenProperties
  <2>6. /\ DOMAIN lists' = DOMAIN lists \cup {l} /\ lists'[l] \in Seq(Nat)
        /\ Len(lists'[l]) >= Len(lists[l])
        /\ \A i \in DOMAIN lists[l] : lists'[l][i] = lists[l][i]
    BY SMTT(30), <2>1, <2>2, <2>3, <2>5
  <2>7. ASSUME NEW i \in DOMAIN lists'[l]
        PROVE  \/ i \in DOMAIN lists[l]
               \/ i = Len(lists'[l]) /\ lists'[l][i] = counter + 1 /\ i = Len(lists[l]) + 1
    <3>1. i \in 1..(Len(lists[l]) + 1)
      BY <2>3, <2>5
    <3>2. i \in 1..Len(lists[l]) \/ i = Len(lists[l]) + 1
      BY <2>2, <3>1
    <3> QED
      BY <2>2, <2>3, <2>5, <3>2
  <2> QED
    BY <2>1, <2>5, <2>6, <2>7 DEF Extended
<1> QED
  BY <1>2, <1>3, <1>4

\* A message that is published keeps the order of every list.
LEMMA ExtendKeepsNumbers ==
  ASSUME StreamTypes, NumbersOK, NEW l, Extended(l), UNCHANGED received
  PROVE  NumbersOK'
<1>0. counter \in Nat /\ counter' \in {counter, counter + 1} /\ counter' \in Nat
  BY DEF StreamTypes, Extended
<1>1. ASSUME NEW w, Numbered(w)
      PROVE  Growing(w) /\ \A i \in DOMAIN w : w[i] \in 1..counter'
  BY <1>0, <1>1 DEF Numbered
<1>2. ASSUME NEW k \in DOMAIN lists'
      PROVE  Growing(lists'[k]) /\ \A i \in DOMAIN lists'[k] : lists'[k][i] \in 1..counter'
  <2>1. CASE k # l
    <3>1. k \in DOMAIN lists /\ lists'[k] = lists[k]
      BY <1>2, <2>1 DEF Extended
    <3> QED
      BY <1>1, <3>1 DEF NumbersOK
  <2>2. CASE k = l
    <3> DEFINE w == lists'[l]
    <3>1. /\ w \in Seq(Nat) /\ Len(w) \in Nat /\ DOMAIN w = 1..Len(w)
      BY LenProperties DEF Extended
    <3>2. ASSUME NEW i \in DOMAIN w
          PROVE  \/ /\ l \in DOMAIN lists /\ i \in DOMAIN lists[l] /\ w[i] = lists[l][i]
                    /\ w[i] \in 1..counter
                 \/ i = Len(w) /\ w[i] = counter + 1 /\ counter' = counter + 1
      BY <3>2 DEF Extended, NumbersOK, Numbered
    <3>3. \A i \in DOMAIN w : w[i] \in 1..counter'
      BY <1>0, <3>2
    <3>4. Growing(w)
      <4> SUFFICES ASSUME NEW i \in DOMAIN w, NEW j \in DOMAIN w, i < j
                   PROVE  w[i] < w[j]
        BY DEF Growing
      <4>1. i # Len(w)
        BY <3>1
      <4> HIDE DEF w
      <4>2. l \in DOMAIN lists /\ i \in DOMAIN lists[l] /\ w[i] = lists[l][i] /\ w[i] \in 1..counter
        BY <3>2, <4>1
      <4>3. CASE w[j] = counter + 1
        BY <1>0, <4>2, <4>3
      <4>4. CASE j \in DOMAIN lists[l] /\ w[j] = lists[l][j]
        BY <4>2, <4>4 DEF NumbersOK, Numbered, Growing
      <4> QED
        BY <3>2, <4>3, <4>4
    <3> QED
      BY <2>2, <3>3, <3>4
  <2> QED
    BY <2>1, <2>2
<1> QED
  BY <1>0, <1>1, <1>2 DEF NumbersOK, Numbered, Growing

\* The cursor of a subscriber is one of the messages.
LEMMA CursorType ==
  ASSUME StreamTypes, NumbersOK, NEW s \in Subscribers
  PROVE  /\ Cursor(s) \in 0..counter /\ counter \in Nat
         /\ received[s] \in Seq(Nat) /\ Len(received[s]) \in Nat
         /\ DOMAIN received[s] = 1..Len(received[s])
         /\ \A i \in DOMAIN received[s] : received[s][i] <= Cursor(s)
         /\ received[s] # <<>> =>
              Cursor(s) = received[s][Len(received[s])] /\ Len(received[s]) \in DOMAIN received[s]
<1>1. /\ received[s] \in Seq(Nat) /\ Len(received[s]) \in Nat
      /\ DOMAIN received[s] = 1..Len(received[s]) /\ counter \in Nat
  BY LenProperties DEF StreamTypes
<1>2. CASE received[s] = <<>>
  BY <1>1, <1>2 DEF Cursor
<1>3. CASE received[s] # <<>>
  <2>1. Len(received[s]) \in DOMAIN received[s] /\ Cursor(s) = received[s][Len(received[s])]
    BY <1>1, <1>3, EmptySeq DEF Cursor, Last
  <2>2. \A i \in DOMAIN received[s] : received[s][i] \in 1..counter
    BY DEF NumbersOK, Numbered
  <2>3. \A i \in DOMAIN received[s] : i < Len(received[s]) => received[s][i] < Cursor(s)
    BY <2>1 DEF NumbersOK, Numbered, Growing
  <2>4. Cursor(s) \in 0..counter
    BY <1>1, <2>1, <2>2
  <2>5. ASSUME NEW i \in DOMAIN received[s]
        PROVE  received[s][i] <= Cursor(s)
    <3>1. i = Len(received[s]) \/ i < Len(received[s])
      BY <1>1
    <3>2. received[s][i] \in Nat /\ Cursor(s) \in Nat
      BY <1>1, <2>2, <2>4
    <3> QED
      BY <2>1, <2>3, <3>1, <3>2
  <2> QED
    BY <1>1, <2>1, <2>4, <2>5
<1> QED
  BY <1>2, <1>3

\* What a subscriber has to catch up with grows at its end.
LEMMA ExtendKeepsSubscriber ==
  ASSUME StreamsBounds, StreamsInv, NEW topic, topic \in Topics, Use(topic),
         NEW l, l = ListOf(topic), Extended(l), UNCHANGED received,
         NEW s \in Subscribers
  PROVE  /\ \A e \in Cached(Topic[s])' : CaughtUp(s, e.list)'
         /\ reader'[s] = reader[s] => SubscriberOK(s)'
<1>0. /\ StreamTypes /\ CacheOK /\ NumbersOK /\ SubscriberOK(s) /\ counter \in Nat
      /\ Cursor(s)' = Cursor(s) /\ Cursor(s) \in 0..counter /\ received'[s] = received[s]
  BY CursorType DEF StreamsInv, Cursor
<1>1. \A e \in ToSet(streams') :
        \/ e = [topic |-> topic, list |-> l]
        \/ e \in ToSet(streams) /\ e.topic # topic /\ e.list # l
  BY <1>0, UseEffect
<1>2. /\ l \in DOMAIN lists => [topic |-> topic, list |-> l] \in Cached(topic)
      /\ \A e \in ToSet(streams) : e.list \in DOMAIN lists
  BY <1>0, ListOfTopic DEF ToSet, StreamTypes
\* What the list of the topic gains is newer than all there is.
<1>3. ASSUME NEW i \in DOMAIN lists'[l]
      PROVE  \/ /\ l \in DOMAIN lists /\ i \in DOMAIN lists[l] /\ lists'[l][i] = lists[l][i]
                /\ lists'[l][i] \in 1..counter
             \/ lists'[l][i] = counter + 1 /\ (l \in DOMAIN lists => i = Len(lists[l]) + 1)
  BY <1>0 DEF Extended, NumbersOK, Numbered
<1>4. ASSUME NEW k \in DOMAIN lists, NEW i \in DOMAIN lists[k]
      PROVE  lists[k][i] \in 1..counter
  BY <1>0 DEF NumbersOK, Numbered
<1>5. ASSUME NEW e \in Cached(Topic[s])'
      PROVE  /\ \/ e.topic = topic /\ e.list = l /\ Topic[s] = topic
                \/ e \in Cached(Topic[s]) /\ e.topic # topic /\ e.list # l
                   /\ e.list \in DOMAIN lists /\ lists'[e.list] = lists[e.list]
             /\ e.list = l /\ l \in DOMAIN lists => [topic |-> topic, list |-> l] \in Cached(Topic[s])
  BY <1>1, <1>2, <1>5 DEF Cached, Extended
<1>6. ASSUME NEW e \in Cached(Topic[s])'
      PROVE  CaughtUp(s, e.list)'
  <2>1. CASE e.list # l
    <3>1. e \in Cached(Topic[s]) /\ lists'[e.list] = lists[e.list]
      BY <1>5, <2>1
    <3>2. CaughtUp(s, e.list)
      BY <1>0, <3>1 DEF SubscriberOK
    <3> QED
      BY <1>0, <3>1, <3>2 DEF CaughtUp
  <2>2. CASE e.list = l
    <3>1. l \in DOMAIN lists => CaughtUp(s, l)
      BY <1>0, <1>5, <2>2 DEF SubscriberOK
    <3>2. ASSUME NEW i \in DOMAIN lists'[l], lists'[l][i] <= Cursor(s)
          PROVE  lists'[l][i] \in ToSet(received[s])
      <4>1. lists'[l][i] # counter + 1
        BY <1>0, <3>2
      <4> QED
        BY <1>3, <3>1, <3>2, <4>1 DEF CaughtUp
    <3>3. \/ \E i \in DOMAIN lists'[l] : lists'[l][i] = Cursor(s)
          \/ \A i \in DOMAIN lists'[l] : lists'[l][i] > Cursor(s)
      <4>1. counter + 1 > Cursor(s)
        BY <1>0
      <4>2. CASE l \notin DOMAIN lists
        BY <1>3, <4>1, <4>2
      <4>3. CASE l \in DOMAIN lists /\ \A i \in DOMAIN lists[l] : lists[l][i] > Cursor(s)
        BY <1>3, <4>1, <4>3
      <4>4. ASSUME l \in DOMAIN lists, NEW i \in DOMAIN lists[l], lists[l][i] = Cursor(s)
            PROVE  \E j \in DOMAIN lists'[l] : lists'[l][j] = Cursor(s)
        <5>1. lists[l] \in Seq(Nat) /\ lists'[l] \in Seq(Nat) /\ Len(lists'[l]) >= Len(lists[l])
              /\ lists'[l][i] = lists[l][i]
          BY <1>0, <4>4, ElementOfSeq, LenProperties DEF StreamTypes, Extended
        <5>2. i \in DOMAIN lists'[l]
          BY <5>1, LenProperties
        <5> QED
          BY <4>4, <5>1, <5>2
      <4> QED
        BY <3>1, <4>2, <4>3, <4>4 DEF CaughtUp
    <3> QED
      BY <1>0, <2>2, <3>2, <3>3 DEF CaughtUp
  <2> QED
    BY <2>1, <2>2
<1>7. ASSUME reader'[s] = reader[s], reader[s].at # "away"
      PROVE  PlaceOK(s)' /\ OlderOK(s)'
  <2> DEFINE own == reader[s].list
             n == reader[s].index
  <2>0. /\ own \in DOMAIN lists /\ n \in 0..Len(lists[own])
        /\ \A i \in DOMAIN lists[own] : i <= n <=> lists[own][i] <= Cursor(s)
        /\ \A e \in Cached(Topic[s]) : e.list # own =>
             \A i \in DOMAIN lists[e.list] : \A j \in DOMAIN lists[own] :
               lists[own][j] < lists[e.list][i]
        /\ \A e \in ToSet(streams) : e.list = own => e.topic = Topic[s]
    BY <1>0, <1>7 DEF SubscriberOK, PlaceOK, OlderOK
  <2>1. /\ lists[own] \in Seq(Nat) /\ Len(lists[own]) \in Nat
        /\ DOMAIN lists[own] = 1..Len(lists[own])
    BY <1>0, <2>0, ElementOfSeq, LenProperties DEF StreamTypes
  <2> HIDE DEF own, n
  <2>2. PlaceOK(s)'
    <3>1. own \in DOMAIN lists'
      BY <2>0 DEF Extended
    <3>2. CASE own # l
      <4>1. lists'[own] = lists[own]
        BY <2>0, <3>2 DEF Extended
      <4> QED
        BY <1>0, <1>7, <2>0, <3>1, <4>1 DEF PlaceOK, own, n
    <3>3. CASE own = l
      <4>1. /\ Len(lists'[own]) >= Len(lists[own]) /\ lists'[own] \in Seq(Nat)
            /\ Len(lists'[own]) \in Nat
        BY <2>0, <3>3, LenProperties DEF Extended
      <4>2. n \in 0..Len(lists'[own])
        BY <2>0, <2>1, <4>1
      <4>3. ASSUME NEW i \in DOMAIN lists'[own]
            PROVE  i <= n <=> lists'[own][i] <= Cursor(s)
        <5>1. CASE i \in DOMAIN lists[own] /\ lists'[own][i] = lists[own][i]
          BY <2>0, <5>1
        <5>2. CASE lists'[own][i] = counter + 1 /\ i = Len(lists[own]) + 1
          BY <1>0, <2>0, <2>1, <5>2
        <5> QED
          BY <1>3, <2>0, <3>3, <5>1, <5>2
      <4> QED
        BY <1>0, <1>7, <3>1, <4>2, <4>3 DEF PlaceOK, own, n
    <3> QED
      BY <3>2, <3>3
  <2>3. \A e \in ToSet(streams') : e.list = own => e.topic = Topic[s]
    <3>1. [topic |-> topic, list |-> l] \in Cached(topic) => [topic |-> topic, list |-> l] \in ToSet(streams)
      BY DEF Cached
    <3> QED
      BY <1>1, <1>2, <2>0, <3>1
  <2>4. ASSUME NEW e \in Cached(Topic[s])', e.list # own,
               NEW i \in DOMAIN lists'[e.list], NEW j \in DOMAIN lists'[own]
        PROVE  lists'[own][j] < lists'[e.list][i]
    <3>1. own # l
      <4>1. SUFFICES ASSUME own = l
                     PROVE  FALSE
        OBVIOUS
      <4>2. e.list # l /\ e.topic # topic /\ e.topic = Topic[s]
        BY <1>5, <2>4, <4>1 DEF Cached
      <4>3. topic = Topic[s]
        BY <1>2, <2>0, <4>1 DEF Cached
      <4> QED
        BY <4>2, <4>3
    <3>2. lists'[own] = lists[own] /\ j \in DOMAIN lists[own] /\ lists[own][j] \in 1..counter
      BY <1>4, <2>0, <2>4, <3>1 DEF Extended
    <3>3. CASE e.list # l
      <4>1. e \in Cached(Topic[s]) /\ lists'[e.list] = lists[e.list]
        BY <1>5, <3>3
      <4> QED
        BY <2>0, <2>4, <3>2, <4>1
    <3>4. CASE e.list = l
      <4>1. CASE lists'[l][i] = counter + 1
        BY <1>0, <3>2, <3>4, <4>1
      <4>2. CASE l \in DOMAIN lists /\ i \in DOMAIN lists[l] /\ lists'[l][i] = lists[l][i]
        <5>1. [topic |-> topic, list |-> l] \in Cached(Topic[s])
          BY <1>5, <3>4, <4>2
        <5>2. [topic |-> topic, list |-> l].list = l
          OBVIOUS
        <5> QED
          BY <2>0, <3>1, <3>2, <3>4, <4>2, <5>1, <5>2
      <4> QED
        BY <1>3, <2>4, <3>4, <4>1, <4>2
    <3> QED
      BY <3>3, <3>4
  <2> QED
    BY <1>7, <2>2, <2>3, <2>4 DEF OlderOK, own
<1> QED
  BY <1>6, <1>7 DEF SubscriberOK

\* The cache and the lists keep their types.
LEMMA ExtendKeepsTypes ==
  ASSUME StreamsBounds, StreamsInv, NEW topic, topic \in Topics, Use(topic),
         NEW l, l = ListOf(topic), Extended(l), UNCHANGED received,
         reader' \in [Subscribers -> Readers]
  PROVE  StreamTypes' /\ CacheOK' /\ NumbersOK'
<1>1. StreamTypes /\ CacheOK /\ NumbersOK
  BY DEF StreamsInv
<1>2. /\ streams' \in Seq(Entries) /\ CacheOK'
      /\ \A e \in ToSet(streams') :
           e = [topic |-> topic, list |-> l] \/ e \in ToSet(streams)
  BY <1>1, UseEffect
<1>3. /\ lists' \in Seq(Seq(Nat)) /\ counter' \in Nat /\ DOMAIN lists' = DOMAIN lists \cup {l}
      /\ received' \in [Subscribers -> Seq(Nat)]
  BY <1>1 DEF StreamTypes, Extended
<1>4. \A i \in DOMAIN streams' : streams'[i].list \in DOMAIN lists'
  <2>1. \A e \in ToSet(streams) : e.list \in DOMAIN lists
    BY <1>1 DEF StreamTypes, ToSet
  <2>2. \A i \in DOMAIN streams' : streams'[i] \in ToSet(streams')
    BY DEF ToSet
  <2> QED
    BY <1>2, <1>3, <2>1, <2>2
<1>5. NumbersOK'
  BY <1>1, ExtendKeepsNumbers
<1> QED
  BY <1>2, <1>3, <1>4, <1>5 DEF StreamTypes

\* A message is published to a topic.
LEMMA PublishKeeps ==
  ASSUME StreamsBounds, StreamsInv, NEW topic \in Topics, Publish(topic)
  PROVE  StreamsInv'
<1> DEFINE l == ListOf(topic)
<1>0. StreamTypes /\ counter \in Nat
  BY DEF StreamsInv, StreamTypes
<1>1. /\ Use(topic) /\ UNCHANGED <<reader, received>> /\ counter' = counter + 1
      /\ lists' = IF Cached(topic) = {} THEN Append(lists, <<counter + 1>>)
                  ELSE [lists EXCEPT ![l] = Append(@, counter + 1)]
  BY DEF Publish
<1>2. <<counter + 1>> # <<>>
  OBVIOUS
<1>3. reader' \in [Subscribers -> Readers]
  BY <1>0, <1>1 DEF StreamTypes
<1> HIDE DEF l
<1>4. l = ListOf(topic) /\ topic \in Topics
  BY DEF l
<1>5. Extended(l)
  BY <1>0, <1>1, <1>2, <1>4, ExtendEffect
<1>6. StreamTypes' /\ CacheOK' /\ NumbersOK'
  BY <1>1, <1>3, <1>4, <1>5, ExtendKeepsTypes
<1>7. \A s \in Subscribers : SubscriberOK(s)'
  BY <1>1, <1>4, <1>5, ExtendKeepsSubscriber
<1> QED
  BY <1>6, <1>7 DEF StreamsInv

\* Where a subscriber goes on: after all that is not newer than its cursor.
LEMMA PositionAfterCursor ==
  ASSUME NEW w \in Seq(Nat), Growing(w), NEW c \in Nat,
         (\E i \in DOMAIN w : w[i] = c) \/ (\A i \in DOMAIN w : w[i] > c)
  PROVE  /\ Position(w, c) \in 0..Len(w)
         /\ \A i \in DOMAIN w : i <= Position(w, c) <=> w[i] <= c
<1>0. DOMAIN w = 1..Len(w) /\ Len(w) \in Nat /\ \A i \in DOMAIN w : w[i] \in Nat
  BY LenProperties, ElementOfSeq
<1>1. CASE c \in ToSet(w)
  <2> DEFINE p == CHOOSE i \in DOMAIN w : w[i] = c
  <2>1. Position(w, c) = p
    BY <1>1 DEF Position
  <2>2. p \in DOMAIN w /\ w[p] = c
    BY <1>1 DEF ToSet
  <2> HIDE DEF p
  <2>3. ASSUME NEW i \in DOMAIN w
        PROVE  i <= p <=> w[i] <= c
    <3>1. i < p \/ i = p \/ p < i
      BY <1>0, <2>2
    <3>2. (i < p => w[i] < w[p]) /\ (p < i => w[p] < w[i])
      BY <2>2 DEF Growing
    <3> QED
      BY <1>0, <2>2, <3>1, <3>2
  <2> QED
    BY <1>0, <2>1, <2>2, <2>3
<1>2. CASE c \notin ToSet(w)
  <2>1. Position(w, c) = 0
    BY <1>2 DEF Position
  <2>2. \A i \in DOMAIN w : w[i] > c
    BY <1>2 DEF ToSet
  <2> QED
    BY <1>0, <2>1, <2>2
<1> QED
  BY <1>1, <1>2

\* A subscriber finds the list of its topic, and its place in it.
LEMMA SubscribeKeeps ==
  ASSUME StreamsBounds, StreamsInv, NEW s \in Subscribers, Subscribe(s)
  PROVE  StreamsInv'
<1> DEFINE l == ListOf(Topic[s])
<1>0. /\ StreamTypes /\ CacheOK /\ NumbersOK /\ SubscriberOK(s) /\ counter \in Nat
      /\ Cursor(s) \in Nat /\ reader \in [Subscribers -> Readers] /\ reader[s] \in Readers
  BY CursorType DEF StreamsInv, StreamTypes
<1>1. /\ Use(Topic[s]) /\ UNCHANGED <<counter, received>>
      /\ lists' = IF Cached(Topic[s]) = {} THEN Append(lists, <<>>) ELSE lists
      /\ reader' = [reader EXCEPT ![s] =
           [at |-> "reading", list |-> l, index |-> Position(lists'[l], Cursor(s)),
            subscribed |-> reader[s].subscribed + 1]]
  BY DEF Subscribe, Cursor
<1> HIDE DEF l
<1>2. l = ListOf(Topic[s]) /\ Topic[s] \in Topics
  BY DEF l, StreamsBounds
<1>3. Extended(l)
  BY <1>0, <1>1, <1>2, ExtendEffect
<1>4. \A e \in Cached(Topic[s])' : CaughtUp(s, e.list)'
  BY <1>1, <1>2, <1>3, ExtendKeepsSubscriber
<1>5. Cached(Topic[s]) = {} => l \notin DOMAIN lists
  BY <1>0, <1>2, ListOfTopic
<1>6. Cached(Topic[s]) # {} => [topic |-> Topic[s], list |-> l] \in Cached(Topic[s]) /\ l \in DOMAIN lists
  BY <1>0, <1>2, ListOfTopic
<1>7. /\ l \in DOMAIN lists' /\ lists'[l] \in Seq(Nat) /\ l \in Nat
  <2>1. lists' \in Seq(Seq(Nat)) /\ l \in DOMAIN lists' /\ lists'[l] \in Seq(Nat)
    BY <1>3 DEF Extended
  <2> QED
    BY <2>1, LenProperties
<1>8. Growing(lists'[l])
  <2>1. NumbersOK'
    BY <1>0, <1>1, <1>3, ExtendKeepsNumbers
  <2> QED
    BY <1>7, <2>1 DEF NumbersOK, Numbered, Growing
<1>9. \/ \E i \in DOMAIN lists'[l] : lists'[l][i] = Cursor(s)
      \/ \A i \in DOMAIN lists'[l] : lists'[l][i] > Cursor(s)
  <2>1. CASE Cached(Topic[s]) = {}
    <3>1. \A i \in DOMAIN lists'[l] : FALSE
      BY <1>0, <1>1, <1>3, <1>5, <2>1 DEF Extended
    <3> QED
      BY <3>1
  <2>2. CASE Cached(Topic[s]) # {}
    <3>1. [topic |-> Topic[s], list |-> l].list = l
      OBVIOUS
    <3>2. CaughtUp(s, l)
      BY <1>0, <1>6, <2>2, <3>1 DEF SubscriberOK
    <3> QED
      BY <1>1, <2>2, <3>2 DEF CaughtUp
  <2> QED
    BY <2>1, <2>2
<1> DEFINE p == Position(lists'[l], Cursor(s))
           r == [at |-> "reading", list |-> l, index |-> p, subscribed |-> reader[s].subscribed + 1]
<1>10. /\ p \in 0..Len(lists'[l])
       /\ \A i \in DOMAIN lists'[l] : i <= p <=> lists'[l][i] <= Cursor(s)
  BY <1>0, <1>7, <1>8, <1>9, PositionAfterCursor
<1>11. reader' = [reader EXCEPT ![s] = r]
  BY <1>1
<1> HIDE DEF p
<1>12. r \in Readers /\ r.list = l /\ r.index = p
  BY <1>0, <1>7, <1>10, LenProperties DEF Readers
<1> HIDE DEF r
<1>13. /\ reader' \in [Subscribers -> Readers] /\ reader'[s] = r
       /\ \A q \in Subscribers : q # s => reader'[q] = reader[q]
  BY <1>0, <1>11, <1>12
<1>14. StreamTypes' /\ CacheOK' /\ NumbersOK'
  BY <1>1, <1>2, <1>3, <1>13, ExtendKeepsTypes
<1>15. SubscriberOK(s)'
  <2>1. PlaceOK(s)'
    <3>1. Cursor(s)' = Cursor(s)
      BY <1>1 DEF Cursor
    <3> QED
      BY <1>7, <1>10, <1>12, <1>13, <3>1 DEF PlaceOK
  <2>2. \A e \in ToSet(streams') :
          \/ e = [topic |-> Topic[s], list |-> l]
          \/ e \in ToSet(streams) /\ e.topic # Topic[s] /\ e.list # l
    BY <1>0, <1>1, <1>2, UseEffect
  <2>3. OlderOK(s)'
    <3>1. \A e \in ToSet(streams') : e.list = l => e.topic = Topic[s]
      BY <2>2
    <3>2. \A e \in Cached(Topic[s])' : e.list = l
      BY <2>2 DEF Cached
    <3> QED
      BY <1>12, <1>13, <3>1, <3>2 DEF OlderOK
  <2> QED
    BY <1>4, <2>1, <2>3 DEF SubscriberOK
<1>16. \A q \in Subscribers : q # s => SubscriberOK(q)'
  BY <1>1, <1>2, <1>3, <1>13, ExtendKeepsSubscriber
<1> QED
  BY <1>14, <1>15, <1>16 DEF StreamsInv

\* The messages a list has so far, and how far in it a cursor reaches.
Inside(w, top) == \A i \in DOMAIN w : w[i] \in 1..top
Reaches(w, n, c) == \A i \in DOMAIN w : i <= n <=> w[i] <= c
Taken(u, w, n) == u \o SubSeq(w, n + 1, Len(w))

\* What is taken from a list that grows, after what is not newer than the cursor.
LEMMA TakeNew ==
  ASSUME NEW u \in Seq(Nat), NEW w \in Seq(Nat), NEW n \in 0..Len(w), n < Len(w),
         NEW c \in Nat, NEW top \in Nat, Growing(u), Growing(w), Inside(u, top), Inside(w, top),
         Reaches(u, Len(u), c), Reaches(w, n, c), NEW new, new = Taken(u, w, n)
  PROVE  /\ new \in Seq(Nat) /\ new # <<>> /\ Last(new) = w[Len(w)] /\ Len(w) \in DOMAIN w
         /\ Growing(new) /\ Inside(new, top)
         /\ ToSet(u) \subseteq ToSet(new)
         /\ \A i \in DOMAIN w : i > n => w[i] \in ToSet(new)
         /\ \A i \in DOMAIN w : w[i] <= w[Len(w)]
<1> DEFINE k == Len(u)
           m == Len(w)
           seg == SubSeq(w, n + 1, m)
<1>1. /\ k \in Nat /\ m \in Nat /\ DOMAIN u = 1..k /\ DOMAIN w = 1..m /\ n \in 0..m /\ n < m
  BY LenProperties
<1>2. \A i \in n + 1..m : w[i] \in Nat
  BY <1>1, ElementOfSeq
<1>3. /\ seg \in Seq(Nat) /\ Len(seg) = m - n
      /\ \A i \in 1..(m - n) : seg[i] = w[n + i]
  <2>1. /\ SubSeq(w, n + 1, m) \in Seq(Nat)
        /\ Len(SubSeq(w, n + 1, m)) = IF n + 1 <= m THEN m - (n + 1) + 1 ELSE 0
        /\ \A i \in 1..(m - (n + 1) + 1) : SubSeq(w, n + 1, m)[i] = w[n + 1 + i - 1]
    <3> HIDE DEF m
    <3> QED
      BY <1>1, <1>2, SubSeqProperties
  <2>2. m - (n + 1) + 1 = m - n /\ \A i \in 1..(m - n) : n + 1 + i - 1 = n + i
    BY <1>1
  <2> HIDE DEF m
  <2> QED
    BY <1>1, <2>1, <2>2
<1> HIDE DEF seg
<1>4. /\ new \in Seq(Nat) /\ Len(new) = k + (m - n) /\ DOMAIN new = 1..(k + (m - n))
      /\ \A i \in 1..k : new[i] = u[i]
      /\ \A j \in 1..(m - n) : new[k + j] = w[n + j]
  <2>1. /\ u \o seg \in Seq(Nat) /\ Len(u \o seg) = Len(u) + Len(seg)
        /\ \A i \in 1..(Len(u) + Len(seg)) :
             (u \o seg)[i] = IF i <= Len(u) THEN u[i] ELSE seg[i - Len(u)]
    BY <1>3, ConcatProperties
  <2>2. new = u \o seg
    BY DEF seg, Taken
  <2> HIDE DEF k, m
  <2>3. new \in Seq(Nat) /\ Len(new) = k + (m - n)
    BY <1>3, <2>1, <2>2 DEF k, m
  <2>4. \A i \in 1..(k + (m - n)) : new[i] = IF i <= k THEN u[i] ELSE seg[i - k]
    BY <1>3, <2>1, <2>2 DEF k, m
  <2>5. DOMAIN new = 1..(k + (m - n))
    BY <2>3, LenProperties
  <2>6. \A i \in 1..k : i \in 1..(k + (m - n)) /\ i <= k
    BY <1>1
  <2>7. ASSUME NEW j \in 1..(m - n)
        PROVE  new[k + j] = w[n + j]
    <3>1. k + j \in 1..(k + (m - n)) /\ ~(k + j <= k) /\ (k + j) - k = j
      BY <1>1
    <3> QED
      BY <1>3, <2>4, <3>1
  <2> QED
    BY <2>3, <2>4, <2>5, <2>6, <2>7
<1> HIDE DEF k, m
<1>5. \A i \in 1..m : w[i] \in 1..top /\ (i <= n <=> w[i] <= c)
  BY <1>1 DEF m, Inside, Reaches
<1>6. \A i, j \in 1..m : i < j => w[i] < w[j]
  BY <1>1 DEF Growing
\* The place in w of what is taken.
<1> DEFINE of(i) == n + (i - k)
<1>7. ASSUME NEW i \in 1..(k + (m - n))
      PROVE  \/ i \in 1..k /\ new[i] = u[i] /\ u[i] <= c /\ u[i] \in 1..top
             \/ i \notin 1..k /\ of(i) \in 1..m /\ of(i) > n /\ new[i] = w[of(i)]
  <2>1. CASE i \in 1..k
    <3>1. u[i] <= c /\ u[i] \in 1..top
      BY SMTT(30), <1>1, <2>1 DEF Inside, Reaches, k
    <3> QED
      BY <1>4, <2>1, <3>1
  <2>2. CASE i \notin 1..k
    <3>1. i - k \in 1..(m - n) /\ k + (i - k) = i /\ of(i) \in 1..m /\ of(i) > n
      BY <1>1, <2>2
    <3>2. new[k + (i - k)] = w[n + (i - k)]
      BY <1>4, <3>1
    <3> QED
      BY <2>2, <3>1, <3>2
  <2> QED
    BY <2>1, <2>2
<1>8. Growing(new)
  <2> SUFFICES ASSUME NEW i \in 1..(k + (m - n)), NEW j \in 1..(k + (m - n)), i < j
               PROVE  new[i] < new[j]
    BY <1>4 DEF Growing
  <2>0. /\ of(i) < of(j) /\ (j \in 1..k => i \in 1..k)
    BY <1>1
  <2> HIDE DEF of
  <2>1. CASE i \in 1..k /\ j \in 1..k
    BY <1>1, <1>4, <2>1 DEF Growing
  <2>2. CASE i \in 1..k /\ j \notin 1..k
    <3>1. new[i] <= c /\ new[i] \in Nat
      BY <1>7, <2>2
    <3>2. of(j) \in 1..m /\ ~(of(j) <= n) /\ new[j] = w[of(j)]
      BY <1>1, <1>7, <2>2
    <3>3. new[j] \in Nat /\ ~(new[j] <= c)
      BY <1>5, <3>2
    <3> QED
      BY <3>1, <3>3
  <2>3. CASE i \notin 1..k /\ j \notin 1..k
    BY <1>6, <1>7, <2>0, <2>3
  <2> QED
    BY <2>0, <2>1, <2>2, <2>3
<1>9. \A i \in 1..(k + (m - n)) : new[i] \in 1..top
  <2> HIDE DEF of
  <2> QED
    BY <1>5, <1>7
<1>10. new # <<>> /\ Last(new) = w[m] /\ m \in 1..m
  <2>1. m - n \in 1..(m - n) /\ n + (m - n) = m /\ Len(new) # 0
    BY <1>1, <1>4
  <2>2. new[Len(new)] = w[m]
    BY <1>4, <2>1
  <2> QED
    BY <1>1, <1>4, <2>1, <2>2 DEF Last
<1>11. ToSet(u) \subseteq ToSet(new)
  <2>1. \A i \in 1..k : i \in 1..(k + (m - n)) /\ new[i] = u[i]
    BY <1>1, <1>4
  <2> QED
    BY <1>1, <1>4, <2>1 DEF ToSet
<1>12. ASSUME NEW i \in 1..m, i > n
       PROVE  w[i] \in ToSet(new)
  <2>1. k + (i - n) \in 1..(k + (m - n)) /\ i - n \in 1..(m - n) /\ n + (i - n) = i
    BY <1>1, <1>12
  <2>2. new[k + (i - n)] = w[i]
    BY <1>4, <2>1
  <2> QED
    BY <1>4, <2>1, <2>2 DEF ToSet
<1>13. ASSUME NEW i \in 1..m
       PROVE  w[i] <= w[m]
  <2>1. i = m \/ i < m
    BY <1>1
  <2>2. w[i] \in Nat /\ w[m] \in Nat
    BY <1>1, <1>5
  <2> QED
    BY <1>1, <1>6, <2>1, <2>2
<1> QED
  BY <1>1, <1>4, <1>8, <1>9, <1>10, <1>11, <1>12, <1>13 DEF m, Inside

\* A subscriber that begins to wait, or leaves, keeps its place.
LEMMA WaitKeeps ==
  ASSUME StreamsInv, NEW s \in Subscribers, UNCHANGED <<streams, lists, counter, received>>,
         NEW at \in {"waiting", "away"}, reader[s].at # "away",
         reader' = [reader EXCEPT ![s].at = at]
  PROVE  StreamsInv'
<1>0. StreamTypes /\ CacheOK /\ NumbersOK /\ reader \in [Subscribers -> Readers]
  BY DEF StreamsInv, StreamTypes
<1>1. /\ reader' \in [Subscribers -> Readers]
      /\ \A q \in Subscribers : /\ reader'[q].list = reader[q].list /\ reader'[q].index = reader[q].index
                                /\ reader'[q].at # "away" => reader[q].at # "away"
  BY <1>0 DEF Readers
<1>2. StreamTypes' /\ CacheOK' /\ NumbersOK'
  BY <1>0, <1>1 DEF StreamTypes, CacheOK, NumbersOK, Numbered, Growing
<1>3. ASSUME NEW q \in Subscribers
      PROVE  SubscriberOK(q)'
  <2>1. SubscriberOK(q)
    BY DEF StreamsInv
  <2>2. \A e \in Cached(Topic[q])' : CaughtUp(q, e.list)'
    BY <2>1 DEF SubscriberOK, CaughtUp, Cached, Cursor
  <2>3. PlaceOK(q) => PlaceOK(q)'
    BY <1>1 DEF PlaceOK, Cursor
  <2>4. OlderOK(q) => OlderOK(q)'
    BY <1>1 DEF OlderOK, Cached
  <2> QED
    BY <1>1, <2>1, <2>2, <2>3, <2>4 DEF SubscriberOK
<1> QED
  BY <1>2, <1>3 DEF StreamsInv

\* A subscriber takes what is new, or begins to wait.
LEMMA ReadKeeps ==
  ASSUME StreamsBounds, StreamsInv, NEW s \in Subscribers, Read(s)
  PROVE  StreamsInv'
<1> DEFINE own == reader[s].list
           w == lists[own]
           n == reader[s].index
           new == Taken(received[s], w, n)
<1>0. /\ StreamTypes /\ CacheOK /\ NumbersOK /\ SubscriberOK(s)
      /\ reader \in [Subscribers -> Readers] /\ reader[s] \in Readers
      /\ received \in [Subscribers -> Seq(Nat)] /\ received[s] \in Seq(Nat)
  BY DEF StreamsInv, StreamTypes
<1>1. UNCHANGED <<streams, lists, counter>> /\ reader[s].at # "away"
  BY DEF Read
<1>2. /\ Cursor(s) \in 0..counter /\ counter \in Nat
      /\ \A i \in DOMAIN received[s] : received[s][i] <= Cursor(s)
  BY <1>0, CursorType
<1>3. /\ PlaceOK(s) /\ OlderOK(s) /\ \A e \in Cached(Topic[s]) : CaughtUp(s, e.list)
  BY <1>0, <1>1 DEF SubscriberOK
<1>4. CASE n < Len(w)
  <2>1. /\ received' = [received EXCEPT ![s] = new]
        /\ reader' = [reader EXCEPT ![s].index = Len(w), ![s].at = "reading"]
    BY <1>4 DEF Read, Taken
  <2>2. own \in DOMAIN lists /\ n \in 0..Len(w) /\ Reaches(w, n, Cursor(s))
    BY <1>3 DEF PlaceOK, Reaches
  <2>3. w \in Seq(Nat) /\ Len(w) \in Nat /\ Numbered(w) /\ Numbered(received[s])
    BY <1>0, <2>2, ElementOfSeq, LenProperties DEF StreamTypes, NumbersOK
  <2>4. Reaches(received[s], Len(received[s]), Cursor(s))
    BY <1>0, <1>2, LenProperties DEF Reaches
  <2>5. \A v : Numbered(v) <=> Growing(v) /\ Inside(v, counter)
    BY DEF Numbered, Inside
  <2> DEFINE c == Cursor(s)
  <2> HIDE DEF w, n, own
  <2>6. /\ new \in Seq(Nat) /\ new # <<>> /\ Last(new) = w[Len(w)] /\ Len(w) \in DOMAIN w
        /\ Growing(new) /\ Inside(new, counter)
        /\ ToSet(received[s]) \subseteq ToSet(new)
        /\ \A i \in DOMAIN w : i > n => w[i] \in ToSet(new)
        /\ \A i \in DOMAIN w : w[i] <= w[Len(w)]
    <3>1. c \in Nat
      BY <1>2
    <3> HIDE DEF c
    <3>2. Reaches(w, n, c) /\ Reaches(received[s], Len(received[s]), c)
      BY <2>2, <2>4 DEF c
    <3> QED
      BY <1>0, <1>2, <1>4, <2>2, <2>3, <2>5, <3>1, <3>2, TakeNew
  <2> HIDE DEF new
  <2>7. /\ received' \in [Subscribers -> Seq(Nat)] /\ received'[s] = new
        /\ \A q \in Subscribers : q # s => received'[q] = received[q]
    BY <1>0, <2>1, <2>6
  <2>8. /\ reader' \in [Subscribers -> Readers]
        /\ reader'[s].list = own /\ reader'[s].index = Len(w)
        /\ \A q \in Subscribers : q # s => reader'[q] = reader[q]
    BY <1>0, <2>1, <2>3 DEF Readers, own
  <2>9. StreamTypes' /\ CacheOK'
    BY <1>0, <1>1, <2>7, <2>8 DEF StreamTypes, CacheOK
  <2>10. NumbersOK'
    <3>1. \A v : Numbered(v)' <=> Growing(v') /\ Inside(v', counter)
      BY <1>1 DEF Numbered, Inside, Growing
    <3>2. \A l \in DOMAIN lists : Growing(lists[l]) /\ Inside(lists[l], counter)
      BY <1>0, <2>5 DEF NumbersOK
    <3>3. \A q \in Subscribers : Growing(received'[q]) /\ Inside(received'[q], counter)
      BY <1>0, <2>5, <2>6, <2>7 DEF NumbersOK
    <3> QED
      BY <1>1, <3>2, <3>3 DEF NumbersOK, Numbered, Growing, Inside
  <2>11. Cursor(s)' = w[Len(w)]
    BY <2>6, <2>7 DEF Cursor
  <2>12. ASSUME NEW e \in Cached(Topic[s])
         PROVE  CaughtUp(s, e.list)'
    <3>1. CASE e.list = own
      <4>1. lists[e.list] = w
        BY <3>1 DEF w
      <4>2. CaughtUp(s, e.list)
        BY <1>3
      <4>3. ASSUME NEW i \in DOMAIN w
            PROVE  w[i] \in ToSet(new)
        <5>1. CASE i <= n
          <6>1. w[i] <= Cursor(s)
            BY <2>2, <5>1 DEF Reaches
          <6>2. w[i] \in ToSet(received[s])
            BY <4>1, <4>2, <6>1 DEF CaughtUp
          <6> QED
            BY <2>6, <6>2
        <5>2. CASE i > n
          BY <2>6, <5>2
        <5>3. i \in Nat /\ n \in Nat
          BY <2>2, <2>3, LenProperties
        <5> QED
          BY <5>1, <5>2, <5>3
      <4> QED
        BY <1>1, <2>6, <2>7, <2>11, <4>1, <4>3 DEF CaughtUp
    <3>2. CASE e.list # own
      <4>1. \A i \in DOMAIN lists[e.list] : w[Len(w)] < lists[e.list][i]
        BY <1>3, <2>6, <3>2 DEF OlderOK, own, w
      <4>2. w[Len(w)] \in Nat
        BY <2>3, <2>6, ElementOfSeq, LenProperties
      <4>3. \A i \in DOMAIN lists[e.list] : lists[e.list][i] \in Nat
        BY <1>0, ElementOfSeq, LenProperties DEF StreamTypes, Cached, ToSet
      <4> QED
        BY <1>1, <2>11, <4>1, <4>2, <4>3 DEF CaughtUp
    <3> QED
      BY <3>1, <3>2
  <2>13. PlaceOK(s)'
    <3>1. \A i \in DOMAIN w : i <= Len(w)
      BY <2>3, LenProperties
    <3>2. Len(w) \in 0..Len(w)
      BY <2>3
    <3>3. lists'[own] = w /\ own \in DOMAIN lists'
      BY <1>1, <2>2 DEF w
    <3> QED
      BY <2>6, <2>8, <2>11, <3>1, <3>2, <3>3 DEF PlaceOK
  <2>14. OlderOK(s)'
    BY <1>1, <1>3, <2>8 DEF OlderOK, Cached, own
  <2>15. SubscriberOK(s)'
    BY <1>1, <2>12, <2>13, <2>14 DEF SubscriberOK, Cached
  <2>16. ASSUME NEW q \in Subscribers, q # s
         PROVE  SubscriberOK(q)'
    <3>1. SubscriberOK(q) /\ reader'[q] = reader[q] /\ received'[q] = received[q]
      BY <2>7, <2>8, <2>16 DEF StreamsInv
    <3> QED
      BY <1>1, <3>1 DEF SubscriberOK, PlaceOK, OlderOK, CaughtUp, Cached, Cursor
  <2> QED
    BY <2>9, <2>10, <2>15, <2>16 DEF StreamsInv
<1>5. CASE ~(n < Len(w))
  <2>1. UNCHANGED received /\ reader' = [reader EXCEPT ![s].at = "waiting"]
    BY <1>5 DEF Read
  <2> QED
    BY <1>1, <2>1, WaitKeeps
<1> QED
  BY <1>4, <1>5

\* Nothing was published, and nobody subscribed.
LEMMA StreamsInit ==
  ASSUME StreamsBounds, LocalStreamsInit
  PROVE  StreamsInv
<1>1. /\ streams = <<>> /\ lists = <<>> /\ counter = 0
      /\ reader = [s \in Subscribers |-> [at |-> "away", list |-> 0, index |-> 0, subscribed |-> 0]]
      /\ received = [s \in Subscribers |-> <<>>]
  BY DEF LocalStreamsInit
<1>2. StreamTypes
  <2>1. [at |-> "away", list |-> 0, index |-> 0, subscribed |-> 0] \in Readers
    BY DEF Readers
  <2>2. \A S : <<>> \in Seq(S)
    OBVIOUS
  <2>3. received \in [Subscribers -> Seq(Nat)]
    BY <1>1, <2>2
  <2> QED
    BY <1>1, <2>1, <2>2, <2>3 DEF StreamTypes
<1>3. CacheOK /\ NumbersOK
  BY <1>1 DEF CacheOK, NumbersOK, Numbered, Growing
<1>4. \A s \in Subscribers : SubscriberOK(s)
  BY <1>1 DEF SubscriberOK, Cached, ToSet
<1> QED
  BY <1>2, <1>3, <1>4 DEF StreamsInv

\* The invariant of the streams of the broker.
LEMMA StreamsInvariance ==
  StreamsBounds => (LocalStreamsSpec => []StreamsInv)
<1> SUFFICES ASSUME StreamsBounds
             PROVE  LocalStreamsSpec => []StreamsInv
  OBVIOUS
<1>1. LocalStreamsInit => StreamsInv
  BY StreamsInit
<1>2. StreamsInv /\ [LocalStreamsNext]_localStreamsVars => StreamsInv'
  <2> SUFFICES ASSUME StreamsInv, [LocalStreamsNext]_localStreamsVars
               PROVE  StreamsInv'
    OBVIOUS
  <2>1. CASE \E topic \in Topics : Publish(topic)
    BY <2>1, PublishKeeps
  <2>2. CASE \E s \in Subscribers : Subscribe(s)
    BY <2>2, SubscribeKeeps
  <2>3. CASE \E s \in Subscribers : Read(s)
    BY <2>3, ReadKeeps
  <2>4. ASSUME NEW s \in Subscribers, TimeOut(s)
        PROVE  StreamsInv'
    <3>1. /\ UNCHANGED <<streams, lists, counter, received>> /\ reader[s].at # "away"
          /\ reader' = [reader EXCEPT ![s].at = "away"]
      BY <2>4 DEF TimeOut
    <3> QED
      BY <3>1, WaitKeeps
  <2>5. CASE UNCHANGED localStreamsVars
    BY <2>5 DEF localStreamsVars, StreamsInv, StreamTypes, CacheOK, NumbersOK, Numbered, Growing, SubscriberOK,
                CaughtUp, PlaceOK, OlderOK, Cached, Cursor
  <2> QED
    BY <2>1, <2>2, <2>3, <2>4, <2>5 DEF LocalStreamsNext
<1> QED
  BY <1>1, <1>2, PTL DEF LocalStreamsSpec

\* A subscriber is given its messages once and in order, and none is skipped
\* that the broker still has, for any size of the cache and any number of
\* topics, subscribers and messages (broker/local.py, a2a/executor.py).
THEOREM InOrder == StreamsBounds => (LocalStreamsSpec => []ReadInOrder)
<1> SUFFICES ASSUME StreamsBounds
             PROVE  LocalStreamsSpec => []ReadInOrder
  OBVIOUS
<1>1. StreamsInv => ReadInOrder
  <2> SUFFICES ASSUME StreamsInv, NEW s \in Subscribers
               PROVE  /\ \A i \in 2..Len(received[s]) : received[s][i - 1] < received[s][i]
                      /\ received[s] # <<>> => \A e \in Cached(Topic[s]) : \A c \in ToSet(lists[e.list]) :
                           c < Last(received[s]) => c \in ToSet(received[s])
    BY DEF ReadInOrder
  <2>1. StreamTypes /\ NumbersOK /\ SubscriberOK(s)
    BY DEF StreamsInv
  <2>2. Cursor(s) \in Nat /\ Len(received[s]) \in Nat /\ DOMAIN received[s] = 1..Len(received[s])
    BY <2>1, CursorType
  <2>3. \A i \in 2..Len(received[s]) : received[s][i - 1] < received[s][i]
    <3>1. Growing(received[s])
      BY <2>1 DEF NumbersOK, Numbered
    <3>2. \A i \in 2..Len(received[s]) :
            i \in DOMAIN received[s] /\ i - 1 \in DOMAIN received[s] /\ i - 1 < i
      BY <2>2
    <3> QED
      BY <3>1, <3>2 DEF Growing
  <2>4. ASSUME received[s] # <<>>, NEW e \in Cached(Topic[s]), NEW c \in ToSet(lists[e.list]),
               c < Last(received[s])
        PROVE  c \in ToSet(received[s])
    <3>1. Cursor(s) = Last(received[s])
      BY <2>4 DEF Cursor
    <3>2. PICK i \in DOMAIN lists[e.list] : c = lists[e.list][i]
      BY DEF ToSet
    <3>3. c \in Nat
      BY <2>1, <3>2, ElementOfSeq, LenProperties DEF StreamTypes, Cached, ToSet
    <3>4. c <= Cursor(s)
      BY <2>2, <2>4, <3>1, <3>3
    <3> QED
      BY <2>1, <3>2, <3>4 DEF SubscriberOK, CaughtUp
  <2> QED
    BY <2>3, <2>4
<1> QED
  BY <1>1, StreamsInvariance, PTL
================================================================================
