------------------------- MODULE Interaction_proofs -------------------------
(***************************************************************************)
(* Proofs about Interaction for every number of questions, messages,       *)
(* failures and endpoints: the lock and the activation of a question, its  *)
(* stream, and then what the client is told and what becomes of its        *)
(* replies, up to the answer stream that the whole implements.             *)
(***************************************************************************)
EXTENDS Interaction, SequenceTheorems, TLAPS

\* Trimming a non-empty stream to at least one entry leaves a non-empty
\* stream of the same entries (XADD maxlen).
LEMMA NewestType ==
  ASSUME NEW S, NEW s \in Seq(S), s # <<>>, NEW n \in Nat \ {0}
  PROVE  Newest(s, n) \in Seq(S) /\ Newest(s, n) # <<>>
<1>1. Len(s) \in Nat \ {0} /\ \A i \in 1..Len(s) : s[i] \in S
  BY EmptySeq, ElementOfSeq
<1>2. PICK m \in 1..Len(s) : Newest(s, n) = SubSeq(s, m, Len(s))
  <2> DEFINE first == IF Len(s) > n THEN Len(s) - n + 1 ELSE 1
  <2>1. first \in 1..Len(s)
    BY <1>1
  <2>2. Newest(s, n) = SubSeq(s, first, Len(s))
    BY DEF Newest
  <2> QED
    BY <2>1, <2>2
<1>3. SubSeq(s, m, Len(s)) \in Seq(S) /\ Len(SubSeq(s, m, Len(s))) = Len(s) - m + 1
  BY <1>1, SubSeqProperties
<1>4. Len(SubSeq(s, m, Len(s))) # 0
  BY <1>1, <1>3
<1> QED
  BY <1>2, <1>3, <1>4, EmptySeq

\* Publishing keeps the types, and a message published on the stream the
\* handler reads is there unless the call failed.
LEMMA PublishType ==
  ASSUME TypeOK, NEW q \in Questions, NEW m \in Message, Publish(q, m)
  PROVE  /\ stream' \in [Questions -> Seq(Message)]
         /\ drops' \in [Questions -> 0..MaxDrop]
         /\ \A p \in Questions \ {q} : stream'[p] = stream[p] /\ drops'[p] = drops[p]
         /\ HasReader(q) => stream'[q] # <<>> \/ drops'[q] > 0
<1> USE BoundsAssumption
<1>1. CASE \E n \in MaxLen..(MaxLen + TrimSlack) :
             stream' = [stream EXCEPT ![q] =
                          IF HasReader(q) THEN Newest(Append(@, m), n) ELSE <<>>]
             /\ UNCHANGED drops
  <2>1. PICK n \in MaxLen..(MaxLen + TrimSlack) :
             stream' = [stream EXCEPT ![q] =
                          IF HasReader(q) THEN Newest(Append(@, m), n) ELSE <<>>]
    BY <1>1
  <2>2. Append(stream[q], m) \in Seq(Message) /\ Append(stream[q], m) # <<>>
    <3>1. stream[q] \in Seq(Message)
      BY DEF TypeOK
    <3> QED
      BY <3>1, AppendProperties
  <2>3. /\ Newest(Append(stream[q], m), n) \in Seq(Message)
        /\ Newest(Append(stream[q], m), n) # <<>>
    <3>1. n \in Nat \ {0}
      OBVIOUS
    <3> QED
      BY <2>2, <3>1, NewestType
  <2>4. <<>> \in Seq(Message)
    BY EmptySeq
  <2> QED
    BY <1>1, <2>1, <2>3, <2>4 DEF TypeOK
<1>2. CASE drops[q] < MaxDrop /\ drops' = [drops EXCEPT ![q] = @ + 1] /\ UNCHANGED stream
  BY <1>2 DEF TypeOK
<1> QED
  BY <1>1, <1>2 DEF Publish

-----------------------------------------------------------------------------
(* Type correctness.                                                       *)

\* The initial state of every kind of connection is well typed.
LEMMA InitType == Init => TypeOK
<1>1. <<>> \in Seq(Message) /\ <<>> \in Seq(Output) /\ <<>> \in Seq(Item)
      /\ <<>> \in Seq(Questions)
  BY EmptySeq
<1> QED
  BY <1>1, BoundsAssumption
  DEF Init, TypeOK, Questions, Requests, Places, Streaming, Stages, Http

\* Every step keeps the types: the client and the receiver task.
LEMMA ClientType == TypeOK /\ (Client \/ PutShutdown) => TypeOK'
<1> SUFFICES ASSUME TypeOK, Client \/ PutShutdown PROVE TypeOK'
  OBVIOUS
<1> USE BoundsAssumption DEF clientVars, handlerVars, brokerVars, serverVars, agentVars, receiverVars
<1>1. \A i \in Item : <<i>> \in Seq(Item)
  OBVIOUS
<1>2. CASE SendQuestion
  <2>1. QuestionItem(accepted + 1) \in Item
    <3>1. accepted + 1 \in Questions
      BY <1>2 DEF SendQuestion, TypeOK, Questions
    <3> QED
      BY <3>1 DEF Item
  <2>2. queue' \in Seq(Item) /\ expecting' = "nothing" /\ accepted' \in 0..MaxQuestions
    BY <1>1, <1>2, <2>1 DEF SendQuestion, Accept, TypeOK
  <2> QED
    BY <1>2, <2>2 DEF SendQuestion, Accept, TypeOK
<1>3. ASSUME NEW r \in Requests, SendFeedback(r) PROVE TypeOK'
  <2>1. FeedbackItem(r) \in Item
    BY DEF Item
  <2>2. queue' \in Seq(Item) /\ expecting' \in {"nothing", expecting}
    BY <1>1, <1>3, <2>1 DEF SendFeedback, Accept, TypeOK
  <2>3. replied' \in SUBSET Requests
    BY <1>3 DEF SendFeedback, TypeOK
  <2> QED
    BY <1>3, <2>2, <2>3 DEF SendFeedback, Accept, TypeOK
<1>4. CASE Disconnect
  BY <1>4 DEF Disconnect, TypeOK
<1>5. CASE PutShutdown
  <2>1. queue' \in Seq(Item)
    BY <1>1, <1>5 DEF PutShutdown, Item
  <2> QED
    BY <1>5, <2>1 DEF PutShutdown, TypeOK
<1> QED
  BY <1>2, <1>3, <1>4, <1>5 DEF Client

\* What the queue holds: a question, an answer to a request or the shutdown.
LEMMA ItemCases ==
  ASSUME NEW i \in Item
  PROVE  /\ i.kind = "question" => i.re[1] \in Questions
         /\ i.kind = "feedback" => i.re \in Requests
BY DEF Item, QuestionItem, FeedbackItem, ShutdownItem

\* Emptying the queue and yielding a message keep the types.
LEMMA QueueHead ==
  ASSUME TypeOK, queue # <<>>
  PROVE  Head(queue) \in Item /\ <<>> \in Seq(Item)
<1>1. queue \in Seq(Item)
  BY DEF TypeOK
<1> QED
  BY <1>1, HeadTailProperties, EmptySeq

LEMMA EmitType ==
  ASSUME TypeOK, NEW t \in OutTypes, NEW n \in 0..MaxFeedback, Emit(t, n)
  PROVE  out' \in [Questions -> Seq(Output)]
<1>1. [type |-> t, k |-> n] \in Output
  BY DEF Output
<1>2. \A q \in Questions : Append(out[q], [type |-> t, k |-> n]) \in Seq(Output)
  <2> SUFFICES ASSUME NEW q \in Questions
               PROVE  Append(out[q], [type |-> t, k |-> n]) \in Seq(Output)
    OBVIOUS
  <2>1. out[q] \in Seq(Output)
    BY DEF TypeOK
  <2> QED
    BY <1>1, <2>1, AppendProperties
<1>3. out \in [Questions -> Seq(Output)]
  BY DEF TypeOK
<1> QED
  BY <1>2, <1>3 DEF Emit

\* The next message of a batch, and what is left of it.
LEMMA BatchHead ==
  ASSUME TypeOK, batch # <<>>
  PROVE  /\ Head(batch) \in Message
         /\ Tail(batch) \in Seq(Message)
         /\ Tail(batch) # <<>> <=> Len(batch) # 1
<1>1. batch \in Seq(Message)
  BY DEF TypeOK
<1>2. /\ Head(batch) \in Message
      /\ Tail(batch) \in Seq(Message)
      /\ Len(Tail(batch)) = Len(batch) - 1 /\ Len(batch) \in Nat \ {0}
  BY <1>1, HeadTailProperties, EmptySeq
<1>3. Tail(batch) # <<>> <=> Len(Tail(batch)) # 0
  BY <1>2, EmptySeq
<1> QED
  BY <1>2, <1>3

\* Every step of the API handler keeps the types.
LEMMA HandlerType == TypeOK /\ Handler => TypeOK'
<1> SUFFICES ASSUME TypeOK, Handler PROVE TypeOK'
  OBVIOUS
<1> USE BoundsAssumption
    DEF clientVars, handlerVars, brokerVars, serverVars, agentVars, receiverVars, Places, Streaming
<1>0. /\ <<>> \in Seq(Message) /\ <<>> \in Seq(Item)
      /\ {"start", "step", "oauth", "request", "final", "done", "apierror"} \subseteq OutTypes
      /\ 0 \in 0..MaxFeedback
  BY EmptySeq DEF OutTypes, MsgTypes
<1>1. CASE ValidateConnection
  BY <1>1 DEF ValidateConnection, Close, TypeOK
<1>2. CASE ReceiveQuestion \/ WakeWithQuestion
  <2>1. CASE queue = <<>>
    BY <1>2, <2>1 DEF ReceiveQuestion, WakeWithQuestion, Expect, TypeOK
  <2>2. CASE queue # <<>>
    <3>1. Head(queue) \in Item /\ queue' = <<>> /\ TakeQuestion(Head(queue))
      BY <1>2, <2>2, QueueHead DEF ReceiveQuestion, WakeWithQuestion
    <3>2. /\ pc' \in {"publish", "closed"} /\ rcv' \in {rcv, "stopped"}
          /\ cur' \in 0..MaxQuestions /\ (pc' = "publish" => cur' # 0)
      <4>1. Head(queue).kind = "question" => Head(queue).re[1] \in Questions
        BY <3>1, ItemCases
      <4>2. CASE Head(queue).kind = "question"
        BY <3>1, <4>1, <4>2 DEF TakeQuestion, Questions
      <4>3. CASE Head(queue).kind # "question"
        <5>1. pc' = "closed" /\ rcv' = "stopped" /\ cur' = cur
          BY <3>1, <4>3 DEF TakeQuestion
        <5> QED
          BY <5>1 DEF TypeOK
      <4> QED
        BY <4>2, <4>3
    <3> QED
      BY <1>0, <1>2, <3>1, <3>2 DEF ReceiveQuestion, WakeWithQuestion, Expect, TypeOK
  <2> QED
    BY <2>1, <2>2
<1>3. CASE PublishActivation
  <2>1. cur \in Questions
    BY <1>3 DEF PublishActivation, TypeOK, Questions
  <2>2. activations' \in Seq(Questions) /\ run' \in [Questions -> Stages]
    <3>1. activations \in Seq(Questions) /\ run \in [Questions -> Stages]
      BY DEF TypeOK
    <3>2. Append(activations, cur) \in Seq(Questions)
      BY <2>1, <3>1, AppendProperties
    <3>3. [run EXCEPT ![cur] = "queued"] \in [Questions -> Stages]
      BY <2>1, <3>1 DEF Stages
    <3> QED
      BY <1>3, <3>1, <3>2, <3>3 DEF PublishActivation
  <2>3. out' \in [Questions -> Seq(Output)]
    BY <1>0, <1>3, EmitType DEF PublishActivation, TypeOK
  <2>4. drops' \in [Questions -> 0..MaxDrop]
    BY SMTT(30), <1>3, <2>1 DEF PublishActivation, TypeOK
  <2> QED
    BY <1>0, <1>3, <2>2, <2>3, <2>4 DEF PublishActivation, EndStream, Close, TypeOK
<1>4. CASE ReadStream
  <2>1. cur \in Questions
    BY <1>4 DEF ReadStream, TypeOK, Questions
  <2> QED
    <3>1. stream \in [Questions -> Seq(Message)]
      BY DEF TypeOK
    <3>2. batch' \in Seq(Message) /\ batch' # <<>> /\ pc' = "batch" /\ idle' = 0 /\ cur' = cur
      BY <1>4, <2>1, <3>1 DEF ReadStream
    <3>3. stream' \in [Questions -> Seq(Message)]
      BY <1>0, <1>4, <3>1 DEF ReadStream
    <3>4. UNCHANGED <<clientVars, receiverVars, out, activations, mailbox, serverVars>>
      BY <1>4 DEF ReadStream
    <3>5. cur # 0
      BY <2>1 DEF Questions
    <3>6. /\ pc' \in Places /\ idle' \in 0..2 /\ pc' \notin {"requested", "waitfb"}
          /\ pc' # "read" => idle' = 0
          /\ batch' # <<>> <=> pc' \in {"batch", "requested", "waitfb"}
          /\ cur' # 0
      BY <3>2, <3>5
    <3> HIDE DEF Places
    <3> QED
      BY <3>2, <3>3, <3>4, <3>6 DEF TypeOK
<1>5. CASE AgentTimeout
  <2>1. out' \in [Questions -> Seq(Output)]
    BY <1>0, <1>5, EmitType DEF AgentTimeout
  <2> QED
    BY <1>0, <1>5, <2>1 DEF AgentTimeout, EndStream, Close, TypeOK
<1>6. CASE ReadFails
  <2>1. out' \in [Questions -> Seq(Output)]
    BY <1>0, <1>6, EmitType DEF ReadFails
  <2>2. cur \in Questions
    BY <1>6 DEF ReadFails, TypeOK, Questions
  <2>3. drops' \in [Questions -> 0..MaxDrop]
    BY <1>6, <2>2 DEF ReadFails, TypeOK
  <2> QED
    <3>1. /\ pc' \in {"ask", "closed"} /\ rcv' \in {rcv, "stopped"}
          /\ batch' = <<>> /\ idle' = 0 /\ UNCHANGED <<expecting, queue, accepted>>
      BY <1>6 DEF ReadFails, EndStream, Close
    <3>2. UNCHANGED <<clientVars, cur, brokerVars, listener, run, agentVars, pingDue, crashes>>
      BY <1>6 DEF ReadFails
    <3> QED
      BY <1>0, <2>1, <2>3, <3>1, <3>2 DEF TypeOK
<1>7. CASE HandleMessage
  <2> DEFINE m == Head(batch)
  <2>1. batch # <<>> /\ m.type \in MsgTypes /\ m.k \in 0..MaxFeedback
    BY <1>7, BatchHead DEF HandleMessage, TypeOK, Message
  <2>2. Tail(batch) \in Seq(Message) /\ (Tail(batch) # <<>> <=> Len(batch) # 1)
    BY <2>1, BatchHead
  <2>3. out' \in [Questions -> Seq(Output)]
    <3>1. CASE m.type \in {"start", "step", "final"}
      BY <1>0, <1>7, <2>1, <3>1, EmitType DEF HandleMessage
    <3>2. CASE m.type = "ping"
      BY <1>7, <3>2 DEF HandleMessage, TypeOK
    <3>3. CASE m.type \in {"oauth", "request", "done"}
      BY <1>0, <1>7, <2>1, <3>3, EmitType DEF HandleMessage, Unsupported
    <3> QED
      BY <2>1, <3>1, <3>2, <3>3 DEF MsgTypes
  <2>4. CASE NextMessage /\ UNCHANGED receiverVars
    BY <1>7, <2>2, <2>3, <2>4 DEF HandleMessage, NextMessage, TypeOK
  <2>5. CASE pc' = "requested" /\ m.type = "request" /\ UNCHANGED <<receiverVars, batch, idle>>
    BY <1>7, <2>3, <2>5 DEF HandleMessage, TypeOK
  <2>6. CASE EndStream
    BY <1>0, <1>7, <2>3, <2>6 DEF HandleMessage, EndStream, Close, TypeOK
  <2> QED
    BY <1>7, <2>4, <2>5, <2>6 DEF HandleMessage, Unsupported
<1>8. CASE ReceiveFeedback \/ WakeWithFeedback
  <2>1. CASE queue = <<>>
    BY <1>8, <2>1 DEF ReceiveFeedback, WakeWithFeedback, Expect, TypeOK
  <2>2. CASE queue # <<>>
    <3>1. Head(queue) \in Item /\ queue' = <<>> /\ TakeFeedback(Head(queue))
      BY <1>8, <2>2, QueueHead DEF ReceiveFeedback, WakeWithFeedback
    <3>2. batch # <<>> /\ cur \in Questions
      BY SMTT(30), <1>8 DEF ReceiveFeedback, WakeWithFeedback, TypeOK, Questions
    <3>3. Tail(batch) \in Seq(Message) /\ (Tail(batch) # <<>> <=> Len(batch) # 1)
      BY <3>2, BatchHead
    <3>4. out' \in [Questions -> Seq(Output)]
      BY <1>0, <3>1, EmitType DEF TakeFeedback, TypeOK
    <3>5. mailbox' \in [Requests -> Requests \cup {NoReply}]
      BY <3>1, ItemCases DEF TakeFeedback, TypeOK
    <3>6. drops' \in [Questions -> 0..MaxDrop]
      <4>1. drops \in [Questions -> 0..MaxDrop]
        BY DEF TypeOK
      <4>2. \/ drops' = drops
            \/ drops[cur] < MaxDrop /\ drops' = [drops EXCEPT ![cur] = @ + 1]
        BY <3>1 DEF TakeFeedback
      <4>3. drops[cur] < MaxDrop => drops[cur] + 1 \in 0..MaxDrop
        BY <3>2, <4>1
      <4> QED
        BY <4>1, <4>2, <4>3
    <3>7. /\ rcv' \in {rcv, "stopped"} /\ idle' = 0
          /\ batch' \in Seq(Message)
          /\ \/ pc' \in {"ask", "closed"} /\ batch' = <<>>
             \/ pc' = "read" /\ batch' = <<>>
             \/ pc' = "batch" /\ batch' # <<>>
      <4>1. idle = 0
        BY <1>8 DEF ReceiveFeedback, WakeWithFeedback, TypeOK
      <4> QED
        BY <1>0, <3>1, <3>3, <4>1 DEF TakeFeedback, AbandonStream, NextMessage
    <3> QED
      BY <1>0, <1>8, <3>1, <3>2, <3>4, <3>5, <3>6, <3>7
      DEF ReceiveFeedback, WakeWithFeedback, Expect, TypeOK
  <2> QED
    BY <2>1, <2>2
<1> QED
  BY <1>1, <1>2, <1>3, <1>4, <1>5, <1>6, <1>7, <1>8 DEF Handler

\* The fixed messages, and the request an agent publishes next, are messages.
LEMMA MsgType ==
  /\ \A t \in MsgTypes : Msg(t) \in Message
  /\ \A n \in 1..MaxFeedback : Request(n) \in Message
BY BoundsAssumption DEF Message, Msg, Request, MsgTypes

\* The steps of a question that publish publish one message on its stream.
LEMMA TaskPublishes ==
  ASSUME TypeOK, NEW q \in Questions,
         \/ PublishStart(q) \/ AgentStep(q) \/ AgentAsks(q)
         \/ PublishFinal(q) \/ PublishDone(q) \/ Ping(q)
  PROVE  \E m \in Message : Publish(q, m)
<1>1. CASE PublishStart(q) \/ PublishFinal(q) \/ PublishDone(q) \/ Ping(q)
  BY <1>1, MsgType DEF PublishStart, PublishFinal, PublishDone, Ping, MsgTypes
<1>2. CASE AgentStep(q)
  <2>1. PICK t \in StepKinds : Publish(q, Msg(t))
    BY <1>2 DEF AgentStep
  <2>2. Msg(t) \in Message
    BY MsgType, BoundsAssumption DEF MsgTypes
  <2> QED
    BY <2>1, <2>2
<1>3. CASE AgentAsks(q)
  <2>1. asked \in [Questions -> 0..MaxFeedback] /\ asked[q] < MaxFeedback
    BY <1>3 DEF AgentAsks, TypeOK
  <2>2. asked[q] + 1 \in 1..MaxFeedback
    BY <2>1, BoundsAssumption
  <2> QED
    BY <1>3, <2>2, MsgType DEF AgentAsks
<1> QED
  BY <1>1, <1>2, <1>3

\* Every step of activation_listener and activate keeps the types.
LEMMA ListenerType == TypeOK /\ Listener => TypeOK'
<1> SUFFICES ASSUME TypeOK, Listener PROVE TypeOK'
  OBVIOUS
<1> USE BoundsAssumption
    DEF apiVars, clientVars, handlerVars, receiverVars, brokerVars, agentVars
<1>1. CASE TakeActivation
  <2>1. activations \in Seq(Questions) /\ activations # <<>>
    BY <1>1 DEF TakeActivation, TypeOK
  <2>2. Head(activations) \in Questions /\ Tail(activations) \in Seq(Questions)
    BY <2>1, HeadTailProperties
  <2>3. listener' \in 0..MaxQuestions /\ activations' \in Seq(Questions)
    BY <1>1, <2>2 DEF TakeActivation, Questions
  <2>4. run' \in [Questions -> Stages]
    BY <1>1, <2>2 DEF TakeActivation, Stage, Stages, TypeOK
  <2>5. UNCHANGED <<apiVars, stream, mailbox, agentVars, pingDue, drops, crashes>>
    BY <1>1 DEF TakeActivation
  <2> QED
    BY <2>3, <2>4, <2>5 DEF TypeOK
<1>2. CASE Activate
  <2>0. run \in [Questions -> Stages] /\ listener \in 0..MaxQuestions
    BY DEF TypeOK
  <2>1. run' \in [Questions -> Stages] /\ listener' \in 0..MaxQuestions
    <3>1. run' \in [Questions -> Stages]
      BY <1>2, <2>0 DEF Activate, Stage, Stages
    <3>2. listener' \in {0, listener}
      BY <1>2 DEF Activate
    <3> QED
      BY <2>0, <3>1, <3>2
  <2>2. UNCHANGED <<apiVars, brokerVars, agentVars, pingDue, drops, crashes>>
    BY <1>2 DEF Activate
  <2> QED
    BY <2>1, <2>2 DEF TypeOK
<1>3. CASE ActivationError \/ ActivationErrorDone
  <2>1. listener \in Questions
    BY <1>3 DEF ActivationError, ActivationErrorDone, TypeOK, Questions
  <2>2. PICK m \in Message : Publish(listener, m)
    BY <1>3, MsgType DEF ActivationError, ActivationErrorDone, MsgTypes
  <2>3. stream' \in [Questions -> Seq(Message)] /\ drops' \in [Questions -> 0..MaxDrop]
    BY <2>1, <2>2, PublishType
  <2>4. run' \in [Questions -> Stages] /\ listener' \in 0..MaxQuestions
    <3>0. run \in [Questions -> Stages] /\ listener \in 0..MaxQuestions
      BY DEF TypeOK
    <3>1. run' \in [Questions -> Stages]
      BY <1>3, <3>0 DEF ActivationError, ActivationErrorDone, Stage, Stages
    <3>2. listener' \in {0, listener}
      BY <1>3 DEF ActivationError, ActivationErrorDone
    <3> QED
      BY <3>0, <3>1, <3>2
  <2> QED
    BY ZenonT(60), <1>3, <2>3, <2>4 DEF ActivationError, ActivationErrorDone, TypeOK
<1> QED
  BY <1>1, <1>2, <1>3 DEF Listener

\* Every step of an answer task or of its keep_alive task keeps the types.
LEMMA TaskType ==
  ASSUME TypeOK, NEW q \in Questions, AnswerTask(q) \/ Ping(q)
  PROVE  TypeOK'
<1> USE BoundsAssumption
    DEF apiVars, clientVars, handlerVars, receiverVars, brokerVars, agentVars, TaskFrame
<1>0. run \in [Questions -> Stages]
  BY DEF TypeOK
<1>1. CASE PublishStart(q) \/ PublishFinal(q) \/ PublishDone(q) \/ Ping(q)
  <2>1. PICK m \in Message : Publish(q, m)
    BY <1>1, TaskPublishes
  <2>2. stream' \in [Questions -> Seq(Message)] /\ drops' \in [Questions -> 0..MaxDrop]
    BY <2>1, PublishType
  <2>3. run' \in [Questions -> Stages]
    BY <1>0, <1>1 DEF PublishStart, PublishFinal, PublishDone, Ping, Stage, Stages
  <2>4. pingDue' \in [Questions -> BOOLEAN]
    BY <1>1 DEF PublishStart, PublishFinal, PublishDone, Ping, TypeOK
  <2> QED
    BY ZenonT(60), <1>1, <2>2, <2>3, <2>4 DEF PublishStart, PublishFinal, PublishDone, Ping, TypeOK
<1>2. CASE AgentStep(q)
  <2>1. PICK m \in Message : Publish(q, m)
    BY <1>2, TaskPublishes
  <2>2. stream' \in [Questions -> Seq(Message)] /\ drops' \in [Questions -> 0..MaxDrop]
    BY <2>1, PublishType
  <2>3. steps' \in [Questions -> 0..MaxSteps]
    <3>1. steps \in [Questions -> 0..MaxSteps] /\ steps[q] < MaxSteps
      BY <1>2 DEF AgentStep, TypeOK
    <3>2. steps' = [steps EXCEPT ![q] = @ + 1]
      BY <1>2 DEF AgentStep
    <3> QED
      BY <3>1, <3>2
  <2> QED
    BY <1>2, <2>2, <2>3 DEF AgentStep, TypeOK
<1>3. CASE AgentAsks(q)
  <2>1. asked \in [Questions -> 0..MaxFeedback] /\ asked[q] + 1 \in 1..MaxFeedback
    BY <1>3 DEF AgentAsks, TypeOK
  <2>2. Request(asked[q] + 1) \in Message
    BY <2>1, MsgType
  <2>3. stream' \in [Questions -> Seq(Message)] /\ drops' \in [Questions -> 0..MaxDrop]
    BY <1>3, <2>2, PublishType DEF AgentAsks
  <2>4. asked' \in [Questions -> 0..MaxFeedback]
    BY <1>3, <2>1 DEF AgentAsks
  <2>5. waiting' \in [Questions -> SUBSET (1..MaxFeedback)]
    <3>1. waiting \in [Questions -> SUBSET (1..MaxFeedback)]
      BY DEF TypeOK
    <3>2. waiting' = [waiting EXCEPT ![q] = @ \cup {asked[q] + 1}]
      BY <1>3 DEF AgentAsks
    <3> QED
      BY <2>1, <3>1, <3>2
  <2> QED
    BY <1>3, <2>3, <2>4, <2>5 DEF AgentAsks, TypeOK
<1>4. CASE AgentEnds(q) \/ AgentFails(q) \/ SaveMemory(q)
  <2>1. run' \in [Questions -> Stages]
    BY <1>0, <1>4 DEF AgentEnds, AgentFails, SaveMemory, Stage, Stages
  <2>2. waiting' \in [Questions -> SUBSET (1..MaxFeedback)] /\ others' \in [Questions -> BOOLEAN]
    BY <1>4 DEF AgentEnds, AgentFails, SaveMemory, TypeOK
  <2> QED
    BY ZenonT(60), <1>4, <2>1, <2>2 DEF AgentEnds, AgentFails, SaveMemory, TypeOK
<1>5. CASE ReplyReceived(q) \/ ReplyTimeout(q)
  <2>1. mailbox' \in [Requests -> Requests \cup {NoReply}]
    BY <1>5 DEF ReplyReceived, ReplyTimeout, TypeOK
  <2>2. waiting' \in [Questions -> SUBSET (1..MaxFeedback)]
    <3>1. waiting \in [Questions -> SUBSET (1..MaxFeedback)]
      BY DEF TypeOK
    <3>2. PICK k \in waiting[q] : waiting' = [waiting EXCEPT ![q] = @ \ {k}]
      BY <1>5 DEF ReplyReceived, ReplyTimeout
    <3> QED
      BY <3>1, <3>2
  <2> QED
    BY ZenonT(60), <1>5, <2>1, <2>2 DEF ReplyReceived, ReplyTimeout, TypeOK
<1>6. CASE CloseManager(q)
  <2>1. run' \in [Questions -> Stages] /\ pingDue' \in [Questions -> BOOLEAN]
    BY <1>0, <1>6 DEF CloseManager, Stage, Stages, TypeOK
  <2> QED
    BY <1>6, <2>1 DEF CloseManager, TypeOK
<1> QED
  BY <1>1, <1>2, <1>3, <1>4, <1>5, <1>6 DEF AnswerTask

\* Time, a stream that expires and a server that stops keep the types.
LEMMA EnvironmentType ==
  TypeOK /\ (Crash \/ Tick \/ \E q \in Questions : ExpireStream(q)) => TypeOK'
<1> SUFFICES ASSUME TypeOK, Crash \/ Tick \/ \E q \in Questions : ExpireStream(q)
             PROVE  TypeOK'
  OBVIOUS
<1> USE BoundsAssumption
    DEF apiVars, clientVars, handlerVars, receiverVars, brokerVars, serverVars, agentVars
<1>1. CASE Crash
  <2>1. /\ run' \in [Questions -> Stages] /\ pingDue' \in [Questions -> BOOLEAN]
        /\ waiting' \in [Questions -> SUBSET (1..MaxFeedback)]
        /\ crashes' \in 0..MaxCrash /\ listener' = 0
    BY <1>1 DEF Crash, Stages, TypeOK
  <2> QED
    BY <1>1, <2>1 DEF Crash, TypeOK
<1>2. CASE Tick
  <2>1. pingDue' \in [Questions -> BOOLEAN]
    BY <1>2 DEF Tick
  <2>2. idle' \in 0..2 /\ (pc # "read" => idle' = 0)
    BY <1>2 DEF Tick, TypeOK
  <2> QED
    BY <1>2, <2>1, <2>2 DEF Tick, TypeOK
<1>3. ASSUME NEW q \in Questions, ExpireStream(q) PROVE TypeOK'
  <2>1. stream' \in [Questions -> Seq(Message)]
    BY <1>3, EmptySeq DEF ExpireStream, TypeOK
  <2> QED
    BY <1>3, <2>1 DEF ExpireStream, TypeOK
<1> QED
  BY <1>1, <1>2, <1>3

\* The state is well typed, and shaped as the code shapes it, in every
\* reachable state.
THEOREM TypeCorrect == Spec => []TypeOK
<1>1. TypeOK /\ [Next]_vars => TypeOK'
  <2> SUFFICES ASSUME TypeOK, [Next]_vars PROVE TypeOK'
    OBVIOUS
  <2>1. CASE UNCHANGED vars
    BY <2>1 DEF vars, clientVars, receiverVars, handlerVars, brokerVars, serverVars, agentVars, TypeOK
  <2>2. CASE Next
    BY <2>2, ClientType, HandlerType, ListenerType, TaskType, EnvironmentType DEF Next
  <2> QED
    BY <2>1, <2>2
<1> QED
  BY InitType, <1>1, PTL DEF Spec

-----------------------------------------------------------------------------
(* ReceiverReady.                                                          *)

\* A handler blocked on the queue has announced what it waits for, unless an
\* item is already there: the inductive form of ReceiverReady.
Announced ==
  /\ pc = "waitq" => queue # <<>> \/ expecting = "question"
  /\ pc = "waitfb" => queue # <<>> \/ expecting = "feedback"

\* The steps of the server, of time and of the streams touch neither side of
\* the queue.
LEMMA ServerLeavesApi ==
  (Listener \/ (\E q \in Questions : AnswerTask(q) \/ Ping(q) \/ ExpireStream(q))
     \/ Crash \/ Tick)
  => UNCHANGED <<clientVars, receiverVars, pc, cur, batch, out>>
BY DEF Listener, TakeActivation, Activate, ActivationError, ActivationErrorDone,
       AnswerTask, PublishStart, AgentStep, AgentAsks,
       ReplyReceived, ReplyTimeout, AgentEnds, AgentFails, CloseManager, PublishFinal,
       PublishDone, SaveMemory, Ping, ExpireStream, Crash, Tick, TaskFrame, apiVars,
       clientVars, receiverVars, handlerVars

\* The handler announces what it waits for before it blocks.
LEMMA HandlerAnnounces == Spec => []Announced
<1>1. Init => Announced
  BY DEF Init, Announced, Http
<1>2. Announced /\ [Next]_vars => Announced'
  <2> SUFFICES ASSUME Announced, [Next]_vars PROVE Announced'
    OBVIOUS
  <2> USE DEF Announced
  <2>1. CASE UNCHANGED vars
    BY <2>1 DEF vars, receiverVars, handlerVars
  <2>2. CASE Client \/ PutShutdown
    BY <2>2 DEF Client, SendQuestion, SendFeedback, Disconnect, PutShutdown, Accept,
                handlerVars, receiverVars
  <2>3. CASE Handler
    <3>1. CASE ReceiveQuestion
      BY <3>1 DEF ReceiveQuestion, TakeQuestion, Expect
    <3>2. CASE WakeWithQuestion
      BY <3>2 DEF WakeWithQuestion, TakeQuestion
    <3>3. CASE ReceiveFeedback
      BY <3>3 DEF ReceiveFeedback, TakeFeedback, AbandonStream, NextMessage, Expect
    <3>4. CASE WakeWithFeedback
      BY <3>4 DEF WakeWithFeedback, TakeFeedback, AbandonStream, NextMessage
    <3>5. CASE ValidateConnection \/ PublishActivation \/ ReadStream
      BY <3>5 DEF ValidateConnection, PublishActivation, ReadStream, EndStream, Close
    <3>6. CASE AgentTimeout \/ ReadFails
      BY <3>6 DEF AgentTimeout, ReadFails, EndStream, Close
    <3>7. CASE HandleMessage
      BY <3>7 DEF HandleMessage, Unsupported, NextMessage, EndStream, Close
    <3> QED
      BY <2>3, <3>1, <3>2, <3>3, <3>4, <3>5, <3>6, <3>7 DEF Handler
  <2>4. CASE \/ Listener \/ Crash \/ Tick
             \/ \E q \in Questions : AnswerTask(q) \/ Ping(q) \/ ExpireStream(q)
    <3>1. UNCHANGED <<receiverVars, pc>>
      BY <2>4, ServerLeavesApi
    <3> QED
      BY <3>1 DEF receiverVars
  <2> QED
    BY <2>1, <2>2, <2>3, <2>4 DEF Next
<1> QED
  BY <1>1, <1>2, PTL DEF Spec

\* Handler and receiver never wait for each other (interaction.py:107-123 and
\* the Receiving guard of WebsocketReceiver.run).
THEOREM HandlerNeverBlocksReceiver == Spec => []ReceiverReady
<1>1. Announced => ReceiverReady
  BY DEF Announced, ReceiverReady
<1> QED
  BY HandlerAnnounces, <1>1, PTL

-----------------------------------------------------------------------------
(* NoFalseTimeout.                                                         *)

\* While the handler waits on an empty stream of an answering agent, either
\* its XREAD is fresh or half a keepalive old with a ping, or the end of the
\* answer, about to be published: the inductive form of NoFalseTimeout.
PingOnTheWay ==
  (pc = "read" /\ stream[cur] = <<>> /\ run[cur] \in Answering /\ drops[cur] = 0) =>
     idle = 0 \/ (idle = 1 /\ (pingDue[cur] \/ run[cur] \in {"final", "done"}))

\* A step of the handler leaves it somewhere else than in XREAD, or with an
\* XREAD it has just sent.
LEMMA HandlerRestartsXread ==
  ASSUME TypeOK, Handler
  PROVE  pc' # "read" \/ idle' = 0
<1>1. CASE ValidateConnection \/ ReceiveQuestion \/ WakeWithQuestion
  BY <1>1 DEF ValidateConnection, ReceiveQuestion, WakeWithQuestion, TakeQuestion, Close
<1>2. CASE PublishActivation \/ ReadStream \/ AgentTimeout \/ ReadFails
  BY <1>2 DEF PublishActivation, ReadStream, AgentTimeout, ReadFails, EndStream, Close
<1>3. CASE HandleMessage
  <2>1. idle = 0
    BY <1>3 DEF HandleMessage, TypeOK
  <2> QED
    BY <1>3, <2>1 DEF HandleMessage, Unsupported, NextMessage, EndStream, Close
<1>4. CASE ReceiveFeedback \/ WakeWithFeedback
  <2>1. idle = 0
    BY <1>4 DEF ReceiveFeedback, WakeWithFeedback, TypeOK
  <2> QED
    BY <1>4, <2>1
    DEF ReceiveFeedback, WakeWithFeedback, TakeFeedback, AbandonStream, NextMessage
<1> QED
  BY <1>1, <1>2, <1>3, <1>4 DEF Handler

\* What an answer task, its keep_alive and the listener do to the question
\* the handler is waiting for.
LEMMA TaskKeepsPing ==
  ASSUME TypeOK, PingOnTheWay, pc = "read",
         NEW q \in Questions, AnswerTask(q) \/ Ping(q)
  PROVE  PingOnTheWay'
<1> USE DEF TaskFrame, apiVars, handlerVars
<1>0. /\ cur \in Questions /\ HasReader(cur) /\ run \in [Questions -> Stages]
      /\ pingDue \in [Questions -> BOOLEAN] /\ drops \in [Questions -> 0..MaxDrop]
  BY DEF TypeOK, Questions, HasReader, Streaming
<1>1. pc' = pc /\ cur' = cur /\ idle' = idle
  BY DEF AnswerTask, PublishStart, AgentStep, AgentAsks,
         ReplyReceived, ReplyTimeout, AgentEnds, AgentFails, CloseManager, PublishFinal,
         PublishDone, SaveMemory, Ping
<1>2. CASE PublishStart(q) \/ AgentStep(q) \/ AgentAsks(q)
             \/ PublishFinal(q) \/ PublishDone(q) \/ Ping(q)
  <2>1. PICK m \in Message : Publish(q, m)
    BY <1>2, TaskPublishes
  <2>2. CASE q = cur
    <3>1. stream'[cur] # <<>> \/ drops'[cur] > 0
      BY <1>0, <2>1, <2>2, PublishType
    <3> QED
      BY <1>1, <3>1 DEF PingOnTheWay
  <2>3. CASE q # cur
    <3>1. stream'[cur] = stream[cur] /\ drops'[cur] = drops[cur]
      BY <1>0, <2>1, <2>3, PublishType
    <3>2. run'[cur] = run[cur] /\ pingDue'[cur] = pingDue[cur]
      BY <1>0, <1>2, <2>3
      DEF PublishStart, AgentStep, AgentAsks, PublishFinal, PublishDone, Ping, Stage
    <3> QED
      BY <1>1, <3>1, <3>2 DEF PingOnTheWay
  <2> QED
    BY <2>2, <2>3
<1>3. CASE ReplyReceived(q) \/ ReplyTimeout(q) \/ AgentEnds(q) \/ AgentFails(q)
  <2>1. UNCHANGED <<stream, pingDue, drops>>
    BY <1>3 DEF ReplyReceived, ReplyTimeout, AgentEnds, AgentFails
  <2>2. /\ run'[cur] \in Answering => run[cur] \in Answering
        /\ run[cur] \notin {"final", "done"} \/ run'[cur] = run[cur]
    BY <1>0, <1>3 DEF ReplyReceived, ReplyTimeout, AgentEnds, AgentFails, Stage, Answering
  <2> QED
    BY <1>1, <2>1, <2>2 DEF PingOnTheWay
<1>4. CASE CloseManager(q) \/ SaveMemory(q)
  <2>1. UNCHANGED <<stream, drops>>
    BY <1>4 DEF CloseManager, SaveMemory
  <2>2. \/ run'[cur] = run[cur] /\ pingDue'[cur] = pingDue[cur]
        \/ run[cur] = "closing" /\ run'[cur] = "final"
        \/ run'[cur] = "ended"
    BY <1>0, <1>4 DEF CloseManager, SaveMemory, Stage
  <2> QED
    BY <1>1, <2>1, <2>2 DEF PingOnTheWay, Answering
<1> QED
  BY <1>2, <1>3, <1>4 DEF AnswerTask

LEMMA ListenerKeepsPing ==
  ASSUME TypeOK, PingOnTheWay, pc = "read", Listener
  PROVE  PingOnTheWay'
<1> USE DEF apiVars, handlerVars
<1>0. cur \in Questions /\ run \in [Questions -> Stages] /\ activations \in Seq(Questions)
      /\ listener \in 0..MaxQuestions
  BY DEF TypeOK, Questions, Streaming
<1>1. /\ pc' = pc /\ cur' = cur /\ idle' = idle /\ pingDue' = pingDue
      /\ run'[cur] \in Answering => run'[cur] = run[cur]
  <2>1. CASE TakeActivation \/ Activate
    BY <1>0, <2>1 DEF TakeActivation, Activate, Stage, Answering
  <2>2. CASE ActivationError \/ ActivationErrorDone
    BY <1>0, <2>2 DEF ActivationError, ActivationErrorDone, Stage, Answering
  <2> QED
    BY <2>1, <2>2 DEF Listener
<1>2. \/ UNCHANGED <<stream, drops>>
      \/ /\ ActivationError \/ ActivationErrorDone
         /\ stream'[listener] # <<>> \/ drops'[listener] > 0 \/ listener # cur
         /\ listener # cur => stream'[cur] = stream[cur] /\ drops'[cur] = drops[cur]
  <2>1. CASE TakeActivation \/ Activate
    BY <2>1 DEF TakeActivation, Activate, brokerVars
  <2>2. CASE ActivationError \/ ActivationErrorDone
    <3>1. PICK m \in Message : Publish(listener, m)
      BY <2>2, MsgType DEF ActivationError, ActivationErrorDone, MsgTypes
    <3>2. listener \in Questions
      BY <1>0, <2>2 DEF ActivationError, ActivationErrorDone, Questions
    <3>3. listener = cur => HasReader(listener)
      BY DEF HasReader, Streaming
    <3> QED
      BY <1>0, <2>2, <3>1, <3>2, <3>3, PublishType
  <2> QED
    BY <2>1, <2>2 DEF Listener
<1> QED
  BY <1>1, <1>2 DEF PingOnTheWay

\* A working agent is never reported as stopped, unless a publication was
\* lost (the block of XREAD against the period of keep_alive, and keep_alive
\* outliving the agent until its manager is closed).
THEOREM WorkingAgentKeepsStreamAlive == Spec => []NoFalseTimeout
<1>1. Init => PingOnTheWay
  BY DEF Init, PingOnTheWay, Http
<1>2. TypeOK /\ PingOnTheWay /\ [Next]_vars => PingOnTheWay'
  <2> SUFFICES ASSUME TypeOK, PingOnTheWay, [Next]_vars PROVE PingOnTheWay'
    OBVIOUS
  <2>1. CASE UNCHANGED vars
    BY <2>1 DEF vars, handlerVars, brokerVars, serverVars, agentVars, PingOnTheWay
  <2>2. CASE Client \/ PutShutdown
    BY <2>2 DEF Client, SendQuestion, SendFeedback, Disconnect, PutShutdown,
                handlerVars, brokerVars, serverVars, agentVars, PingOnTheWay
  <2>3. CASE Handler
    BY <2>3, HandlerRestartsXread DEF PingOnTheWay
  <2>4. ASSUME pc = "read", Listener \/ \E q \in Questions : AnswerTask(q) \/ Ping(q)
        PROVE  PingOnTheWay'
    BY <2>4, TaskKeepsPing, ListenerKeepsPing
  <2>5. CASE pc # "read" /\ ~(Client \/ PutShutdown \/ Handler) /\ Next
    BY <2>5, ServerLeavesApi DEF Next, PingOnTheWay
  <2>6. ASSUME NEW q \in Questions, ExpireStream(q), pc = "read" PROVE PingOnTheWay'
    <3>1. cur # q
      BY <2>6 DEF ExpireStream, Streaming
    <3> QED
      BY <2>6, <3>1 DEF ExpireStream, PingOnTheWay, apiVars, handlerVars, serverVars, agentVars, TypeOK
  <2>7. CASE Crash /\ pc = "read"
    <3>1. cur \in Questions
      BY <2>7 DEF TypeOK, Questions, Streaming
    <3>2. run'[cur] \notin Answering
      BY <2>7, <3>1 DEF Crash, Answering
    <3>3. cur' = cur
      BY <2>7 DEF Crash, apiVars, handlerVars
    <3> QED
      BY <3>2, <3>3 DEF PingOnTheWay
  <2>8. CASE Tick /\ pc = "read"
    <3>1. cur \in Questions /\ idle \in 0..2
      BY <2>8 DEF TypeOK, Questions, Streaming
    <3>2. /\ ~pingDue[cur] /\ run[cur] \notin {"final", "done"}
          /\ idle' = idle + 1 /\ UNCHANGED <<pc, cur, stream, run, drops>>
      BY <2>8, <3>1 DEF Tick, brokerVars
    <3>3. run[cur] \in Answering => pingDue'[cur]
      <4>1. pingDue'[cur] = (run[cur] \in Alive)
        BY <2>8, <3>1 DEF Tick
      <4>2. run[cur] \in Answering => run[cur] \in Alive
        BY <3>2 DEF Answering, Alive
      <4> QED
        BY <4>1, <4>2, Zenon
    <3>4. (pc = "read" /\ stream[cur] = <<>> /\ run[cur] \in Answering /\ drops[cur] = 0)
            => idle = 0
      BY <3>2, Zenon DEF PingOnTheWay
    <3> QED
      BY <3>2, <3>3, <3>4 DEF PingOnTheWay
  <2> QED
    BY <2>1, <2>2, <2>3, <2>4, <2>5, <2>6, <2>7, <2>8 DEF Next
<1>3. TypeOK /\ PingOnTheWay => NoFalseTimeout
  <2> SUFFICES ASSUME TypeOK, PingOnTheWay, CanTimeOut, run[cur] \in Answering
               PROVE  drops[cur] > 0
    BY DEF NoFalseTimeout
  <2>1. drops[cur] \in Nat
    BY SMTT(30) DEF TypeOK, CanTimeOut, Questions, Streaming
  <2> QED
    BY <2>1 DEF PingOnTheWay, CanTimeOut
<1> QED
  BY TypeCorrect, <1>1, <1>2, <1>3, PTL DEF Spec

-----------------------------------------------------------------------------
(* DoneIsLast.                                                             *)

\* After AgentDone has been published nothing is added to the stream of the
\* question: its agents and its keep_alive have ended, and whoever
\* publishes publishes for another question.
LEMMA StreamOfAnsweredQuestion ==
  ASSUME TypeOK, NEW q \in Questions, run[q] \in {"saving", "ended"}, ~others[q],
         [Next]_vars
  PROVE  stream'[q] = stream[q] \/ stream'[q] = <<>>
<1> USE DEF TaskFrame, apiVars, brokerVars
<1>0. stream \in [Questions -> Seq(Message)]
  BY DEF TypeOK
<1>1. ASSUME NEW p \in Questions, NEW m \in Message, Publish(p, m), p # q
      PROVE  stream'[q] = stream[q]
  BY <1>1, PublishType
<1>2. CASE Client \/ PutShutdown \/ Crash \/ Tick \/ UNCHANGED vars
  BY <1>2 DEF Client, SendQuestion, SendFeedback, Disconnect, PutShutdown, Crash, Tick, vars
<1>3. CASE Handler
  BY <1>0, <1>3 DEF Handler, ValidateConnection, ReceiveQuestion, WakeWithQuestion,
     PublishActivation, ReadStream, AgentTimeout, ReadFails, HandleMessage,
     ReceiveFeedback, WakeWithFeedback
<1>4. CASE Listener
  <2>1. CASE TakeActivation \/ Activate
    BY <2>1 DEF TakeActivation, Activate
  <2>2. CASE ActivationError \/ ActivationErrorDone
    <3>1. PICK m \in Message : Publish(listener, m)
      BY <2>2, MsgType DEF ActivationError, ActivationErrorDone, MsgTypes
    <3>2. listener \in Questions /\ listener # q
      BY <2>2 DEF ActivationError, ActivationErrorDone, TypeOK, Questions
    <3> QED
      BY <1>1, <3>1, <3>2
  <2> QED
    BY <1>4, <2>1, <2>2 DEF Listener
<1>5. ASSUME NEW p \in Questions, AnswerTask(p) \/ Ping(p)
      PROVE  stream'[q] = stream[q]
  <2>1. CASE PublishStart(p) \/ AgentStep(p) \/ AgentAsks(p)
               \/ PublishFinal(p) \/ PublishDone(p) \/ Ping(p)
    <3>1. PICK m \in Message : Publish(p, m)
      BY <2>1, TaskPublishes
    <3>2. p # q
      BY <2>1
      DEF PublishStart, AgentStep, AgentAsks, PublishFinal, PublishDone, Ping,
          Active, Alive
    <3> QED
      BY <1>1, <3>1, <3>2
  <2>2. CASE ReplyReceived(p) \/ ReplyTimeout(p) \/ AgentEnds(p) \/ AgentFails(p)
               \/ CloseManager(p) \/ SaveMemory(p)
    BY <2>2 DEF ReplyReceived, ReplyTimeout, AgentEnds, AgentFails, CloseManager, SaveMemory
  <2> QED
    BY <1>5, <2>1, <2>2 DEF AnswerTask
<1>6. ASSUME NEW p \in Questions, ExpireStream(p)
      PROVE  stream'[q] = stream[q] \/ stream'[q] = <<>>
  BY <1>0, <1>6 DEF ExpireStream
<1> QED
  BY <1>2, <1>3, <1>4, <1>5, <1>6 DEF Next

\* AgentDone is the last message of an answer stream, unless a failed agent
\* has left others running (answer() cancels keep_alive before it publishes
\* the final answer).
THEOREM NothingAfterDone == Spec => DoneIsLast
<1>1. TypeOK /\ [Next]_vars =>
        [\A q \in Questions : run[q] \in {"saving", "ended"} /\ ~others[q] =>
           Len(stream'[q]) <= Len(stream[q])]_vars
  <2> SUFFICES ASSUME TypeOK, [Next]_vars, NEW q \in Questions,
                      run[q] \in {"saving", "ended"}, ~others[q]
               PROVE  Len(stream'[q]) <= Len(stream[q])
    OBVIOUS
  <2>1. Len(stream[q]) \in Nat /\ Len(<<>>) = 0
    <3>1. stream[q] \in Seq(Message)
      BY DEF TypeOK
    <3> QED
      BY <3>1, LenProperties
  <2>2. stream'[q] = stream[q] \/ stream'[q] = <<>>
    BY StreamOfAnsweredQuestion
  <2> QED
    BY <2>1, <2>2
<1> QED
  BY TypeCorrect, <1>1, PTL DEF Spec, DoneIsLast

-----------------------------------------------------------------------------
(* What the client is told, and what becomes of its replies.               *)


\* The handler is at a request of the agent: it has told the client of the
\* message at the head of the batch and has no answer yet.
AtRequest == pc \in {"requested", "waitfb"}
\* The item in the receiver's queue, if there is one, is of this kind.
Queued(kind) == queue # <<>> /\ Head(queue).kind = kind

\* The types that the proofs below use most.
LEMMA Basics ==
  ASSUME TypeOK
  PROVE  /\ cur \in Nat /\ accepted \in Nat
         /\ stream \in [Questions -> Seq(Message)] /\ run \in [Questions -> Stages]
         /\ out \in [Questions -> Seq(Output)]
         /\ activations \in Seq(Questions)
         /\ batch \in Seq(Message) /\ queue \in Seq(Item)
         /\ pc \in Streaming => cur \in Questions
<1>1. cur \in 0..MaxQuestions /\ (pc \in Streaming => cur # 0) /\ accepted \in 0..MaxQuestions
  BY DEF TypeOK
<1>2. pc \in Streaming => cur \in Questions
  BY <1>1, BoundsAssumption DEF Questions
<1> QED
  BY <1>1, <1>2, BoundsAssumption DEF TypeOK

-----------------------------------------------------------------------------
(* The questions are served in the order they were accepted.               *)

\* Nothing has happened to the questions that the handler has not taken.
Fresh(q) == out[q] = <<>> /\ stream[q] = <<>> /\ run[q] = "none"

\* A question is queued only after the one being served, an activation is
\* delivered once, and the shutdown is the last item of the receiver.
QuestionOrder ==
  /\ cur <= accepted
  /\ Queued("question") => Head(queue).re[1] \in (cur + 1)..accepted
  /\ Queued("shutdown") => rcv = "stopped"
  /\ \A q \in Questions : q > cur \/ (q = cur /\ pc = "publish") => Fresh(q)
  /\ \A i \in DOMAIN activations : run[activations[i]] = "queued"
  /\ \A i, j \in DOMAIN activations : activations[i] = activations[j] => i = j
  /\ listener # 0 => run[listener] \in {"activating", "actfailed"}

LEMMA InitOrder == Init => QuestionOrder
BY BoundsAssumption DEF Init, QuestionOrder, Queued, Fresh, Http, Questions

\* The client and the receiver task keep the order of the questions.
LEMMA ClientOrder ==
  ASSUME TypeOK, QuestionOrder, Client \/ PutShutdown
  PROVE  QuestionOrder'
<1> USE DEF clientVars, handlerVars, brokerVars, serverVars, agentVars, receiverVars
<1>0. cur \in Nat /\ accepted \in Nat
  BY Basics
<1>1. CASE SendQuestion
  <2>1. /\ queue' = <<QuestionItem(accepted + 1)>> /\ accepted' = accepted + 1
        /\ UNCHANGED <<cur, pc, rcv, out, stream, run, activations, listener>>
    BY <1>1 DEF SendQuestion, Accept
  <2>2. Head(queue').kind = "question" /\ Head(queue').re[1] = accepted + 1
    BY <2>1 DEF QuestionItem
  <2> QED
    BY <1>0, <2>1, <2>2 DEF QuestionOrder, Queued, Fresh
<1>2. ASSUME NEW r \in Requests, SendFeedback(r) PROVE QuestionOrder'
  <2>1. UNCHANGED <<cur, pc, rcv, accepted, out, stream, run, activations, listener>>
    BY <1>2 DEF SendFeedback, Accept
  <2>2. queue' = queue \/ (queue' # <<>> /\ Head(queue').kind = "feedback")
    BY <1>2 DEF SendFeedback, Accept, FeedbackItem
  <2> QED
    BY <2>1, <2>2 DEF QuestionOrder, Queued, Fresh
<1>3. CASE Disconnect
  BY <1>3 DEF Disconnect, QuestionOrder, Queued, Fresh
<1>4. CASE PutShutdown
  <2>1. Head(queue').kind = "shutdown" /\ rcv' = "stopped"
        /\ UNCHANGED <<cur, pc, accepted, out, stream, run, activations, listener>>
    BY <1>4 DEF PutShutdown, ShutdownItem
  <2> QED
    BY <2>1 DEF QuestionOrder, Queued, Fresh
<1> QED
  BY <1>1, <1>2, <1>3, <1>4 DEF Client

\* What the handler yields, it yields for the question it serves.
LEMMA EmitOthers ==
  ASSUME TypeOK, NEW t, NEW n, Emit(t, n), NEW q \in Questions, q # cur
  PROVE  out'[q] = out[q]
BY DEF Emit, TypeOK

\* The handler takes the questions in order and activates each once.
LEMMA HandlerOrder ==
  ASSUME TypeOK, QuestionOrder, Handler
  PROVE  QuestionOrder'
<1> USE DEF clientVars, brokerVars, serverVars, agentVars, receiverVars
<1>0. /\ cur \in Nat /\ accepted \in Nat
      /\ stream \in [Questions -> Seq(Message)] /\ run \in [Questions -> Stages]
      /\ activations \in Seq(Questions)
      /\ pc \in Streaming => cur \in Questions
  BY Basics
<1>1. ASSUME \/ pc' # "publish" /\ UNCHANGED cur
             \/ cur' \in (cur + 1)..accepted,
             queue' = <<>> \/ (queue' = queue /\ UNCHANGED cur),
             rcv' \in {rcv, "stopped"}, UNCHANGED accepted,
             \A q \in Questions : q > cur => out'[q] = out[q] /\ stream'[q] = stream[q],
             UNCHANGED <<run, activations, listener>>
      PROVE  QuestionOrder'
  <2>1. cur' \in cur..accepted
    BY <1>0, <1>1 DEF QuestionOrder
  <2>2. \A q \in Questions : q > cur' \/ (q = cur' /\ pc' = "publish") => Fresh(q)'
    BY <1>0, <1>1, <2>1 DEF QuestionOrder, Fresh, Questions
  <2> QED
    BY <1>0, <1>1, <2>1, <2>2 DEF QuestionOrder, Queued
<1>2. CASE ValidateConnection
  BY <1>1, <1>2 DEF ValidateConnection, Close
<1>3. CASE ReceiveQuestion \/ WakeWithQuestion
  <2>1. CASE queue = <<>>
    BY <1>1, <1>3, <2>1 DEF ReceiveQuestion, WakeWithQuestion
  <2>2. CASE queue # <<>>
    <3>1. TakeQuestion(Head(queue)) /\ queue' = <<>>
          /\ UNCHANGED <<accepted, out, stream, run, activations, listener>>
      BY <1>3, <2>2 DEF ReceiveQuestion, WakeWithQuestion
    <3>2. \/ pc' = "closed" /\ rcv' = "stopped" /\ cur' = cur
          \/ cur' \in (cur + 1)..accepted /\ rcv' = rcv
      BY <2>2, <3>1 DEF TakeQuestion, QuestionOrder, Queued
    <3> QED
      BY <1>1, <3>1, <3>2
  <2> QED
    BY <2>1, <2>2
<1>4. CASE PublishActivation
  <2>0. cur \in Questions /\ Fresh(cur)
    BY <1>0, <1>4 DEF PublishActivation, Streaming, QuestionOrder
  <2>1. CASE run' = run
    <3>1. \A q \in Questions : q > cur => out'[q] = out[q]
      BY <1>0, <1>4, EmitOthers DEF PublishActivation
    <3>2. run' = run => activations' = activations
      BY <1>0, <1>4, <2>0 DEF PublishActivation, Fresh
    <3> QED
      BY <1>1, <1>4, <2>1, <3>1, <3>2 DEF PublishActivation, EndStream, Close
  <2>2. CASE run' # run
    <3>1. /\ activations' = Append(activations, cur) /\ run' = [run EXCEPT ![cur] = "queued"]
          /\ pc' = "read" /\ UNCHANGED <<rcv, queue, accepted, cur, out, stream, listener>>
      BY <1>4, <2>2 DEF PublishActivation
    <3>2. \A i \in DOMAIN activations : activations[i] \in Questions /\ activations[i] # cur
      BY <1>0, <2>0, ElementOfSeq DEF QuestionOrder, Fresh
    <3>3. /\ \A i \in DOMAIN activations' : run'[activations'[i]] = "queued"
          /\ \A i, j \in DOMAIN activations' : activations'[i] = activations'[j] => i = j
      <4>1. DOMAIN activations' = 1..(Len(activations) + 1) /\ DOMAIN activations = 1..Len(activations)
        BY <1>0, <2>0, <3>1
      <4>2. Len(activations) \in Nat
        BY <1>0
      <4>3. \A i \in 1..Len(activations) : activations'[i] = activations[i]
        BY <1>0, <2>0, <3>1
      <4>4. activations'[Len(activations) + 1] = cur
        BY <1>0, <2>0, <3>1
      <4> QED
        BY <1>0, <2>0, <3>1, <3>2, <4>1, <4>2, <4>3, <4>4 DEF QuestionOrder
    <3>4. \A q \in Questions : q > cur => Fresh(q)'
      BY <1>0, <3>1 DEF QuestionOrder, Fresh
    <3>5. listener' # 0 => run'[listener'] \in {"activating", "actfailed"}
      BY <1>0, <2>0, <3>1 DEF QuestionOrder, Fresh
    <3> QED
      BY <3>1, <3>3, <3>4, <3>5 DEF QuestionOrder, Queued
  <2> QED
    BY <2>1, <2>2
<1>5. CASE ReadStream
  <2>1. \A q \in Questions : q > cur => stream'[q] = stream[q]
    BY <1>0, <1>5 DEF ReadStream
  <2> QED
    BY <1>1, <1>5, <2>1 DEF ReadStream
<1>6. CASE AgentTimeout \/ ReadFails
  <2>1. \A q \in Questions : q > cur => out'[q] = out[q]
    BY <1>0, <1>6, EmitOthers DEF AgentTimeout, ReadFails
  <2> QED
    BY <1>1, <1>6, <2>1 DEF AgentTimeout, ReadFails, EndStream, Close
<1>7. CASE HandleMessage
  <2>1. \A q \in Questions : q > cur => out'[q] = out[q]
    BY <1>0, <1>7, EmitOthers DEF HandleMessage, Unsupported
  <2> QED
    BY <1>1, <1>7, <2>1 DEF HandleMessage, Unsupported, NextMessage, EndStream, Close
<1>8. CASE ReceiveFeedback \/ WakeWithFeedback
  <2>1. CASE queue = <<>>
    BY <1>1, <1>8, <2>1 DEF ReceiveFeedback, WakeWithFeedback
  <2>2. CASE queue # <<>>
    <3>1. TakeFeedback(Head(queue)) /\ queue' = <<>>
          /\ UNCHANGED <<accepted, cur, stream, run, activations, listener>>
      BY <1>8, <2>2 DEF ReceiveFeedback, WakeWithFeedback
    <3>2. \A q \in Questions : q > cur => out'[q] = out[q]
      BY <1>0, <3>1, EmitOthers DEF TakeFeedback
    <3>3. pc' # "publish" /\ rcv' \in {rcv, "stopped"}
      BY <3>1 DEF TakeFeedback, AbandonStream, NextMessage
    <3> QED
      BY <1>1, <3>1, <3>2, <3>3
  <2> QED
    BY <2>1, <2>2
<1> QED
  BY <1>2, <1>3, <1>4, <1>5, <1>6, <1>7, <1>8 DEF Handler

\* A question that the server works on has been activated, and its steps are
\* about its own stream and stage.
LEMMA TaskStage ==
  ASSUME TypeOK, NEW q \in Questions, AnswerTask(q) \/ Ping(q)
  PROVE  /\ \/ UNCHANGED <<run, stream>>
            \/ /\ run[q] \notin {"none", "queued", "activating", "actfailed"}
               /\ run'[q] \notin {"none", "queued", "activating", "actfailed"}
         /\ \A p \in Questions \ {q} : run'[p] = run[p] /\ stream'[p] = stream[p]
         /\ UNCHANGED <<activations, listener>>
<1> USE DEF TaskFrame, Stage
<1>0. run \in [Questions -> Stages]
  BY Basics
<1>1. CASE PublishStart(q) \/ AgentStep(q) \/ AgentAsks(q)
             \/ PublishFinal(q) \/ PublishDone(q) \/ Ping(q)
  <2>1. PICK m \in Message : Publish(q, m)
    BY <1>1, TaskPublishes
  <2>2. \A p \in Questions \ {q} : stream'[p] = stream[p]
    BY <2>1, PublishType
  <2>3. CASE PublishStart(q) \/ PublishFinal(q) \/ PublishDone(q)
    BY <1>0, <2>2, <2>3 DEF PublishStart, PublishFinal, PublishDone
  <2>4. CASE AgentStep(q) \/ AgentAsks(q) \/ Ping(q)
    BY <1>0, <2>2, <2>4 DEF AgentStep, AgentAsks, Ping, Active, Alive
  <2> QED
    BY <1>1, <2>3, <2>4
<1>2. CASE ReplyReceived(q) \/ ReplyTimeout(q)
  BY <1>2 DEF ReplyReceived, ReplyTimeout
<1>3. CASE AgentEnds(q) \/ AgentFails(q)
  BY <1>0, <1>3 DEF AgentEnds, AgentFails
<1>4. CASE CloseManager(q) \/ SaveMemory(q)
  BY <1>0, <1>4 DEF CloseManager, SaveMemory
<1> QED
  BY <1>1, <1>2, <1>3, <1>4 DEF AnswerTask

\* Activations are delivered in order, one at a time, and no other step of the
\* server, of time or of the streams touches a question before that.
LEMMA ServerOrder ==
  ASSUME TypeOK, QuestionOrder,
         \/ Listener \/ Crash \/ Tick
         \/ \E q \in Questions : AnswerTask(q) \/ Ping(q) \/ ExpireStream(q)
  PROVE  QuestionOrder'
<1>0. /\ cur \in Nat /\ accepted \in Nat
      /\ stream \in [Questions -> Seq(Message)] /\ run \in [Questions -> Stages]
      /\ activations \in Seq(Questions) /\ listener \in 0..MaxQuestions
      /\ \A i \in DOMAIN activations : activations[i] \in Questions
  BY Basics, ElementOfSeq DEF TypeOK
<1>1. UNCHANGED <<cur, pc, accepted, queue, rcv, out>>
  BY ServerLeavesApi DEF receiverVars
<1>2. ASSUME \A q \in Questions : Fresh(q) => stream'[q] = <<>> /\ run'[q] = "none",
             \A i \in DOMAIN activations' : run'[activations'[i]] = "queued",
             \A i, j \in DOMAIN activations' : activations'[i] = activations'[j] => i = j,
             listener' # 0 => run'[listener'] \in {"activating", "actfailed"}
      PROVE  QuestionOrder'
  BY <1>1, <1>2 DEF QuestionOrder, Queued, Fresh
<1>3. CASE TakeActivation
  <2> DEFINE h == Head(activations)
  <2>1. activations # <<>> /\ h = activations[1] /\ 1 \in DOMAIN activations
    BY <1>0, <1>3 DEF TakeActivation
  <2>2. h \in Questions /\ run[h] = "queued"
    BY <1>0, <2>1 DEF QuestionOrder
  <2>3. /\ run' = [run EXCEPT ![h] = "activating"] /\ listener' = h
        /\ stream' = stream /\ activations' = Tail(activations)
    BY <1>3 DEF TakeActivation, Stage
  <2>4. \A i \in DOMAIN Tail(activations) :
           i + 1 \in DOMAIN activations /\ Tail(activations)[i] = activations[i + 1]
           /\ i + 1 # 1 /\ i \in Nat
    BY <1>0, <2>1
  <2>5. \A i \in DOMAIN activations' : activations'[i] # h /\ activations'[i] \in Questions
    BY <1>0, <2>1, <2>3, <2>4 DEF QuestionOrder
  <2>6. \A i \in DOMAIN activations' : run'[activations'[i]] = "queued"
    BY <1>0, <2>2, <2>3, <2>4, <2>5 DEF QuestionOrder
  <2>7. \A i, j \in DOMAIN activations' : activations'[i] = activations'[j] => i = j
    BY <2>3, <2>4 DEF QuestionOrder
  <2>8. \A q \in Questions : Fresh(q) => stream'[q] = <<>> /\ run'[q] = "none"
    BY <1>0, <2>2, <2>3 DEF Fresh
  <2>9. run'[listener'] = "activating"
    BY <1>0, <2>2, <2>3
  <2> QED
    BY <1>2, <2>6, <2>7, <2>8, <2>9
<1>4. CASE Activate \/ ActivationError \/ ActivationErrorDone
  <2>1. /\ listener \in Questions /\ run[listener] \in {"activating", "actfailed"}
        /\ activations' = activations
    BY <1>0, <1>4
    DEF Activate, ActivationError, ActivationErrorDone, QuestionOrder, Questions, brokerVars
  <2>2. /\ \A q \in Questions \ {listener} : run'[q] = run[q]
        /\ listener' # 0 => listener' = listener /\ run'[listener] = "actfailed"
    BY <1>0, <1>4, <2>1 DEF Activate, ActivationError, ActivationErrorDone, Stage
  <2>3. \A q \in Questions \ {listener} : stream'[q] = stream[q]
    <3>1. CASE Activate
      BY <3>1 DEF Activate, brokerVars
    <3>2. CASE ActivationError \/ ActivationErrorDone
      <4>1. PICK m \in Message : Publish(listener, m)
        BY <3>2, MsgType DEF ActivationError, ActivationErrorDone, MsgTypes
      <4> QED
        BY <2>1, <4>1, PublishType
    <3> QED
      BY <1>4, <3>1, <3>2
  <2>4. \A q \in Questions : Fresh(q) => stream'[q] = <<>> /\ run'[q] = "none"
    BY <2>1, <2>2, <2>3 DEF Fresh
  <2>5. \A i \in DOMAIN activations' : run'[activations'[i]] = "queued"
    BY <1>0, <2>1, <2>2 DEF QuestionOrder
  <2> QED
    BY <1>2, <2>1, <2>2, <2>4, <2>5 DEF QuestionOrder
<1>5. ASSUME NEW q \in Questions, AnswerTask(q) \/ Ping(q) PROVE QuestionOrder'
  <2>1. CASE UNCHANGED <<run, stream>>
    BY <1>2, <1>5, <2>1, TaskStage DEF QuestionOrder, Fresh
  <2>2. CASE /\ run[q] \notin {"none", "queued", "activating", "actfailed"}
             /\ run'[q] \notin {"none", "queued", "activating", "actfailed"}
    <3>1. /\ UNCHANGED <<activations, listener>>
          /\ \A p \in Questions \ {q} : run'[p] = run[p] /\ stream'[p] = stream[p]
      BY <1>5, TaskStage
    <3>2. \A p \in Questions : Fresh(p) => stream'[p] = <<>> /\ run'[p] = "none"
      BY <2>2, <3>1 DEF Fresh
    <3>3. \A i \in DOMAIN activations' : run'[activations'[i]] = "queued"
      BY <1>0, <2>2, <3>1 DEF QuestionOrder
    <3>4. listener' # 0 => run'[listener'] \in {"activating", "actfailed"}
      BY <1>0, <2>2, <3>1 DEF QuestionOrder, Questions
    <3> QED
      BY <1>2, <3>1, <3>2, <3>3, <3>4 DEF QuestionOrder
  <2> QED
    BY <1>5, <2>1, <2>2, TaskStage
<1>6. ASSUME NEW q \in Questions, ExpireStream(q) PROVE QuestionOrder'
  <2>1. /\ UNCHANGED <<run, activations, listener>>
        /\ \A p \in Questions : stream'[p] = stream[p] \/ stream'[p] = <<>>
    BY <1>0, <1>6 DEF ExpireStream, serverVars
  <2> QED
    BY <1>2, <2>1 DEF QuestionOrder, Fresh
<1>7. CASE Crash
  <2>1. /\ UNCHANGED <<activations, stream>> /\ listener' = 0
        /\ \A q \in Questions : run[q] \in {"none", "queued"} => run'[q] = run[q]
    BY <1>7 DEF Crash, brokerVars
  <2>2. \A i \in DOMAIN activations' : run'[activations'[i]] = "queued"
    BY <1>0, <2>1 DEF QuestionOrder
  <2> QED
    BY <1>2, <2>1, <2>2 DEF QuestionOrder, Fresh
<1>8. CASE Tick
  <2>1. UNCHANGED <<activations, stream, listener, run>>
    BY <1>8 DEF Tick, brokerVars
  <2> QED
    BY <1>2, <2>1 DEF QuestionOrder, Fresh
<1> QED
  BY <1>3, <1>4, <1>5, <1>6, <1>7, <1>8 DEF Listener

\* Every step keeps the order of the questions.
LEMMA OrderKept == TypeOK /\ QuestionOrder /\ [Next]_vars => QuestionOrder'
<1> SUFFICES ASSUME TypeOK, QuestionOrder, [Next]_vars PROVE QuestionOrder'
  OBVIOUS
<1>1. CASE UNCHANGED vars
  BY <1>1 DEF vars, clientVars, receiverVars, handlerVars, brokerVars, serverVars,
              QuestionOrder, Queued, Fresh
<1> QED
  BY <1>1, ClientOrder, HandlerOrder, ServerOrder DEF Next

-----------------------------------------------------------------------------
(* ReplyMatchesRequest.                                                    *)

\* The client has been shown request k of the question being served.
Told(k) == \E i \in DOMAIN out[cur] : out[cur][i] = Request(k)

\* The receiver takes an answer only for the request the handler waits at, or
\* when the handler is about to leave; and while a question is answered every
\* request shown but that one has been replied to.  The inductive form of
\* ReplyMatchesRequest.
RepliesInOrder ==
  /\ expecting = "feedback" => pc \in {"waitfb", "ask", "closed"}
  /\ Queued("feedback") =>
       /\ Head(queue).re \in replied
       /\ \/ /\ pc = "waitfb" /\ expecting = "nothing"
             /\ Head(queue).re = <<cur, Head(batch).k>>
          \/ pc \in {"ask", "closed"}
  /\ pc \in Streaming =>
       \A k \in 1..MaxFeedback :
          Told(k) => <<cur, k>> \in replied \/ (AtRequest /\ k = Head(batch).k)

\* The client answers what it has been shown.
LEMMA ClientReplies ==
  ASSUME TypeOK, Announced, RepliesInOrder, Client \/ PutShutdown
  PROVE  RepliesInOrder'
<1> USE DEF clientVars, handlerVars, brokerVars, serverVars, agentVars, receiverVars
<1>1. CASE SendQuestion
  <2>1. /\ ~Queued("feedback")' /\ expecting' = "nothing"
        /\ UNCHANGED <<pc, cur, batch, out, replied>>
    BY <1>1 DEF SendQuestion, Accept, QuestionItem, Queued
  <2> QED
    BY <2>1 DEF RepliesInOrder, Told, AtRequest
<1>2. ASSUME NEW r \in Requests, SendFeedback(r) PROVE RepliesInOrder'
  <2>1. /\ UNCHANGED <<pc, cur, batch, out>> /\ replied' = replied \cup {r}
    BY <1>2 DEF SendFeedback
  <2>2. PICK k \in 1..MaxFeedback : r = <<cur, k>> /\ Told(k)
    BY <1>2 DEF SendFeedback, Shown, Told
  <2>3. r \notin replied
    BY <1>2 DEF SendFeedback
  <2>4. CASE Accept("feedback", FeedbackItem(r))
    <3>1. /\ expecting = "feedback" /\ expecting' = "nothing"
          /\ queue' = <<FeedbackItem(r)>> /\ Head(queue').re = r
      BY <2>4 DEF Accept, FeedbackItem
    <3>2. pc \in {"waitfb", "ask", "closed"}
      BY <3>1 DEF RepliesInOrder
    <3>3. pc = "waitfb" => k = Head(batch).k
      BY <2>2, <2>3 DEF RepliesInOrder, Streaming
    <3> QED
      BY <2>1, <2>2, <3>1, <3>2, <3>3 DEF RepliesInOrder, Told, AtRequest, Queued
  <2>5. CASE UNCHANGED receiverVars
    BY <2>1, <2>5 DEF RepliesInOrder, Told, AtRequest, Queued
  <2> QED
    BY <1>2, <2>4, <2>5 DEF SendFeedback
<1>3. CASE Disconnect
  BY <1>3 DEF Disconnect, RepliesInOrder, Told, AtRequest, Queued
<1>4. CASE PutShutdown
  <2>1. /\ ~Queued("feedback")' /\ expecting' = expecting
        /\ UNCHANGED <<pc, cur, batch, out, replied>>
    BY <1>4 DEF PutShutdown, ShutdownItem, Queued
  <2> QED
    BY <2>1 DEF RepliesInOrder, Told, AtRequest
<1> QED
  BY <1>1, <1>2, <1>3, <1>4 DEF Client

\* What the handler yields shows the client a request only if it is one.
LEMMA EmitTold ==
  ASSUME TypeOK, cur \in Questions, NEW t, NEW n, Emit(t, n), UNCHANGED cur,
         NEW k \in 1..MaxFeedback, Told(k)'
  PROVE  Told(k) \/ (t = "request" /\ n = k)
<1>1. out[cur] \in Seq(Output)
  BY Basics
<1>2. out'[cur] = Append(out[cur], [type |-> t, k |-> n])
  BY Basics DEF Emit
<1>3. PICK i \in DOMAIN out'[cur] : out'[cur][i] = Request(k)
  BY DEF Told
<1>4. CASE i \in DOMAIN out[cur]
  BY <1>1, <1>2, <1>3, <1>4 DEF Told
<1>5. CASE i \notin DOMAIN out[cur]
  <2>1. i = Len(out[cur]) + 1
    BY <1>1, <1>2, <1>3, <1>5
  <2>2. [type |-> t, k |-> n] = [type |-> "request", k |-> k]
    BY <1>1, <1>2, <1>3, <2>1 DEF Request
  <2> QED
    BY <2>2
<1> QED
  BY <1>4, <1>5

\* The handler sends a reply on to the request it waits at.
LEMMA HandlerReplies ==
  ASSUME TypeOK, QuestionOrder, Announced, RepliesInOrder, Handler
  PROVE  /\ RepliesInOrder'
         /\ \/ mailbox' = mailbox
            \/ \E r \in Requests : mailbox' = [mailbox EXCEPT ![r] = r]
<1> USE DEF clientVars, brokerVars, serverVars, agentVars, receiverVars
<1>1. CASE ValidateConnection
  BY <1>1 DEF ValidateConnection, Close, RepliesInOrder, Queued, Streaming
<1>2. CASE ReceiveQuestion \/ WakeWithQuestion
  <2>0. UNCHANGED <<replied, mailbox, batch, out>>
    BY <1>2 DEF ReceiveQuestion, WakeWithQuestion
  <2>1. CASE queue = <<>>
    <3>1. pc' = "waitq" /\ expecting' = "question" /\ queue' = <<>>
      BY <1>2, <2>1 DEF ReceiveQuestion, WakeWithQuestion, Expect
    <3> QED
      BY <2>0, <3>1 DEF RepliesInOrder, Queued, Streaming
  <2>2. CASE queue # <<>>
    <3>1. /\ TakeQuestion(Head(queue)) /\ queue' = <<>>
          /\ expecting' = "question" \/ (pc = "waitq" /\ expecting' = expecting)
      BY <1>2, <2>2 DEF ReceiveQuestion, WakeWithQuestion, Expect
    <3>2. expecting' # "feedback"
      BY <3>1 DEF RepliesInOrder
    <3>3. CASE Head(queue).kind = "question"
      <4>1. cur' = Head(queue).re[1] /\ pc' = "publish"
        BY <3>1, <3>3 DEF TakeQuestion
      <4>2. cur' \in Questions /\ cur' > cur
        <5>1. Head(queue) \in Item
          BY <2>2, QueueHead
        <5>2. cur' \in Questions
          BY <3>3, <4>1, <5>1, ItemCases
        <5>3. Head(queue).re[1] \in (cur + 1)..accepted
          BY <2>2, <3>3 DEF QuestionOrder, Queued
        <5> QED
          BY <4>1, <5>2, <5>3, Basics
      <4>3. out'[cur'] = <<>>
        BY <2>0, <4>2 DEF QuestionOrder, Fresh
      <4> QED
        BY <2>0, <3>1, <3>2, <4>3 DEF RepliesInOrder, Queued, Told
    <3>4. CASE Head(queue).kind # "question"
      <4>1. pc' = "closed"
        BY <3>1, <3>4 DEF TakeQuestion
      <4> QED
        BY <2>0, <3>1, <3>2, <4>1 DEF RepliesInOrder, Queued, Streaming
    <3> QED
      BY <3>3, <3>4
  <2> QED
    BY <2>1, <2>2
<1>3. CASE PublishActivation \/ ReadStream \/ AgentTimeout \/ ReadFails
  <2>1. /\ UNCHANGED <<cur, replied, expecting, queue, mailbox>>
        /\ pc \in {"publish", "read"} /\ cur \in Questions
    BY <1>3, Basics
    DEF PublishActivation, ReadStream, AgentTimeout, ReadFails, CanTimeOut, EndStream, Close,
        Streaming
  <2>2. \/ pc' \in {"read", "batch"} /\ UNCHANGED out
        \/ pc' \in {"ask", "closed"}
    BY <1>3 DEF PublishActivation, ReadStream, AgentTimeout, ReadFails, EndStream, Close
  <2> QED
    BY <2>1, <2>2 DEF RepliesInOrder, Queued, Streaming, Told, AtRequest
<1>4. CASE HandleMessage
  <2> DEFINE m == Head(batch)
  <2>1. /\ UNCHANGED <<cur, replied, expecting, queue, mailbox>>
        /\ pc = "batch" /\ cur \in Questions
    BY <1>4, Basics DEF HandleMessage, NextMessage, Unsupported, EndStream, Close, Streaming
  <2>2. CASE pc' \in {"ask", "closed"}
    BY <2>1, <2>2 DEF RepliesInOrder, Queued, Streaming
  <2>3. CASE pc' \notin {"ask", "closed"}
    <3>1. \/ /\ pc' \in {"read", "batch"}
             /\ UNCHANGED out \/ \E t \in {"start", "step", "final", "oauth"} : Emit(t, 0)
          \/ pc' = "requested" /\ Emit("request", m.k) /\ batch' = batch
      BY <1>4, <2>3 DEF HandleMessage, NextMessage, Unsupported, EndStream, Close
    <3>2. \A k \in 1..MaxFeedback :
             Told(k)' => Told(k) \/ (pc' = "requested" /\ k = Head(batch').k)
      <4>1. CASE UNCHANGED out
        BY <2>1, <4>1 DEF Told
      <4>2. CASE \E t \in {"start", "step", "final", "oauth"} : Emit(t, 0)
        BY <2>1, <4>2, EmitTold
      <4>3. CASE pc' = "requested" /\ Emit("request", m.k) /\ batch' = batch
        BY <2>1, <4>3, EmitTold
      <4> QED
        BY <3>1, <4>1, <4>2, <4>3
    <3> QED
      BY <2>1, <3>1, <3>2 DEF RepliesInOrder, Queued, Streaming, AtRequest
  <2> QED
    BY <2>2, <2>3
<1>5. CASE ReceiveFeedback \/ WakeWithFeedback
  <2>1. /\ UNCHANGED <<cur, replied>> /\ pc \in {"requested", "waitfb"} /\ cur \in Questions
        /\ ReceiveFeedback => pc = "requested"
        /\ WakeWithFeedback => pc = "waitfb"
    BY <1>5, Basics DEF ReceiveFeedback, WakeWithFeedback, Streaming
  <2>2. CASE queue = <<>>
    <3>1. pc' = "waitfb" /\ expecting' = "feedback" /\ queue' = <<>>
          /\ UNCHANGED <<batch, out, mailbox>>
      BY <1>5, <2>2 DEF ReceiveFeedback, WakeWithFeedback, Expect
    <3> QED
      BY <2>1, <3>1 DEF RepliesInOrder, Queued, Streaming, Told, AtRequest
  <2>3. CASE queue # <<>>
    <3>1. TakeFeedback(Head(queue)) /\ queue' = <<>>
          /\ (expecting' = "feedback" \/ expecting' = expecting)
      BY <1>5, <2>3 DEF ReceiveFeedback, WakeWithFeedback, Expect
    <3>2. CASE Head(queue).kind = "feedback"
      <4>1. /\ pc = "waitfb" /\ expecting = "nothing" /\ Head(queue).re \in replied
            /\ Head(queue).re = <<cur, Head(batch).k>>
        BY <2>1, <2>3, <3>2 DEF RepliesInOrder, Queued
      <4>2. expecting' = "nothing"
        BY <1>5, <2>1, <4>1 DEF ReceiveFeedback, WakeWithFeedback
      <4>3. Head(queue).re \in Requests
        BY <2>3, <3>2, QueueHead, ItemCases
      <4>4. \/ pc' = "closed" /\ UNCHANGED mailbox
            \/ /\ pc' \in {"read", "batch"} /\ UNCHANGED out
               /\ mailbox' = [mailbox EXCEPT ![Head(queue).re] = Head(queue).re]
        BY <3>1, <3>2, <4>1 DEF TakeFeedback, ReplyKey, NextMessage
      <4>5. pc' \in Streaming =>
              \A k \in 1..MaxFeedback : Told(k)' => <<cur', k>> \in replied'
        BY <2>1, <4>1, <4>4 DEF RepliesInOrder, Told, Streaming
      <4> QED
        BY <3>1, <4>2, <4>3, <4>4, <4>5 DEF RepliesInOrder, Queued
    <3>3. CASE Head(queue).kind # "feedback"
      <4>1. pc' \in {"ask", "closed"} /\ UNCHANGED mailbox
        BY <3>1, <3>3 DEF TakeFeedback, AbandonStream
      <4> QED
        BY <2>1, <3>1, <4>1 DEF RepliesInOrder, Queued, Streaming
    <3> QED
      BY <3>2, <3>3
  <2> QED
    BY <2>2, <2>3
<1> QED
  BY <1>1, <1>2, <1>3, <1>4, <1>5 DEF Handler

\* The server takes replies out of the mailboxes and never puts one in.
LEMMA ServerReplies ==
  ASSUME TypeOK,
         \/ Listener \/ Crash \/ Tick
         \/ \E q \in Questions : AnswerTask(q) \/ Ping(q) \/ ExpireStream(q)
  PROVE  \/ UNCHANGED mailbox
         \/ \E r \in Requests : mailbox' = [mailbox EXCEPT ![r] = NoReply]
<1> USE DEF TaskFrame, brokerVars
<1>1. CASE Listener \/ Crash \/ Tick
  BY <1>1 DEF Listener, TakeActivation, Activate, ActivationError, ActivationErrorDone, Crash, Tick
<1>2. ASSUME NEW q \in Questions, ReplyReceived(q)
      PROVE  \E r \in Requests : mailbox' = [mailbox EXCEPT ![r] = NoReply]
  <2>1. PICK k \in waiting[q] : mailbox' = [mailbox EXCEPT ![<<q, k>>] = NoReply]
    BY <1>2 DEF ReplyReceived
  <2>2. <<q, k>> \in Requests
    BY DEF TypeOK, Requests
  <2> QED
    BY <2>1, <2>2
<1>3. ASSUME NEW q \in Questions, AnswerTask(q) \/ Ping(q) \/ ExpireStream(q), ~ReplyReceived(q)
      PROVE  UNCHANGED mailbox
  BY <1>3 DEF AnswerTask, PublishStart, AgentStep, AgentAsks, ReplyTimeout, AgentEnds, AgentFails,
     CloseManager, PublishFinal, PublishDone, SaveMemory, Ping, ExpireStream
<1> QED
  BY <1>1, <1>2, <1>3

\* The client leaves the mailboxes alone.
LEMMA ClientKeepsMail == Client \/ PutShutdown => UNCHANGED mailbox
BY DEF Client, SendQuestion, SendFeedback, Disconnect, PutShutdown, brokerVars

\* The order of the questions, what the handler announces and what the
\* receiver takes are kept together.
LEMMA RepliesKept ==
  TypeOK /\ QuestionOrder /\ Announced /\ RepliesInOrder /\ [Next]_vars => RepliesInOrder'
<1> SUFFICES ASSUME TypeOK, QuestionOrder, Announced, RepliesInOrder, [Next]_vars
             PROVE  RepliesInOrder'
  OBVIOUS
<1>1. CASE UNCHANGED <<clientVars, receiverVars, pc, cur, batch, out>>
  BY <1>1 DEF clientVars, receiverVars, RepliesInOrder, Queued, Told, AtRequest
<1>2. CASE UNCHANGED vars
  BY <1>1, <1>2 DEF vars, handlerVars
<1> QED
  BY <1>1, <1>2, ClientReplies, HandlerReplies, ServerLeavesApi DEF Next

\* An answer of the client reaches the request it was given for, however many
\* requests the agent has made and given up since (receive_feedback,
\* send_reply with the feedback_id of the request that was read).
THEOREM RepliesReachTheirRequest == Spec => []ReplyMatchesRequest
<1>1. Init => RepliesInOrder /\ ReplyMatchesRequest
  <2> SUFFICES ASSUME Init PROVE RepliesInOrder /\ ReplyMatchesRequest
    OBVIOUS
  <2>1. pc \in Streaming => out[cur] = <<>>
    BY BoundsAssumption DEF Init, Streaming, Http, Questions
  <2>2. expecting = "question" /\ queue = <<>> /\ \A r \in Requests : mailbox[r] = NoReply
    BY DEF Init
  <2> QED
    BY <2>1, <2>2 DEF RepliesInOrder, ReplyMatchesRequest, Queued, Told
<1>2. TypeOK /\ QuestionOrder /\ Announced /\ RepliesInOrder /\ ReplyMatchesRequest /\ [Next]_vars
        => ReplyMatchesRequest'
  <2> SUFFICES ASSUME TypeOK, QuestionOrder, Announced, RepliesInOrder, ReplyMatchesRequest,
                      [Next]_vars
               PROVE  ReplyMatchesRequest'
    OBVIOUS
  <2>1. \/ UNCHANGED mailbox
        \/ \E r \in Requests : mailbox' = [mailbox EXCEPT ![r] = r]
        \/ \E r \in Requests : mailbox' = [mailbox EXCEPT ![r] = NoReply]
    <3>1. CASE UNCHANGED vars
      BY <3>1 DEF vars, brokerVars
    <3> QED
      BY <3>1, ClientKeepsMail, HandlerReplies, ServerReplies DEF Next
  <2>2. mailbox \in [Requests -> Requests \cup {NoReply}]
    BY DEF TypeOK
  <2> QED
    BY <2>1, <2>2 DEF ReplyMatchesRequest
<1> QED
  BY TypeCorrect, HandlerAnnounces, InitOrder, OrderKept, RepliesKept, <1>1, <1>2, PTL DEF Spec

-----------------------------------------------------------------------------
(* What publishing does to the stream that the handler reads.              *)

\* Trimming leaves the newest entries, in order, and no fewer than the limit
\* if any is removed (XADD maxlen).
LEMMA NewestSuffix ==
  ASSUME NEW S, NEW s \in Seq(S), s # <<>>, NEW n \in Nat \ {0}
  PROVE  \E f \in 0..(Len(s) - 1) :
            /\ Newest(s, n) \in Seq(S) /\ Len(Newest(s, n)) = Len(s) - f
            /\ \A i \in 1..(Len(s) - f) : Newest(s, n)[i] = s[i + f]
            /\ f # 0 => Len(s) - f = n
<1>1. Len(s) \in Nat \ {0} /\ \A i \in 1..Len(s) : s[i] \in S
  BY EmptySeq, ElementOfSeq
<1> DEFINE f == IF Len(s) > n THEN Len(s) - n ELSE 0
<1>2. f \in 0..(Len(s) - 1) /\ (f # 0 => Len(s) - f = n)
  BY <1>1
<1>3. Newest(s, n) = SubSeq(s, f + 1, Len(s))
  BY <1>1 DEF Newest
<1>4. \A i \in (f + 1)..Len(s) : s[i] \in S
  BY <1>1, <1>2
<1> HIDE DEF f
<1>5. /\ Newest(s, n) \in Seq(S)
      /\ Len(Newest(s, n)) = IF f + 1 <= Len(s) THEN Len(s) - (f + 1) + 1 ELSE 0
      /\ \A i \in 1..(Len(s) - (f + 1) + 1) : Newest(s, n)[i] = s[f + 1 + i - 1]
  <2>1. f + 1 \in Int /\ Len(s) \in Int
    BY <1>1, <1>2
  <2> QED
    BY <1>3, <1>4, <2>1, SubSeqProperties
<1>6. Len(Newest(s, n)) = Len(s) - f
  BY <1>1, <1>2, <1>5
<1>7. \A i \in 1..(Len(s) - f) : Newest(s, n)[i] = s[i + f]
  <2> TAKE i \in 1..(Len(s) - f)
  <2>1. i \in 1..(Len(s) - (f + 1) + 1) /\ f + 1 + i - 1 = i + f
    BY <1>1, <1>2
  <2> QED
    BY <1>5, <2>1
<1> QED
  BY <1>2, <1>5, <1>6, <1>7

\* A message published on the stream the handler reads is its last entry, the
\* entries before it are the newest of what was there, and some are missing
\* only if the limit is reached.
LEMMA PublishRead ==
  ASSUME TypeOK, NEW q \in Questions, NEW m \in Message, Publish(q, m), HasReader(q)
  PROVE  \/ drops'[q] > 0
         \/ /\ UNCHANGED drops
            /\ \E f \in 0..Len(stream[q]) :
                 /\ Len(stream'[q]) = Len(stream[q]) + 1 - f
                 /\ stream'[q][Len(stream'[q])] = m
                 /\ \A i \in 1..(Len(stream'[q]) - 1) : stream'[q][i] = stream[q][i + f]
                 /\ f # 0 => Len(stream'[q]) >= MaxLen
<1>0. /\ stream \in [Questions -> Seq(Message)] /\ drops \in [Questions -> 0..MaxDrop]
      /\ stream[q] \in Seq(Message) /\ Len(stream[q]) \in Nat
  <2>1. stream \in [Questions -> Seq(Message)] /\ drops \in [Questions -> 0..MaxDrop]
    BY DEF TypeOK
  <2> QED
    BY <2>1
<1>1. CASE drops[q] < MaxDrop /\ drops' = [drops EXCEPT ![q] = @ + 1]
  BY <1>0, <1>1, BoundsAssumption
<1>2. CASE /\ UNCHANGED drops
           /\ \E n \in MaxLen..(MaxLen + TrimSlack) :
                 stream' = [stream EXCEPT ![q] = Newest(Append(@, m), n)]
  <2>1. PICK n \in MaxLen..(MaxLen + TrimSlack) :
             stream'[q] = Newest(Append(stream[q], m), n)
    BY <1>0, <1>2
  <2> DEFINE s == Append(stream[q], m)
  <2>2. /\ s \in Seq(Message) /\ s # <<>> /\ Len(s) = Len(stream[q]) + 1
        /\ s[Len(s)] = m /\ \A i \in 1..Len(stream[q]) : s[i] = stream[q][i]
    <3>1. s \in Seq(Message) /\ Len(s) = Len(stream[q]) + 1 /\ s # <<>>
      BY <1>0, AppendProperties
    <3>2. s[Len(s)] = m /\ \A i \in 1..Len(stream[q]) : s[i] = stream[q][i]
      BY <1>0, <3>1, AppendProperties
    <3> QED
      BY <3>1, <3>2
  <2>3. n \in Nat \ {0} /\ n >= MaxLen
    BY BoundsAssumption
  <2> HIDE DEF s
  <2>4. PICK f \in 0..(Len(s) - 1) :
            /\ Len(Newest(s, n)) = Len(s) - f
            /\ \A i \in 1..(Len(s) - f) : Newest(s, n)[i] = s[i + f]
            /\ f # 0 => Len(s) - f = n
    BY <2>2, <2>3, NewestSuffix
  <2>5. stream'[q] = Newest(s, n)
    BY <2>1 DEF s
  <2>6. /\ f \in 0..Len(stream[q]) /\ Len(stream'[q]) = Len(stream[q]) + 1 - f
        /\ Len(stream'[q]) \in 1..Len(s) /\ (f # 0 => Len(stream'[q]) >= MaxLen)
    <3>1. f \in Int /\ f >= 0 /\ f <= Len(stream[q]) /\ Len(s) = Len(stream[q]) + 1
      BY <1>0, <2>2
    <3>2. Len(stream'[q]) = Len(s) - f
      BY <2>4, <2>5
    <3>3. f # 0 => Len(stream'[q]) = n
      BY <2>4, <3>2
    <3> QED
      BY <1>0, <2>3, <3>1, <3>2, <3>3
  <2>7. stream'[q][Len(stream'[q])] = m
    <3>1. Len(stream'[q]) + f = Len(s) /\ Len(stream'[q]) \in 1..(Len(s) - f)
      BY <1>0, <2>2, <2>6
    <3> QED
      BY <2>2, <2>4, <2>5, <3>1
  <2>8. \A i \in 1..(Len(stream'[q]) - 1) : stream'[q][i] = stream[q][i + f]
    <3> TAKE i \in 1..(Len(stream'[q]) - 1)
    <3>1. i \in 1..(Len(s) - f) /\ i + f \in 1..Len(stream[q])
      BY <1>0, <2>2, <2>6
    <3> QED
      BY <2>2, <2>4, <2>5, <3>1
  <2> QED
    BY <1>2, <2>6, <2>7, <2>8
<1> QED
  BY <1>1, <1>2 DEF Publish

-----------------------------------------------------------------------------
(* DoneAfterFinal.                                                         *)

Finished == {"saving", "ended", "lost"}
\* The last message sent to the client, or the last one that the handler has
\* read, is the final answer.
ToldFinal(o) == o # <<>> /\ o[Len(o)] = Msg("final")
ReadFinal(o, b) == IF b # <<>> THEN b[Len(b)].type = "final" ELSE ToldFinal(o)

\* In what was sent, read and not read of an answer, o, b and s, whose task is
\* at stage r, DONE stands right behind the final answer, which is the last
\* message there is before DONE is published.
FinalThenDone(o, b, s, r) ==
  /\ \A i \in 1..Len(b) : b[i].type = "done" =>
        IF i = 1 THEN ToldFinal(o) ELSE b[i - 1].type = "final"
  /\ \A i \in 1..Len(s) : s[i].type = "done" =>
        /\ r \in Finished
        /\ IF i = 1 THEN ReadFinal(o, b) ELSE s[i - 1].type = "final"
  /\ r \in {"done", "actfailed"} =>
        IF s # <<>> THEN s[Len(s)].type = "final" ELSE ReadFinal(o, b)

LEMMA ReadAllInOrder ==
  ASSUME NEW o, NEW s \in Seq(Message), NEW r, FinalThenDone(o, <<>>, s, r)
  PROVE  FinalThenDone(o, s, <<>>, r)
BY EmptySeq DEF FinalThenDone, ReadFinal

\* The handler is done with the message at the head of its batch: it has sent
\* it on, or the message is not one to send.
LEMMA TakeInOrder ==
  ASSUME NEW o \in Seq(Output), NEW b \in Seq(Message), b # <<>>, NEW s \in Seq(Message), NEW r,
         NEW u, \/ u = o /\ Head(b).type # "final"
                \/ u = Append(o, [type |-> Head(b).type, k |-> 0]) /\ Head(b).type \in OutTypes,
         FinalThenDone(o, b, s, r)
  PROVE  FinalThenDone(u, Tail(b), s, r)
<1>1. /\ Len(b) \in Nat \ {0} /\ Tail(b) \in Seq(Message) /\ Len(Tail(b)) = Len(b) - 1
      /\ Head(b) = b[1] /\ \A i \in 1..(Len(b) - 1) : Tail(b)[i] = b[i + 1]
  BY EmptySeq, HeadTailProperties
<1>2. Head(b).type = "final" => ToldFinal(u)
  <2> SUFFICES ASSUME Head(b).type = "final" PROVE ToldFinal(u)
    OBVIOUS
  <2>1. u = Append(o, Msg("final")) /\ Msg("final") \in Output
    BY BoundsAssumption DEF Msg, Output, OutTypes, MsgTypes
  <2> QED
    BY SMTT(30), <2>1, AppendProperties DEF ToldFinal
<1>3. ReadFinal(o, b) => ReadFinal(u, Tail(b))
  <2>1. CASE Len(b) = 1
    <3>1. Tail(b) = <<>>
      <4>1. Len(Tail(b)) = 0
        BY <1>1, <2>1
      <4> QED
        BY <1>1, <4>1, EmptySeq
    <3> QED
      BY <1>1, <1>2, <2>1, <3>1 DEF ReadFinal
  <2>2. CASE Len(b) # 1
    <3>1. Tail(b) # <<>> /\ Len(b) - 1 \in 1..(Len(b) - 1)
      <4>1. Len(Tail(b)) # 0 /\ Len(b) - 1 \in 1..(Len(b) - 1)
        BY <1>1, <2>2
      <4> QED
        BY <1>1, <4>1, EmptySeq
    <3>2. Tail(b)[Len(Tail(b))] = b[Len(b) - 1 + 1] /\ Len(b) - 1 + 1 = Len(b)
      BY <1>1, <3>1
    <3> QED
      BY <3>1, <3>2 DEF ReadFinal
  <2> QED
    BY <2>1, <2>2
<1>4. ASSUME NEW i \in 1..Len(Tail(b)), Tail(b)[i].type = "done"
      PROVE  IF i = 1 THEN ToldFinal(u) ELSE Tail(b)[i - 1].type = "final"
  <2>1. /\ i + 1 \in 1..Len(b) /\ i + 1 # 1 /\ i \in 1..(Len(b) - 1)
        /\ b[i + 1].type = "done" /\ i + 1 - 1 = i
    BY <1>1, <1>4
  <2>2. b[i].type = "final"
    BY <2>1 DEF FinalThenDone
  <2>3. CASE i = 1
    BY <1>1, <1>2, <2>2, <2>3
  <2>4. CASE i # 1
    <3>1. i - 1 \in 1..(Len(b) - 1) /\ i - 1 + 1 = i
      BY <2>1, <2>4
    <3> QED
      BY <1>1, <2>2, <2>4, <3>1
  <2> QED
    BY <2>3, <2>4
<1> QED
  BY <1>3, <1>4 DEF FinalThenDone

\* The handler has told the client of the request at the head of its batch.
LEMMA TellInOrder ==
  ASSUME NEW o, NEW u, NEW b \in Seq(Message), b # <<>>, b[1].type # "done", NEW s, NEW r,
         FinalThenDone(o, b, s, r)
  PROVE  FinalThenDone(u, b, s, r)
BY DEF FinalThenDone, ReadFinal

\* A message that is not the last one is published, or one that follows the
\* final answer: DONE.
LEMMA PublishInOrder ==
  ASSUME NEW o, NEW b, NEW s \in Seq(Message), NEW r, NEW m, NEW t \in Seq(Message), NEW f \in 0..Len(s),
         Len(t) = Len(s) + 1 - f, t[Len(t)] = m,
         \A i \in 1..(Len(t) - 1) : t[i] = s[i + f],
         f # 0 => Len(t) >= 2,
         FinalThenDone(o, b, s, r), r \notin Finished,
         NEW w, \/ m.type # "done" /\ w \notin {"done", "actfailed"}
                \/ m.type = "final"
                \/ m.type = "done" /\ r \in {"done", "actfailed"} /\ w \in Finished
  PROVE  FinalThenDone(o, b, t, w)
<1>1. Len(s) \in Nat /\ Len(t) \in Nat \ {0} /\ t # <<>>
  BY EmptySeq
<1>2. \A i \in 1..(Len(t) - 1) : t[i].type # "done"
  <2> TAKE i \in 1..(Len(t) - 1)
  <2>1. i + f \in 1..Len(s)
    BY <1>1
  <2> QED
    BY <2>1 DEF FinalThenDone
<1>3. ASSUME NEW i \in 1..Len(t), t[i].type = "done"
      PROVE  w \in Finished /\ IF i = 1 THEN ReadFinal(o, b) ELSE t[i - 1].type = "final"
  <2>1. i = Len(t)
    <3>1. i \notin 1..(Len(t) - 1)
      BY <1>2, <1>3
    <3> QED
      BY <1>1, <3>1
  <2>2. m.type = "done" /\ r \in {"done", "actfailed"} /\ w \in Finished
    BY <1>3, <2>1
  <2>3. CASE i = 1
    <3>1. f = 0 /\ Len(s) = 0
      BY <1>1, <2>1, <2>3
    <3>2. s = <<>>
      BY <3>1, EmptySeq
    <3> QED
      BY <2>2, <2>3, <3>2 DEF FinalThenDone
  <2>4. CASE i # 1
    <3>1. i - 1 \in 1..(Len(t) - 1) /\ i - 1 + f = Len(s) /\ Len(s) # 0
      BY <1>1, <2>1, <2>4
    <3>2. s # <<>>
      BY <3>1, EmptySeq
    <3> QED
      BY <2>2, <2>4, <3>1, <3>2 DEF FinalThenDone
  <2> QED
    BY <2>3, <2>4
<1> QED
  BY <1>1, <1>3 DEF FinalThenDone, Finished

\* The answer being read, when nothing of it was lost and no agent was left
\* running: the inductive form of DoneAfterFinal.
AnswerInOrder ==
  pc \in Streaming /\ drops[cur] = 0 /\ ~others[cur] =>
     FinalThenDone(out[cur], batch, stream[cur], run[cur])

\* A message sent to the client keeps DONE behind the final answer, if DONE is
\* sent behind it.
LEMMA EmitDone ==
  ASSUME TypeOK, cur \in Questions, DoneAfterFinal, NEW t, NEW n, Emit(t, n),
         t = "done" /\ drops[cur] = 0 /\ ~others[cur] => ToldFinal(out[cur]),
         others' = others,
         \A q \in Questions : drops'[q] = 0 => drops[q] = 0
  PROVE  DoneAfterFinal'
<1> SUFFICES ASSUME NEW q \in Questions, drops[q] = 0, ~others[q],
                    NEW i \in DOMAIN out'[q], out'[q][i] = Msg("done")
             PROVE  i > 1 /\ out'[q][i - 1] = Msg("final")
  BY DEF DoneAfterFinal
<1>0. out \in [Questions -> Seq(Output)] /\ out[q] \in Seq(Output)
  BY Basics
<1>1. CASE i \in DOMAIN out[q] /\ out'[q][i] = out[q][i]
  <2>1. i > 1 /\ out[q][i - 1] = Msg("final") /\ i \in 1..Len(out[q])
    BY <1>0, <1>1 DEF DoneAfterFinal
  <2>2. out'[q][i - 1] = out[q][i - 1]
    BY <1>0, <2>1 DEF Emit
  <2> QED
    BY <2>1, <2>2
<1>2. CASE ~(i \in DOMAIN out[q] /\ out'[q][i] = out[q][i])
  <2>1. /\ q = cur /\ i = Len(out[q]) + 1
        /\ out'[q] = Append(out[q], [type |-> t, k |-> n])
    BY <1>0, <1>2 DEF Emit
  <2>2. t = "done"
    BY <1>0, <2>1 DEF Msg
  <2>3. ToldFinal(out[q])
    BY <2>1, <2>2
  <2>4. Len(out[q]) \in Nat \ {0} /\ out[q][Len(out[q])] = Msg("final")
    BY <1>0, <2>3, EmptySeq DEF ToldFinal
  <2>5. i - 1 = Len(out[q]) /\ i > 1 /\ out'[q][Len(out[q])] = out[q][Len(out[q])]
    BY <1>0, <2>1, <2>4
  <2> QED
    BY <2>4, <2>5
<1> QED
  BY <1>1, <1>2

\* The handler sends the messages on in the order it reads them.
LEMMA HandlerInOrder ==
  ASSUME TypeOK, QuestionOrder, AnswerInOrder, DoneAfterFinal, Handler
  PROVE  AnswerInOrder' /\ DoneAfterFinal'
<1> USE DEF clientVars, brokerVars, serverVars, agentVars, receiverVars
<1>0. /\ stream \in [Questions -> Seq(Message)] /\ run \in [Questions -> Stages]
      /\ out \in [Questions -> Seq(Output)] /\ batch \in Seq(Message)
      /\ pc \in Streaming => cur \in Questions
      /\ drops \in [Questions -> 0..MaxDrop]
  BY Basics DEF TypeOK
<1>1. CASE ValidateConnection \/ ReceiveQuestion \/ WakeWithQuestion
  <2>1. /\ UNCHANGED <<out, drops, others, stream, run>> /\ batch' = batch
        /\ pc' \notin Streaming \/ pc' = "publish"
    BY <1>1 DEF ValidateConnection, ReceiveQuestion, WakeWithQuestion, TakeQuestion, Close, Streaming
  <2>2. CASE pc' \notin Streaming
    BY <2>1, <2>2 DEF AnswerInOrder, DoneAfterFinal
  <2>3. CASE pc' = "publish"
    <3>1. QuestionOrder' /\ TypeOK'
      BY <1>1, HandlerOrder, HandlerType DEF Handler
    <3>2. cur' \in Questions /\ batch' = <<>>
      BY <2>3, <3>1, Basics DEF TypeOK, Streaming, Questions
    <3>3. out'[cur'] = <<>> /\ stream'[cur'] = <<>> /\ run'[cur'] = "none"
      BY <2>3, <3>1, <3>2 DEF QuestionOrder, Fresh
    <3>4. FinalThenDone(<<>>, <<>>, <<>>, "none")
      BY EmptySeq DEF FinalThenDone
    <3> QED
      BY <2>1, <3>2, <3>3, <3>4 DEF AnswerInOrder, DoneAfterFinal
  <2> QED
    BY <2>1, <2>2, <2>3
<1>2. CASE PublishActivation
  <2>0. cur \in Questions /\ Fresh(cur) /\ batch = <<>>
    BY <1>0, <1>2 DEF PublishActivation, Streaming, QuestionOrder, TypeOK
  <2>1. CASE pc' = "read"
    <3>1. /\ run'[cur] = "queued" /\ UNCHANGED <<cur, batch, out, drops, stream, others>>
      BY <1>0, <1>2, <2>0, <2>1 DEF PublishActivation, EndStream, Close
    <3>2. FinalThenDone(<<>>, <<>>, <<>>, "queued")
      BY EmptySeq DEF FinalThenDone
    <3> QED
      BY <2>0, <3>1, <3>2 DEF AnswerInOrder, DoneAfterFinal, Fresh
  <2>2. CASE pc' # "read"
    <3>1. pc' \in {"ask", "closed"} /\ UNCHANGED <<cur, others>>
          /\ (Emit("apierror", 0) \/ UNCHANGED out)
          /\ \A q \in Questions : drops'[q] = 0 => drops[q] = 0
      BY <1>0, <1>2, <2>0, <2>2 DEF PublishActivation, EndStream, Close
    <3>2. DoneAfterFinal'
      BY <2>0, <3>1, EmitDone DEF DoneAfterFinal
    <3> QED
      BY <3>1, <3>2 DEF AnswerInOrder, Streaming
  <2> QED
    BY <2>1, <2>2
<1>3. CASE ReadStream
  <2>1. /\ cur \in Questions /\ batch = <<>> /\ pc \in Streaming
        /\ batch' = stream[cur] /\ stream'[cur] = <<>>
        /\ UNCHANGED <<cur, out, drops, others, run>>
    BY <1>0, <1>3 DEF ReadStream, TypeOK, Streaming
  <2>2. stream[cur] \in Seq(Message)
    BY <1>0, <2>1
  <2> QED
    BY <2>1, <2>2, ReadAllInOrder DEF AnswerInOrder, DoneAfterFinal
<1>4. CASE AgentTimeout \/ ReadFails
  <2>1. cur \in Questions /\ pc' \in {"ask", "closed"} /\ UNCHANGED <<cur, others>>
        /\ Emit("apierror", 0)
    BY <1>0, <1>4 DEF AgentTimeout, ReadFails, CanTimeOut, EndStream, Close, Streaming
  <2>2. \A q \in Questions : drops'[q] = 0 => drops[q] = 0
    BY <1>0, <1>4, <2>1 DEF AgentTimeout, ReadFails
  <2>3. DoneAfterFinal'
    BY <2>1, <2>2, EmitDone
  <2> QED
    BY <2>1, <2>3 DEF AnswerInOrder, Streaming
<1>5. CASE HandleMessage
  <2> DEFINE m == Head(batch)
  <2>1. /\ cur \in Questions /\ pc \in Streaming /\ batch # <<>>
        /\ UNCHANGED <<cur, drops, others, stream, run>>
    BY <1>0, <1>5 DEF HandleMessage, TypeOK, Streaming
  <2>2. out[cur] \in Seq(Output) /\ stream[cur] \in Seq(Message) /\ m = batch[1]
        /\ 1 \in 1..Len(batch)
    BY <1>0, <2>1, EmptySeq
  <2>3. CASE m.type = "done"
    <3>1. Emit("done", 0) /\ pc' \in {"ask", "closed"}
      BY <1>5, <2>3 DEF HandleMessage, EndStream, Close
    <3>2. drops[cur] = 0 /\ ~others[cur] => ToldFinal(out[cur])
      BY <2>1, <2>2, <2>3 DEF AnswerInOrder, FinalThenDone
    <3>3. DoneAfterFinal'
      BY <2>1, <3>1, <3>2, EmitDone
    <3> QED
      BY <3>1, <3>3 DEF AnswerInOrder, Streaming
  <2>4. CASE m.type # "done"
    <3>1. \/ UNCHANGED out
          \/ \E t \in {"start", "step", "final", "oauth", "apierror", "request"} :
                \E n \in 0..MaxFeedback : Emit(t, n)
      BY <1>5, <2>1, <2>4, BatchHead, BoundsAssumption DEF HandleMessage, Unsupported, Message
    <3>2. DoneAfterFinal'
      <4>1. CASE UNCHANGED out
        BY <2>1, <4>1 DEF DoneAfterFinal
      <4>2. ASSUME NEW t \in {"start", "step", "final", "oauth", "apierror", "request"},
                   NEW n \in 0..MaxFeedback, Emit(t, n)
            PROVE  DoneAfterFinal'
        BY <2>1, <4>2, EmitDone
      <4> QED
        BY <3>1, <4>1, <4>2
    <3>3. AnswerInOrder'
      <4>1. CASE pc' \in {"ask", "closed"}
        BY <4>1 DEF AnswerInOrder, Streaming
      <4>2. CASE pc' = "requested"
        <5>1. batch' = batch
          BY <1>5, <4>2 DEF HandleMessage, NextMessage, Unsupported, EndStream, Close
        <5> QED
          BY <1>0, <2>1, <2>2, <2>4, <5>1, TellInOrder DEF AnswerInOrder
      <4>3. CASE pc' \notin {"ask", "closed", "requested"}
        <5>1. batch' = Tail(batch)
          BY <1>5, <4>3 DEF HandleMessage, NextMessage, Unsupported, EndStream, Close
        <5>2. \/ out' = out /\ m.type # "final"
              \/ Emit(m.type, 0) /\ m.type \in OutTypes
          BY <1>5, <2>4, <4>3
          DEF HandleMessage, NextMessage, Unsupported, EndStream, Close, OutTypes, MsgTypes
        <5>3. \/ out'[cur] = out[cur] /\ m.type # "final"
              \/ out'[cur] = Append(out[cur], [type |-> m.type, k |-> 0]) /\ m.type \in OutTypes
          BY <1>0, <2>1, <5>2 DEF Emit
        <5> QED
          BY <1>0, <2>1, <2>2, <5>1, <5>3, TakeInOrder DEF AnswerInOrder
      <4> QED
        BY <4>1, <4>2, <4>3
    <3> QED
      BY <3>2, <3>3
  <2> QED
    BY <2>3, <2>4
<1>6. CASE ReceiveFeedback \/ WakeWithFeedback
  <2>1. /\ cur \in Questions /\ pc \in Streaming /\ batch # <<>> /\ Head(batch).type = "request"
        /\ UNCHANGED <<cur, others, stream, run>>
    BY <1>0, <1>6 DEF ReceiveFeedback, WakeWithFeedback, TypeOK, Streaming
  <2>2. CASE queue = <<>>
    <3>1. UNCHANGED <<out, batch, drops>>
      BY <1>6, <2>2 DEF ReceiveFeedback, WakeWithFeedback
    <3> QED
      BY <2>1, <3>1 DEF AnswerInOrder, DoneAfterFinal
  <2>3. CASE queue # <<>>
    <3>1. TakeFeedback(Head(queue))
      BY <1>6, <2>3 DEF ReceiveFeedback, WakeWithFeedback
    <3>2. /\ UNCHANGED out \/ Emit("apierror", 0)
          /\ \A q \in Questions : drops'[q] = 0 => drops[q] = 0
      BY <1>0, <2>1, <3>1 DEF TakeFeedback
    <3>3. DoneAfterFinal'
      BY <2>1, <3>2, EmitDone DEF DoneAfterFinal
    <3>4. CASE pc' \in {"ask", "closed"}
      BY <3>3, <3>4 DEF AnswerInOrder, Streaming
    <3>5. CASE pc' \notin {"ask", "closed"}
      <4>1. batch' = Tail(batch) /\ out' = out /\ drops' = drops
        BY <3>1, <3>5 DEF TakeFeedback, AbandonStream, NextMessage
      <4>2. out[cur] \in Seq(Output) /\ stream[cur] \in Seq(Message)
        BY <1>0, <2>1
      <4> QED
        BY <1>0, <2>1, <3>3, <4>1, <4>2, TakeInOrder DEF AnswerInOrder
    <3> QED
      BY <3>4, <3>5
  <2> QED
    BY <2>2, <2>3
<1> QED
  BY <1>1, <1>2, <1>3, <1>4, <1>5, <1>6 DEF Handler

\* A stage that publishes nothing keeps the order, unless it is the one behind
\* the final answer.
LEMMA StageInOrder ==
  ASSUME NEW o, NEW b, NEW s, NEW r, NEW w, FinalThenDone(o, b, s, r),
         r \in Finished => w \in Finished, w \notin {"done", "actfailed"} \/ w = r
  PROVE  FinalThenDone(o, b, s, w)
BY DEF FinalThenDone

\* What is published for the question being read, or for another one.
LEMMA PublishedInOrder ==
  ASSUME TypeOK, TypeOK', MaxLen >= 2, AnswerInOrder, pc \in Streaming,
         NEW q \in Questions, NEW m \in Message, Publish(q, m),
         UNCHANGED <<pc, cur, out, batch, others>>,
         q # cur => run'[cur] = run[cur],
         q = cur /\ ~others[cur] =>
           /\ run[cur] \notin Finished
           /\ \/ m.type # "done" /\ run'[cur] \notin {"done", "actfailed"}
              \/ m.type = "final"
              \/ m.type = "done" /\ run[cur] \in {"done", "actfailed"} /\ run'[cur] \in Finished
  PROVE  AnswerInOrder'
<1> SUFFICES ASSUME drops'[cur] = 0, ~others[cur]
             PROVE  FinalThenDone(out[cur], batch, stream'[cur], run'[cur])
  BY DEF AnswerInOrder
<1>0. /\ cur \in Questions /\ stream[cur] \in Seq(Message)
      /\ stream' \in [Questions -> Seq(Message)] /\ stream'[cur] \in Seq(Message)
  <2>1. cur \in Questions
    BY Basics
  <2>2. stream' \in [Questions -> Seq(Message)] /\ stream \in [Questions -> Seq(Message)]
    BY DEF TypeOK
  <2> QED
    BY <2>1, <2>2
<1>1. CASE q # cur
  <2>1. stream'[cur] = stream[cur] /\ drops'[cur] = drops[cur]
    BY <1>0, <1>1, PublishType
  <2> QED
    BY <1>1, <2>1 DEF AnswerInOrder
<1>2. CASE q = cur
  <2>1. HasReader(q)
    BY <1>2 DEF HasReader
  <2>2. /\ UNCHANGED drops
        /\ \E f \in 0..Len(stream[q]) :
             /\ Len(stream'[q]) = Len(stream[q]) + 1 - f
             /\ stream'[q][Len(stream'[q])] = m
             /\ \A i \in 1..(Len(stream'[q]) - 1) : stream'[q][i] = stream[q][i + f]
             /\ f # 0 => Len(stream'[q]) >= MaxLen
    <3>1. ~(drops'[q] > 0)
      BY <1>2
    <3> QED
      BY <2>1, <3>1, PublishRead
  <2>3. PICK f \in 0..Len(stream[q]) :
             /\ Len(stream'[q]) = Len(stream[q]) + 1 - f
             /\ stream'[q][Len(stream'[q])] = m
             /\ \A i \in 1..(Len(stream'[q]) - 1) : stream'[q][i] = stream[q][i + f]
             /\ f # 0 => Len(stream'[q]) >= MaxLen
    BY <2>2
  <2>4. f # 0 => Len(stream'[q]) >= 2
    BY <1>0, <1>2, <2>3, BoundsAssumption
  <2>5. FinalThenDone(out[q], batch, stream[q], run[q])
    BY <1>2, <2>2 DEF AnswerInOrder
  <2>6. /\ run[q] \notin Finished
        /\ \/ m.type # "done" /\ run'[q] \notin {"done", "actfailed"}
           \/ m.type = "final"
           \/ m.type = "done" /\ run[q] \in {"done", "actfailed"} /\ run'[q] \in Finished
    BY <1>2
  <2>7. stream[q] \in Seq(Message) /\ stream'[q] \in Seq(Message)
    BY <1>0, <1>2
  <2> DEFINE s == stream[q]
             t == stream'[q]
             w == run'[q]
  <2>8. FinalThenDone(out[q], batch, t, w)
    <3>1. /\ Len(t) = Len(s) + 1 - f /\ t[Len(t)] = m
          /\ \A i \in 1..(Len(t) - 1) : t[i] = s[i + f]
          /\ f # 0 => Len(t) >= 2
          /\ FinalThenDone(out[q], batch, s, run[q]) /\ run[q] \notin Finished
          /\ s \in Seq(Message) /\ t \in Seq(Message) /\ f \in 0..Len(s)
          /\ \/ m.type # "done" /\ w \notin {"done", "actfailed"}
             \/ m.type = "final"
             \/ m.type = "done" /\ run[q] \in {"done", "actfailed"} /\ w \in Finished
      BY <2>3, <2>4, <2>5, <2>6, <2>7
    <3> HIDE DEF s, t, w
    <3> QED
      BY <3>1, PublishInOrder
  <2> QED
    BY <1>2, <2>8
<1> QED
  BY <1>1, <1>2

\* The server publishes in order.
LEMMA ServerInOrder ==
  ASSUME TypeOK, TypeOK', MaxLen >= 2, QuestionOrder, AnswerInOrder,
         \/ Listener \/ Crash \/ Tick
         \/ \E q \in Questions : AnswerTask(q) \/ Ping(q) \/ ExpireStream(q)
  PROVE  AnswerInOrder'
<1> USE DEF TaskFrame, apiVars, brokerVars, agentVars, serverVars
<1>0. UNCHANGED <<pc, cur, batch, out>>
  BY ServerLeavesApi
<1> SUFFICES ASSUME pc \in Streaming PROVE AnswerInOrder'
  BY <1>0 DEF AnswerInOrder
<1>1. /\ stream \in [Questions -> Seq(Message)] /\ run \in [Questions -> Stages]
      /\ others \in [Questions -> BOOLEAN] /\ drops \in [Questions -> 0..MaxDrop]
      /\ cur \in Questions /\ activations \in Seq(Questions)
  BY Basics DEF TypeOK
<1>2. ASSUME stream'[cur] = stream[cur], drops' = drops, others'[cur] = others[cur] \/ others'[cur],
             run[cur] \in Finished => run'[cur] \in Finished,
             run'[cur] \notin {"done", "actfailed"} \/ run'[cur] = run[cur]
      PROVE  AnswerInOrder'
  BY <1>0, <1>2, StageInOrder DEF AnswerInOrder
<1>3. CASE TakeActivation
  <2>1. activations # <<>> /\ run[Head(activations)] = "queued"
    BY <1>1, <1>3 DEF TakeActivation, QuestionOrder
  <2>2. run'[cur] = run[cur] \/ (run[cur] = "queued" /\ run'[cur] = "activating")
    BY <1>1, <1>3, <2>1 DEF TakeActivation, Stage
  <2> QED
    BY <1>2, <1>3, <2>2 DEF TakeActivation, Finished
<1>4. CASE Activate
  <2>1. run'[cur] = run[cur] \/ (run[cur] = "activating" /\ run'[cur] = "start")
    BY <1>1, <1>4 DEF Activate, Stage
  <2> QED
    BY <1>2, <1>4, <2>1 DEF Activate, Finished
<1>5. CASE ActivationError \/ ActivationErrorDone
  <2>0. listener \in Questions /\ UNCHANGED others
    BY <1>5 DEF ActivationError, ActivationErrorDone, TypeOK, Questions
  <2>1. /\ listener # cur => run'[cur] = run[cur]
        /\ listener = cur => run[cur] \in {"activating", "actfailed"}
    BY <1>1, <1>5, <2>0 DEF ActivationError, ActivationErrorDone, Stage
  <2>2. \/ Publish(listener, Msg("final"))
        \/ /\ Publish(listener, Msg("done"))
           /\ listener = cur => run[cur] = "actfailed" /\ run'[cur] = "ended"
    BY <1>1, <1>5, <2>0 DEF ActivationError, ActivationErrorDone, Stage
  <2>3. /\ Msg("final") \in Message /\ Msg("done") \in Message
        /\ Msg("final").type = "final" /\ Msg("done").type = "done"
    BY MsgType DEF MsgTypes, Msg
  <2> QED
    BY <1>0, <2>0, <2>1, <2>2, <2>3, PublishedInOrder DEF Finished
<1>6. ASSUME NEW q \in Questions,
             \/ PublishStart(q) \/ AgentStep(q) \/ AgentAsks(q) \/ Ping(q) \/ PublishFinal(q)
             \/ PublishDone(q)
      PROVE  AnswerInOrder'
  <2>0. UNCHANGED others /\ (q # cur => run'[cur] = run[cur])
    BY <1>1, <1>6
    DEF PublishStart, AgentStep, AgentAsks, Ping, PublishFinal, PublishDone, Stage
  <2>1. CASE PublishStart(q) \/ AgentStep(q) \/ AgentAsks(q) \/ Ping(q)
    <3>1. PICK m \in Message : Publish(q, m) /\ m.type # "done"
      <4>1. CASE PublishStart(q) \/ Ping(q)
        BY <4>1, MsgType DEF PublishStart, Ping, MsgTypes, Msg
      <4>2. CASE AgentStep(q)
        <5>1. PICK t \in StepKinds : Publish(q, Msg(t))
          BY <4>2 DEF AgentStep
        <5>2. Msg(t) \in Message /\ Msg(t).type # "done"
          BY MsgType, BoundsAssumption DEF MsgTypes, Msg
        <5> QED
          BY <5>1, <5>2
      <4>3. CASE AgentAsks(q)
        <5>1. asked[q] + 1 \in 1..MaxFeedback
          <6>1. asked \in [Questions -> 0..MaxFeedback] /\ asked[q] < MaxFeedback
            BY <4>3 DEF AgentAsks, TypeOK
          <6> QED
            BY <6>1, BoundsAssumption
        <5> QED
          BY <4>3, <5>1, MsgType DEF AgentAsks, Request
      <4> QED
        BY <2>1, <4>1, <4>2, <4>3
    <3>2. q = cur /\ ~others[cur] =>
            run[cur] \notin Finished /\ run'[cur] \notin {"done", "actfailed"}
      BY <1>1, <2>1
      DEF PublishStart, AgentStep, AgentAsks, Ping, Active, Alive, Finished, Stage
    <3> QED
      BY <1>0, <2>0, <3>1, <3>2, PublishedInOrder
  <2>2. CASE PublishFinal(q) \/ PublishDone(q)
    <3>1. \/ Publish(q, Msg("final")) /\ run[q] = "final"
          \/ Publish(q, Msg("done")) /\ run[q] = "done" /\ run'[q] = "saving"
      BY <1>1, <2>2 DEF PublishFinal, PublishDone, Stage
    <3>2. /\ Msg("final") \in Message /\ Msg("done") \in Message
          /\ Msg("final").type = "final" /\ Msg("done").type = "done"
      BY MsgType DEF MsgTypes, Msg
    <3> QED
      BY <1>0, <2>0, <3>1, <3>2, PublishedInOrder DEF Finished
  <2> QED
    BY <1>6, <2>1, <2>2
<1>7. ASSUME NEW q \in Questions,
             \/ ReplyReceived(q) \/ ReplyTimeout(q) \/ AgentEnds(q) \/ AgentFails(q)
             \/ CloseManager(q) \/ SaveMemory(q)
      PROVE  AnswerInOrder'
  <2>1. UNCHANGED <<stream, drops>> /\ (others'[cur] = others[cur] \/ others'[cur])
    BY <1>1, <1>7
    DEF ReplyReceived, ReplyTimeout, AgentEnds, AgentFails, CloseManager, SaveMemory
  <2>2. \/ run'[cur] = run[cur]
        \/ run[cur] \notin Finished /\ run'[cur] \notin {"done", "actfailed"}
        \/ run'[cur] = "ended"
    BY <1>1, <1>7
    DEF ReplyReceived, ReplyTimeout, AgentEnds, AgentFails, CloseManager, SaveMemory, Stage,
        Finished
  <2> QED
    BY <1>2, <2>1, <2>2 DEF Finished
<1>8. ASSUME NEW q \in Questions, ExpireStream(q) PROVE AnswerInOrder'
  <2>1. /\ UNCHANGED <<run, drops, others>>
        /\ stream'[cur] = stream[cur] \/ (stream'[cur] = <<>> /\ run[cur] \in Finished)
    BY <1>1, <1>8 DEF ExpireStream, Finished
  <2>2. CASE stream'[cur] = <<>> /\ run[cur] \in Finished
    BY <1>0, <2>1, <2>2, EmptySeq DEF AnswerInOrder, FinalThenDone, Finished
  <2> QED
    BY <1>2, <2>1, <2>2
<1>9. CASE Crash \/ Tick
  <2>1. /\ UNCHANGED <<stream, drops, others>>
        /\ run'[cur] = run[cur] \/ run'[cur] = "lost"
    BY <1>1, <1>9 DEF Crash, Tick
  <2> QED
    BY <1>2, <2>1 DEF Finished
<1> QED
  BY <1>3, <1>4, <1>5, <1>6, <1>7, <1>8, <1>9 DEF Listener, AnswerTask

\* A publication that was lost stays lost, and agents left running stay so.
LEMMA ServerNeverMends ==
  ASSUME TypeOK,
         \/ Listener \/ Crash \/ Tick
         \/ \E q \in Questions : AnswerTask(q) \/ Ping(q) \/ ExpireStream(q),
         NEW p \in Questions, drops'[p] = 0, ~others'[p]
  PROVE  drops[p] = 0 /\ ~others[p]
<1> USE DEF TaskFrame, agentVars, serverVars
<1>1. drops \in [Questions -> 0..MaxDrop] /\ others \in [Questions -> BOOLEAN]
  BY DEF TypeOK
<1>2. drops[p] = 0
  <2>1. \/ UNCHANGED drops
        \/ \E q \in 0..MaxQuestions : \E m : Publish(q, m)
    BY DEF Listener, TakeActivation, Activate, ActivationError, ActivationErrorDone, Crash, Tick,
       AnswerTask, PublishStart, AgentStep, AgentAsks, ReplyReceived, ReplyTimeout, AgentEnds,
       AgentFails, CloseManager, PublishFinal, PublishDone, SaveMemory, Ping, ExpireStream,
       Questions, TypeOK
  <2> QED
    BY <1>1, <2>1 DEF Publish
<1>3. ~others[p]
  BY <1>1 DEF Listener, TakeActivation, Activate, ActivationError, ActivationErrorDone, Crash, Tick,
     AnswerTask, PublishStart, AgentStep, AgentAsks, ReplyReceived, ReplyTimeout, AgentEnds,
     AgentFails, CloseManager, PublishFinal, PublishDone, SaveMemory, Ping, ExpireStream
<1> QED
  BY <1>2, <1>3

\* The steps of the client leave what was published and sent alone.
LEMMA ClientLeavesAnswers ==
  Client \/ PutShutdown => UNCHANGED <<handlerVars, brokerVars, serverVars>>
BY DEF Client, SendQuestion, SendFeedback, Disconnect, PutShutdown

\* DONE reaches the client right behind the final answer or error, whatever
\* was trimmed, expired or crashed, if nothing of the answer was lost and no
\* agent was left running and streams keep two entries (broker/redis.py keeps
\* 100): answer() publishes the two one after the other.
THEOREM DoneFollowsFinal == MaxLen >= 2 => (Spec => []DoneAfterFinal)
<1> SUFFICES ASSUME MaxLen >= 2 PROVE Spec => []DoneAfterFinal
  OBVIOUS
<1>1. Init => AnswerInOrder /\ DoneAfterFinal
  <2> SUFFICES ASSUME Init PROVE AnswerInOrder /\ DoneAfterFinal
    OBVIOUS
  <2>1. \A q \in Questions : out[q] = <<>> /\ stream[q] = <<>> /\ run[q] = "none"
    BY DEF Init
  <2>2. batch = <<>> /\ (pc \in Streaming => cur \in Questions)
    BY BoundsAssumption DEF Init, Streaming, Http, Questions
  <2>3. FinalThenDone(<<>>, <<>>, <<>>, "none")
    BY EmptySeq DEF FinalThenDone
  <2> QED
    BY <2>1, <2>2, <2>3 DEF AnswerInOrder, DoneAfterFinal
<1>2. TypeOK /\ TypeOK' /\ QuestionOrder /\ AnswerInOrder /\ DoneAfterFinal /\ [Next]_vars
        => AnswerInOrder' /\ DoneAfterFinal'
  <2> SUFFICES ASSUME TypeOK, TypeOK', QuestionOrder, AnswerInOrder, DoneAfterFinal, [Next]_vars
               PROVE  AnswerInOrder' /\ DoneAfterFinal'
    OBVIOUS
  <2>1. CASE UNCHANGED <<handlerVars, brokerVars, serverVars>>
    BY <2>1 DEF handlerVars, brokerVars, serverVars, agentVars, AnswerInOrder, DoneAfterFinal
  <2>2. CASE Handler
    BY <2>2, HandlerInOrder
  <2>3. CASE \/ Listener \/ Crash \/ Tick
             \/ \E q \in Questions : AnswerTask(q) \/ Ping(q) \/ ExpireStream(q)
    <3>1. AnswerInOrder'
      BY <2>3, ServerInOrder
    <3>2. /\ UNCHANGED out
          /\ \A q \in Questions : drops'[q] = 0 /\ ~others'[q] => drops[q] = 0 /\ ~others[q]
      BY <2>3, ServerLeavesApi, ServerNeverMends
    <3> QED
      BY <3>1, <3>2 DEF DoneAfterFinal
  <2>4. UNCHANGED vars \/ Client \/ PutShutdown => UNCHANGED <<handlerVars, brokerVars, serverVars>>
    BY ClientLeavesAnswers DEF vars
  <2> QED
    BY <2>1, <2>2, <2>3, <2>4 DEF Next
<1> QED
  BY TypeCorrect, InitOrder, OrderKept, <1>1, <1>2, PTL DEF Spec

-----------------------------------------------------------------------------
(* ImplementsAnswerStream: the order of the messages.                      *)

\* What a message may come behind: nothing comes before START, the requests
\* are numbered in order, and there is one final answer, before DONE.
MayFollow(x, y) ==
  /\ y.type # "start"
  /\ y.type = "request" => x.k < y.k
  /\ x.type \in {"final", "done"} => y.type # "final"
Before(a, b) == \A i \in 1..Len(a) : \A j \in 1..Len(b) : MayFollow(a[i], b[j])
Sorted(a) == \A i, j \in 1..Len(a) : i < j => MayFollow(a[i], a[j])
InOrder(o, b, s) == Before(o, b) /\ Before(o, s) /\ Before(b, s) /\ Sorted(b) /\ Sorted(s)

Has(a, t) == \E i \in 1..Len(a) : a[i].type = t
Anywhere(o, b, s, t) == Has(o, t) \/ Has(b, t) \/ Has(s, t)

\* The messages are of at most n requests, each numbered.
NumberedUpTo(a, n) ==
  \A i \in 1..Len(a) : a[i].k <= n /\ (a[i].type = "request" => a[i].k > 0)

Unstarted == {"none", "queued", "activating", "start"}
WithFinal == {"actfailed", "done", "saving", "ended", "lost"}
\* The messages of answer() itself that have been published at a stage, and
\* those of them behind the final answer.
Published(r) == IF r \in Unstarted THEN 0
                ELSE IF r \in {"work", "closing", "final", "actfailed"} THEN 1
                ELSE IF r = "done" THEN 2 ELSE 3
PublishedLast(r) == IF r \in Finished THEN 1 ELSE 0

\* What was sent, read and not read of an answer, o, b and s, when its task is
\* at stage r and its agents have made n requests and published c messages.
Answer(o, b, s, r, n, c) ==
  /\ InOrder(o, b, s)
  /\ NumberedUpTo(o, n) /\ NumberedUpTo(b, n) /\ NumberedUpTo(s, n)
  /\ o # <<>> => o[Len(o)].type \notin {"done", "apierror"}
  /\ r \in Unstarted => o = <<>> /\ b = <<>> /\ s = <<>>
  /\ Anywhere(o, b, s, "final") => r \in WithFinal
  /\ Anywhere(o, b, s, "done") \/ r \in {"done", "actfailed"} => Anywhere(o, b, s, "final")
  /\ \A i \in 1..Len(s) : s[i].type = "final" => Len(s) - i <= c + PublishedLast(r)
  /\ o = <<>> /\ b # <<>> => b[1].type \in {"start", "final"}
  /\ o = <<>> /\ b = <<>> /\ s # <<>> =>
        s[1].type \in {"start", "final"} /\ Len(s) <= c + Published(r)
  /\ o = <<>> /\ b = <<>> /\ s = <<>> => r \in Unstarted \cup {"lost"}

\* Nothing has been published yet.
LEMMA AnswerEmpty ==
  ASSUME NEW n, NEW c, NEW r \in Unstarted
  PROVE  Answer(<<>>, <<>>, <<>>, r, n, c)
BY EmptySeq DEF Answer, InOrder, Before, Sorted, Anywhere, Has, NumberedUpTo, Unstarted

\* The handler reads all there is.
LEMMA AnswerRead ==
  ASSUME NEW o, NEW s \in Seq(Message), s # <<>>, NEW r, NEW n, NEW c,
         Answer(o, <<>>, s, r, n, c)
  PROVE  Answer(o, s, <<>>, r, n, c)
<1>1. Len(<<>>) = 0
  OBVIOUS
<1>2. InOrder(o, s, <<>>) /\ NumberedUpTo(s, n) /\ NumberedUpTo(<<>>, n)
  BY <1>1 DEF Answer, InOrder, Before, Sorted, NumberedUpTo
<1>3. \A t : Anywhere(o, s, <<>>, t) <=> Anywhere(o, <<>>, s, t)
  BY <1>1 DEF Anywhere, Has
<1> QED
  BY <1>1, <1>2, <1>3 DEF Answer

\* The handler has handled the message at the head of its batch: it has sent
\* it to the client, or ignored a ping.
LEMMA AnswerTake ==
  ASSUME NEW o \in Seq(Output), NEW b \in Seq(Message), b # <<>>, NEW s \in Seq(Message),
         NEW r, NEW n \in Nat, NEW c, NEW u,
         \/ u = o /\ b[1].type = "ping"
         \/ \E x \in Output : /\ u = Append(o, x) /\ x.type = b[1].type /\ x.k \in {0, b[1].k}
                              /\ x.type = "request" => x.k = b[1].k
                              /\ x.type \notin {"done", "apierror"},
         Answer(o, b, s, r, n, c)
  PROVE  Answer(u, Tail(b), s, r, n, c)
<1> DEFINE t == Tail(b)
<1>1. /\ Len(b) \in Nat \ {0} /\ t \in Seq(Message) /\ Len(t) = Len(b) - 1
      /\ \A i \in 1..(Len(b) - 1) : t[i] = b[i + 1]
      /\ \A i \in 1..Len(t) : i + 1 \in 1..Len(b) /\ t[i] = b[i + 1] /\ 1 < i + 1
      /\ 1 \in 1..Len(b)
  BY EmptySeq, HeadTailProperties
<1>2. /\ b[1] \in Message /\ \A i \in 1..Len(t) : t[i] \in Message
      /\ \A i \in 1..Len(s) : s[i] \in Message
  BY <1>1, ElementOfSeq
<1> HIDE DEF t
<1>3. Before(t, s) /\ Sorted(t) /\ NumberedUpTo(t, n)
  <2>1. \A i, j \in 1..Len(t) : i < j => i + 1 < j + 1
    BY <1>1
  <2> QED
    BY <1>1, <2>1 DEF Answer, InOrder, Before, Sorted, NumberedUpTo
<1>4. CASE u = o /\ b[1].type = "ping"
  <2>1. InOrder(u, t, s)
    BY <1>1, <1>3, <1>4 DEF Answer, InOrder, Before
  <2>2. \A v \in {"final", "done"} : Anywhere(u, t, s, v) <=> Anywhere(o, b, s, v)
    <3>1. \A v \in {"final", "done"} : Has(t, v) <=> Has(b, v)
      <4> TAKE v \in {"final", "done"}
      <4>1. ASSUME NEW i \in 1..Len(b), b[i].type = v PROVE Has(t, v)
        <5>1. i - 1 \in 1..Len(t) /\ i - 1 + 1 = i
          BY <1>1, <1>4, <4>1
        <5> QED
          BY <1>1, <4>1, <5>1 DEF Has
      <4> QED
        BY <1>1, <4>1 DEF Has
    <3> QED
      BY <1>4, <3>1 DEF Anywhere
  <2>3. o # <<>> /\ r \notin Unstarted
    BY <1>4 DEF Answer
  <2> QED
    BY <1>3, <1>4, <2>1, <2>2, <2>3 DEF Answer, t
<1>5. ASSUME NEW x \in Output, u = Append(o, x), x.type = b[1].type, x.k \in {0, b[1].k},
             x.type = "request" => x.k = b[1].k, x.type \notin {"done", "apierror"}
      PROVE  Answer(u, t, s, r, n, c)
  <2>1. /\ Len(o) \in Nat /\ Len(u) = Len(o) + 1 /\ u # <<>> /\ u[Len(u)] = x
        /\ \A i \in 1..Len(o) : u[i] = o[i]
        /\ \A i \in 1..Len(u) : i \in 1..Len(o) \/ i = Len(u)
    BY SMTT(30), <1>5, AppendProperties
  <2>2. b[1].k \in Nat /\ x.k \in Nat /\ x.k <= b[1].k
        /\ \A j \in 1..Len(t) : t[j].k \in Nat /\ \A l \in 1..Len(s) : s[l].k \in Nat
    BY <1>2, <1>5, BoundsAssumption DEF Message, Output
  <2>3. /\ \A j \in 1..Len(t) : MayFollow(b[1], t[j])
        /\ \A j \in 1..Len(s) : MayFollow(b[1], s[j])
    BY <1>1 DEF Answer, InOrder, Before, Sorted
  <2>4. /\ \A j \in 1..Len(t) : MayFollow(x, t[j])
        /\ \A j \in 1..Len(s) : MayFollow(x, s[j])
    <3>1. \A y \in Message : MayFollow(b[1], y) => MayFollow(x, y)
      BY <1>5, <2>2, BoundsAssumption DEF MayFollow, Message
    <3> QED
      BY <1>2, <2>3, <3>1
  <2>5. InOrder(u, t, s)
    <3>1. Before(u, t)
      BY <1>1, <2>1, <2>4 DEF Answer, InOrder, Before
    <3>2. Before(u, s)
      BY <2>1, <2>4 DEF Answer, InOrder, Before
    <3> QED
      BY <1>3, <3>1, <3>2 DEF Answer, InOrder
  <2>6. NumberedUpTo(u, n)
    <3>1. x.k <= n /\ (x.type = "request" => x.k > 0)
      BY <1>1, <1>5, <2>2 DEF Answer, NumberedUpTo
    <3> QED
      BY <2>1, <3>1 DEF Answer, NumberedUpTo
  <2>7. \A v \in {"final", "done"} : Anywhere(u, t, s, v) <=> Anywhere(o, b, s, v)
    <3> TAKE v \in {"final", "done"}
    <3>1. Has(u, v) <=> Has(o, v) \/ x.type = v
      <4>1. Len(u) \in 1..Len(u) /\ \A i \in 1..Len(o) : i \in 1..Len(u)
        BY <2>1
      <4> QED
        BY <2>1, <4>1 DEF Has
    <3>2. Has(b, v) <=> Has(t, v) \/ b[1].type = v
      <4>1. ASSUME NEW i \in 1..Len(b), b[i].type = v, i # 1 PROVE Has(t, v)
        <5>1. i - 1 \in 1..Len(t) /\ i - 1 + 1 = i
          BY <1>1, <4>1
        <5> QED
          BY <1>1, <4>1, <5>1 DEF Has
      <4> QED
        BY <1>1, <4>1 DEF Has
    <3> QED
      BY <1>5, <3>1, <3>2 DEF Anywhere
  <2>8. r \notin Unstarted
    BY DEF Answer
  <2> QED
    BY <1>3, <1>5, <2>1, <2>5, <2>6, <2>7, <2>8 DEF Answer
<1> QED
  BY <1>4, <1>5 DEF t

\* What may be published at stage r of an answer task, and what it makes of the
\* stage, the requests and the messages of the agents: START, the final answer
\* or the error of an activation, AgentDone, and what agents and keep_alive
\* publish meanwhile.
Publishes(m, r, w, n, n2, c, c2) ==
  \/ /\ m.type = "start" /\ r = "start" /\ w = "work"
     /\ m.k = 0 /\ n2 = n /\ c2 = c
  \/ /\ m.type \in {"step", "oauth"} /\ r = w
     /\ r \in {"work", "closing", "final", "done", "saving", "ended"}
     /\ m.k = 0 /\ n2 = n /\ c2 = c + 1
  \/ /\ m.type = "request" /\ r = w
     /\ r \in {"work", "closing", "final", "done", "saving", "ended"}
     /\ m.k = n + 1 /\ n2 = n + 1 /\ c2 = c + 1
  \/ /\ m.type = "ping" /\ r \in {"work", "closing"} /\ r = w
     /\ m.k = 0 /\ n2 = n /\ c2 = c
  \/ /\ m.type = "final" /\ m.k = 0 /\ n2 = n /\ c2 = c
     /\ (r = "final" /\ w = "done") \/ (r = "activating" /\ w = "actfailed")
  \/ /\ m.type = "done" /\ m.k = 0 /\ n2 = n /\ c2 = c
     /\ (r = "done" /\ w = "saving") \/ (r = "actfailed" /\ w = "ended")

\* The numbers of requests and messages only grow, and a request is given the
\* next number.
LEMMA PublishesCounts ==
  ASSUME NEW m, NEW r, NEW w, NEW n \in Nat, NEW n2, NEW c \in Nat, NEW c2,
         Publishes(m, r, w, n, n2, c, c2)
  PROVE  /\ n2 \in Nat /\ c2 \in Nat /\ n <= n2 /\ c <= c2 /\ m.k <= n2
         /\ m.type = "request" => m.k > 0
<1>1. /\ n2 = n \/ n2 = n + 1
      /\ c2 = c \/ c2 = c + 1
      /\ m.k = 0 \/ (m.k = n + 1 /\ n2 = n + 1)
      /\ m.type = "request" => m.k = n + 1
  BY DEF Publishes
<1> QED
  BY <1>1

\* A message is published on a stream that keeps its newest L entries, more
\* than the agents and answer() publish together: START, as long as nothing is
\* read, and the final answer are never trimmed.
LEMMA AnswerPublish ==
  ASSUME NEW o \in Seq(Output), NEW b \in Seq(Message), NEW s \in Seq(Message),
         NEW t \in Seq(Message), NEW m \in Message, NEW f \in 0..Len(s), NEW L \in Nat,
         Len(t) = Len(s) + 1 - f, t[Len(t)] = m,
         \A i \in 1..(Len(t) - 1) : t[i] = s[i + f],
         f # 0 => Len(t) >= L,
         NEW r, NEW w, NEW n \in Nat, NEW n2, NEW c \in Nat, NEW c2,
         Publishes(m, r, w, n, n2, c, c2), c2 + 3 <= L,
         m.type = "ping" => o # <<>> \/ b # <<>>,
         Answer(o, b, s, r, n, c)
  PROVE  Answer(o, b, t, w, n2, c2)
<1>1. /\ Len(o) \in Nat /\ Len(b) \in Nat /\ Len(s) \in Nat /\ Len(t) \in Nat /\ f \in Nat
      /\ f <= Len(s) /\ Len(t) >= 1 /\ Len(t) \in 1..Len(t)
      /\ \A i \in 1..Len(t) : i = Len(t) \/ (i \in 1..(Len(t) - 1) /\ i + f \in 1..Len(s))
  <2>1. Len(o) \in Nat /\ Len(b) \in Nat /\ Len(s) \in Nat
    BY LenProperties
  <2>2. f \in Nat /\ f <= Len(s)
    BY <2>1
  <2>3. Len(t) \in Nat /\ Len(t) >= 1
    BY <2>1, <2>2
  <2>4. \A i \in 1..Len(t) : i = Len(t) \/ (i \in 1..(Len(t) - 1) /\ i + f \in 1..Len(s))
    <3>1. \A x, y, z \in Nat : x = y + 1 - z => \A i \in 1..x :
             i = x \/ (i \in 1..(x - 1) /\ i + z \in 1..y)
      OBVIOUS
    <3> QED
      BY <2>1, <2>2, <2>3, <3>1
  <2>5. Len(t) \in 1..Len(t)
    BY <2>3
  <2> QED
    BY <2>1, <2>2, <2>3, <2>4, <2>5
<1>2. /\ \A i \in 1..Len(o) : o[i].k \in Nat
      /\ \A i \in 1..Len(b) : b[i].k \in Nat
      /\ \A i \in 1..Len(s) : s[i].k \in Nat
      /\ n2 \in Nat /\ c2 \in Nat /\ n <= n2 /\ c <= c2 /\ m.k \in Nat /\ m.k <= n2
      /\ m.type = "request" => m.k > 0
  <2>1. /\ \A i \in 1..Len(o) : o[i] \in Output
        /\ \A i \in 1..Len(b) : b[i] \in Message
        /\ \A i \in 1..Len(s) : s[i] \in Message
    BY <1>1, ElementOfSeq
  <2>2. /\ \A x \in Output : x.k \in Nat
        /\ \A x \in Message : x.k \in Nat
    <3>1. 0..MaxFeedback \subseteq Nat
      BY BoundsAssumption
    <3>2. \A x \in Output : x.k \in 0..MaxFeedback
      BY DEF Output
    <3>3. \A x \in Message : x.k \in 0..MaxFeedback
      BY DEF Message
    <3> QED
      BY <3>1, <3>2, <3>3
  <2>3. n2 \in Nat /\ c2 \in Nat /\ n <= n2 /\ c <= c2 /\ m.k <= n2
        /\ (m.type = "request" => m.k > 0)
    BY PublishesCounts
  <2> QED
    BY <2>1, <2>2, <2>3
<1>3. \A i \in 1..(Len(t) - 1) : t[i] = s[i + f] /\ i + f \in 1..Len(s)
  BY <1>1
<1>4. r \notin WithFinal => ~Has(o, "final") /\ ~Has(b, "final") /\ ~Has(s, "final")
  BY DEF Answer, Anywhere
<1>5. r \notin WithFinal => ~Has(o, "done") /\ ~Has(b, "done") /\ ~Has(s, "done")
  BY <1>4 DEF Answer, Anywhere
\* everything that is there may come before the message
<1>6. /\ \A i \in 1..Len(o) : MayFollow(o[i], m)
      /\ \A i \in 1..Len(b) : MayFollow(b[i], m)
      /\ \A i \in 1..Len(s) : MayFollow(s[i], m)
  <2>1. CASE m.type = "start"
    <3>1. o = <<>> /\ b = <<>> /\ s = <<>>
      BY <2>1 DEF Publishes, Answer, Unstarted
    <3> QED
      BY <3>1, EmptySeq
  <2>2. CASE m.type \in {"step", "oauth", "ping", "done"}
    BY <2>2 DEF MayFollow
  <2>3. CASE m.type = "request"
    <3>1. m.k = n + 1
      BY <2>3 DEF Publishes
    <3>2. \A k \in Nat : k <= n => k < n + 1
      OBVIOUS
    <3> QED
      BY <1>2, <2>3, <3>1, <3>2 DEF MayFollow, Answer, NumberedUpTo
  <2>4. CASE m.type = "final"
    <3>1. r \notin WithFinal
      BY <2>4 DEF Publishes, WithFinal
    <3> QED
      BY <1>4, <1>5, <2>4, <3>1 DEF MayFollow, Has
  <2> QED
    BY <2>1, <2>2, <2>3, <2>4 DEF Publishes
<1>7. InOrder(o, b, t)
  <2>1. Before(o, t)
    <3> SUFFICES ASSUME NEW i \in 1..Len(o), NEW j \in 1..Len(t) PROVE MayFollow(o[i], t[j])
      BY DEF Before
    <3> QED
      BY <1>1, <1>3, <1>6 DEF Answer, InOrder, Before
  <2>2. Before(b, t)
    <3> SUFFICES ASSUME NEW i \in 1..Len(b), NEW j \in 1..Len(t) PROVE MayFollow(b[i], t[j])
      BY DEF Before
    <3> QED
      BY <1>1, <1>3, <1>6 DEF Answer, InOrder, Before
  <2>3. Sorted(t)
    <3> SUFFICES ASSUME NEW i \in 1..Len(t), NEW j \in 1..Len(t), i < j
                 PROVE  MayFollow(t[i], t[j])
      BY DEF Sorted
    <3>1. i \in 1..(Len(t) - 1) /\ i + f < j + f
      BY SMTT(30), <1>1
    <3> QED
      BY <1>1, <1>3, <1>6, <3>1 DEF Answer, InOrder, Sorted
  <2> QED
    BY <2>1, <2>2, <2>3 DEF Answer, InOrder
<1>8. NumberedUpTo(o, n2) /\ NumberedUpTo(b, n2) /\ NumberedUpTo(t, n2)
  <2>1. NumberedUpTo(o, n2) /\ NumberedUpTo(b, n2)
    <3>1. \A k \in Nat : k <= n => k <= n2
      BY <1>2
    <3>2. NumberedUpTo(o, n2)
      BY <1>2, <3>1 DEF Answer, NumberedUpTo
    <3>3. NumberedUpTo(b, n2)
      BY <1>2, <3>1 DEF Answer, NumberedUpTo
    <3> QED
      BY <3>2, <3>3
  <2>2. \A i \in 1..Len(s) : s[i].k <= n2 /\ (s[i].type = "request" => s[i].k > 0)
    <3>1. \A k \in Nat : k <= n => k <= n2
      BY <1>2
    <3> QED
      BY <1>2, <3>1 DEF Answer, NumberedUpTo
  <2>3. NumberedUpTo(t, n2)
    BY <1>1, <1>2, <1>3, <2>2 DEF NumberedUpTo
  <2> QED
    BY <2>1, <2>3
\* the final answer is not trimmed
<1>9. ASSUME NEW i \in 1..Len(s), s[i].type = "final"
      PROVE  i - f \in 1..(Len(t) - 1) /\ t[i - f] = s[i]
  <2>1. Len(s) - i <= c + PublishedLast(r) /\ PublishedLast(r) \in 0..1
    BY <1>9 DEF Answer, PublishedLast
  <2>2. f # 0 => Len(s) + 1 - f >= c + 3
    BY SMTT(30), <1>1, <1>2
  <2>3. i - f \in 1..(Len(t) - 1) /\ i - f + f = i
    BY <1>1, <2>1, <2>2
  <2> QED
    BY <1>3, <2>3
<1>10. Has(s, "final") => Has(t, "final")
  <2> SUFFICES ASSUME NEW i \in 1..Len(s), s[i].type = "final" PROVE Has(t, "final")
    BY DEF Has
  <2>1. i - f \in 1..(Len(t) - 1) /\ t[i - f] = s[i]
    BY <1>9
  <2>2. i - f \in 1..Len(t)
    BY <1>1, <2>1
  <2> QED
    BY <2>1, <2>2 DEF Has
<1>11. \A v : Has(t, v) => Has(s, v) \/ m.type = v
  BY <1>1, <1>3 DEF Has
<1>12. Anywhere(o, b, t, "final") => w \in WithFinal
  <2>1. CASE m.type = "final"
    BY <2>1 DEF Publishes, WithFinal
  <2>2. CASE m.type # "final" /\ Anywhere(o, b, t, "final")
    <3>1. r \in WithFinal
      BY <1>11, <2>2 DEF Anywhere, Answer
    <3> QED
      BY <2>2, <3>1 DEF Publishes, WithFinal
  <2> QED
    BY <2>1, <2>2
<1>13. Anywhere(o, b, t, "done") \/ w \in {"done", "actfailed"} => Anywhere(o, b, t, "final")
  <2>1. CASE m.type = "final"
    BY <1>1, <2>1 DEF Anywhere, Has
  <2>2. CASE m.type # "final"
    <3>1. Anywhere(o, b, t, "done") \/ w \in {"done", "actfailed"} =>
            Anywhere(o, b, s, "done") \/ r \in {"done", "actfailed"}
      BY <1>11, <2>2 DEF Anywhere, Publishes
    <3> QED
      BY <1>10, <3>1 DEF Answer, Anywhere
  <2> QED
    BY <2>1, <2>2
<1>14. ASSUME NEW i \in 1..Len(t), t[i].type = "final"
       PROVE  Len(t) - i <= c2 + PublishedLast(w)
  <2>0. PublishedLast(w) \in 0..1
    BY DEF PublishedLast
  <2>1. CASE i = Len(t)
    BY <1>1, <1>2, <2>0, <2>1
  <2>2. CASE i \in 1..(Len(t) - 1)
    <3>1. i + f \in 1..Len(s) /\ s[i + f].type = "final"
      BY <1>3, <1>14, <2>2
    <3>2. Len(s) - (i + f) <= c + PublishedLast(r)
      BY <3>1 DEF Answer
    <3>3. r \in WithFinal
      BY <1>4, <3>1 DEF Has
    <3>4. c + PublishedLast(r) + 1 <= c2 + PublishedLast(w)
      BY SMTT(30), <3>3 DEF Publishes, WithFinal, PublishedLast, Finished
    <3>5. PublishedLast(r) \in 0..1
      BY DEF PublishedLast
    <3> QED
      BY SMTT(30), <1>1, <1>2, <2>0, <3>2, <3>4, <3>5
  <2> QED
    BY <1>1, <2>1, <2>2
<1>15. o = <<>> /\ b = <<>> =>
         t[1].type \in {"start", "final"} /\ Len(t) <= c2 + Published(w)
  <2> SUFFICES ASSUME o = <<>>, b = <<>>
               PROVE  t[1].type \in {"start", "final"} /\ Len(t) <= c2 + Published(w)
    OBVIOUS
  <2>1. CASE s = <<>>
    <3>1. Len(s) = 0
      BY <2>1
    <3>2. Len(t) = 1 /\ t[1] = m
      BY <1>1, <3>1
    <3>3. r \in Unstarted \cup {"lost"}
      BY <2>1 DEF Answer
    <3>4. m.type \in {"start", "final"} /\ Published(w) = 1
      BY <3>3 DEF Publishes, Unstarted, Published
    <3>5. Len(t) <= c2 + Published(w)
      <4>1. \A x, y \in Nat : y = 1 => 1 <= x + y
        OBVIOUS
      <4> QED
        BY <1>2, <3>2, <3>4, <4>1
    <3> QED
      BY <3>2, <3>4, <3>5
  <2>2. CASE s # <<>>
    <3>1. s[1].type \in {"start", "final"} /\ Len(s) <= c + Published(r) /\ r \notin Unstarted
      BY <2>2 DEF Answer
    <3>2. c + Published(r) + 1 <= c2 + Published(w) /\ Published(w) \in 0..3 /\ Published(r) \in 0..3
      <4>1. m.type # "ping" /\ m.type # "start"
        BY <3>1 DEF Publishes, Unstarted
      <4>2. Published(w) \in 0..3 /\ Published(r) \in 0..3
        BY DEF Published
      <4> QED
        BY SMTT(30), <3>1, <4>1, <4>2 DEF Publishes, Unstarted, Published
    <3>3. f = 0
      BY SMTT(30), <1>1, <1>2, <3>1, <3>2
    <3>4. Len(s) >= 1
      BY <1>1, <2>2, EmptySeq
    <3>5. t[1] = s[1] /\ Len(t) = Len(s) + 1
      BY <1>1, <1>3, <3>3, <3>4
    <3>6. Len(t) <= c2 + Published(w)
      <4>1. \A x, y, u, v, a, d \in Nat : u <= x + a /\ x + a + 1 <= y + d => u + 1 <= y + d
        OBVIOUS
      <4>2. Published(w) \in Nat /\ Published(r) \in Nat
        BY <3>2
      <4> QED
        BY <1>1, <1>2, <3>1, <3>2, <3>5, <4>1, <4>2
    <3> QED
      BY <3>1, <3>5, <3>6
  <2> QED
    BY <2>1, <2>2
<1>16. w \notin Unstarted
  BY DEF Publishes, Unstarted
<1>17. t # <<>>
  BY <1>1
<1> QED
  BY <1>7, <1>8, <1>12, <1>13, <1>14, <1>15, <1>16, <1>17 DEF Answer

\* The stages that an answer task goes through without publishing.
Advances(r, w) ==
  \/ r = w
  \/ <<r, w>> \in {<<"queued", "activating">>, <<"activating", "start">>,
                   <<"work", "closing">>, <<"closing", "final">>, <<"saving", "ended">>}
  \/ r \notin {"none", "queued", "ended"} /\ w = "lost"

LEMMA AnswerAdvance ==
  ASSUME NEW o, NEW b, NEW s, NEW n, NEW c \in Nat, NEW r, NEW w, Advances(r, w),
         Len(s) \in Nat, Answer(o, b, s, r, n, c)
  PROVE  Answer(o, b, s, w, n, c)
<1>1. /\ w \in Unstarted => r \in Unstarted
      /\ r \in WithFinal => w \in WithFinal
      /\ w \in {"done", "actfailed"} => w = r
      /\ r \in Unstarted \cup {"lost"} => w \in Unstarted \cup {"lost"}
  BY DEF Advances, Unstarted, WithFinal
<1>2. /\ PublishedLast(r) <= PublishedLast(w) /\ PublishedLast(r) \in Nat /\ PublishedLast(w) \in Nat
      /\ Published(r) <= Published(w) /\ Published(r) \in Nat /\ Published(w) \in Nat
  BY DEF Advances, PublishedLast, Finished, Published, Unstarted
<1>3. \A i \in 1..Len(s) : s[i].type = "final" => Len(s) - i <= c + PublishedLast(w)
  BY <1>2 DEF Answer
<1>4. o = <<>> /\ b = <<>> /\ s # <<>> =>
        s[1].type \in {"start", "final"} /\ Len(s) <= c + Published(w)
  BY <1>2 DEF Answer
<1> QED
  BY <1>1, <1>3, <1>4 DEF Answer

\* The stream expires, once its task has finished and the client has been sent
\* something.
LEMMA AnswerExpire ==
  ASSUME NEW o, o # <<>>, NEW b, NEW s, NEW n, NEW c, NEW r \in Finished,
         Answer(o, b, s, r, n, c)
  PROVE  Answer(o, b, <<>>, r, n, c)
<1>1. InOrder(o, b, <<>>) /\ NumberedUpTo(<<>>, n) /\ \A t : ~Has(<<>>, t)
  BY EmptySeq DEF Answer, InOrder, Before, Sorted, NumberedUpTo, Has
<1>2. Has(o, "done") \/ Has(b, "done") => Has(o, "final") \/ Has(b, "final")
  BY DEF Answer, Anywhere, Has, InOrder, Before, MayFollow
<1>3. r \notin Unstarted /\ r \notin {"done", "actfailed"}
  BY DEF Finished, Unstarted
<1> QED
  BY <1>1, <1>2, <1>3, EmptySeq DEF Answer, Anywhere

-----------------------------------------------------------------------------
(* ImplementsAnswerStream: the steps of the system.                        *)

\* What the handler has read and not told the client.
Unhandled == IF AtRequest THEN Tail(batch) ELSE batch

\* The answer being read, when no publication fails.
AnswerBeingRead ==
  pc \in Streaming =>
    Answer(out[cur], Unhandled, stream[cur], run[cur], asked[cur], steps[cur] + asked[cur])

\* keep_alive pings the stream of a question only behind START: it sleeps
\* first, and what it finds published is read before it wakes.
PingsBehindStart ==
  /\ \A q \in Questions : run[q] \in Unstarted => ~pingDue[q]
  /\ pc \in Streaming /\ out[cur] = <<>> /\ batch = <<>> /\ stream[cur] # <<>> => ~pingDue[cur]
  /\ AtRequest => out[cur] # <<>>

\* The handler keeps the answer in order as it reads it.
LEMMA HandlerAnswers ==
  ASSUME TypeOK, TypeOK', QuestionOrder, QuestionOrder', MaxDrop = 0,
         AnswerBeingRead, PingsBehindStart, Handler
  PROVE  AnswerBeingRead' /\ PingsBehindStart'
<1> USE DEF clientVars, brokerVars, serverVars, agentVars, receiverVars
<1>0. /\ stream \in [Questions -> Seq(Message)] /\ run \in [Questions -> Stages]
      /\ out \in [Questions -> Seq(Output)] /\ batch \in Seq(Message)
      /\ pc \in Streaming => cur \in Questions
      /\ AtRequest => pc \in Streaming
      /\ steps \in [Questions -> 0..MaxSteps] /\ asked \in [Questions -> 0..MaxFeedback]
      /\ drops \in [Questions -> 0..MaxDrop]
  BY Basics DEF TypeOK, AtRequest, Streaming
<1>1. UNCHANGED pingDue /\ \A q \in Questions : run'[q] \in Unstarted => run[q] \in Unstarted
  <2>1. UNCHANGED pingDue
    BY DEF Handler, ValidateConnection, ReceiveQuestion, WakeWithQuestion, PublishActivation,
           ReadStream, AgentTimeout, ReadFails, HandleMessage, ReceiveFeedback, WakeWithFeedback
  <2>2. CASE PublishActivation
    <3>1. cur \in Questions /\ run[cur] = "none"
      BY <1>0, <2>2 DEF PublishActivation, QuestionOrder, Fresh, Streaming
    <3>2. \A q \in Questions : run'[q] = run[q] \/ q = cur
      BY <1>0, <2>2 DEF PublishActivation
    <3> QED
      BY <2>1, <3>1, <3>2 DEF Unstarted
  <2>3. CASE ~PublishActivation
    <3>1. UNCHANGED run
      BY <2>3
      DEF Handler, ValidateConnection, ReceiveQuestion, WakeWithQuestion,
          ReadStream, AgentTimeout, ReadFails, HandleMessage, ReceiveFeedback, WakeWithFeedback
    <3> QED
      BY <2>1, <3>1
  <2> QED
    BY <2>2, <2>3
<1>2. ASSUME /\ pc' \in Streaming =>
                  \/ out'[cur'] # <<>> \/ batch' # <<>> \/ stream'[cur'] = <<>>
             /\ AtRequest' => out'[cur'] # <<>>
      PROVE  PingsBehindStart'
  BY <1>1, <1>2 DEF PingsBehindStart
<1> SUFFICES ASSUME pc' \in Streaming PROVE AnswerBeingRead' /\ PingsBehindStart'
  BY <1>2 DEF AnswerBeingRead, AtRequest, Streaming
<1>3. CASE ReceiveQuestion \/ WakeWithQuestion
  <2>1. pc' = "publish" /\ cur' \in Questions /\ batch' = <<>>
    <3>1. pc' = "publish"
      BY <1>3 DEF ReceiveQuestion, WakeWithQuestion, TakeQuestion, Streaming
    <3> QED
      BY <3>1, Basics DEF TypeOK, Questions
  <2>2. out'[cur'] = <<>> /\ stream'[cur'] = <<>> /\ run'[cur'] = "none"
    BY <2>1 DEF QuestionOrder, Fresh
  <2>3. ~AtRequest' /\ Unhandled' = <<>>
    BY <2>1 DEF AtRequest, Unhandled
  <2> QED
    BY <1>2, <2>2, <2>3, AnswerEmpty DEF AnswerBeingRead, Unstarted
<1>4. CASE PublishActivation
  <2>1. cur \in Questions /\ Fresh(cur) /\ batch = <<>>
    BY <1>0, <1>4 DEF PublishActivation, QuestionOrder, TypeOK, Streaming
  <2>2. pc' = "read" /\ run'[cur] = "queued" /\ UNCHANGED <<cur, batch, out, stream>>
    BY <1>0, <1>4, <2>1 DEF PublishActivation, EndStream, Close, Streaming
  <2>3. ~AtRequest' /\ Unhandled' = <<>>
    BY <2>1, <2>2 DEF AtRequest, Unhandled
  <2> QED
    BY <1>2, <2>1, <2>2, <2>3, AnswerEmpty DEF AnswerBeingRead, Unstarted, Fresh
<1>5. CASE ReadStream
  <2>1. /\ cur \in Questions /\ batch = <<>> /\ pc \in Streaming /\ ~AtRequest
        /\ batch' = stream[cur] /\ stream'[cur] = <<>> /\ ~AtRequest' /\ stream[cur] # <<>>
        /\ UNCHANGED <<cur, out, run, asked, steps>>
    BY <1>0, <1>5 DEF ReadStream, TypeOK, Streaming, AtRequest
  <2>2. stream[cur] \in Seq(Message)
    BY <1>0, <2>1
  <2>3. Answer(out[cur], <<>>, stream[cur], run[cur], asked[cur], steps[cur] + asked[cur])
    BY <2>1 DEF AnswerBeingRead, Unhandled
  <2>4. Answer(out[cur], stream[cur], <<>>, run[cur], asked[cur], steps[cur] + asked[cur])
    BY <2>1, <2>2, <2>3, AnswerRead
  <2> QED
    BY <1>2, <2>1, <2>4 DEF AnswerBeingRead, Unhandled
<1>6. CASE HandleMessage
  <2> DEFINE m == Head(batch)
  <2>1. /\ cur \in Questions /\ pc \in Streaming /\ batch # <<>> /\ ~AtRequest
        /\ UNCHANGED <<cur, stream, run, asked, steps>>
    BY <1>0, <1>6 DEF HandleMessage, TypeOK, Streaming, AtRequest
  <2>2. /\ out[cur] \in Seq(Output) /\ stream[cur] \in Seq(Message) /\ m = batch[1]
        /\ asked[cur] \in Nat
    BY <1>0, <2>1, EmptySeq, BoundsAssumption
  <2>3. Answer(out[cur], batch, stream[cur], run[cur], asked[cur], steps[cur] + asked[cur])
    BY <2>1 DEF AnswerBeingRead, Unhandled
  <2>4. Unhandled' = Tail(batch)
    BY <1>6, <2>1
    DEF HandleMessage, NextMessage, Unsupported, EndStream, Close, Unhandled, AtRequest, Streaming
  <2>5. \/ out'[cur] = out[cur] /\ batch[1].type = "ping"
        \/ \E x \in Output : /\ out'[cur] = Append(out[cur], x)
                             /\ x.type = batch[1].type /\ x.k \in {0, batch[1].k}
                             /\ x.type = "request" => x.k = batch[1].k
                             /\ x.type \notin {"done", "apierror"}
    <3>1. m \in Message
      BY <2>1, BatchHead
    <3>2. CASE m.type = "ping" /\ UNCHANGED out
      BY <2>2, <3>2
    <3>3. CASE m.type \in {"start", "step", "final", "oauth"} /\ Emit(m.type, 0)
      <4>1. [type |-> m.type, k |-> 0] \in Output
        BY <3>1, <3>3, BoundsAssumption DEF Output, OutTypes, MsgTypes
      <4>2. out'[cur] = Append(out[cur], [type |-> m.type, k |-> 0])
        BY <1>0, <2>1, <3>3 DEF Emit
      <4> QED
        BY <2>2, <3>3, <4>1, <4>2
    <3>4. CASE m.type = "request" /\ Emit("request", m.k)
      <4>1. [type |-> "request", k |-> m.k] \in Output
        BY <3>1, <3>4 DEF Output, OutTypes, MsgTypes, Message
      <4>2. out'[cur] = Append(out[cur], [type |-> "request", k |-> m.k])
        BY <1>0, <2>1, <3>4 DEF Emit
      <4> QED
        BY <2>2, <3>4, <4>1, <4>2
    <3>5. \/ m.type = "ping" /\ UNCHANGED out
          \/ m.type \in {"start", "step", "final", "oauth"} /\ Emit(m.type, 0)
          \/ m.type = "request" /\ Emit("request", m.k)
      BY <1>6 DEF HandleMessage, Unsupported, EndStream, Close, Streaming
    <3> QED
      BY <3>2, <3>3, <3>4, <3>5
  <2>6. Answer(out'[cur], Tail(batch), stream[cur], run[cur], asked[cur], steps[cur] + asked[cur])
    BY <1>0, <2>1, <2>2, <2>3, <2>5, AnswerTake
  <2>7. out'[cur] # <<>>
    <3>1. CASE out'[cur] = out[cur] /\ batch[1].type = "ping"
      BY <2>1, <2>3, <3>1 DEF Answer
    <3>2. CASE \E x \in Output : out'[cur] = Append(out[cur], x)
      BY <2>2, <3>2, AppendProperties
    <3> QED
      BY <2>5, <3>1, <3>2
  <2> QED
    BY <1>2, <2>1, <2>4, <2>6, <2>7 DEF AnswerBeingRead
<1>7. CASE ReceiveFeedback \/ WakeWithFeedback
  <2>1. /\ cur \in Questions /\ pc \in Streaming /\ AtRequest
        /\ UNCHANGED <<cur, stream, run, asked, steps>>
    BY <1>0, <1>7 DEF ReceiveFeedback, WakeWithFeedback, Streaming, AtRequest
  <2>2. out' = out /\ Unhandled' = Unhandled
    <3>1. CASE queue = <<>>
      BY <1>7, <2>1, <3>1 DEF ReceiveFeedback, WakeWithFeedback, AtRequest, Unhandled
    <3>2. CASE queue # <<>>
      <4>1. TakeFeedback(Head(queue))
        BY <1>7, <3>2 DEF ReceiveFeedback, WakeWithFeedback
      <4>2. out' = out /\ NextMessage
        BY <4>1 DEF TakeFeedback, AbandonStream, Streaming
      <4> QED
        BY <2>1, <4>2 DEF NextMessage, Unhandled, AtRequest
    <3> QED
      BY <3>1, <3>2
  <2>3. out'[cur'] # <<>>
    BY <2>1, <2>2 DEF PingsBehindStart
  <2> QED
    BY <1>2, <2>1, <2>2, <2>3 DEF AnswerBeingRead
<1>8. CASE ValidateConnection \/ AgentTimeout \/ ReadFails
  BY <1>8 DEF ValidateConnection, AgentTimeout, ReadFails, EndStream, Close, Streaming
<1> QED
  BY <1>3, <1>4, <1>5, <1>6, <1>7, <1>8 DEF Handler

\* A message published for the question being read comes behind the others.
LEMMA PublishAnswers ==
  ASSUME TypeOK, TypeOK', MaxDrop = 0, MaxLen >= MaxSteps + MaxFeedback + 3,
         AnswerBeingRead, pc \in Streaming, UNCHANGED <<pc, cur, out, batch>>,
         NEW m \in Message, Publish(cur, m),
         Publishes(m, run[cur], run'[cur], asked[cur], asked'[cur],
                   steps[cur] + asked[cur], steps'[cur] + asked'[cur]),
         m.type = "ping" => out[cur] # <<>> \/ Unhandled # <<>>
  PROVE  AnswerBeingRead'
<1> DEFINE s == stream[cur]
           t == stream'[cur]
           n == asked[cur]
           n2 == asked'[cur]
           c == steps[cur] + asked[cur]
           c2 == steps'[cur] + asked'[cur]
<1>1. /\ cur \in Questions /\ out[cur] \in Seq(Output) /\ s \in Seq(Message)
      /\ t \in Seq(Message) /\ batch \in Seq(Message)
      /\ HasReader(cur)
  <2>1. cur \in Questions
    BY Basics
  <2>2. stream' \in [Questions -> Seq(Message)]
    BY DEF TypeOK
  <2> QED
    BY <2>1, <2>2, Basics DEF HasReader
<1>2. n \in Nat /\ c \in Nat /\ c2 + 3 <= MaxLen
  <2>1. /\ steps \in [Questions -> 0..MaxSteps] /\ asked \in [Questions -> 0..MaxFeedback]
        /\ steps' \in [Questions -> 0..MaxSteps] /\ asked' \in [Questions -> 0..MaxFeedback]
    BY DEF TypeOK
  <2>2. /\ steps[cur] \in 0..MaxSteps /\ asked[cur] \in 0..MaxFeedback
        /\ steps'[cur] \in 0..MaxSteps /\ asked'[cur] \in 0..MaxFeedback
    BY <1>1, <2>1
  <2>3. \A S, F, x, y, z, w \in Nat :
           z \in 0..S /\ w \in 0..F /\ MaxLen >= S + F + 3 => x + y \in Nat /\ z + w + 3 <= MaxLen
    BY BoundsAssumption
  <2>4. /\ steps[cur] \in Nat /\ asked[cur] \in Nat
        /\ steps'[cur] \in Nat /\ asked'[cur] \in Nat
    BY <2>2, BoundsAssumption
  <2> QED
    BY <2>2, <2>3, <2>4, BoundsAssumption
<1>3. Unhandled \in Seq(Message) /\ UNCHANGED Unhandled
  <2>1. AtRequest => batch # <<>>
    BY DEF AtRequest, TypeOK
  <2>2. batch # <<>> => Tail(batch) \in Seq(Message)
    BY <1>1, HeadTailProperties
  <2> QED
    BY <1>1, <2>1, <2>2 DEF Unhandled, AtRequest
<1>4. PICK f \in 0..Len(s) : /\ Len(t) = Len(s) + 1 - f /\ t[Len(t)] = m
                             /\ \A i \in 1..(Len(t) - 1) : t[i] = s[i + f]
                             /\ f # 0 => Len(t) >= MaxLen
  <2>1. ~(drops'[cur] > 0)
    <3>1. drops' \in [Questions -> 0..MaxDrop]
      BY DEF TypeOK
    <3> QED
      BY <1>1, <3>1
  <2> QED
    BY <1>1, <2>1, PublishRead
<1>5. Answer(out[cur], Unhandled, s, run[cur], n, c)
  BY DEF AnswerBeingRead
<1>6. Answer(out[cur], Unhandled, t, run'[cur], n2, c2)
  <2>1. MaxLen \in Nat /\ Publishes(m, run[cur], run'[cur], n, n2, c, c2)
    BY BoundsAssumption
  <2>2. m.type = "ping" => out[cur] # <<>> \/ Unhandled # <<>>
    OBVIOUS
  <2> HIDE DEF s, t, n, n2, c, c2
  <2> QED
    BY <1>1, <1>2, <1>3, <1>4, <1>5, <2>1, <2>2, AnswerPublish
<1> QED
  BY <1>3, <1>6 DEF AnswerBeingRead

\* keep_alive sleeps before it publishes, and is started with START.
LEMMA ServerPings ==
  ASSUME TypeOK, QuestionOrder, PingsBehindStart,
         \/ Listener \/ Crash \/ Tick
         \/ \E q \in Questions : AnswerTask(q) \/ Ping(q) \/ ExpireStream(q)
  PROVE  /\ \A q \in Questions : run'[q] \in Unstarted => ~pingDue'[q]
         /\ \A q \in Questions : pingDue'[q] => pingDue[q] \/ Tick
<1> USE DEF TaskFrame, serverVars, agentVars
<1>1. run \in [Questions -> Stages] /\ pingDue \in [Questions -> BOOLEAN]
      /\ activations \in Seq(Questions) /\ listener \in 0..MaxQuestions
  BY DEF TypeOK
<1>2. CASE Tick
  BY <1>1, <1>2 DEF Tick, Alive, Unstarted
<1>3. CASE Crash
  BY <1>1, <1>3 DEF Crash
<1>4. CASE Listener
  <2>1. UNCHANGED pingDue
    BY <1>4 DEF Listener, TakeActivation, Activate, ActivationError, ActivationErrorDone
  <2>2. CASE TakeActivation
    <3>1. activations # <<>> /\ run[Head(activations)] = "queued"
      BY <1>1, <2>2 DEF TakeActivation, QuestionOrder
    <3>2. \A q \in Questions : run'[q] = run[q] \/ q = Head(activations)
      BY <1>1, <2>2 DEF TakeActivation, Stage
    <3> QED
      BY <2>1, <3>1, <3>2 DEF PingsBehindStart, Unstarted
  <2>3. CASE Activate \/ ActivationError \/ ActivationErrorDone
    <3>1. \A q \in Questions : run'[q] = run[q] \/ (q = listener /\ run[q] = "activating")
                                \/ run'[q] = "ended"
      BY <1>1, <2>3 DEF Activate, ActivationError, ActivationErrorDone, Stage
    <3> QED
      BY <2>1, <3>1 DEF PingsBehindStart, Unstarted
  <2> QED
    BY <1>4, <2>1, <2>2, <2>3 DEF Listener, PingsBehindStart
<1>5. ASSUME NEW p \in Questions, AnswerTask(p) \/ Ping(p) \/ ExpireStream(p)
      PROVE  /\ \A q \in Questions : run'[q] \in Unstarted => ~pingDue'[q]
             /\ \A q \in Questions : pingDue'[q] => pingDue[q]
  <2>1. \A q \in Questions : run'[q] = run[q] \/ run'[q] \notin Unstarted
    BY <1>1, <1>5
    DEF AnswerTask, PublishStart, AgentStep, AgentAsks, ReplyReceived, ReplyTimeout, AgentEnds,
        AgentFails, CloseManager, PublishFinal, PublishDone, SaveMemory, Ping, ExpireStream,
        Stage, Unstarted
  <2>2. \A q \in Questions : pingDue'[q] = pingDue[q] \/ ~pingDue'[q]
    BY <1>1, <1>5
    DEF AnswerTask, PublishStart, AgentStep, AgentAsks, ReplyReceived, ReplyTimeout, AgentEnds,
        AgentFails, CloseManager, PublishFinal, PublishDone, SaveMemory, Ping, ExpireStream
  <2> QED
    BY <2>1, <2>2 DEF PingsBehindStart
<1> QED
  BY <1>2, <1>3, <1>4, <1>5

\* The server publishes the answer in order, and what it does for other
\* questions does not touch it.
LEMMA ServerAnswers ==
  ASSUME TypeOK, TypeOK', QuestionOrder, MaxDrop = 0, MaxLen >= MaxSteps + MaxFeedback + 3,
         AnswerBeingRead, PingsBehindStart,
         \/ Listener \/ Crash \/ Tick
         \/ \E q \in Questions : AnswerTask(q) \/ Ping(q) \/ ExpireStream(q)
  PROVE  AnswerBeingRead'
<1> USE DEF TaskFrame, brokerVars, serverVars, agentVars
<1>0. UNCHANGED <<pc, cur, batch, out>>
  BY ServerLeavesApi
<1> SUFFICES ASSUME pc \in Streaming PROVE AnswerBeingRead'
  BY <1>0 DEF AnswerBeingRead
<1>1. /\ stream \in [Questions -> Seq(Message)] /\ run \in [Questions -> Stages]
      /\ cur \in Questions /\ activations \in Seq(Questions)
      /\ steps \in [Questions -> 0..MaxSteps] /\ asked \in [Questions -> 0..MaxFeedback]
      /\ pingDue \in [Questions -> BOOLEAN] /\ drops \in [Questions -> 0..MaxDrop]
      /\ steps[cur] \in Nat /\ asked[cur] \in Nat
  <2>1. cur \in Questions
    BY Basics
  <2>2. steps[cur] \in 0..MaxSteps /\ asked[cur] \in 0..MaxFeedback
    BY <2>1 DEF TypeOK
  <2>3. steps[cur] \in Nat /\ asked[cur] \in Nat
    BY <2>2, BoundsAssumption
  <2>4. /\ steps \in [Questions -> 0..MaxSteps] /\ asked \in [Questions -> 0..MaxFeedback]
        /\ pingDue \in [Questions -> BOOLEAN] /\ drops \in [Questions -> 0..MaxDrop]
    BY DEF TypeOK
  <2> QED
    BY <2>1, <2>3, <2>4, Basics
<1>2. Answer(out[cur], Unhandled, stream[cur], run[cur], asked[cur], steps[cur] + asked[cur])
  BY DEF AnswerBeingRead
<1>3. UNCHANGED Unhandled
  BY <1>0 DEF Unhandled, AtRequest
\* a step that publishes nothing for the question being read
<1>4. ASSUME stream'[cur] = stream[cur], steps'[cur] = steps[cur], asked'[cur] = asked[cur],
             Advances(run[cur], run'[cur])
      PROVE  AnswerBeingRead'
  <2>1. stream[cur] \in Seq(Message) /\ Len(stream[cur]) \in Nat /\ steps[cur] + asked[cur] \in Nat
    BY <1>1
  <2> QED
    BY <1>0, <1>2, <1>3, <1>4, <2>1, AnswerAdvance DEF AnswerBeingRead
<1>5. ASSUME NEW q \in Questions, q # cur, NEW m \in Message, Publish(q, m)
      PROVE  stream'[cur] = stream[cur]
  BY <1>1, <1>5, PublishType
<1>6. CASE TakeActivation \/ Activate
  <2>1. CASE TakeActivation
    <3>1. activations # <<>> /\ run[Head(activations)] = "queued"
      BY <1>1, <2>1 DEF TakeActivation, QuestionOrder
    <3>2. run'[cur] = run[cur] \/ (run[cur] = "queued" /\ run'[cur] = "activating")
      BY <1>1, <2>1, <3>1 DEF TakeActivation, Stage
    <3> QED
      BY <1>4, <2>1, <3>2 DEF TakeActivation, Advances
  <2>2. CASE Activate
    <3>1. run'[cur] = run[cur] \/ (run[cur] = "activating" /\ run'[cur] = "start")
      BY <1>1, <2>2 DEF Activate, Stage
    <3> QED
      BY <1>4, <2>2, <3>1 DEF Activate, Advances
  <2> QED
    BY <1>6, <2>1, <2>2
<1>7. CASE ActivationError \/ ActivationErrorDone
  <2>0. listener \in Questions /\ UNCHANGED <<steps, asked>>
    BY <1>7 DEF ActivationError, ActivationErrorDone, TypeOK, Questions
  <2>1. Msg("final") \in Message /\ Msg("done") \in Message
    BY MsgType DEF MsgTypes
  <2>2. \/ /\ Publish(listener, Msg("final"))
           /\ run[listener] = "activating" /\ run'[listener] = "actfailed"
        \/ /\ Publish(listener, Msg("done"))
           /\ run[listener] = "actfailed" /\ run'[listener] = "ended"
    BY <1>1, <1>7, <2>0 DEF ActivationError, ActivationErrorDone, Stage
  <2>3. CASE listener # cur
    <3>1. run'[cur] = run[cur]
      BY <1>1, <1>7, <2>3 DEF ActivationError, ActivationErrorDone, Stage
    <3>2. stream'[cur] = stream[cur]
      BY <1>5, <2>0, <2>1, <2>2, <2>3
    <3> QED
      BY <1>4, <2>0, <3>1, <3>2 DEF Advances
  <2>4. CASE listener = cur
    <3>1. CASE Publish(cur, Msg("final")) /\ run[cur] = "activating" /\ run'[cur] = "actfailed"
      <4>1. Publishes(Msg("final"), run[cur], run'[cur], asked[cur], asked'[cur],
                      steps[cur] + asked[cur], steps'[cur] + asked'[cur])
        BY <2>0, <3>1 DEF Publishes, Msg
      <4>2. Msg("final").type # "ping"
        BY DEF Msg
      <4> QED
        BY <1>0, <2>1, <3>1, <4>1, <4>2, PublishAnswers
    <3>2. CASE Publish(cur, Msg("done")) /\ run[cur] = "actfailed" /\ run'[cur] = "ended"
      <4>1. Publishes(Msg("done"), run[cur], run'[cur], asked[cur], asked'[cur],
                      steps[cur] + asked[cur], steps'[cur] + asked'[cur])
        BY <2>0, <3>2 DEF Publishes, Msg
      <4>2. Msg("done").type # "ping"
        BY DEF Msg
      <4> QED
        BY <1>0, <2>1, <3>2, <4>1, <4>2, PublishAnswers
    <3> QED
      BY <2>2, <2>4, <3>1, <3>2
  <2> QED
    BY <2>3, <2>4
<1>8. ASSUME NEW q \in Questions,
             \/ PublishStart(q) \/ AgentStep(q) \/ AgentAsks(q) \/ Ping(q) \/ PublishFinal(q)
             \/ PublishDone(q)
      PROVE  AnswerBeingRead'
  <2>1. CASE q # cur
    <3>1. PICK m \in Message : Publish(q, m)
      BY <1>8, TaskPublishes
    <3>2. run'[cur] = run[cur] /\ steps'[cur] = steps[cur] /\ asked'[cur] = asked[cur]
      BY <1>1, <1>8, <2>1
      DEF PublishStart, AgentStep, AgentAsks, Ping, PublishFinal, PublishDone, Stage
    <3> QED
      BY <1>4, <1>5, <2>1, <3>1, <3>2 DEF Advances
  <2>2. CASE q = cur
    <3>1. CASE PublishStart(cur)
      <4>1. /\ Publish(cur, Msg("start")) /\ run[cur] = "start" /\ run'[cur] = "work"
            /\ UNCHANGED <<steps, asked>>
        BY <1>1, <3>1 DEF PublishStart, Stage
      <4>2. Msg("start") \in Message /\ Msg("start").type = "start" /\ Msg("start").k = 0
        BY MsgType DEF MsgTypes, Msg
      <4>3. Publishes(Msg("start"), run[cur], run'[cur], asked[cur], asked'[cur],
                      steps[cur] + asked[cur], steps'[cur] + asked'[cur])
        BY <4>1, <4>2 DEF Publishes
      <4> QED
        BY <1>0, <4>1, <4>2, <4>3, PublishAnswers
    <3>2. CASE AgentStep(cur)
      <4>1. PICK x \in StepKinds : Publish(cur, Msg(x))
        BY <3>2 DEF AgentStep
      <4>2. Msg(x) \in Message /\ Msg(x).type \in {"step", "oauth"} /\ Msg(x).k = 0
        BY MsgType, BoundsAssumption DEF MsgTypes, Msg
      <4>3. /\ steps'[cur] = steps[cur] + 1 /\ asked'[cur] = asked[cur] /\ run'[cur] = run[cur]
            /\ run[cur] \in {"work", "closing", "final", "done", "saving", "ended"}
        BY <1>1, <3>2 DEF AgentStep, Active
      <4>4. Publishes(Msg(x), run[cur], run'[cur], asked[cur], asked'[cur],
                      steps[cur] + asked[cur], steps'[cur] + asked'[cur])
        <5>1. steps'[cur] + asked'[cur] = steps[cur] + asked[cur] + 1
          BY <1>1, <4>3
        <5> QED
          BY <4>2, <4>3, <5>1 DEF Publishes
      <4> QED
        BY <1>0, <4>1, <4>2, <4>4, PublishAnswers
    <3>3. CASE AgentAsks(cur)
      <4>1. Publish(cur, Request(asked[cur] + 1))
        BY <3>3 DEF AgentAsks
      <4>2. /\ steps'[cur] = steps[cur] /\ asked'[cur] = asked[cur] + 1 /\ run'[cur] = run[cur]
            /\ run[cur] \in {"work", "closing", "final", "done", "saving", "ended"}
        BY <1>1, <3>3 DEF AgentAsks, Active
      <4>3. asked[cur] + 1 \in 1..MaxFeedback
        <5>1. asked[cur] \in 0..MaxFeedback /\ asked[cur] < MaxFeedback
          BY <1>1, <3>3 DEF AgentAsks
        <5> QED
          BY <5>1, BoundsAssumption
      <4>4. /\ Request(asked[cur] + 1) \in Message
            /\ Request(asked[cur] + 1).type = "request"
            /\ Request(asked[cur] + 1).k = asked[cur] + 1
        BY <4>3, MsgType DEF Request
      <4>5. Publishes(Request(asked[cur] + 1), run[cur], run'[cur], asked[cur], asked'[cur],
                      steps[cur] + asked[cur], steps'[cur] + asked'[cur])
        <5>1. steps'[cur] + asked'[cur] = steps[cur] + asked[cur] + 1
          BY <1>1, <4>2
        <5> QED
          BY <4>2, <4>4, <5>1 DEF Publishes
      <4> QED
        BY <1>0, <4>1, <4>4, <4>5, PublishAnswers
    <3>4. CASE Ping(cur)
      <4>1. /\ Publish(cur, Msg("ping")) /\ run[cur] \in Alive /\ pingDue[cur]
            /\ run' = run /\ UNCHANGED <<steps, asked>>
        BY <3>4 DEF Ping
      <4>2. run[cur] \in {"work", "closing"}
        BY <1>1, <4>1 DEF Alive, PingsBehindStart, Unstarted
      <4>3. Msg("ping") \in Message /\ Msg("ping").type = "ping" /\ Msg("ping").k = 0
        BY MsgType DEF MsgTypes, Msg
      <4>4. Publishes(Msg("ping"), run[cur], run'[cur], asked[cur], asked'[cur],
                      steps[cur] + asked[cur], steps'[cur] + asked'[cur])
        BY <4>1, <4>2, <4>3 DEF Publishes
      <4>5. out[cur] # <<>> \/ Unhandled # <<>>
        <5> SUFFICES ASSUME out[cur] = <<>>, Unhandled = <<>> PROVE FALSE
          OBVIOUS
        <5>1. batch = <<>>
          BY DEF PingsBehindStart, Unhandled
        <5>2. stream[cur] = <<>>
          BY <4>1, <5>1 DEF PingsBehindStart
        <5>3. run[cur] \in Unstarted \cup {"lost"}
          BY <1>2, <5>2 DEF Answer
        <5> QED
          BY <4>2, <5>3 DEF Unstarted
      <4> QED
        BY <1>0, <4>1, <4>3, <4>4, <4>5, PublishAnswers
    <3>5. CASE PublishFinal(cur)
      <4>1. /\ Publish(cur, Msg("final")) /\ run[cur] = "final" /\ run'[cur] = "done"
            /\ UNCHANGED <<steps, asked>>
        BY <1>1, <3>5 DEF PublishFinal, Stage
      <4>2. Msg("final") \in Message /\ Msg("final").type = "final" /\ Msg("final").k = 0
        BY MsgType DEF MsgTypes, Msg
      <4>3. Publishes(Msg("final"), run[cur], run'[cur], asked[cur], asked'[cur],
                      steps[cur] + asked[cur], steps'[cur] + asked'[cur])
        BY <4>1, <4>2 DEF Publishes
      <4> QED
        BY <1>0, <4>1, <4>2, <4>3, PublishAnswers
    <3>6. CASE PublishDone(cur)
      <4>1. /\ Publish(cur, Msg("done")) /\ run[cur] = "done" /\ run'[cur] = "saving"
            /\ UNCHANGED <<steps, asked>>
        BY <1>1, <3>6 DEF PublishDone, Stage
      <4>2. Msg("done") \in Message /\ Msg("done").type = "done" /\ Msg("done").k = 0
        BY MsgType DEF MsgTypes, Msg
      <4>3. Publishes(Msg("done"), run[cur], run'[cur], asked[cur], asked'[cur],
                      steps[cur] + asked[cur], steps'[cur] + asked'[cur])
        BY <4>1, <4>2 DEF Publishes
      <4> QED
        BY <1>0, <4>1, <4>2, <4>3, PublishAnswers
    <3> QED
      BY <1>8, <2>2, <3>1, <3>2, <3>3, <3>4, <3>5, <3>6
  <2> QED
    BY <2>1, <2>2
<1>9. ASSUME NEW q \in Questions,
             \/ ReplyReceived(q) \/ ReplyTimeout(q) \/ AgentEnds(q) \/ AgentFails(q)
             \/ CloseManager(q) \/ SaveMemory(q)
      PROVE  AnswerBeingRead'
  <2>1. UNCHANGED <<stream, steps, asked>>
    BY <1>9
    DEF ReplyReceived, ReplyTimeout, AgentEnds, AgentFails, CloseManager, SaveMemory
  <2>2. Advances(run[cur], run'[cur])
    BY <1>1, <1>9
    DEF ReplyReceived, ReplyTimeout, AgentEnds, AgentFails, CloseManager, SaveMemory, Stage,
        Advances
  <2> QED
    BY <1>4, <2>1, <2>2
<1>10. ASSUME NEW q \in Questions, ExpireStream(q) PROVE AnswerBeingRead'
  <2>1. UNCHANGED <<run, steps, asked>>
    BY <1>10 DEF ExpireStream
  <2>2. CASE q # cur
    <3>1. stream'[cur] = stream[cur]
      BY <1>1, <1>10, <2>2 DEF ExpireStream
    <3> QED
      BY <1>4, <2>1, <3>1 DEF Advances
  <2>3. CASE q = cur
    <3>1. pc = "waitfb" /\ run[cur] \in Finished /\ stream'[cur] = <<>>
      BY <1>1, <1>10, <2>3 DEF ExpireStream, Finished
    <3>2. out[cur] # <<>>
      BY <3>1 DEF PingsBehindStart, AtRequest
    <3> QED
      BY <1>0, <1>2, <1>3, <2>1, <3>1, <3>2, AnswerExpire DEF AnswerBeingRead
  <2> QED
    BY <2>2, <2>3
<1>11. CASE Crash \/ Tick
  <2>1. UNCHANGED <<stream, steps, asked>>
    BY <1>11 DEF Crash, Tick
  <2>2. Advances(run[cur], run'[cur])
    BY <1>1, <1>11 DEF Crash, Tick, Advances
  <2> QED
    BY <1>4, <2>1, <2>2
<1> QED
  BY <1>6, <1>7, <1>8, <1>9, <1>10, <1>11 DEF Listener, AnswerTask

\* Nothing is published for a question whose task died with the server.
LEMMA LostIsQuiet ==
  ASSUME TypeOK, QuestionOrder, NEW p \in Questions, run[p] = "lost", stream[p] = <<>>,
         \/ Listener \/ Crash \/ Tick
         \/ \E q \in Questions : AnswerTask(q) \/ Ping(q) \/ ExpireStream(q)
  PROVE  stream'[p] = <<>>
<1> USE DEF TaskFrame, brokerVars
<1>1. stream \in [Questions -> Seq(Message)]
  BY DEF TypeOK
<1>2. ASSUME NEW q \in Questions, q # p, NEW m \in Message, Publish(q, m)
      PROVE  stream'[p] = <<>>
  BY <1>2, PublishType
<1>3. CASE Listener
  <2>1. CASE TakeActivation \/ Activate
    BY <2>1 DEF TakeActivation, Activate
  <2>2. CASE ActivationError \/ ActivationErrorDone
    <3>1. listener \in Questions /\ listener # p
      BY <2>2 DEF ActivationError, ActivationErrorDone, TypeOK, Questions
    <3>2. \E m \in Message : Publish(listener, m)
      BY <2>2, MsgType DEF ActivationError, ActivationErrorDone, MsgTypes
    <3> QED
      BY <1>2, <3>1, <3>2
  <2> QED
    BY <1>3, <2>1, <2>2 DEF Listener
<1>4. ASSUME NEW q \in Questions,
             \/ PublishStart(q) \/ AgentStep(q) \/ AgentAsks(q)
             \/ PublishFinal(q) \/ PublishDone(q) \/ Ping(q)
      PROVE  stream'[p] = <<>>
  <2>1. q # p
    BY <1>4
    DEF PublishStart, AgentStep, AgentAsks, PublishFinal, PublishDone, Ping, Active, Alive
  <2>2. PICK m \in Message : Publish(q, m)
    BY <1>4, TaskPublishes
  <2> QED
    BY <1>2, <2>1, <2>2
<1>5. ASSUME NEW q \in Questions,
             \/ ReplyReceived(q) \/ ReplyTimeout(q) \/ AgentEnds(q) \/ AgentFails(q)
             \/ CloseManager(q) \/ SaveMemory(q)
      PROVE  stream'[p] = <<>>
  BY <1>5 DEF ReplyReceived, ReplyTimeout, AgentEnds, AgentFails, CloseManager, SaveMemory
<1>6. CASE Crash \/ Tick \/ \E q \in Questions : ExpireStream(q)
  BY <1>1, <1>6 DEF Crash, Tick, ExpireStream
<1> QED
  BY <1>3, <1>4, <1>5, <1>6 DEF AnswerTask

\* A stream that has a message behind START has no ping due that was not read.
LEMMA ServerPingsBehindStart ==
  ASSUME TypeOK, TypeOK', QuestionOrder, AnswerBeingRead, PingsBehindStart,
         \/ Listener \/ Crash \/ Tick
         \/ \E q \in Questions : AnswerTask(q) \/ Ping(q) \/ ExpireStream(q)
  PROVE  PingsBehindStart'
<1>0. UNCHANGED <<pc, cur, batch, out>>
  BY ServerLeavesApi
<1>1. AtRequest' => out'[cur'] # <<>>
  BY <1>0 DEF PingsBehindStart, AtRequest
<1>2. ASSUME pc \in Streaming, out[cur] = <<>>, batch = <<>>, stream'[cur] # <<>>
      PROVE  ~pingDue'[cur]
  <2>1. cur \in Questions
    BY <1>2, Basics
  <2>2. CASE Tick
    <3>1. stream' = stream /\ (pc = "read" => stream[cur] = <<>>)
      BY <2>2 DEF Tick, brokerVars
    <3>2. pc \in {"publish", "read"}
      BY <1>2 DEF TypeOK, Streaming
    <3>3. pc = "publish" => stream[cur] = <<>>
      BY <2>1 DEF QuestionOrder, Fresh
    <3> QED
      BY <1>2, <3>1, <3>2, <3>3
  <2>3. CASE ~Tick
    <3>1. pingDue'[cur] => pingDue[cur]
      BY <2>1, <2>3, ServerPings
    <3>2. CASE stream[cur] # <<>>
      BY <1>2, <3>1, <3>2 DEF PingsBehindStart
    <3>3. CASE stream[cur] = <<>>
      <4>1. Answer(out[cur], <<>>, stream[cur], run[cur], asked[cur], steps[cur] + asked[cur])
        BY <1>2 DEF AnswerBeingRead, Unhandled, AtRequest, TypeOK
      <4>2. run[cur] \in Unstarted \cup {"lost"}
        BY <1>2, <3>3, <4>1 DEF Answer
      <4>3. run[cur] # "lost"
        BY <1>2, <2>1, <2>3, <3>3, LostIsQuiet
      <4> QED
        BY <2>1, <3>1, <4>2, <4>3 DEF PingsBehindStart
    <3> QED
      BY <3>2, <3>3
  <2> QED
    BY <2>2, <2>3
<1> QED
  BY <1>0, <1>1, <1>2, ServerPings DEF PingsBehindStart

\* Only the last question served may have been answered in part: the handler
\* goes on to the next one behind DONE or an ERROR of its own, or when the
\* receiver has stopped and there is none.
OneAtATime ==
  \A p \in Questions : Client_AnswerStream!Begun(p) =>
     /\ p = cur
     /\ pc \in Streaming \/ pc = "closed" \/ (rcv = "stopped" /\ queue = <<>>)

\* What the handler yields is sent in the order of the questions.
LEMMA EmitSends ==
  ASSUME TypeOK, QuestionOrder, OneAtATime, cur \in Questions, NEW t, NEW k, Emit(t, k)
  PROVE  Client_AnswerStream!Send(cur, [type |-> t, k |-> k])
<1>1. cur \in Nat /\ \A p \in Questions : p \in Nat
  BY BoundsAssumption DEF Questions
<1>2. \A p \in Questions : p < cur => ~Client_AnswerStream!Begun(p)
  BY <1>1 DEF OneAtATime
<1>3. \A p \in Questions : p > cur => out[p] = <<>>
  BY DEF QuestionOrder, Fresh
<1>4. out' = [out EXCEPT ![cur] = Append(@, [type |-> t, k |-> k])]
  BY DEF Emit
<1> QED
  BY <1>2, <1>3, <1>4 DEF Client_AnswerStream!Send

\* The stream of a question that is being served is not over.
LEMMA NotOver ==
  ASSUME TypeOK, AnswerBeingRead, pc \in Streaming
  PROVE  ~Client_AnswerStream!Over(cur)
BY DEF AnswerBeingRead, Answer, Client_AnswerStream!Over, Client_AnswerStream!LastType

\* The handler sends what an answer stream may go on with, or nothing.
LEMMA HandlerSends ==
  ASSUME TypeOK, QuestionOrder, OneAtATime, AnswerBeingRead, Handler
  PROVE  UNCHANGED out \/ Client_AnswerStream!Next
<1>0. /\ pc \in Streaming => cur \in Questions
      /\ out \in [Questions -> Seq(Output)] /\ batch \in Seq(Message)
  BY Basics
<1>1. ASSUME pc \in Streaming, Emit("apierror", 0) PROVE Client_AnswerStream!Next
  BY <1>0, <1>1, EmitSends, NotOver DEF Client_AnswerStream!Next, Client_AnswerStream!Fail
<1>2. CASE ValidateConnection \/ ReceiveQuestion \/ WakeWithQuestion \/ ReadStream
  BY <1>2 DEF ValidateConnection, ReceiveQuestion, WakeWithQuestion, ReadStream
<1>3. CASE PublishActivation \/ AgentTimeout \/ ReadFails
  <2>1. pc \in Streaming /\ (UNCHANGED out \/ Emit("apierror", 0))
    BY <1>3 DEF PublishActivation, AgentTimeout, ReadFails, CanTimeOut, Streaming
  <2> QED
    BY <1>1, <2>1
<1>4. CASE ReceiveFeedback \/ WakeWithFeedback
  <2>1. pc \in Streaming /\ (UNCHANGED out \/ Emit("apierror", 0))
    BY <1>4 DEF ReceiveFeedback, WakeWithFeedback, TakeFeedback, Streaming
  <2> QED
    BY <1>1, <2>1
<1>5. CASE HandleMessage
  <2> DEFINE m == Head(batch)
  <2>1. cur \in Questions /\ pc \in Streaming /\ batch # <<>> /\ ~AtRequest
    BY <1>0, <1>5 DEF HandleMessage, TypeOK, Streaming, AtRequest
  <2>2. /\ out[cur] \in Seq(Output) /\ Len(out[cur]) \in Nat /\ DOMAIN out[cur] = 1..Len(out[cur])
        /\ m = batch[1] /\ 1 \in 1..Len(batch) /\ \A i \in 1..Len(batch) : i = 1 \/ 1 < i
        /\ m \in Message
    BY <1>0, <2>1, EmptySeq, BatchHead
  <2>3. Answer(out[cur], batch, stream[cur], run[cur], asked[cur], steps[cur] + asked[cur])
    BY <2>1 DEF AnswerBeingRead, Unhandled
  <2>4. ~Client_AnswerStream!Over(cur)
    BY <2>1, NotOver
  <2>5. /\ \A i \in 1..Len(out[cur]) : MayFollow(out[cur][i], m)
        /\ \A i \in 1..Len(batch) : i # 1 => MayFollow(m, batch[i])
        /\ \A i \in 1..Len(stream[cur]) : MayFollow(m, stream[cur][i])
    BY <2>2, <2>3 DEF Answer, InOrder, Before, Sorted
  <2>6. m.type \notin {"start", "final"} => out[cur] # <<>>
    BY <2>1, <2>2, <2>3 DEF Answer
  <2>7. CASE m.type = "start" /\ Emit("start", 0)
    <3>1. out[cur] = <<>>
      <4>1. Len(out[cur]) = 0
        BY <2>2, <2>5, <2>7 DEF MayFollow
      <4> QED
        BY <2>2, <4>1, EmptySeq
    <3> QED
      BY <2>1, <2>7, <3>1, EmitSends DEF Client_AnswerStream!Next, Client_AnswerStream!Start
  <2>8. CASE m.type = "final" /\ Emit("final", 0)
    <3>1. ~Client_AnswerStream!Answered(cur)
      BY <2>2, <2>5, <2>8 DEF MayFollow, Client_AnswerStream!Answered
    <3> QED
      BY <2>1, <2>4, <2>8, <3>1, EmitSends
      DEF Client_AnswerStream!Next, Client_AnswerStream!Final
  <2>9. CASE m.type \in {"step", "oauth"} /\ Emit(m.type, 0)
    <3>1. Client_AnswerStream!Begun(cur)
      BY <2>4, <2>6, <2>9 DEF Client_AnswerStream!Begun
    <3>2. Client_AnswerStream!Send(cur, [type |-> m.type, k |-> 0])
      BY <2>1, <2>9, EmitSends
    <3> QED
      BY <2>1, <2>9, <3>1, <3>2 DEF Client_AnswerStream!Next, Client_AnswerStream!Progress
  <2>10. CASE m.type = "request" /\ Emit("request", m.k)
    <3>1. Client_AnswerStream!Begun(cur)
      BY <2>4, <2>6, <2>10 DEF Client_AnswerStream!Begun
    <3>2. Client_AnswerStream!Send(cur, [type |-> "request", k |-> m.k])
      BY <2>1, <2>10, EmitSends
    <3>3. m.k \in 1..MaxFeedback
      <4>1. m.k > 0 /\ m.k \in 0..MaxFeedback
        BY <2>2, <2>3, <2>10 DEF Answer, NumberedUpTo, Message
      <4> QED
        BY <4>1, BoundsAssumption
    <3>4. \A i \in DOMAIN out[cur] : out[cur][i].k < m.k
      BY <2>2, <2>5, <2>10 DEF MayFollow
    <3> QED
      BY <2>1, <3>1, <3>2, <3>3, <3>4 DEF Client_AnswerStream!Next, Client_AnswerStream!Progress
  <2>11. CASE m.type = "done" /\ Emit("done", 0)
    <3>1. Anywhere(out[cur], batch, stream[cur], "final")
      BY <2>2, <2>3, <2>11 DEF Answer, Anywhere, Has
    <3>2. ~Has(batch, "final") /\ ~Has(stream[cur], "final")
      BY <2>2, <2>5, <2>11 DEF MayFollow, Has
    <3>3. Client_AnswerStream!Answered(cur)
      BY <2>2, <3>1, <3>2 DEF Anywhere, Has, Client_AnswerStream!Answered
    <3> QED
      BY <2>1, <2>4, <2>11, <3>3, EmitSends
      DEF Client_AnswerStream!Next, Client_AnswerStream!Done
  <2>12. \/ UNCHANGED out \/ Emit("apierror", 0)
         \/ m.type = "start" /\ Emit("start", 0)
         \/ m.type = "final" /\ Emit("final", 0)
         \/ m.type \in {"step", "oauth"} /\ Emit(m.type, 0)
         \/ m.type = "request" /\ Emit("request", m.k)
         \/ m.type = "done" /\ Emit("done", 0)
    BY <1>5 DEF HandleMessage, Unsupported
  <2> HIDE DEF m
  <2> QED
    BY <1>1, <2>1, <2>7, <2>8, <2>9, <2>10, <2>11, <2>12
<1> QED
  BY <1>2, <1>3, <1>4, <1>5 DEF Handler

\* The handler takes the next question only behind the end of the last answer.
LEMMA HandlerOneAtATime ==
  ASSUME TypeOK, TypeOK', QuestionOrder, OneAtATime, MaxDrop = 0, Handler
  PROVE  OneAtATime'
<1> USE DEF clientVars, brokerVars, serverVars, agentVars, receiverVars
<1>0. /\ pc \in Streaming => cur \in Questions
      /\ out \in [Questions -> Seq(Output)] /\ out' \in [Questions -> Seq(Output)]
  BY Basics DEF TypeOK
<1> DEFINE Same(p) == out'[p] = out[p] => (Client_AnswerStream!Begun(p)' <=> Client_AnswerStream!Begun(p))
<1>1. \A p \in Questions : Same(p)
  BY DEF Client_AnswerStream!Begun, Client_AnswerStream!Over, Client_AnswerStream!LastType
<1>2. ASSUME NEW t \in {"done", "apierror"}, NEW k, Emit(t, k), cur \in Questions, cur' = cur
      PROVE  ~Client_AnswerStream!Begun(cur)'
  <2>1. out'[cur] = Append(out[cur], [type |-> t, k |-> k]) /\ out[cur] \in Seq(Output)
    BY <1>0, <1>2 DEF Emit
  <2>2. out'[cur][Len(out'[cur])].type = t /\ out'[cur] # <<>>
    BY <2>1, AppendProperties
  <2> QED
    BY <1>2, <2>2
    DEF Client_AnswerStream!Begun, Client_AnswerStream!Over, Client_AnswerStream!LastType
\* before a question is taken
<1>3. CASE pc \notin Streaming
  <2>1. UNCHANGED out
    BY <1>3 DEF Handler, ValidateConnection, ReceiveQuestion, WakeWithQuestion, PublishActivation,
         ReadStream, AgentTimeout, ReadFails, CanTimeOut, HandleMessage, ReceiveFeedback,
         WakeWithFeedback, Streaming
  <2>2. ASSUME NEW p \in Questions, Client_AnswerStream!Begun(p)
        PROVE  /\ p = cur'
               /\ pc' \in Streaming \/ pc' = "closed" \/ (rcv' = "stopped" /\ queue' = <<>>)
    <3>1. p = cur /\ (pc = "closed" \/ (rcv = "stopped" /\ queue = <<>>))
      BY <1>3, <2>2 DEF OneAtATime
    <3>2. pc # "closed"
      BY DEF Handler, ValidateConnection, ReceiveQuestion, WakeWithQuestion, PublishActivation,
         ReadStream, AgentTimeout, ReadFails, CanTimeOut, HandleMessage, ReceiveFeedback,
         WakeWithFeedback
    <3>3. CASE ValidateConnection
      BY <3>1, <3>2, <3>3 DEF ValidateConnection, Close
    <3>4. CASE ReceiveQuestion
      BY <3>1, <3>2, <3>4 DEF ReceiveQuestion
    <3>5. CASE ~ValidateConnection /\ ~ReceiveQuestion
      BY <1>3, <3>1, <3>2, <3>5
      DEF Handler, WakeWithQuestion, PublishActivation, ReadStream, AgentTimeout, ReadFails,
          CanTimeOut, HandleMessage, ReceiveFeedback, WakeWithFeedback, Streaming
    <3> QED
      BY <3>3, <3>4, <3>5
  <2> QED
    BY <1>1, <2>1, <2>2 DEF OneAtATime
<1>4. CASE pc \in Streaming
  <2>1. cur' = cur /\ cur \in Questions
    BY <1>0, <1>4 DEF Handler, ValidateConnection, ReceiveQuestion, WakeWithQuestion,
         PublishActivation, ReadStream, AgentTimeout, ReadFails, HandleMessage, ReceiveFeedback,
         WakeWithFeedback, Streaming
  <2>2. \A p \in Questions : p # cur => out'[p] = out[p]
    <3>1. UNCHANGED out \/ \E t, k : Emit(t, k)
      BY <1>4 DEF Handler, ValidateConnection, ReceiveQuestion, WakeWithQuestion,
         PublishActivation, ReadStream, AgentTimeout, ReadFails, HandleMessage, Unsupported,
         ReceiveFeedback, WakeWithFeedback, TakeFeedback
    <3> QED
      BY <3>1, EmitOthers
  <2>3. \/ pc' \in Streaming \/ pc' = "closed" \/ (rcv' = "stopped" /\ queue' = <<>>)
        \/ \E t \in {"done", "apierror"} : Emit(t, 0)
    <3>1. CASE ValidateConnection \/ ReceiveQuestion \/ WakeWithQuestion
      BY <1>4, <3>1 DEF ValidateConnection, ReceiveQuestion, WakeWithQuestion, Streaming
    <3>2. CASE PublishActivation
      BY <3>2 DEF PublishActivation, Close, Streaming
    <3>3. CASE ReadStream \/ AgentTimeout \/ ReadFails
      BY <3>3 DEF ReadStream, AgentTimeout, ReadFails, Streaming
    <3>4. CASE HandleMessage
      BY <3>4 DEF HandleMessage, NextMessage, Unsupported, Streaming
    <3>5. CASE ReceiveFeedback \/ WakeWithFeedback
      <4>1. CASE queue = <<>>
        BY <3>5, <4>1 DEF ReceiveFeedback, WakeWithFeedback, Streaming
      <4>2. CASE queue # <<>>
        <5>1. TakeFeedback(Head(queue)) /\ queue' = <<>>
          BY <3>5, <4>2 DEF ReceiveFeedback, WakeWithFeedback
        <5>2. CASE Head(queue).kind = "shutdown"
          <6>1. rcv = "stopped"
            BY <4>2, <5>2 DEF QuestionOrder, Queued
          <6> QED
            BY <5>1, <5>2, <6>1 DEF TakeFeedback, AbandonStream
        <5>3. CASE Head(queue).kind # "shutdown"
          BY <5>1, <5>3 DEF TakeFeedback, NextMessage, Streaming
        <5> QED
          BY <5>2, <5>3
      <4> QED
        BY <4>1, <4>2
    <3> QED
      BY <3>1, <3>2, <3>3, <3>4, <3>5 DEF Handler
  <2>4. ASSUME NEW p \in Questions, Client_AnswerStream!Begun(p)' PROVE p = cur
    BY <1>1, <2>2, <2>4 DEF OneAtATime
  <2>5. Client_AnswerStream!Begun(cur)' =>
          pc' \in Streaming \/ pc' = "closed" \/ (rcv' = "stopped" /\ queue' = <<>>)
    BY <1>2, <2>1, <2>3
  <2> QED
    BY <2>1, <2>4, <2>5 DEF OneAtATime
<1> QED
  BY <1>3, <1>4

\* Nobody else sends to the client or takes a question.
LEMMA OthersOneAtATime ==
  ASSUME OneAtATime, UNCHANGED <<pc, cur, out>>,
         rcv = "stopped" /\ queue = <<>> => rcv' = "stopped" /\ queue' = <<>>
  PROVE  OneAtATime'
BY DEF OneAtATime, Client_AnswerStream!Begun, Client_AnswerStream!Over,
       Client_AnswerStream!LastType

\* What the client receives is an answer stream, if no publication fails and
\* the streams keep what the agents and answer() may publish while the API
\* waits for the user (broker/redis.py keeps 100 entries).
THEOREM ClientSeesAnswerStream ==
  MaxDrop = 0 /\ MaxLen >= MaxSteps + MaxFeedback + 3 => (Spec => ImplementsAnswerStream)
<1> SUFFICES ASSUME MaxDrop = 0, MaxLen >= MaxSteps + MaxFeedback + 3
             PROVE  Spec => ImplementsAnswerStream
  OBVIOUS
<1> DEFINE Inv == AnswerBeingRead /\ PingsBehindStart /\ OneAtATime
<1>1. Init => Inv /\ Client_AnswerStream!Init
  <2> SUFFICES ASSUME Init PROVE Inv /\ Client_AnswerStream!Init
    OBVIOUS
  <2>1. /\ out = [q \in Questions |-> <<>>] /\ ~AtRequest /\ Unhandled = <<>>
        /\ \A q \in Questions : out[q] = <<>> /\ stream[q] = <<>> /\ run[q] = "none" /\ ~pingDue[q]
    BY DEF Init, AtRequest, Unhandled, Http
  <2>2. pc \in Streaming => cur \in Questions
    BY BoundsAssumption DEF Init, Streaming, Http, Questions
  <2>3. AnswerBeingRead
    BY <2>1, <2>2, AnswerEmpty DEF AnswerBeingRead, Unstarted
  <2>4. PingsBehindStart
    BY <2>1, <2>2 DEF PingsBehindStart
  <2>5. OneAtATime
    BY <2>1 DEF OneAtATime, Client_AnswerStream!Begun
  <2> QED
    BY <2>1, <2>3, <2>4, <2>5 DEF Client_AnswerStream!Init
<1>2. TypeOK /\ TypeOK' /\ QuestionOrder /\ QuestionOrder' /\ Inv /\ [Next]_vars =>
        Inv' /\ [Client_AnswerStream!Next]_out
  <2> SUFFICES ASSUME TypeOK, TypeOK', QuestionOrder, QuestionOrder', Inv, [Next]_vars
               PROVE  Inv' /\ [Client_AnswerStream!Next]_out
    OBVIOUS
  <2>1. CASE UNCHANGED vars \/ Client \/ PutShutdown
    <3>1. UNCHANGED <<handlerVars, brokerVars, serverVars>>
      BY <2>1, ClientLeavesAnswers DEF vars
    <3>2. rcv = "stopped" /\ queue = <<>> => rcv' = "stopped" /\ queue' = <<>>
      BY <2>1 DEF vars, receiverVars, Client, SendQuestion, SendFeedback, Accept, Disconnect,
         PutShutdown
    <3>3. AnswerBeingRead' /\ PingsBehindStart'
      BY <3>1 DEF handlerVars, brokerVars, serverVars, agentVars, AnswerBeingRead,
         PingsBehindStart, Unhandled, AtRequest
    <3> QED
      BY <3>1, <3>2, <3>3, OthersOneAtATime DEF handlerVars
  <2>2. CASE Handler
    BY <2>2, HandlerAnswers, HandlerOneAtATime, HandlerSends
  <2>3. CASE \/ Listener \/ Crash \/ Tick
             \/ \E q \in Questions : AnswerTask(q) \/ Ping(q) \/ ExpireStream(q)
    <3>1. UNCHANGED <<receiverVars, pc, cur, out>>
      BY <2>3, ServerLeavesApi
    <3>2. AnswerBeingRead'
      BY <2>3, ServerAnswers
    <3>3. PingsBehindStart'
      BY <2>3, ServerPingsBehindStart
    <3> QED
      BY <3>1, <3>2, <3>3, OthersOneAtATime DEF receiverVars
  <2> QED
    BY <2>1, <2>2, <2>3 DEF Next
<1> QED
  BY TypeCorrect, InitOrder, OrderKept, <1>1, <1>2, PTL
  DEF Spec, ImplementsAnswerStream, Client_AnswerStream!Spec
=============================================================================
