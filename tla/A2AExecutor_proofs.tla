-------------------------- MODULE A2AExecutor_proofs --------------------------
(***************************************************************************)
(* Proofs about one A2A task: the consumers of its answer stream take      *)
(* turns, a reply of the client reaches the request it was made to, and a  *)
(* request that is recorded is waited for.                                 *)
(***************************************************************************)
EXTENDS A2AExecutor, FiniteSetTheorems, SequenceTheorems, TLAPS

\* A request is saved or made only within the bound on the requests.
Saves == \A c \in Consumers : consumer[c] \in {"saving", "asking"} => c < MaxRounds

TypesHold == TypeOK /\ Saves

\* The rounds of a task in numbers.
LEMMA RoundsAreConsumers ==
  /\ MaxRounds \in Nat /\ MaxMessages \in Nat /\ MaxFailures \in Nat
  /\ 0 \in Consumers /\ Rounds \subseteq Consumers
  /\ \A c \in Consumers : c \in Nat /\ (c # 0 => c \in Rounds)
  /\ \A c \in Consumers : c < MaxRounds => NextRound(c) \in Rounds /\ NextRound(c) > c
  /\ \A k \in Rounds : k > 0
<1>1. MaxRounds \in Nat /\ MaxMessages \in Nat /\ MaxFailures \in Nat
  BY A2ABounds
<1>2. \A c \in Consumers : c < MaxRounds => NextRound(c) \in Rounds /\ NextRound(c) > c
  BY <1>1 DEF Rounds, Consumers, NextRound
<1> QED
  BY <1>1, <1>2 DEF Rounds, Consumers

\* Initially nothing is recorded anywhere.
LEMMA InitTypes == Init => TypesHold
<1> SUFFICES ASSUME Init PROVE TypesHold
  OBVIOUS
<1>1. replies \in Seq(Messages) /\ relay \in [Messages -> Seq(Report)]
  BY EmptySeq DEF Init
<1>2. forward \in [Messages -> [k : 0..MaxRounds, at : ForwardStates]]
  BY RoundsAreConsumers DEF Init, ForwardStates
<1>3. /\ consumer \in [Consumers -> ConsumerStates] /\ takes \in [Consumers -> 0..MaxMessages]
      /\ \A c \in Consumers : consumer[c] = "off"
  BY RoundsAreConsumers DEF Init, ConsumerStates
<1>4. /\ asked \subseteq Rounds /\ told \in BOOLEAN /\ owner \in Instances
      /\ active \in BOOLEAN /\ listening \in BOOLEAN /\ cancelled \in BOOLEAN
      /\ ownerRec \in Instances \cup {"none"} /\ cancelMail \in BOOLEAN
  BY DEF Init
<1>5. /\ pending \in 0..MaxRounds /\ waiter \in 0..MaxRounds /\ waiter = 0
      /\ failures \in 0..MaxFailures /\ record \in 0..MaxRounds
  BY RoundsAreConsumers DEF Init
<1>6. cancel \in [by : Instances \cup {"none"}, at : {"off", "local", "remote", "told"}]
  BY DEF Init
<1>7. \A k \in Rounds : consumer[k] = "off"
  BY <1>3, RoundsAreConsumers
<1> QED
  BY <1>1, <1>2, <1>3, <1>4, <1>5, <1>6, <1>7 DEF TypesHold, TypeOK, Saves

\* What a consumer reports is a report to its client or on its relay topic.
LEMMA TellType ==
  ASSUME TypeOK, NEW c \in Consumers, NEW r \in Report, Tell(c, r)
  PROVE  /\ asked' \subseteq Rounds /\ told' \in BOOLEAN /\ cancel' = cancel
         /\ relay' \in [Messages -> Seq(Report)]
         /\ \A k \in asked' : k \in asked \/ (c = 0 /\ r = Request(k))
         /\ c # 0 => asked' = asked
         /\ \A m \in Messages : relay'[m] = relay[m]
                                \/ (m = takes[c] /\ c # 0 /\ relay'[m] = Append(relay[m], r))
<1>1. asked \subseteq Rounds /\ relay \in [Messages -> Seq(Report)] /\ told \in BOOLEAN
  BY DEF TypeOK
<1>2. r.type = "request" => r.k \in Rounds /\ r = Request(r.k)
  BY DEF Report, Request, Done, Failed
<1>3. CASE c = 0
  BY <1>1, <1>2, <1>3 DEF Tell
<1>4. CASE c # 0
  <2>1. relay' = [relay EXCEPT ![takes[c]] = Append(@, r)] /\ UNCHANGED <<asked, told, cancel>>
    BY <1>4 DEF Tell, clientVars
  <2>2. \A m \in Messages : Append(relay[m], r) \in Seq(Report)
    BY <1>1, AppendProperties
  <2>3. relay' \in [Messages -> Seq(Report)]
    BY <1>1, <2>1, <2>2
  <2>4. \A m \in Messages :
           relay'[m] = relay[m] \/ (m = takes[c] /\ relay'[m] = Append(relay[m], r))
    BY <1>1, <2>1
  <2> QED
    BY <1>1, <1>4, <2>1, <2>3, <2>4
<1> QED
  BY <1>3, <1>4

\* The consumers and the waiter, as far as their states and what they have
\* taken go together.
WaiterStates ==
  /\ consumer \in [Consumers -> ConsumerStates]
  /\ waiter # 0 => consumer[waiter] \notin {"off", "ended"}
  /\ \A k \in Rounds :
       consumer[k] \in {"consuming", "saving", "asking", "finishing"} => takes[k] # 0
  /\ Saves

\* A consumer goes on to a next stage, or leaves.
LEMMA ConsumerMoves ==
  ASSUME TypesHold, NEW c \in Consumers, NEW s \in ConsumerStates, Become(c, s),
         \/ waiter' = waiter /\ s \notin {"off", "ended"}
         \/ Leave(c),
         s \in {"consuming", "saving", "asking", "finishing"} =>
            c = 0 \/ consumer[c] \in {"consuming", "saving", "asking", "finishing"},
         s \in {"saving", "asking"} => c < MaxRounds,
         UNCHANGED takes
  PROVE  /\ WaiterStates' /\ waiter' \in 0..MaxRounds
         /\ consumer'[c] = s /\ \A d \in Consumers \ {c} : consumer'[d] = consumer[d]
<1>1. /\ consumer \in [Consumers -> ConsumerStates] /\ waiter \in 0..MaxRounds
      /\ waiter # 0 => consumer[waiter] \notin {"off", "ended"}
  BY DEF TypesHold, TypeOK
<1>2. /\ consumer' \in [Consumers -> ConsumerStates]
      /\ consumer'[c] = s /\ \A d \in Consumers \ {c} : consumer'[d] = consumer[d]
  BY <1>1 DEF Become
<1>3. /\ waiter' \in 0..MaxRounds
      /\ waiter' # 0 => consumer'[waiter'] \notin {"off", "ended"}
  <2>1. waiter \in Consumers
    BY <1>1 DEF Consumers
  <2>2. 0 \in 0..MaxRounds
    BY RoundsAreConsumers
  <2>3. waiter' = waiter \/ waiter' = 0
    BY DEF Leave
  <2>4. ASSUME waiter' # 0 PROVE consumer'[waiter'] \notin {"off", "ended"}
    <3>1. waiter' = waiter /\ (waiter = c => s \notin {"off", "ended"})
      BY <2>4 DEF Leave
    <3> QED
      BY <1>1, <1>2, <2>1, <2>4, <3>1
  <2> QED
    BY <1>1, <2>2, <2>3, <2>4
<1>4. \A k \in Rounds :
         consumer'[k] \in {"consuming", "saving", "asking", "finishing"} => takes'[k] # 0
  BY <1>2, RoundsAreConsumers DEF TypesHold, TypeOK
<1>5. Saves'
  BY <1>2 DEF TypesHold, Saves
<1> QED
  BY <1>2, <1>3, <1>4, <1>5 DEF WaiterStates

\* Consuming the answer stream keeps the types.
LEMMA ConsumeTypes ==
  ASSUME TypesHold, NEW c \in Consumers, Consume(c)
  PROVE  TypesHold'
<1> USE DEF clientVars, redisVars
<1>1. CASE StopCancelled(c)
  <2>1. WaiterStates' /\ waiter' \in 0..MaxRounds
    BY <1>1, ConsumerMoves DEF StopCancelled, ConsumerStates
  <2> QED
    BY <1>1, <2>1 DEF StopCancelled, FinishOwnedTask, Leave, TypesHold, TypeOK, WaiterStates
<1>2. CASE ConsumeError(c)
  <2>1. WaiterStates' /\ waiter' \in 0..MaxRounds
    BY <1>2, ConsumerMoves DEF ConsumeError, ConsumerStates
  <2>2. /\ asked' \subseteq Rounds /\ told' \in BOOLEAN /\ cancel' = cancel
        /\ relay' \in [Messages -> Seq(Report)]
    BY <1>2, TellType DEF ConsumeError, Report, TypesHold, TypeOK
  <2>3. record' \in 0..MaxRounds /\ pending' \in 0..MaxRounds
    BY <1>2, RoundsAreConsumers DEF ConsumeError, TypesHold, TypeOK
  <2> QED
    BY <1>2, <2>1, <2>2, <2>3
    DEF ConsumeError, FinishOwnedTask, Leave, TypesHold, TypeOK, WaiterStates
<1>3. CASE ConsumeDone(c)
  <2>1. WaiterStates' /\ waiter' \in 0..MaxRounds
    BY <1>3, ConsumerMoves DEF ConsumeDone, ConsumerStates
  <2>2. record' \in 0..MaxRounds /\ pending' \in 0..MaxRounds
    BY <1>3, RoundsAreConsumers DEF ConsumeDone
  <2> QED
    BY <1>3, <2>1, <2>2 DEF ConsumeDone, TypesHold, TypeOK, WaiterStates
<1>4. CASE ReportDone(c)
  <2>1. WaiterStates' /\ waiter' \in 0..MaxRounds
    BY <1>4, ConsumerMoves DEF ReportDone, ConsumerStates
  <2>2. /\ asked' \subseteq Rounds /\ told' \in BOOLEAN /\ cancel' = cancel
        /\ relay' \in [Messages -> Seq(Report)]
    BY <1>4, TellType DEF ReportDone, Report, TypesHold
  <2> QED
    BY <1>4, <2>1, <2>2 DEF ReportDone, FinishOwnedTask, Leave, TypesHold, TypeOK, WaiterStates
<1>5. CASE ConsumeRequest(c)
  <2>1. WaiterStates' /\ waiter' \in 0..MaxRounds
    BY <1>5, ConsumerMoves DEF ConsumeRequest, ConsumerStates
  <2>2. pending' \in 0..MaxRounds
    BY <1>5, RoundsAreConsumers DEF ConsumeRequest, Rounds
  <2> QED
    BY <1>5, <2>1, <2>2 DEF ConsumeRequest, TypesHold, TypeOK, WaiterStates
<1>6. CASE SaveRequest(c)
  <2>0. /\ consumer \in [Consumers -> ConsumerStates] /\ consumer[c] = "saving"
        /\ NextRound(c) \in Rounds /\ NextRound(c) \in Consumers /\ NextRound(c) # c
        /\ NextRound(c) # 0
    BY <1>6, RoundsAreConsumers DEF SaveRequest, TypesHold, TypeOK, Saves
  <2>1. /\ consumer' \in [Consumers -> ConsumerStates]
        /\ consumer'[c] = "asking" /\ consumer'[NextRound(c)] = "waiting"
        /\ \A d \in Consumers \ {c, NextRound(c)} : consumer'[d] = consumer[d]
        /\ waiter' = NextRound(c)
    BY <1>6, <2>0 DEF SaveRequest, ConsumerStates
  <2>2. WaiterStates'
    <3>1. Saves'
      BY <2>0, <2>1 DEF TypesHold, Saves
    <3>2. \A k \in Rounds :
             consumer'[k] \in {"consuming", "saving", "asking", "finishing"} => takes'[k] # 0
      BY <1>6, <2>0, <2>1, RoundsAreConsumers DEF SaveRequest, TypesHold, TypeOK
    <3> QED
      BY <2>1, <3>1, <3>2 DEF WaiterStates
  <2>3. record' \in 0..MaxRounds /\ waiter' \in 0..MaxRounds
    BY <1>6, <2>0 DEF SaveRequest, Rounds
  <2> QED
    BY <1>6, <2>2, <2>3 DEF SaveRequest, TypesHold, TypeOK, WaiterStates
<1>7. CASE Ask(c)
  <2>1. WaiterStates' /\ waiter' \in 0..MaxRounds
    BY <1>7, ConsumerMoves DEF Ask, ConsumerStates
  <2>2. c < MaxRounds
    BY <1>7 DEF Ask, TypesHold, Saves
  <2>3. Request(NextRound(c)) \in Report
    BY <2>2, RoundsAreConsumers DEF Report
  <2>4. /\ asked' \subseteq Rounds /\ told' \in BOOLEAN /\ cancel' = cancel
        /\ relay' \in [Messages -> Seq(Report)]
    BY <1>7, <2>3, TellType DEF Ask, TypesHold
  <2> QED
    BY <1>7, <2>1, <2>4 DEF Ask, Leave, TypesHold, TypeOK, WaiterStates
<1> QED
  BY <1>1, <1>2, <1>3, <1>4, <1>5, <1>6, <1>7 DEF Consume

\* A consumer that waits for feedback, and the registered one that is stopped.
LEMMA StopWaiterTypes ==
  ASSUME TypesHold, StopWaiter, UNCHANGED takes
  PROVE  WaiterStates' /\ waiter' \in 0..MaxRounds
<1>1. consumer \in [Consumers -> ConsumerStates]
  BY DEF TypesHold, TypeOK
<1>2. /\ consumer' \in [Consumers -> ConsumerStates]
      /\ \A c \in Consumers : consumer'[c] \in {consumer[c], "ended"}
  BY <1>1 DEF StopWaiter, ConsumerStates
<1>3. waiter' = 0 /\ waiter' \in 0..MaxRounds
  BY RoundsAreConsumers DEF StopWaiter
<1> QED
  BY <1>2, <1>3, RoundsAreConsumers DEF WaiterStates, TypesHold, TypeOK, Saves

\* Taking a reply, or giving up, keeps the types.
LEMMA WaitTypes ==
  ASSUME TypesHold, NEW k \in Rounds, Wait(k)
  PROVE  TypesHold'
<1> USE DEF clientVars, redisVars
<1>0. k \in Consumers /\ k # 0
  BY RoundsAreConsumers
<1>1. CASE TakeReply(k) /\ pending = 0
  <2>1. WaiterStates' /\ waiter' \in 0..MaxRounds
    BY <1>0, <1>1, ConsumerMoves DEF TakeReply, ConsumerStates
  <2>2. replies' \in Seq(Messages)
    BY <1>1, EmptySeq DEF TakeReply
  <2> QED
    BY <1>1, <2>1, <2>2 DEF TakeReply, Leave, TypesHold, TypeOK, WaiterStates
<1>2. CASE TakeReply(k) /\ pending # 0
  <2>0. replies \in Seq(Messages) /\ replies # <<>>
    BY <1>2 DEF TakeReply, TypesHold, TypeOK
  <2>1. Head(replies) \in Messages
    BY <2>0, HeadTailProperties
  <2>2. Head(replies) \in 0..MaxMessages /\ Head(replies) # 0
    BY <2>1, RoundsAreConsumers DEF Messages
  <2>3. /\ consumer \in [Consumers -> ConsumerStates] /\ consumer[k] = "waiting"
        /\ takes \in [Consumers -> 0..MaxMessages]
    BY <1>2 DEF TakeReply, TypesHold, TypeOK
  <2>4. /\ consumer' \in [Consumers -> ConsumerStates] /\ consumer'[k] = "consuming"
        /\ \A d \in Consumers \ {k} : consumer'[d] = consumer[d]
        /\ takes' \in [Consumers -> 0..MaxMessages] /\ takes'[k] = Head(replies)
        /\ \A d \in Consumers \ {k} : takes'[d] = takes[d]
        /\ UNCHANGED <<waiter, active>>
    BY <1>0, <1>2, <2>2, <2>3 DEF TakeReply, Become, ConsumerStates
  <2>5. WaiterStates'
    <3>1. \A j \in Rounds :
             consumer'[j] \in {"consuming", "saving", "asking", "finishing"} => takes'[j] # 0
      BY <2>2, <2>4, RoundsAreConsumers DEF TypesHold, TypeOK
    <3>2. Saves'
      BY <2>4 DEF TypesHold, Saves
    <3>3. waiter # 0 => consumer'[waiter] \notin {"off", "ended"}
      BY <2>4 DEF TypesHold, TypeOK, Consumers
    <3> QED
      BY <2>4, <3>1, <3>2, <3>3 DEF WaiterStates
  <2>6. replies' \in Seq(Messages)
    BY <1>2, EmptySeq DEF TakeReply
  <2> QED
    BY <1>2, <2>4, <2>5, <2>6 DEF TakeReply, TypesHold, TypeOK, WaiterStates
<1>3. CASE WaiterTimeout(k)
  <2>1. WaiterStates' /\ waiter' \in 0..MaxRounds
    BY <1>0, <1>3, ConsumerMoves DEF WaiterTimeout, ConsumerStates
  <2>2. record' \in 0..MaxRounds /\ pending' \in 0..MaxRounds
    BY <1>3, RoundsAreConsumers DEF WaiterTimeout
  <2> QED
    BY <1>3, <2>1, <2>2 DEF WaiterTimeout, FinishOwnedTask, Leave, TypesHold, TypeOK, WaiterStates
<1> QED
  BY <1>1, <1>2, <1>3 DEF Wait

\* Cancelling what an instance has of the task keeps the types.
LEMMA CancelTypes ==
  ASSUME TypesHold, NEW i, CancelLocalTask(i), UNCHANGED <<asked, told>>, cancelMail' \in BOOLEAN,
         cancel' \in [by : Instances \cup {"none"}, at : {"off", "local", "remote", "told"}]
  PROVE  TypesHold'
<1>1. 0 \in 0..MaxRounds
  BY RoundsAreConsumers
<1>2. CASE i = owner
  <2>1. WaiterStates' /\ waiter' \in 0..MaxRounds
    BY <1>2, StopWaiterTypes DEF CancelLocalTask
  <2> QED
    BY <1>1, <1>2, <2>1 DEF CancelLocalTask, TypesHold, TypeOK, WaiterStates
<1>3. CASE i # owner
  BY <1>1, <1>3 DEF CancelLocalTask, TypesHold, TypeOK, Saves
<1> QED
  BY <1>2, <1>3

\* A step at a message of the client keeps the types.
LEMMA FeedbackTypes ==
  ASSUME TypesHold, NEW m \in Messages, Feedback(m) \/ HandleFeedback(m)
  PROVE  TypesHold'
<1> USE DEF clientVars, ownerVars, ForwardFrame
<1>1. /\ forward \in [Messages -> [k : 0..MaxRounds, at : ForwardStates]]
      /\ asked \subseteq Rounds /\ replies \in Seq(Messages) /\ 0 \in 0..MaxRounds
      /\ relay \in [Messages -> Seq(Report)] /\ Rounds \subseteq 0..MaxRounds
  BY RoundsAreConsumers DEF TypesHold, TypeOK, Rounds
<1>2. \A s \in ForwardStates :
         At(m, s) => forward' \in [Messages -> [k : 0..MaxRounds, at : ForwardStates]]
  BY <1>1 DEF At
<1>3. CASE Feedback(m)
  <2>1. PICK k \in asked, s \in {"checked", "ended"} :
           forward' = [forward EXCEPT ![m] = [k |-> k, at |-> s]]
    BY <1>3 DEF Feedback
  <2>2. forward' \in [Messages -> [k : 0..MaxRounds, at : ForwardStates]]
    BY <1>1, <2>1 DEF ForwardStates
  <2> QED
    BY <1>3, <2>2 DEF Feedback, TypesHold, TypeOK, Saves
<1>4. CASE Claim(m)
  <2>1. /\ forward' \in [Messages -> [k : 0..MaxRounds, at : ForwardStates]]
        /\ record' \in 0..MaxRounds
    BY <1>1, <1>2, <1>4 DEF Claim, ClaimedRecord, ForwardStates, TypesHold, TypeOK
  <2> QED
    BY <1>4, <2>1 DEF Claim, TypesHold, TypeOK, Saves
<1>5. CASE ForwardReply(m)
  <2>1. /\ forward' \in [Messages -> [k : 0..MaxRounds, at : ForwardStates]]
        /\ record' \in 0..MaxRounds
    BY <1>1, <1>2, <1>5 DEF ForwardReply, ForwardStates, TypesHold, TypeOK
  <2>2. Append(replies, m) \in Seq(Messages)
    BY <1>1, AppendProperties
  <2>3. replies' \in Seq(Messages)
    BY <1>1, <1>5, <2>2 DEF ForwardReply
  <2> QED
    BY <1>5, <2>1, <2>3 DEF ForwardReply, TypesHold, TypeOK, Saves
<1>6. CASE ReadRelay(m)
  <2>1. forward' \in [Messages -> [k : 0..MaxRounds, at : ForwardStates]]
    BY <1>2, <1>6 DEF ReadRelay, ForwardStates
  <2>2. /\ relay[m] \in Seq(Report) /\ relay[m] # <<>>
    BY <1>1, <1>6 DEF ReadRelay
  <2>3. Head(relay[m]) \in Report /\ Tail(relay[m]) \in Seq(Report)
    BY <2>2, HeadTailProperties
  <2>4. Head(relay[m]).type = "request" => Head(relay[m]).k \in Rounds
    BY <2>3 DEF Report, Request, Done, Failed
  <2>5. asked' \subseteq Rounds
    BY <1>1, <1>6, <2>4 DEF ReadRelay
  <2>6. relay' \in [Messages -> Seq(Report)]
    BY <1>1, <1>6, <2>3 DEF ReadRelay
  <2> QED
    BY <1>6, <2>1, <2>5, <2>6 DEF ReadRelay, TypesHold, TypeOK, Saves
<1>7. CASE RelayTimeout(m)
  <2>1. forward' \in [Messages -> [k : 0..MaxRounds, at : ForwardStates]]
    BY <1>2, <1>7 DEF RelayTimeout, ForwardStates
  <2> QED
    BY <1>7, <2>1 DEF RelayTimeout, TypesHold, TypeOK, Saves
<1> QED
  BY <1>3, <1>4, <1>5, <1>6, <1>7 DEF HandleFeedback

\* Every step keeps the types.
LEMMA TypesKept == TypesHold /\ [Next]_vars => TypesHold'
<1> SUFFICES ASSUME TypesHold, [Next]_vars PROVE TypesHold'
  OBVIOUS
<1> USE DEF clientVars, ownerVars, redisVars
<1>1. CASE Execute
  <2>1. CASE Become(0, "ended")
    <3>1. WaiterStates'
      <4>1. consumer \in [Consumers -> ConsumerStates] /\ consumer[0] = "off"
        BY <1>1 DEF Execute, TypesHold, TypeOK
      <4>2. /\ consumer' \in [Consumers -> ConsumerStates]
            /\ \A c \in Consumers : c # 0 => consumer'[c] = consumer[c]
            /\ consumer'[0] \notin {"saving", "asking"}
        BY <2>1, <4>1 DEF Become, ConsumerStates
      <4>3. UNCHANGED <<waiter, takes>>
        BY <1>1 DEF Execute
      <4> QED
        BY <4>1, <4>2, <4>3, RoundsAreConsumers
        DEF WaiterStates, TypesHold, TypeOK, Saves, Consumers
    <3> QED
      BY <1>1, <2>1, <3>1 DEF Execute, TypesHold, TypeOK, WaiterStates
  <2>2. CASE Become(0, "consuming")
    <3>1. WaiterStates'
      BY <1>1, <2>2, ConsumerMoves, RoundsAreConsumers DEF Execute, ConsumerStates
    <3> QED
      BY <1>1, <2>2, <3>1 DEF Execute, TypesHold, TypeOK, WaiterStates
  <2> QED
    BY <1>1, <2>1, <2>2 DEF Execute
<1>2. ASSUME NEW i \in Instances, ReadOwner(i) PROVE TypesHold'
  <2>1. cancel' \in [by : Instances \cup {"none"}, at : {"off", "local", "remote", "told"}]
    BY <1>2 DEF ReadOwner
  <2> QED
    BY <1>2, <2>1 DEF ReadOwner, TypesHold, TypeOK, Saves
<1>3. CASE Cancel
  <2>1. cancel' \in [by : Instances \cup {"none"}, at : {"off", "local", "remote", "told"}]
    BY <1>3 DEF Cancel, TypesHold, TypeOK
  <2>2. CASE cancel.at = "local" /\ CancelLocalTask(cancel.by) /\ UNCHANGED cancelMail
    BY <1>3, <2>1, <2>2, CancelTypes DEF Cancel, TypesHold, TypeOK
  <2>3. CASE cancel.at = "remote"
    BY <1>3, <2>1, <2>3 DEF Cancel, TypesHold, TypeOK, Saves
  <2> QED
    BY <1>3, <2>2, <2>3 DEF Cancel
<1>4. CASE TakeCancel
  BY <1>4, CancelTypes DEF TakeCancel, TypesHold, TypeOK
<1>5. CASE ListenerEnds
  <2>1. failures' \in 0..MaxFailures
    BY <1>5, RoundsAreConsumers DEF ListenerEnds, TypesHold, TypeOK
  <2> QED
    BY <1>5, <2>1 DEF ListenerEnds, TypesHold, TypeOK, Saves
<1>6. CASE Crash
  <2>1. failures' \in 0..MaxFailures /\ 0 \in 0..MaxRounds
    BY <1>6, RoundsAreConsumers DEF Crash, TypesHold, TypeOK
  <2>2. /\ consumer' \in [Consumers -> ConsumerStates]
        /\ \A c \in Consumers : consumer'[c] \in {"off", "ended"}
    BY <1>6 DEF Crash, ConsumerStates
  <2>3. \A c \in Rounds : consumer'[c] \in {"off", "ended"}
    BY <2>2, RoundsAreConsumers
  <2> QED
    BY <1>6, <2>1, <2>2, <2>3 DEF Crash, TypesHold, TypeOK, Saves
<1>7. CASE ExpireRecord \/ ExpireOwner
  BY <1>7, RoundsAreConsumers DEF ExpireRecord, ExpireOwner, TypesHold, TypeOK, Saves
<1>8. CASE UNCHANGED vars
  BY <1>8 DEF vars, TypesHold, TypeOK, Saves
<1> QED
  BY <1>1, <1>2, <1>3, <1>4, <1>5, <1>6, <1>7, <1>8, ConsumeTypes, WaitTypes, FeedbackTypes
  DEF Next

\* The records, replies and consumers of a task have their types, and a waiter
\* is registered only while it is at work.
THEOREM TypeCorrect == Spec => []TypeOK
<1>1. Spec => []TypesHold
  BY InitTypes, TypesKept, PTL DEF Spec
<1>2. TypesHold => TypeOK
  BY DEF TypesHold
<1> QED
  BY <1>1, <1>2, PTL

-----------------------------------------------------------------------------
(* The consumers of the answer stream take turns.                          *)

\* The consumer reads the answer stream, or is busy with what it has read.
Busy(c) == consumer[c] \in {"consuming", "saving", "finishing"}

\* No consumer after c has been started.
LastOne(c) == \A d \in Consumers : d > c => consumer[d] = "off"

\* A consumer that has started the waiter of the next round does nothing more
\* than ask the client.
Chain ==
  \A c, d \in Consumers : c < d /\ consumer[d] # "off" => consumer[c] \in {"asking", "ended"}

\* Consumers end, and none begins or goes on.
OnlyEnds ==
  \A c \in Consumers : \/ consumer'[c] = consumer[c]
                       \/ consumer'[c] = "ended" /\ (c = 0 \/ consumer[c] # "off")

\* The steps in which a consumer begins or goes on.
LEMMA ConsumerSteps ==
  ASSUME TypesHold, [Next]_vars
  PROVE  \/ OnlyEnds
         \/ \E c \in Consumers : ConsumeDone(c) \/ ConsumeRequest(c) \/ SaveRequest(c)
         \/ \E k \in Rounds : TakeReply(k) /\ pending # 0
         \/ Execute /\ Become(0, "consuming")
<1> USE DEF ownerVars, clientVars, redisVars
<1>0. /\ consumer \in [Consumers -> ConsumerStates]
      /\ waiter # 0 => waiter \in Consumers /\ consumer[waiter] # "off"
  BY RoundsAreConsumers DEF TypesHold, TypeOK, Rounds, Consumers
<1>1. ASSUME NEW c \in Consumers, Become(c, "ended"), c = 0 \/ consumer[c] # "off"
      PROVE  OnlyEnds
  BY <1>0, <1>1 DEF Become, OnlyEnds
<1>2. StopWaiter => OnlyEnds
  BY <1>0 DEF StopWaiter, OnlyEnds
<1>3. UNCHANGED consumer => OnlyEnds
  BY DEF OnlyEnds
<1>4. ASSUME NEW c \in Consumers, StopCancelled(c) \/ ConsumeError(c) \/ ReportDone(c) \/ Ask(c)
      PROVE  OnlyEnds
  BY <1>1, <1>4 DEF StopCancelled, ConsumeError, ReportDone, Ask
<1>5. ASSUME NEW k \in Rounds, WaiterTimeout(k) \/ (TakeReply(k) /\ pending = 0)
      PROVE  OnlyEnds
  BY <1>1, <1>5, RoundsAreConsumers DEF WaiterTimeout, TakeReply
<1>6. Execute => OnlyEnds \/ Become(0, "consuming")
  BY <1>1, RoundsAreConsumers DEF Execute
<1>7. Cancel \/ TakeCancel => OnlyEnds
  BY <1>2, <1>3 DEF Cancel, TakeCancel, CancelLocalTask
<1>8. Crash => OnlyEnds
  BY <1>0, RoundsAreConsumers DEF Crash, OnlyEnds
<1>9. ASSUME \/ \E i \in Instances : ReadOwner(i)
             \/ ListenerEnds \/ ExpireRecord \/ ExpireOwner \/ UNCHANGED vars
             \/ \E m \in Messages : Feedback(m) \/ HandleFeedback(m)
      PROVE  OnlyEnds
  BY <1>3, <1>9 DEF ReadOwner, ListenerEnds, ExpireRecord, ExpireOwner, vars, Feedback,
     HandleFeedback, Claim, ForwardReply, ReadRelay, RelayTimeout, ForwardFrame
<1> QED
  BY <1>4, <1>5, <1>6, <1>7, <1>8, <1>9 DEF Next, Consume, Wait

\* The consumer that is busy or waits is the last that was started.
LEMMA TheLastWorks ==
  ASSUME TypesHold, Chain, NEW c \in Consumers, consumer[c] \notin {"asking", "ended"}
  PROVE  LastOne(c)
BY DEF Chain, LastOne

\* Every step keeps the turns.
LEMMA ChainKept == TypesHold /\ Chain /\ [Next]_vars => Chain'
<1> SUFFICES ASSUME TypesHold, Chain, [Next]_vars PROVE Chain'
  OBVIOUS
<1>0. consumer \in [Consumers -> ConsumerStates]
  BY DEF TypesHold, TypeOK
<1>1. CASE OnlyEnds
  <2> SUFFICES ASSUME NEW c \in Consumers, NEW d \in Consumers, c < d, consumer'[d] # "off"
               PROVE  consumer'[c] \in {"asking", "ended"}
    BY DEF Chain
  <2>1. consumer[d] # "off"
    BY <1>1, RoundsAreConsumers DEF OnlyEnds
  <2>2. consumer[c] \in {"asking", "ended"}
    BY <2>1 DEF Chain
  <2> QED
    BY <1>1, <2>2 DEF OnlyEnds
<1>2. ASSUME NEW c \in Consumers, ConsumeDone(c) \/ ConsumeRequest(c) PROVE Chain'
  BY <1>0, <1>2 DEF ConsumeDone, ConsumeRequest, Become, Chain
<1>3. ASSUME NEW c \in Consumers, SaveRequest(c) PROVE Chain'
  <2>0. /\ NextRound(c) \in Consumers /\ NextRound(c) > c /\ consumer[c] = "saving"
        /\ NextRound(c) = c + 1
    BY <1>3, RoundsAreConsumers DEF SaveRequest, TypesHold, Saves, NextRound
  <2>1. LastOne(c)
    BY <2>0, TheLastWorks
  <2>2. /\ consumer'[c] = "asking" /\ consumer'[NextRound(c)] = "waiting"
        /\ \A d \in Consumers \ {c, NextRound(c)} : consumer'[d] = consumer[d]
    BY <1>0, <1>3, <2>0 DEF SaveRequest
  <2>3. \A d \in Consumers : d < NextRound(c) => d = c \/ d < c
    BY <2>0, RoundsAreConsumers
  <2>4. \A d \in Consumers : d < c => consumer[d] \in {"asking", "ended"}
    BY <2>0 DEF Chain
  <2> SUFFICES ASSUME NEW d \in Consumers, NEW e \in Consumers, d < e, consumer'[e] # "off"
               PROVE  consumer'[d] \in {"asking", "ended"}
    BY DEF Chain
  <2>5. e = NextRound(c) \/ e = c \/ e < c
    BY <2>0, <2>1, <2>2, RoundsAreConsumers DEF LastOne
  <2>6. d = c \/ d < c
    BY <2>0, <2>3, <2>5, RoundsAreConsumers
  <2>7. d < c => d # NextRound(c)
    BY <2>0, RoundsAreConsumers
  <2> QED
    BY <2>2, <2>4, <2>6, <2>7
<1>4. ASSUME NEW k \in Rounds, TakeReply(k), pending # 0 PROVE Chain'
  BY <1>0, <1>4, RoundsAreConsumers DEF TakeReply, Become, Chain
<1>5. CASE Execute /\ Become(0, "consuming")
  BY <1>0, <1>5, RoundsAreConsumers DEF Execute, Become, Chain
<1> QED
  BY <1>1, <1>2, <1>3, <1>4, <1>5, ConsumerSteps

-----------------------------------------------------------------------------
(* A recorded request is claimed once, and its reply is taken by its waiter. *)

\* A reply that waits in the owner's stream, or is on its way there.
Queued(m) == \E i \in DOMAIN replies : replies[i] = m
InFlight(m) == forward[m].at = "claimed" \/ Queued(m)

\* Request k was made last, and nobody has taken a reply to it.
Awaited(k) == k \in Rounds /\ consumer[k] \in {"waiting", "ended"} /\ LastOne(k)

\* One reply is in flight at a time, after its request has been claimed, and it
\* is for the request made last.
Forwarding ==
  /\ record # 0 => Awaited(record)
  /\ \A m \in Messages : InFlight(m) => record = 0 /\ Awaited(forward[m].k)
  /\ \A m, n \in Messages : InFlight(m) /\ InFlight(n) => m = n
  /\ replies # <<>> => Len(replies) = 1
  /\ \A m \in Messages : Queued(m) => forward[m].at \in {"relaying", "ended"}
  /\ \A m \in Messages : forward[m].at # "off" => forward[m].k \in asked
  /\ \A k \in Rounds : takes[k] # 0 => forward[takes[k]].at # "off" /\ forward[takes[k]].k = k

\* An awaited request stays so while consumers only end.
LEMMA AwaitedUntilTaken ==
  ASSUME TypesHold, OnlyEnds, NEW k, Awaited(k)
  PROVE  Awaited(k)'
BY RoundsAreConsumers DEF Awaited, OnlyEnds, LastOne

\* While a consumer is busy, or before the first one, no request is recorded
\* and no reply is in flight.
LEMMA NothingInFlight ==
  ASSUME TypesHold, Chain, Forwarding, NEW c \in Consumers,
         Busy(c) \/ (c = 0 /\ consumer[c] = "off")
  PROVE  record = 0 /\ \A m \in Messages : ~InFlight(m)
<1>1. ASSUME NEW k, Awaited(k) PROVE FALSE
  <2>1. k \in Rounds /\ k \in Consumers /\ k > 0 /\ consumer[k] \in {"waiting", "ended"} /\ k # c
    BY <1>1, RoundsAreConsumers DEF Awaited, Busy
  <2>2. CASE c < k
    BY <2>1, <2>2 DEF Chain, Busy
  <2>3. CASE c > k
    BY <1>1, <2>1, <2>3, RoundsAreConsumers DEF Awaited, LastOne, Busy
  <2> QED
    BY <2>1, <2>2, <2>3, RoundsAreConsumers
<1> QED
  BY <1>1 DEF Forwarding

\* The first reply in the owner's stream is for the request whose waiter reads it.
LEMMA ReplyIsForItsWaiter ==
  ASSUME TypesHold, Chain, Forwarding, NEW k \in Rounds, consumer[k] = "waiting", replies # <<>>
  PROVE  /\ Head(replies) \in Messages /\ Queued(Head(replies))
         /\ forward[Head(replies)].k = k
         /\ forward[Head(replies)].at # "off"
<1> DEFINE m == Head(replies)
<1>1. replies \in Seq(Messages)
  BY DEF TypesHold, TypeOK
<1>2. m \in Messages /\ m = replies[1] /\ 1 \in DOMAIN replies
  BY <1>1, HeadTailProperties, EmptySeq
<1>3. Queued(m)
  BY <1>2 DEF Queued
<1> HIDE DEF m
<1>4. Awaited(forward[m].k) /\ forward[m].at # "off"
  BY <1>2, <1>3 DEF Forwarding, InFlight
<1>5. forward[m].k = k
  <2>1. LastOne(k) /\ k \in Consumers
    BY TheLastWorks, RoundsAreConsumers
  <2>2. forward[m].k \in Consumers /\ consumer[forward[m].k] # "off"
    BY <1>4, RoundsAreConsumers DEF Awaited
  <2>3. ~(forward[m].k > k)
    BY <2>1, <2>2 DEF LastOne
  <2>4. ~(k > forward[m].k)
    BY <1>4, <2>1 DEF Awaited, LastOne
  <2> QED
    BY <2>1, <2>2, <2>3, <2>4, RoundsAreConsumers
<1> QED
  BY <1>2, <1>3, <1>4, <1>5 DEF m

\* The client is not untold of a request.
LEMMA AskedGrows ==
  ASSUME TypesHold, [Next]_vars
  PROVE  asked \subseteq asked'
<1> USE DEF clientVars, ownerVars, redisVars, ForwardFrame
<1>1. ASSUME NEW c, NEW r, Tell(c, r) PROVE asked \subseteq asked'
  BY <1>1 DEF Tell
<1>2. ASSUME NEW c, Consume(c) PROVE asked \subseteq asked'
  BY <1>1, <1>2
  DEF Consume, StopCancelled, ConsumeError, ConsumeDone, ReportDone, ConsumeRequest, SaveRequest, Ask
<1>3. ASSUME NEW k, Wait(k) PROVE asked \subseteq asked'
  BY <1>3 DEF Wait, TakeReply, WaiterTimeout
<1>4. ASSUME NEW m, Feedback(m) \/ HandleFeedback(m) PROVE asked \subseteq asked'
  BY <1>4 DEF Feedback, HandleFeedback, Claim, ForwardReply, ReadRelay, RelayTimeout
<1>5. CASE \/ Execute \/ Cancel \/ TakeCancel \/ ListenerEnds \/ Crash \/ ExpireRecord
           \/ ExpireOwner \/ \E i \in Instances : ReadOwner(i)
  BY <1>5 DEF Execute, Cancel, TakeCancel, ListenerEnds, Crash, ExpireRecord, ExpireOwner, ReadOwner
<1> QED
  BY <1>2, <1>3, <1>4, <1>5 DEF Next, vars

\* Losing the record or the reply does no harm to the others.
LEMMA LossesKeepForwarding ==
  ASSUME TypesHold, Forwarding, OnlyEnds, record' \in {0, record}, replies' \in {<<>>, replies},
         UNCHANGED <<forward, takes>>, asked \subseteq asked'
  PROVE  Forwarding'
<1>1. \A m \in Messages : Queued(m)' => Queued(m)
  BY DEF Queued
<1>2. \A m \in Messages : InFlight(m)' => InFlight(m)
  BY <1>1 DEF InFlight
<1>3. \A k : Awaited(k) => Awaited(k)'
  BY AwaitedUntilTaken
<1> QED
  BY <1>1, <1>2, <1>3 DEF Forwarding

\* The messages of the client are forwarded one at a time.
LEMMA FeedbackForwards ==
  ASSUME TypesHold, Forwarding, NEW m \in Messages, Feedback(m) \/ HandleFeedback(m),
         asked \subseteq asked'
  PROVE  Forwarding'
<1> USE DEF clientVars, ownerVars, ForwardFrame
<1>0. /\ forward \in [Messages -> [k : 0..MaxRounds, at : ForwardStates]]
      /\ replies \in Seq(Messages) /\ asked \subseteq Rounds
      /\ \A k \in Rounds : takes[k] # 0 => takes[k] \in Messages
  <2>1. takes \in [Consumers -> 0..MaxMessages]
    BY DEF TypesHold, TypeOK
  <2>2. \A k \in Rounds : takes[k] # 0 => takes[k] \in Messages
    BY <2>1, RoundsAreConsumers DEF Messages
  <2> QED
    BY <2>2 DEF TypesHold, TypeOK
<1>1. UNCHANGED <<consumer, takes>> /\ \A k : Awaited(k)' <=> Awaited(k)
  BY DEF Feedback, HandleFeedback, Claim, ForwardReply, ReadRelay, RelayTimeout, Awaited, LastOne
<1>2. ASSUME \A n \in Messages \ {m} : forward'[n] = forward[n],
             forward'[m].at # "off", forward'[m].k \in asked,
             forward[m].at # "off" => forward'[m].k = forward[m].k
      PROVE  /\ \A n \in Messages : forward'[n].at # "off" => forward'[n].k \in asked'
             /\ \A k \in Rounds : takes'[k] # 0 =>
                  forward'[takes'[k]].at # "off" /\ forward'[takes'[k]].k = k
  BY <1>0, <1>1, <1>2 DEF Forwarding
<1>3. ASSUME NEW s, At(m, s), forward[m].at # "off", s # "off"
      PROVE  /\ \A n \in Messages \ {m} : forward'[n] = forward[n]
             /\ forward'[m].at = s /\ forward'[m].k \in asked
             /\ forward'[m].k = forward[m].k
  BY <1>0, <1>3 DEF At, Forwarding
<1>4. ASSUME \A n \in Messages \ {m} : forward'[n] = forward[n],
             forward'[m].at \notin {"off", "claimed"}, forward'[m].k \in asked,
             forward[m].at # "off" => forward'[m].k = forward[m].k,
             Queued(m) => forward'[m].at \in {"relaying", "ended"},
             UNCHANGED <<record, replies>>
      PROVE  Forwarding'
  <2>1. \A n \in Messages : Queued(n)' <=> Queued(n)
    BY <1>4 DEF Queued
  <2>2. \A n \in Messages : InFlight(n)' => InFlight(n)
    BY <1>4, <2>1 DEF InFlight
  <2>3. \A n \in Messages : InFlight(n) => forward'[n].k = forward[n].k
    BY <1>4 DEF InFlight, Forwarding
  <2> QED
    BY <1>1, <1>2, <1>4, <2>1, <2>2, <2>3 DEF Forwarding
<1>5. CASE Feedback(m)
  <2>1. PICK k \in asked, s \in {"checked", "ended"} :
           forward' = [forward EXCEPT ![m] = [k |-> k, at |-> s]]
    BY <1>5 DEF Feedback
  <2>2. /\ \A n \in Messages \ {m} : forward'[n] = forward[n]
        /\ forward'[m].at = s /\ forward'[m].k = k
    BY <1>0, <2>1
  <2>3. forward[m].at = "off" /\ ~Queued(m) /\ UNCHANGED <<record, replies>>
    BY <1>5 DEF Feedback, Forwarding
  <2> QED
    BY <1>4, <2>2, <2>3
<1>6. CASE Claim(m) /\ record # forward[m].k
  <2>1. At(m, "ended") /\ forward[m].at = "checked" /\ UNCHANGED <<record, replies>>
    BY <1>6 DEF Claim
  <2> QED
    BY <1>3, <1>4, <2>1
<1>7. CASE Claim(m) /\ record = forward[m].k
  <2>1. /\ At(m, "claimed") /\ forward[m].at = "checked" /\ record' = 0 /\ replies' = replies
        /\ asked' = asked
    BY <1>7 DEF Claim, ClaimedRecord
  <2>2. /\ \A n \in Messages \ {m} : forward'[n] = forward[n]
        /\ forward'[m].at = "claimed" /\ forward'[m].k \in asked
        /\ forward'[m].k = forward[m].k
    BY <1>3, <2>1
  <2>3. record \in Rounds /\ record # 0 /\ Awaited(record)
    BY <1>0, <1>7, <2>1, RoundsAreConsumers DEF Forwarding
  <2>4. \A n \in Messages : ~InFlight(n)
    BY <2>3 DEF Forwarding
  <2>5. \A n \in Messages : ~Queued(n)'
    BY <2>1, <2>4 DEF InFlight, Queued
  <2>6. \A n \in Messages : InFlight(n)' => n = m
    BY <2>2, <2>4, <2>5 DEF InFlight
  <2>7. Awaited(forward[m].k)'
    BY <1>1, <1>7, <2>2, <2>3
  <2> QED
    BY <1>2, <2>1, <2>2, <2>5, <2>6, <2>7 DEF Forwarding
<1>8. CASE ForwardReply(m) /\ replies' = replies
  <2>1. At(m, "ended") \/ At(m, "relaying")
    BY <1>8 DEF ForwardReply
  <2>2. forward[m].at = "claimed" /\ InFlight(m) /\ asked' = asked
    BY <1>8 DEF ForwardReply, InFlight
  <2>3. record' = 0 /\ record = 0
    BY <1>8, <2>2 DEF ForwardReply, Forwarding
  <2> QED
    BY <1>3, <1>4, <1>8, <2>1, <2>2, <2>3
<1>9. CASE ForwardReply(m) /\ replies' # replies
  <2>1. /\ At(m, "relaying") /\ forward[m].at = "claimed" /\ InFlight(m)
        /\ replies' = Append(replies, m) /\ record' = record /\ asked' = asked
    BY <1>9 DEF ForwardReply, InFlight
  <2>2. /\ \A n \in Messages \ {m} : forward'[n] = forward[n]
        /\ forward'[m].at = "relaying" /\ forward'[m].k \in asked
        /\ forward'[m].k = forward[m].k
    BY <1>3, <2>1
  <2>3. replies = <<>>
    <3>1. ASSUME replies # <<>> PROVE FALSE
      <4>1. replies[1] \in Messages /\ 1 \in DOMAIN replies
        BY <1>0, <3>1, EmptySeq
      <4>2. InFlight(replies[1]) /\ forward[replies[1]].at # "claimed"
        BY <4>1 DEF InFlight, Queued, Forwarding
      <4> QED
        BY <2>1, <4>1, <4>2 DEF Forwarding
    <3> QED
      BY <3>1
  <2>4. Len(replies') = 1 /\ DOMAIN replies' = {1} /\ replies'[1] = m
    BY <2>1, <2>3
  <2>5. \A n \in Messages : Queued(n)' => n = m
    BY <2>4 DEF Queued
  <2>6. \A n \in Messages : InFlight(n)' => n = m
    BY <2>1, <2>2, <2>5 DEF InFlight, Forwarding
  <2>7. record' = 0 /\ Awaited(forward[m].k)'
    BY <1>1, <2>1, <2>2 DEF Forwarding
  <2> QED
    BY <1>2, <2>1, <2>2, <2>4, <2>5, <2>6, <2>7 DEF Forwarding
<1>10. CASE ReadRelay(m) \/ RelayTimeout(m)
  <2>1. At(m, "ended") /\ forward[m].at = "relaying" /\ UNCHANGED <<record, replies>>
    BY <1>10 DEF ReadRelay, RelayTimeout
  <2> QED
    BY <1>3, <1>4, <2>1
<1> QED
  BY <1>5, <1>6, <1>7, <1>8, <1>9, <1>10 DEF HandleFeedback

\* Every step keeps requests, records and replies together.
LEMMA ForwardingKept ==
  TypesHold /\ TypesHold' /\ Chain /\ Forwarding /\ [Next]_vars => Forwarding'
<1> SUFFICES ASSUME TypesHold, TypesHold', Chain, Forwarding, [Next]_vars PROVE Forwarding'
  OBVIOUS
<1> USE DEF clientVars, ownerVars, redisVars
<1>0. asked \subseteq asked' /\ consumer \in [Consumers -> ConsumerStates]
  BY AskedGrows DEF TypesHold, TypeOK
<1>1. ASSUME NEW m \in Messages, Feedback(m) \/ HandleFeedback(m) PROVE Forwarding'
  BY <1>0, <1>1, FeedbackForwards
<1>2. ASSUME OnlyEnds, ~\E m \in Messages : Feedback(m) \/ HandleFeedback(m),
             ~\E k \in Rounds : TakeReply(k) /\ pending # 0
      PROVE  Forwarding'
  <2>1. record' \in {0, record} /\ replies' \in {<<>>, replies} /\ UNCHANGED <<forward, takes>>
    <3>1. ASSUME NEW c \in Consumers, Consume(c), ~SaveRequest(c)
          PROVE  record' \in {0, record} /\ UNCHANGED <<forward, takes, replies>>
      BY <3>1 DEF Consume, StopCancelled, ConsumeError, ConsumeDone, ReportDone, ConsumeRequest, Ask
    <3>2. ASSUME NEW c \in Consumers, SaveRequest(c) PROVE FALSE
      <4>1. consumer[c] = "saving" /\ NextRound(c) \in Consumers /\ NextRound(c) # c
        BY <3>2, RoundsAreConsumers DEF SaveRequest, TypesHold, Saves
      <4>2. consumer'[c] = "asking"
        BY <1>0, <3>2, <4>1 DEF SaveRequest
      <4> QED
        BY <1>2, <4>1, <4>2 DEF OnlyEnds
    <3>3. ASSUME NEW k \in Rounds, Wait(k)
          PROVE  record' \in {0, record} /\ replies' \in {<<>>, replies} /\ UNCHANGED <<forward, takes>>
      BY <1>2, <3>3 DEF Wait, TakeReply, WaiterTimeout
    <3>4. CASE \/ Execute \/ Cancel \/ TakeCancel \/ ListenerEnds \/ Crash \/ ExpireRecord
               \/ ExpireOwner \/ \E i \in Instances : ReadOwner(i)
      BY <3>4 DEF Execute, Cancel, TakeCancel, CancelLocalTask, ListenerEnds, Crash, ExpireRecord,
         ExpireOwner, ReadOwner
    <3> QED
      BY <1>2, <3>1, <3>2, <3>3, <3>4 DEF Next, vars
  <2> QED
    BY <1>0, <1>2, <2>1, LossesKeepForwarding
<1>3. ASSUME record = 0, record' = 0, \A m \in Messages : ~InFlight(m),
             UNCHANGED <<replies, forward, takes>>
      PROVE  Forwarding'
  BY <1>0, <1>3 DEF Forwarding, InFlight, Queued
<1>4. ASSUME NEW c \in Consumers, ConsumeDone(c) \/ ConsumeRequest(c) PROVE Forwarding'
  <2>1. record = 0 /\ \A m \in Messages : ~InFlight(m)
    BY <1>4, NothingInFlight DEF ConsumeDone, ConsumeRequest, Busy
  <2>2. record' \in {0, record} /\ UNCHANGED <<replies, forward, takes>>
    BY <1>4 DEF ConsumeDone, ConsumeRequest
  <2> QED
    BY <1>3, <2>1, <2>2
<1>5. CASE Execute /\ Become(0, "consuming")
  <2>1. record = 0 /\ \A m \in Messages : ~InFlight(m)
    BY <1>5, NothingInFlight, RoundsAreConsumers DEF Execute
  <2>2. record' = record /\ UNCHANGED <<replies, forward, takes>>
    BY <1>5 DEF Execute
  <2> QED
    BY <1>3, <2>1, <2>2
<1>6. ASSUME NEW c \in Consumers, SaveRequest(c) PROVE Forwarding'
  <2>1. \A m \in Messages : ~InFlight(m)
    BY <1>6, NothingInFlight DEF SaveRequest, Busy
  <2>2. UNCHANGED <<replies, forward, takes>> /\ record' = NextRound(c)
    BY <1>6 DEF SaveRequest
  <2>3. /\ consumer[c] = "saving" /\ NextRound(c) \in Rounds /\ NextRound(c) \in Consumers
        /\ NextRound(c) > c
    BY <1>6, RoundsAreConsumers DEF SaveRequest, TypesHold, Saves
  <2>4. /\ consumer'[NextRound(c)] = "waiting"
        /\ \A d \in Consumers \ {c, NextRound(c)} : consumer'[d] = consumer[d]
    BY <1>0, <1>6, <2>3 DEF SaveRequest
  <2>5. \A d \in Consumers : d > NextRound(c) => consumer'[d] = "off"
    <3>1. LastOne(c)
      BY <2>3, TheLastWorks
    <3>2. \A d \in Consumers : d > NextRound(c) => d > c /\ d # c /\ d # NextRound(c)
      BY <2>3, RoundsAreConsumers
    <3> QED
      BY <2>4, <3>1, <3>2 DEF LastOne
  <2>6. Awaited(record)'
    BY <2>2, <2>3, <2>4, <2>5 DEF Awaited, LastOne
  <2> QED
    BY <1>0, <2>1, <2>2, <2>6 DEF Forwarding, InFlight, Queued
<1>7. ASSUME NEW k \in Rounds, TakeReply(k), pending # 0 PROVE Forwarding'
  <2> DEFINE m == Head(replies)
  <2>1. /\ consumer[k] = "waiting" /\ replies # <<>> /\ replies' = <<>>
        /\ takes' = [takes EXCEPT ![k] = m] /\ UNCHANGED <<record, forward>>
    BY <1>7 DEF TakeReply
  <2>2. m \in Messages /\ Queued(m) /\ forward[m].k = k /\ forward[m].at # "off"
    BY <2>1, ReplyIsForItsWaiter
  <2>3. takes \in [Consumers -> 0..MaxMessages] /\ k \in Consumers
    BY RoundsAreConsumers DEF TypesHold, TypeOK
  <2> HIDE DEF m
  <2>4. record = 0 /\ forward[m].at # "claimed"
    BY <2>2 DEF Forwarding, InFlight
  <2>5. \A n \in Messages : ~InFlight(n)'
    <3>1. \A n \in Messages : ~Queued(n)'
      BY <2>1 DEF Queued
    <3>2. \A n \in Messages : forward[n].at # "claimed"
      BY <2>2, <2>4 DEF Forwarding, InFlight
    <3> QED
      BY <2>1, <3>1, <3>2 DEF InFlight
  <2>6. \A j \in Rounds : takes'[j] # 0 => forward[takes'[j]].at # "off" /\ forward[takes'[j]].k = j
    BY <2>1, <2>2, <2>3, RoundsAreConsumers DEF Forwarding
  <2> QED
    BY <1>0, <2>1, <2>4, <2>5, <2>6 DEF Forwarding, InFlight
<1> QED
  BY <1>1, <1>2, <1>4, <1>5, <1>6, <1>7, ConsumerSteps

-----------------------------------------------------------------------------
(* The client answers a request only once its consumer has left.           *)

\* All consumers before the waiter of request k have ended.
Handed(k) == \A c \in Consumers : c < k => consumer[c] = "ended"

\* The client has been told of a request, or its relay topic knows it, only
\* after the consumer that made it has handed over.
Shown ==
  /\ \A k \in asked : Handed(k)
  /\ \A m \in Messages : \A i \in DOMAIN relay[m] :
        relay[m][i].type = "request" => Handed(relay[m][i].k)

\* What is handed over stays so.
LEMMA HandedForGood ==
  ASSUME TypesHold, Chain, [Next]_vars, NEW k, Handed(k)
  PROVE  Handed(k)'
<1>0. consumer \in [Consumers -> ConsumerStates]
  BY DEF TypesHold, TypeOK
<1> SUFFICES ASSUME NEW c \in Consumers, consumer[c] = "ended" PROVE consumer'[c] = "ended"
  BY DEF Handed
<1>1. CASE OnlyEnds
  BY <1>1 DEF OnlyEnds
<1>2. ASSUME NEW d \in Consumers, ConsumeDone(d) \/ ConsumeRequest(d)
      PROVE  consumer'[c] = "ended"
  BY <1>0, <1>2 DEF ConsumeDone, ConsumeRequest, Become
<1>3. ASSUME NEW d \in Consumers, SaveRequest(d) PROVE consumer'[c] = "ended"
  <2>1. /\ consumer[d] = "saving" /\ NextRound(d) \in Consumers /\ NextRound(d) > d
    BY <1>3, RoundsAreConsumers DEF SaveRequest, TypesHold, Saves
  <2>2. consumer[NextRound(d)] = "off"
    BY <2>1, TheLastWorks DEF LastOne
  <2> QED
    BY <1>0, <1>3, <2>1, <2>2 DEF SaveRequest
<1>4. ASSUME NEW d \in Rounds, TakeReply(d), pending # 0 PROVE consumer'[c] = "ended"
  BY <1>0, <1>4 DEF TakeReply, Become
<1>5. CASE Execute /\ Become(0, "consuming")
  BY <1>0, <1>5 DEF Execute, Become
<1> QED
  BY <1>1, <1>2, <1>3, <1>4, <1>5, ConsumerSteps

\* A consumer that has taken a reply was handed the answer stream.
LEMMA WorkerIsHanded ==
  ASSUME TypesHold, Forwarding, Shown, NEW c \in Consumers,
         consumer[c] \in {"consuming", "saving", "asking", "finishing"}
  PROVE  Handed(c)
<1>1. CASE c = 0
  BY <1>1, RoundsAreConsumers DEF Handed
<1>2. CASE c # 0
  <2>1. c \in Rounds /\ takes[c] # 0 /\ takes[c] \in Messages
    <3>1. takes \in [Consumers -> 0..MaxMessages] /\ c \in Rounds /\ takes[c] # 0
      BY <1>2, RoundsAreConsumers DEF TypesHold, TypeOK
    <3> QED
      BY <3>1, RoundsAreConsumers DEF Messages
  <2>2. forward[takes[c]].at # "off" /\ forward[takes[c]].k = c
    BY <2>1 DEF Forwarding
  <2>3. c \in asked
    BY <2>1, <2>2 DEF Forwarding
  <2> QED
    BY <2>3 DEF Shown
<1> QED
  BY <1>1, <1>2

\* Every step shows the client only requests that were handed over.
LEMMA ShownKept ==
  TypesHold /\ TypesHold' /\ Chain /\ Forwarding /\ Shown /\ [Next]_vars => Shown'
<1> SUFFICES ASSUME TypesHold, TypesHold', Chain, Forwarding, Shown, [Next]_vars PROVE Shown'
  OBVIOUS
<1> USE DEF clientVars, ownerVars, redisVars, ForwardFrame
<1>0. /\ relay \in [Messages -> Seq(Report)] /\ asked \subseteq Rounds
      /\ \A k : Handed(k) => Handed(k)'
  BY HandedForGood DEF TypesHold, TypeOK
<1>1. ASSUME asked' = asked,
             \A m \in Messages : \A i \in DOMAIN relay'[m] : relay'[m][i].type = "request" =>
                \/ i \in DOMAIN relay[m] /\ relay'[m][i] = relay[m][i]
                \/ Handed(relay[m][i].k)'
      PROVE  Shown'
  BY <1>0, <1>1 DEF Shown
<1>2. UNCHANGED <<asked, relay>> => Shown'
  BY <1>0 DEF Shown
<1>3. ASSUME NEW c \in Consumers, NEW r \in Report, Tell(c, r),
             r.type = "request" => Handed(r.k)'
      PROVE  Shown'
  <2>1. /\ \A k \in asked' : k \in asked \/ r = Request(k)
        /\ \A m \in Messages : relay'[m] = relay[m] \/ relay'[m] = Append(relay[m], r)
    BY <1>3, TellType DEF TypesHold
  <2>2. \A k \in asked' : Handed(k)'
    <3>1. \A k : r = Request(k) => r.type = "request" /\ r.k = k
      BY DEF Request
    <3> QED
      BY <1>0, <1>3, <2>1, <3>1 DEF Shown
  <2>3. ASSUME NEW m \in Messages, NEW i \in DOMAIN relay'[m], relay'[m][i].type = "request"
        PROVE  Handed(relay[m][i].k)'
    <3>1. relay[m] \in Seq(Report) /\ Len(relay[m]) \in Nat
      BY <1>0
    <3>2. (i \in DOMAIN relay[m] /\ relay'[m][i] = relay[m][i]) \/ relay'[m][i] = r
      BY <2>1, <2>3, <3>1, AppendProperties
    <3>3. i \in DOMAIN relay[m] /\ relay[m][i].type = "request" => Handed(relay[m][i].k)
      BY DEF Shown
    <3>4. \A k : k = relay'[m][i].k /\ Handed(k)' => Handed(relay[m][i].k)'
      BY DEF Handed
    <3>5. PICK k : k = relay'[m][i].k /\ Handed(k)'
      BY <1>0, <1>3, <2>3, <3>2, <3>3
    <3> QED
      BY <3>4, <3>5
  <2> QED
    BY <2>2, <2>3 DEF Shown
<1>4. ASSUME NEW c \in Consumers, Consume(c) PROVE Shown'
  <2>1. CASE Ask(c)
    <3>1. c < MaxRounds /\ NextRound(c) \in Rounds /\ NextRound(c) = c + 1 /\ consumer[c] = "asking"
      BY <2>1, RoundsAreConsumers DEF Ask, TypesHold, Saves, NextRound
    <3>2. Handed(c)
      BY <3>1, WorkerIsHanded
    <3>3. consumer'[c] = "ended"
      BY <2>1 DEF Ask, Become, TypesHold, TypeOK
    <3>4. \A d \in Consumers : d < NextRound(c) => d = c \/ d < c
      BY <3>1, RoundsAreConsumers
    <3>5. \A d \in Consumers : d < NextRound(c) => consumer'[d] = "ended"
      BY <1>0, <3>2, <3>3, <3>4 DEF Handed
    <3>6. Request(NextRound(c)) \in Report /\ Request(NextRound(c)).k = NextRound(c)
      BY <3>1 DEF Report, Request
    <3>7. \A k : k = NextRound(c) => Handed(k)'
      BY <3>5 DEF Handed
    <3>8. Tell(c, Request(NextRound(c)))
      BY <2>1 DEF Ask
    <3> DEFINE r == Request(NextRound(c))
    <3>9. Handed(r.k)'
      BY <3>6, <3>7
    <3> QED
      BY <1>3, <3>6, <3>8, <3>9
  <2>2. CASE ConsumeError(c) \/ ReportDone(c)
    <3>1. /\ Done \in Report /\ Failed \in Report
          /\ Done.type # "request" /\ Failed.type # "request"
      BY DEF Report, Done, Failed
    <3> QED
      BY <1>2, <1>3, <2>2, <3>1 DEF ConsumeError, ReportDone
  <2>3. CASE StopCancelled(c) \/ ConsumeDone(c) \/ ConsumeRequest(c) \/ SaveRequest(c)
    BY <1>2, <2>3 DEF StopCancelled, ConsumeDone, ConsumeRequest, SaveRequest
  <2> QED
    BY <1>4, <2>1, <2>2, <2>3 DEF Consume
<1>5. ASSUME NEW m \in Messages, ReadRelay(m) PROVE Shown'
  <2> DEFINE r == Head(relay[m])
  <2>1. /\ relay[m] \in Seq(Report) /\ relay[m] # <<>>
        /\ relay' = [relay EXCEPT ![m] = Tail(@)]
        /\ asked' = IF r.type = "request" THEN asked \cup {r.k} ELSE asked
    BY <1>0, <1>5 DEF ReadRelay
  <2>2. r = relay[m][1] /\ 1 \in DOMAIN relay[m]
    BY <2>1, EmptySeq
  <2> HIDE DEF r
  <2>3. r.type = "request" => Handed(r.k)
    BY <2>2 DEF Shown
  <2>4. \A k \in asked' : Handed(k)
    BY <2>1, <2>3 DEF Shown
  <2>5. ASSUME NEW n \in Messages, NEW i \in DOMAIN relay'[n], relay'[n][i].type = "request"
        PROVE  Handed(relay'[n][i].k)
    <3>1. CASE n # m
      BY <1>0, <2>1, <2>5, <3>1 DEF Shown
    <3>2. CASE n = m
      <4>1. relay'[m] = Tail(relay[m]) /\ i \in DOMAIN Tail(relay[m])
        BY <1>0, <2>1, <2>5, <3>2
      <4>2. i + 1 \in DOMAIN relay[m] /\ Tail(relay[m])[i] = relay[m][i + 1]
        BY <2>1, <4>1
      <4> QED
        BY <2>5, <3>2, <4>1, <4>2 DEF Shown
    <3> QED
      BY <3>1, <3>2
  <2>6. \A k : Handed(k) => \A d \in Consumers : d < k => consumer'[d] = "ended"
    BY <1>0 DEF Handed
  <2> QED
    BY <2>4, <2>5, <2>6 DEF Shown, Handed
<1>6. ASSUME NEW m \in Messages, Feedback(m) \/ (HandleFeedback(m) /\ ~ReadRelay(m)) PROVE Shown'
  BY <1>2, <1>6 DEF Feedback, HandleFeedback, Claim, ForwardReply, RelayTimeout
<1>7. ASSUME NEW k \in Rounds, Wait(k) PROVE Shown'
  BY <1>2, <1>7 DEF Wait, TakeReply, WaiterTimeout
<1>8. CASE \/ Execute \/ Cancel \/ TakeCancel \/ ListenerEnds \/ Crash \/ ExpireRecord
           \/ ExpireOwner \/ \E i \in Instances : ReadOwner(i)
  BY <1>2, <1>8 DEF Execute, Cancel, TakeCancel, CancelLocalTask, ListenerEnds, Crash, ExpireRecord,
     ExpireOwner, ReadOwner
<1> QED
  BY <1>2, <1>4, <1>5, <1>6, <1>7, <1>8 DEF Next, vars

-----------------------------------------------------------------------------
(* What the owner has registered is what its consumers do.                 *)

\* Nothing has failed, and the client has not begun to cancel the task.
Calm == failures = 0 /\ cancel.at = "off"

\* A recorded request has its waiter, the pending request is the one that is
\* waited for or about to be saved, and a task that streams or waits can be
\* cancelled.
Attended ==
  /\ record # 0 => consumer[record] = "waiting"
  /\ \A k \in Rounds : consumer[k] \in {"waiting", "consuming"} => pending = k
  /\ \A c \in Consumers : consumer[c] = "saving" => pending = NextRound(c)
  /\ consumer[0] \in {"consuming", "saving", "asking"} => active
  /\ active \/ pending # 0 => listening /\ ownerRec = owner

Registered ==
  /\ cancelMail => cancel.at = "told"
  /\ cancelled => ~Calm
  /\ \A c \in Consumers : consumer[c] = "finishing" => pending = 0
  /\ active => consumer[0] \in {"consuming", "saving", "asking", "finishing"}
  /\ Calm => Attended

\* A consumer that is busy works alone, and execute() has left unless it is
\* that consumer.
LEMMA WorksAlone ==
  ASSUME TypesHold, Chain, Forwarding, Shown, Registered, NEW c \in Consumers, Busy(c)
  PROVE  /\ \A d \in Consumers \ {c} : consumer[d] \in {"off", "ended"}
         /\ c # 0 => ~active
         /\ record = 0
<1>1. LastOne(c) /\ Handed(c)
  BY TheLastWorks, WorkerIsHanded DEF Busy
<1>2. \A d \in Consumers \ {c} : d < c \/ d > c
  BY RoundsAreConsumers
<1>3. \A d \in Consumers \ {c} : consumer[d] \in {"off", "ended"}
  BY <1>1, <1>2 DEF LastOne, Handed
<1>4. c # 0 => ~active
  BY <1>3, RoundsAreConsumers DEF Registered
<1> QED
  BY <1>3, <1>4, NothingInFlight

\* Nothing has to be registered for a task once none of its consumers is at work.
LEMMA NobodyAtWork ==
  ASSUME \A c \in Consumers : consumer'[c] \in {"off", "ended"}, ~active',
         pending' = 0 \/ ~Calm', record' = 0 \/ ~Calm', cancelMail' => cancel'.at = "told",
         cancelled' => ~Calm'
  PROVE  Registered'
BY RoundsAreConsumers DEF Registered, Attended

\* Consuming the answer stream.
LEMMA ConsumeRegistered ==
  ASSUME TypesHold, TypesHold', Chain, Forwarding, Shown, Registered, NEW c \in Consumers, Consume(c)
  PROVE  Registered'
<1> USE DEF clientVars, redisVars
<1>0. consumer \in [Consumers -> ConsumerStates]
  BY DEF TypesHold, TypeOK
<1>1. ASSUME NEW s \in ConsumerStates, Become(c, s)
      PROVE  consumer'[c] = s /\ \A d \in Consumers \ {c} : consumer'[d] = consumer[d]
  BY <1>0, <1>1 DEF Become
<1>2. UNCHANGED <<failures, cancelMail>> /\ cancel' = cancel
  BY DEF Consume, StopCancelled, ConsumeError, ConsumeDone, ReportDone, ConsumeRequest, SaveRequest,
     Ask, Tell
<1>3. Calm' <=> Calm
  BY <1>2 DEF Calm
<1>4. ASSUME Become(c, "ended"), Busy(c), Leave(c),
             pending' = 0 \/ ~Calm', record' = 0 \/ ~Calm', ~cancelled'
      PROVE  Registered'
  <2>1. \A d \in Consumers : consumer'[d] \in {"off", "ended"}
    BY <1>1, <1>4, WorksAlone DEF ConsumerStates
  <2>2. ~active'
    BY <1>4, WorksAlone DEF Leave
  <2>3. cancelMail' => cancel'.at = "told"
    BY <1>2 DEF Registered
  <2> QED
    BY <1>4, <2>1, <2>2, <2>3, NobodyAtWork
<1>5. CASE StopCancelled(c)
  <2>1. ~Calm'
    BY <1>3, <1>5 DEF StopCancelled, Registered
  <2> QED
    BY <1>4, <1>5, <2>1 DEF StopCancelled, FinishOwnedTask, Busy
<1>6. CASE ConsumeError(c)
  <2>1. record' = 0
    BY <1>6, WorksAlone DEF ConsumeError, Busy
  <2> QED
    BY <1>4, <1>6, <2>1 DEF ConsumeError, FinishOwnedTask, Busy
<1>7. CASE ReportDone(c)
  <2>1. record' = 0 /\ pending' = 0
    BY <1>7, WorksAlone DEF ReportDone, Busy, Registered
  <2> QED
    BY <1>4, <1>7, <2>1 DEF ReportDone, FinishOwnedTask, Busy
<1>8. CASE ConsumeDone(c)
  <2>1. /\ \A d \in Consumers \ {c} : consumer'[d] \in {"off", "ended"}
        /\ consumer'[c] = "finishing" /\ (c # 0 => ~active)
    BY <1>1, <1>8, WorksAlone DEF ConsumeDone, Busy, ConsumerStates
  <2>2. /\ pending' = 0 /\ record' = 0 /\ UNCHANGED <<active, cancelled, listening, ownerRec, owner>>
    BY <1>8 DEF ConsumeDone
  <2>3. \A d \in Consumers : consumer'[d] \in {"off", "ended", "finishing"}
    BY <2>1
  <2>4. Calm' => Attended'
    BY <1>3, <2>2, <2>3, RoundsAreConsumers DEF Registered, Attended
  <2>5. active' => consumer'[0] \in {"consuming", "saving", "asking", "finishing"}
    BY <2>1, <2>2
  <2> QED
    BY <1>2, <1>3, <2>2, <2>4, <2>5 DEF Registered
<1>9. CASE ConsumeRequest(c)
  <2>1. /\ \A d \in Consumers \ {c} : consumer'[d] \in {"off", "ended"}
        /\ consumer'[c] = "saving" /\ (c # 0 => ~active) /\ record = 0 /\ consumer[c] = "consuming"
    BY <1>1, <1>9, WorksAlone DEF ConsumeRequest, Busy, ConsumerStates
  <2>2. /\ pending' = NextRound(c)
        /\ UNCHANGED <<record, active, cancelled, listening, ownerRec, owner>>
    BY <1>9 DEF ConsumeRequest
  <2>3. Calm => active \/ pending # 0
    BY <2>1, RoundsAreConsumers DEF Registered, Attended
  <2>4. Calm' => Attended'
    <3>1. \A k \in Rounds : consumer'[k] \notin {"waiting", "consuming"}
      BY <2>1, RoundsAreConsumers
    <3>2. \A d \in Consumers : consumer'[d] = "saving" => d = c
      BY <2>1
    <3>3. Calm => listening /\ ownerRec = owner
      BY <2>3 DEF Registered, Attended
    <3>4. Calm /\ consumer'[0] \in {"consuming", "saving", "asking"} => active
      BY <2>1, RoundsAreConsumers DEF Registered, Attended
    <3> QED
      BY <1>3, <2>1, <2>2, <3>1, <3>2, <3>3, <3>4 DEF Attended
  <2>5. active' => consumer'[0] \in {"consuming", "saving", "asking", "finishing"}
    BY <2>1, <2>2
  <2>6. \A d \in Consumers : consumer'[d] # "finishing"
    BY <2>1
  <2> QED
    BY <1>2, <1>3, <2>2, <2>4, <2>5, <2>6 DEF Registered
<1>10. CASE SaveRequest(c)
  <2> DEFINE k == NextRound(c)
  <2>0. /\ consumer[c] = "saving" /\ k \in Rounds /\ k \in Consumers /\ k # c /\ k # 0
    BY <1>10, RoundsAreConsumers DEF SaveRequest, TypesHold, Saves
  <2>1. /\ \A d \in Consumers \ {c} : consumer[d] \in {"off", "ended"}
        /\ c # 0 => ~active
    BY <2>0, WorksAlone DEF Busy
  <2>2. /\ record' = k /\ ownerRec' = (IF c = 0 THEN ownerRec ELSE owner)
        /\ UNCHANGED <<pending, active, cancelled, listening, owner>>
    BY <1>10 DEF SaveRequest
  <2>3. consumer' = [consumer EXCEPT ![c] = "asking", ![k] = "waiting"]
    BY <1>10 DEF SaveRequest
  <2> HIDE DEF k
  <2>4. /\ consumer'[c] = "asking" /\ consumer'[k] = "waiting"
        /\ \A d \in Consumers \ {c, k} : consumer'[d] \in {"off", "ended"}
    BY <1>0, <2>0, <2>1, <2>3
  <2>5. Calm => pending = k /\ listening /\ ownerRec' = owner
    BY <2>0, <2>2 DEF Registered, Attended, k
  <2>6. Calm' => Attended'
    <3>1. \A j \in Rounds : consumer'[j] \in {"waiting", "consuming"} => j = k
      BY <2>4, RoundsAreConsumers
    <3>2. \A d \in Consumers : consumer'[d] # "saving"
      BY <2>4
    <3>3. Calm /\ consumer'[0] \in {"consuming", "saving", "asking"} => active
      BY <2>0, <2>4, RoundsAreConsumers DEF Registered, Attended
    <3> QED
      BY <1>3, <2>2, <2>4, <2>5, <3>1, <3>2, <3>3 DEF Attended
  <2>7. active' => consumer'[0] \in {"consuming", "saving", "asking", "finishing"}
    BY <2>1, <2>2, <2>4
  <2>8. \A d \in Consumers : consumer'[d] # "finishing"
    BY <2>4
  <2> QED
    BY <1>2, <1>3, <2>2, <2>6, <2>7, <2>8 DEF Registered
<1>11. CASE Ask(c)
  <2>1. /\ consumer[c] = "asking" /\ consumer'[c] = "ended"
        /\ \A d \in Consumers \ {c} : consumer'[d] = consumer[d]
        /\ active' = (IF c = 0 THEN FALSE ELSE active)
        /\ UNCHANGED <<pending, record, cancelled, listening, ownerRec, owner>>
    BY <1>1, <1>11 DEF Ask, Leave, ConsumerStates
  <2>2. Calm' => Attended'
    <3>1. Calm /\ record # 0 => consumer'[record] = "waiting"
      <4>1. record # 0 => record \in Consumers
        BY DEF TypesHold, TypeOK, Consumers
      <4> QED
        BY <2>1, <4>1 DEF Registered, Attended
    <3>2. /\ \A j \in Rounds : consumer'[j] \in {"waiting", "consuming"} => consumer[j] = consumer'[j]
          /\ \A d \in Consumers : consumer'[d] = "saving" => consumer[d] = "saving"
      BY <2>1, RoundsAreConsumers
    <3>3. Calm /\ consumer'[0] \in {"consuming", "saving", "asking"} => active'
      BY <2>1, RoundsAreConsumers DEF Registered, Attended
    <3>4. active' => active
      BY <2>1
    <3> QED
      BY <1>3, <2>1, <3>1, <3>2, <3>3, <3>4 DEF Registered, Attended
  <2>3. active' => consumer'[0] \in {"consuming", "saving", "asking", "finishing"}
    BY <2>1, RoundsAreConsumers DEF Registered
  <2>4. \A d \in Consumers : consumer'[d] = "finishing" => pending' = 0
    BY <2>1 DEF Registered
  <2> QED
    BY <1>2, <1>3, <2>1, <2>2, <2>3, <2>4 DEF Registered
<1> QED
  BY <1>5, <1>6, <1>7, <1>8, <1>9, <1>10, <1>11 DEF Consume

\* Taking a reply, or giving up.
LEMMA WaitRegistered ==
  ASSUME TypesHold, Chain, Forwarding, Registered, NEW k \in Rounds, Wait(k)
  PROVE  Registered'
<1> USE DEF clientVars, redisVars
<1>0. /\ consumer \in [Consumers -> ConsumerStates] /\ k \in Consumers /\ k # 0
      /\ consumer[k] = "waiting"
  BY RoundsAreConsumers DEF TypesHold, TypeOK, Wait, TakeReply, WaiterTimeout
<1>1. UNCHANGED <<failures, cancel, cancelMail>> /\ (Calm' <=> Calm)
  BY DEF Wait, TakeReply, WaiterTimeout, Calm
<1>2. CASE TakeReply(k) /\ pending = 0
  <2>1. ~Calm
    BY <1>0, <1>2, RoundsAreConsumers DEF Registered, Attended
  <2>2. /\ \A c \in Consumers \ {k} : consumer'[c] = consumer[c]
        /\ consumer'[k] = "ended" /\ UNCHANGED <<active, pending, cancelled>>
    BY <1>0, <1>2 DEF TakeReply, Become, Leave
  <2>3. active' => consumer'[0] \in {"consuming", "saving", "asking", "finishing"}
    BY <1>0, <2>2, RoundsAreConsumers DEF Registered
  <2>4. \A c \in Consumers : consumer'[c] = "finishing" => pending' = 0
    BY <2>2 DEF Registered
  <2> QED
    BY <1>1, <2>1, <2>2, <2>3, <2>4 DEF Registered
<1>3. CASE TakeReply(k) /\ pending # 0
  <2>1. /\ \A c \in Consumers \ {k} : consumer'[c] = consumer[c]
        /\ consumer'[k] = "consuming"
        /\ UNCHANGED <<active, pending, cancelled, record, listening, ownerRec, owner>>
    BY <1>0, <1>3 DEF TakeReply, Become
  <2>2. record = 0
    BY <1>0, <1>3, ReplyIsForItsWaiter DEF TakeReply, Forwarding, InFlight
  <2>3. Calm' => Attended'
    <3>1. Calm => pending = k
      BY <1>0 DEF Registered, Attended
    <3>2. \A j \in Rounds \ {k} : consumer'[j] = consumer[j]
      BY <2>1, RoundsAreConsumers
    <3>3. /\ consumer'[0] = consumer[0]
          /\ \A c \in Consumers : consumer'[c] = "saving" => consumer[c] = "saving"
      BY <1>0, <2>1, RoundsAreConsumers
    <3> QED
      BY <1>1, <2>1, <2>2, <3>1, <3>2, <3>3 DEF Registered, Attended
  <2>4. active' => consumer'[0] \in {"consuming", "saving", "asking", "finishing"}
    BY <1>0, <2>1, RoundsAreConsumers DEF Registered
  <2>5. \A c \in Consumers : consumer'[c] = "finishing" => pending' = 0
    BY <2>1 DEF Registered
  <2> QED
    BY <1>1, <2>1, <2>3, <2>4, <2>5 DEF Registered
<1>4. CASE WaiterTimeout(k)
  <2>1. /\ \A c \in Consumers \ {k} : consumer'[c] = consumer[c]
        /\ consumer'[k] = "ended" /\ pending' = 0 /\ record' = 0 /\ ~cancelled'
        /\ active' = active /\ \A c \in Consumers : consumer[c] # "asking"
    BY <1>0, <1>4 DEF WaiterTimeout, Become, Leave, FinishOwnedTask
  <2>2. \A c \in Consumers \ {k} : consumer[c] \in {"off", "ended"}
    <3>1. LastOne(k)
      BY <1>0, TheLastWorks
    <3>2. \A c \in Consumers : c < k => consumer[c] \in {"asking", "ended"}
      BY <1>0 DEF Chain
    <3>3. \A c \in Consumers \ {k} : c < k \/ c > k
      BY <1>0, RoundsAreConsumers
    <3> QED
      BY <2>1, <3>1, <3>2, <3>3 DEF LastOne
  <2>3. ~active
    BY <1>0, <2>2, RoundsAreConsumers DEF Registered
  <2>4. cancelMail' => cancel'.at = "told"
    BY <1>1 DEF Registered
  <2> QED
    BY <2>1, <2>2, <2>3, <2>4, NobodyAtWork
<1> QED
  BY <1>2, <1>3, <1>4 DEF Wait

\* A cancellation, at the owner or elsewhere, ends what it finds.
LEMMA CancelRegistered ==
  ASSUME TypesHold, Registered, NEW i, CancelLocalTask(i), cancel'.at = "told"
  PROVE  Registered'
<1>1. ~Calm'
  BY DEF Calm
<1>2. /\ \A c \in Consumers : consumer'[c] = "finishing" => consumer[c] = "finishing"
      /\ pending' \in {0, pending}
      /\ active' = FALSE \/ (active' = active /\ consumer' = consumer)
  <2>1. \A c \in Consumers : StopWaiter /\ consumer'[c] = "finishing" => consumer[c] = "finishing"
    BY DEF StopWaiter, TypesHold, TypeOK
  <2> QED
    BY <2>1 DEF CancelLocalTask
<1> QED
  BY <1>1, <1>2 DEF Registered

\* Every step keeps the owner's registers.
LEMMA RegisteredKept ==
  /\ TypesHold /\ TypesHold' /\ Chain /\ Forwarding /\ Shown /\ Registered
  /\ [Next]_vars
  => Registered'
<1> SUFFICES ASSUME TypesHold, TypesHold', Chain, Forwarding, Shown, Registered, [Next]_vars
             PROVE  Registered'
  OBVIOUS
<1> USE DEF clientVars, ownerVars, redisVars, ForwardFrame
<1>0. consumer \in [Consumers -> ConsumerStates]
  BY DEF TypesHold, TypeOK
<1>1. CASE Execute
  <2>1. /\ consumer[0] = "off" /\ UNCHANGED <<cancel, cancelMail, failures, cancelled, pending, record, owner>>
        /\ Calm' <=> Calm
    BY <1>1 DEF Execute, Calm
  <2>2. /\ \A c \in Consumers \ {0} : consumer'[c] = consumer[c]
        /\ \/ consumer'[0] = "ended" /\ UNCHANGED <<active, listening, ownerRec>>
           \/ consumer'[0] = "consuming" /\ active' /\ listening' /\ ownerRec' = owner
    BY <1>0, <1>1, RoundsAreConsumers DEF Execute, Become
  <2>3. ~active /\ record = 0
    BY <2>1, NothingInFlight, RoundsAreConsumers DEF Registered
  <2>4. Calm' => Attended'
    <3>1. \A k \in Rounds : consumer'[k] = consumer[k]
      BY <2>2, RoundsAreConsumers
    <3>2. \A c \in Consumers : consumer'[c] = "saving" => consumer[c] = "saving"
      BY <2>2
    <3> QED
      BY <2>1, <2>2, <2>3, <3>1, <3>2 DEF Registered, Attended
  <2>5. active' => consumer'[0] \in {"consuming", "saving", "asking", "finishing"}
    BY <2>2, <2>3
  <2>6. \A c \in Consumers : consumer'[c] = "finishing" => pending' = 0
    BY <2>1, <2>2 DEF Registered
  <2> QED
    BY <2>1, <2>4, <2>5, <2>6 DEF Registered
<1>2. ASSUME NEW i \in Instances, ReadOwner(i) PROVE Registered'
  <2>1. cancel.at = "off" /\ ~cancelMail /\ ~Calm'
    BY <1>2 DEF ReadOwner, Calm, Registered
  <2> QED
    BY <1>2, <2>1 DEF ReadOwner, Registered
<1>3. CASE Cancel
  <2>1. cancel'.at = "told"
    BY <1>3 DEF Cancel, TypesHold, TypeOK
  <2>2. CASE CancelLocalTask(cancel.by)
    BY <2>1, <2>2, CancelRegistered
  <2>3. CASE UNCHANGED ownerVars
    BY <2>1, <2>3 DEF Registered, Calm
  <2> QED
    BY <1>3, <2>2, <2>3 DEF Cancel
<1>4. CASE TakeCancel
  <2>1. cancel'.at = "told" /\ CancelLocalTask(owner)
    BY <1>4 DEF TakeCancel, Registered
  <2> QED
    BY <2>1, CancelRegistered
<1>5. CASE ListenerEnds
  <2>1. CASE ~ListenerRuns /\ UNCHANGED failures
    BY <1>5, <2>1 DEF ListenerEnds, ListenerRuns, Registered, Calm, Attended
  <2>2. CASE failures' = failures + 1
    <3>1. ~Calm'
      BY <2>2, RoundsAreConsumers DEF Calm, TypesHold, TypeOK
    <3> QED
      BY <1>5, <3>1 DEF ListenerEnds, Registered
  <2> QED
    BY <1>5, <2>1, <2>2 DEF ListenerEnds
<1>6. CASE Crash
  <2>1. ~Calm'
    BY <1>6, RoundsAreConsumers DEF Crash, Calm, TypesHold, TypeOK
  <2>2. \A c \in Consumers : consumer'[c] \in {"off", "ended"}
    BY <1>6 DEF Crash
  <2>3. ~active' /\ ~cancelled' /\ (cancelMail' => cancel'.at = "told")
    BY <1>6 DEF Crash, Registered
  <2> QED
    BY <2>1, <2>2, <2>3, NobodyAtWork
<1>7. CASE ExpireOwner
  <2>1. Calm' <=> Calm
    BY <1>7 DEF ExpireOwner, Calm
  <2>2. Calm' => Attended'
    BY <1>7, <2>1 DEF ExpireOwner, Registered, Attended
  <2> QED
    BY <1>7, <2>1, <2>2 DEF ExpireOwner, Registered
<1>8. ASSUME record' \in {0, record}, UNCHANGED <<cancel, ownerVars, ownerRec, cancelMail>>
      PROVE  Registered'
  <2>1. Calm' <=> Calm
    BY <1>8 DEF Calm
  <2>2. Attended => Attended'
    BY <1>8 DEF Attended
  <2> QED
    BY <1>8, <2>1, <2>2 DEF Registered
<1>9. CASE ExpireRecord
  BY <1>8, <1>9 DEF ExpireRecord
<1>10. ASSUME NEW m \in Messages, Feedback(m) \/ HandleFeedback(m) PROVE Registered'
  BY <1>8, <1>10
  DEF Feedback, HandleFeedback, Claim, ClaimedRecord, ForwardReply, ReadRelay, RelayTimeout
<1>11. CASE UNCHANGED vars
  BY <1>8, <1>11 DEF vars
<1> QED
  BY <1>1, <1>2, <1>3, <1>4, <1>5, <1>6, <1>7, <1>9, <1>10, <1>11,
     ConsumeRegistered, WaitRegistered DEF Next

\* A request is recorded only with a waiter behind it, a reply reaches the
\* request it was made to whichever replicas forward it, one coroutine reads
\* the answer stream at a time, and the task can be cancelled until it is over
\* (executor.py _stream_until_pause, _wait_for_feedback, _forward_feedback).
THEOREM TaskServed == Spec => []TaskIsServed
<1> DEFINE Inv == TypesHold /\ Chain /\ Forwarding /\ Shown /\ Registered
<1>1. Init => Inv
  <2> SUFFICES ASSUME Init PROVE Inv
    OBVIOUS
  <2>1. TypesHold
    BY InitTypes
  <2>2. \A c \in Consumers : consumer[c] = "off" /\ takes[c] = 0
    BY DEF Init
  <2>3. \A m \in Messages : relay[m] = <<>> /\ forward[m].at = "off" /\ ~Queued(m)
    BY DEF Init, Queued
  <2>4. Forwarding
    BY <2>2, <2>3, RoundsAreConsumers DEF Init, Forwarding, InFlight
  <2>5. Shown
    BY <2>3, EmptySeq DEF Init, Shown
  <2>6. Registered /\ Chain
    BY <2>2, RoundsAreConsumers DEF Init, Registered, Attended, Chain
  <2> QED
    BY <2>1, <2>4, <2>5, <2>6
<1>2. Inv /\ [Next]_vars => Inv'
  BY TypesKept, ChainKept, ForwardingKept, ShownKept, RegisteredKept
<1>3. Inv => TaskIsServed
  <2> SUFFICES ASSUME Inv PROVE TaskIsServed
    OBVIOUS
  <2>1. RepliesReachTheirRequest
    BY DEF RepliesReachTheirRequest, Forwarding
  <2>2. OneConsumer
    <3> DEFINE S == {c \in Consumers : consumer[c] \in {"consuming", "saving", "finishing"}}
    <3>1. \A c, d \in S : c = d
      <4> SUFFICES ASSUME NEW c \in S, NEW d \in S, c # d PROVE FALSE
        OBVIOUS
      <4>1. c < d \/ d < c
        BY RoundsAreConsumers
      <4> QED
        BY <4>1 DEF Chain
    <3>2. S = {} \/ \E c : S = {c}
      BY <3>1
    <3>3. Cardinality(S) = 0 \/ Cardinality(S) = 1
      BY <3>2, FS_EmptySet, FS_Singleton
    <3> QED
      BY <3>3 DEF OneConsumer
  <2>3. RecordHasWaiter
    BY DEF RecordHasWaiter, Registered, Calm, Attended, TypesHold, TypeOK, Rounds
  <2>4. TaskCanBeCancelled
    BY DEF TaskCanBeCancelled, Registered, Calm, Attended
  <2> QED
    BY <2>1, <2>2, <2>3, <2>4 DEF TaskIsServed
<1> QED
  BY <1>1, <1>2, <1>3, PTL DEF Spec
=============================================================================
