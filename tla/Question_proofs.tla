--------------------------- MODULE Question_proofs ---------------------------
(***************************************************************************)
(* Proofs about what a question goes through, for every value of the       *)
(* constants: the turns of SmartAgent, the filters of NucliaDBAsk, the     *)
(* session a question is asked in (SessionStore, QAHistory), the calls of  *)
(* MCPClient, the text gathered by A2AClient, and, as instances, the       *)
(* programs of RestrictedAgent, the graphs of Evolution, the contexts of   *)
(* Retrieval and the configuration in AgentStore.                          *)
(***************************************************************************)
EXTENDS SmartAgent, NucliaDBAsk, SessionStore, QAHistory, MCPClient, A2AClient,
        FiniteSetTheorems, SequenceTheorems, WellFoundedInduction, TLAPS

-----------------------------------------------------------------------------
(* Numbers.                                                                *)

\* A set of numbers has a least one.
LEMMA LeastExists ==
  ASSUME NEW S, S \subseteq Nat, S # {}
  PROVE  \E i \in S : \A j \in S : i <= j
<1>1. PICK i \in S : \A j \in S : ~ (<<j, i>> \in OpToRel(<, Nat))
  BY WFMin, NatLessThanWellFounded
<1>2. \A j \in S : ~(j < i)
  <2>1. \A j, k \in Nat : j < k => <<j, k>> \in OpToRel(<, Nat)
    BY DEF OpToRel
  <2> QED
    BY <1>1, <2>1
<1> QED
  BY <1>2
\* A set of numbers below a bound has a greatest one.
LEMMA GreatestExists ==
  ASSUME NEW n \in Nat, NEW S, S \subseteq 0..n, S # {}
  PROVE  \E i \in S : \A j \in S : j <= i
<1> DEFINE T == {n - i : i \in S}
<1>1. T \subseteq Nat /\ T # {}
  <2>1. \A i \in S : n - i \in Nat
    OBVIOUS
  <2> QED
    BY <2>1
<1>2. PICK k \in T : \A j \in T : k <= j
  BY <1>1, LeastExists
<1>3. PICK i \in S : k = n - i
  OBVIOUS
<1>4. ASSUME NEW j \in S PROVE j <= i
  <2>1. n - j \in T
    OBVIOUS
  <2> QED
    BY <1>2, <1>3, <2>1
<1> QED
  BY <1>4

-----------------------------------------------------------------------------
(* The turns of a SmartAgent.                                              *)

\* The bounds of the loop are numbers.
SmartBounds == MaxIterations \in Nat /\ MaxChosen \in Nat

\* The calls of a turn are a sequence, what is under way or has ended is one of
\* its calls, and a planner is not reactive.
TurnOK ==
  /\ SmartTypeOK
  /\ chosen \in Seq(Items) /\ queue \in Seq(DOMAIN chosen) /\ outcome \in [DOMAIN outcome -> Outcomes]
  /\ DOMAIN outcome \subseteq DOMAIN chosen
  /\ at # "tools" => executing = {} /\ queue = <<>> /\ DOMAIN outcome = {}
  /\ at = "plan" => Mode # "reactive"
  /\ decided \in [Decisions -> Nat]

\* A decision the user has been asked is resolved, or the one being asked.
DecisionsOK ==
  /\ at = "asking" => HasUnresolvedFeedback
  /\ \A d \in Decisions : decided[d] <= 1
  /\ \A d \in Decisions : decided[d] = 1 =>
       d \in resolved \/ (at = "asking" /\ d = chosen[First(Unresolved)].of)

\* An answer is unseen only at the end of its turn and between the loops.
\* While the calls run, each is under way, waits, has ended or was answered.
AnswersOK ==
  /\ at \in {"feedback", "asking", "tools"} => ~unseen
  /\ at = "tools" => answered \cup executing \cup DOMAIN outcome \cup {queue[k] : k \in DOMAIN queue}
                       = Indexes("tool") \cup Indexes("ask")
  /\ EveryCallAnswered

\* The loop is left with an answer the model has not seen only without turns.
UnseenOK ==
  /\ at \in {"plan", "done"} /\ unseen => Turns = MaxIterations
  /\ at = "done" /\ unseen => iteration = MaxIterations

SmartInv == TurnOK /\ DecisionsOK /\ AnswersOK /\ UnseenOK

\* The first of some indexes of the turn is one of them.
LEMMA FirstIsOne ==
  ASSUME NEW S, S \subseteq Nat, S # {}
  PROVE  First(S) \in S /\ \A j \in S : First(S) <= j
BY LeastExists DEF First

\* Calls in their order are the same calls: each waits at its rank.
LEMMA SortedKeeps ==
  ASSUME NEW n \in Nat, NEW S, S \subseteq 1..n
  PROVE  /\ Sorted(S) \in Seq(S)
         /\ {Sorted(S)[k] : k \in DOMAIN Sorted(S)} = S
<1> DEFINE m == Cardinality(S)
           Below(i) == {j \in S : j < i}
           rank == [i \in S |-> Cardinality(Below(i))]
<1>1. IsFiniteSet(S) /\ m \in Nat
  <2>1. IsFiniteSet(1..n) /\ S \in SUBSET (1..n)
    BY FS_Interval
  <2> QED
    BY <2>1, FS_Subset, FS_CardinalityType
<1>2. ASSUME NEW i \in S
      PROVE  IsFiniteSet(Below(i)) /\ Cardinality(Below(i)) \in 0..(m - 1)
  <2>1. Below(i) \in SUBSET S /\ i \notin Below(i)
    OBVIOUS
  <2>2. IsFiniteSet(Below(i)) /\ Cardinality(Below(i)) <= m /\ Cardinality(Below(i)) # m
    BY <1>1, <2>1, FS_Subset
  <2> QED
    BY <1>1, <2>2, FS_CardinalityType
<1>3. ASSUME NEW i \in S, NEW j \in S, j < i
      PROVE  Cardinality(Below(j)) # Cardinality(Below(i))
  <2>1. Below(j) \in SUBSET Below(i) /\ j \in Below(i) /\ j \notin Below(j)
    <3>1. i \in Nat /\ j \in Nat /\ \A h \in S : h \in Nat
      OBVIOUS
    <3>2. \A h \in S : h < j => h < i
      BY <1>3, <3>1
    <3>3. Below(j) \in SUBSET Below(i)
      BY <3>2
    <3>4. j \in Below(i) /\ j \notin Below(j)
      BY <1>3, <3>1
    <3> QED
      BY <3>3, <3>4
  <2> QED
    BY <1>2, <2>1, FS_Subset
<1>4. rank \in Injection(S, 0..(m - 1))
  <2>1. rank \in [S -> 0..(m - 1)]
    BY <1>2
  <2>2. ASSUME NEW i \in S, NEW j \in S, rank[i] = rank[j]
        PROVE  i = j
    BY <1>3, <2>2
  <2> QED
    BY <2>1, <2>2, Zenon DEF Injection, IsInjective
<1>5. rank \in Surjection(S, 0..(m - 1))
  <2>1. IsFiniteSet(0..(m - 1)) /\ Cardinality(0..(m - 1)) = m
    BY <1>1, FS_Interval, SMTT(30)
  <2>2. Cardinality(S) = Cardinality(0..(m - 1))
    BY <2>1
  <2> HIDE DEF rank, m
  <2> QED
    BY <1>4, <2>1, <2>2, FS_Injection, Zenon
<1>6. ASSUME NEW k \in 1..m
      PROVE  Sorted(S)[k] \in S /\ Cardinality(Below(Sorted(S)[k])) = k - 1
  <2>1. k - 1 \in 0..(m - 1)
    BY <1>1
  <2>2. \E i \in S : rank[i] = k - 1
    BY <1>5, <2>1, Zenon DEF Surjection
  <2>3. \E i \in S : Cardinality(Below(i)) = k - 1
    BY <2>2
  <2> QED
    BY <2>3 DEF Sorted
<1>7. DOMAIN Sorted(S) = 1..m
  BY DEF Sorted
<1>8. Sorted(S) \in Seq(S)
  <2>1. \A k \in 1..m : Sorted(S)[k] \in S
    BY <1>6
  <2>2. Sorted(S) \in [1..m -> S]
    BY <2>1, Zenon DEF Sorted
  <2> QED
    BY <1>1, <2>2
<1>9. ASSUME NEW i \in S
      PROVE  \E k \in 1..m : Sorted(S)[k] = i
  <2>1. Cardinality(Below(i)) + 1 \in 1..m
    BY <1>1, <1>2
  <2>2. PICK j \in S : j = Sorted(S)[Cardinality(Below(i)) + 1] /\ Cardinality(Below(j)) = Cardinality(Below(i))
    <3>1. PICK k \in 1..m : k = Cardinality(Below(i)) + 1
      BY <2>1
    <3>2. Sorted(S)[k] \in S /\ Cardinality(Below(Sorted(S)[k])) = k - 1
      BY <1>6
    <3>3. k - 1 = Cardinality(Below(i))
      BY <1>2, <3>1
    <3> QED
      BY <3>1, <3>2, <3>3
  <2>3. ~(j < i) /\ ~(i < j)
    BY <1>3, <2>2
  <2>4. Sorted(S)[Cardinality(Below(i)) + 1] = i
    BY <2>2, <2>3
  <2> QED
    BY <2>1, <2>4
<1> QED
  BY <1>6, <1>7, <1>8, <1>9

\* The indexes of the calls of a turn are numbers, each of one kind.
LEMMA IndexesOfTurn ==
  ASSUME TurnOK
  PROVE  /\ DOMAIN chosen = 1..Len(chosen) /\ Len(chosen) \in Nat
         /\ Indexes("tool") \subseteq DOMAIN chosen /\ Indexes("ask") \subseteq DOMAIN chosen
         /\ Indexes("tool") \cap Indexes("ask") = {}
         /\ Unresolved \subseteq Nat
         /\ \A i \in Indexes("tool") : chosen[i].of \in Calls
         /\ \A i \in Indexes("ask") : chosen[i].of \in Decisions
<1>1. DOMAIN chosen = 1..Len(chosen) /\ Len(chosen) \in Nat /\ \A i \in DOMAIN chosen : chosen[i] \in Items
  BY DEF TurnOK
<1> QED
  BY <1>1 DEF Indexes, Unresolved, Items

\* A run begins without calls and without feedback.
LEMMA SmartBegins ==
  ASSUME SmartBounds, SmartInit
  PROVE  SmartInv
<1>1. chosen = <<>> /\ queue = <<>> /\ outcome = <<>> /\ DOMAIN chosen = {} /\ DOMAIN outcome = {}
  BY DEF SmartInit
<1>2. SmartTypeOK
  BY <1>1 DEF SmartInit, SmartTypeOK, SmartBounds, Unattempted, Outcomes
<1>3. TurnOK
  BY <1>1, <1>2 DEF SmartInit, TurnOK
<1>4. DecisionsOK /\ AnswersOK /\ UnseenOK
  BY DEF SmartInit, DecisionsOK, AnswersOK, EveryCallAnswered, UnseenOK
<1> QED
  BY <1>3, <1>4 DEF SmartInv

\* The planner plans, or ends the run (_plan_and_execute).
LEMMA PlannerKeeps ==
  ASSUME SmartBounds, SmartInv, CallPlanner
  PROVE  SmartInv'
<1>1. TurnOK'
  BY DEF SmartInv, TurnOK, SmartTypeOK, SmartBounds, CallPlanner, PlannerSays, Unattempted, Outcomes
<1>2. DecisionsOK'
  BY DEF SmartInv, DecisionsOK, CallPlanner, PlannerSays
<1>3. AnswersOK' /\ UnseenOK'
  BY DEF SmartInv, TurnOK, AnswersOK, EveryCallAnswered, UnseenOK, CallPlanner, PlannerSays, Turns
<1> QED
  BY <1>1, <1>2, <1>3 DEF SmartInv

\* The model chooses calls, or none, or there is no turn left (choose_tools).
LEMMA ChooserKeeps ==
  ASSUME SmartBounds, SmartInv, ChooseTools
  PROVE  SmartInv'
<1>1. CASE Turns = MaxIterations
  <2>1. TurnOK'
    BY <1>1 DEF SmartInv, TurnOK, SmartTypeOK, ChooseTools, Over
  <2>2. DecisionsOK' /\ AnswersOK' /\ UnseenOK'
    BY <1>1 DEF SmartInv, DecisionsOK, AnswersOK, EveryCallAnswered, UnseenOK, ChooseTools, Over, Turns
  <2> QED
    BY <2>1, <2>2 DEF SmartInv
<1>2. CASE Turns # MaxIterations
  <2>1. PICK n \in 0..MaxChosen : chosen' \in [1..n -> ReactiveTools]
    BY <1>2 DEF ChooseTools
  <2>2. chosen' \in Seq(Items) /\ \A i \in DOMAIN chosen' : chosen'[i] \in Items
    <3>1. chosen' \in [1..n -> Items]
      BY <2>1 DEF ReactiveTools
    <3> QED
      BY <2>1, <3>1 DEF SmartBounds
  <2>3. queue = <<>> /\ DOMAIN outcome = {} /\ executing = {}
    BY DEF SmartInv, TurnOK, ChooseTools
  <2>4. TurnOK'
    BY <1>2, <2>2, <2>3 DEF SmartInv, TurnOK, SmartTypeOK, ChooseTools, Over, Turns, SmartBounds
  <2>5. DecisionsOK' /\ AnswersOK' /\ UnseenOK'
    BY <1>2 DEF SmartInv, DecisionsOK, AnswersOK, EveryCallAnswered, UnseenOK, ChooseTools, Over
  <2> QED
    BY <2>4, <2>5 DEF SmartInv
<1> QED
  BY <1>1, <1>2

\* The model fails, or a turn is over: task_complete ends the loop unless the turn
\* was one of new feedback (_reactive_loop).
LEMMA TurnEndKeeps ==
  ASSUME SmartBounds, SmartInv, ModelFails \/ EndTurn
  PROVE  SmartInv'
<1>1. UNCHANGED <<iteration, turn, chosen, attempted, resolved, executing, queue, outcome, answered, decided, unseen>>
  BY DEF ModelFails, EndTurn, turnVars
<1>2. at # "tools" /\ at # "asking" /\ at' \in {"failed", "choose", "done", "plan"}
      /\ (at' = "plan" => Mode # "reactive") /\ (at' \in {"plan", "done"} => ~unseen)
  BY DEF ModelFails, EndTurn, Over
<1>3. TurnOK'
  BY <1>1, <1>2 DEF SmartInv, TurnOK, SmartTypeOK
<1>4. DecisionsOK'
  BY <1>1, <1>2 DEF SmartInv, DecisionsOK
<1>5. AnswersOK' /\ UnseenOK'
  BY <1>1, <1>2 DEF AnswersOK, EveryCallAnswered, UnseenOK
<1> QED
  BY <1>3, <1>4, <1>5 DEF SmartInv

\* The user is asked a decision that has not been resolved
\* (_execute_tool_calls_turn).
LEMMA FeedbackKeeps ==
  ASSUME SmartBounds, SmartInv, SendFeedback
  PROVE  SmartInv'
<1> DEFINE i == First(Unresolved)
           d == chosen[i].of
<1>1. i \in Unresolved
  BY IndexesOfTurn, FirstIsOne DEF SmartInv, SendFeedback, HasUnresolvedFeedback
<1>2. d \in Decisions /\ d \notin resolved
  BY <1>1, IndexesOfTurn DEF SmartInv, Unresolved
<1>3. /\ at = "feedback" /\ at' = "asking" /\ HasUnresolvedFeedback /\ decided' = [decided EXCEPT ![d] = @ + 1]
      /\ UNCHANGED <<iteration, turn, chosen, attempted, resolved, executing, queue, outcome, answered, unseen>>
  BY DEF SendFeedback
<1>4. Unresolved' = Unresolved /\ First(Unresolved)' = i /\ Indexes("tool")' = Indexes("tool")
  BY <1>3 DEF Unresolved, Indexes, First
<1> HIDE DEF i
<1>5. TurnOK'
  BY <1>2, <1>3 DEF SmartInv, TurnOK, SmartTypeOK
<1>6. DecisionsOK'
  <2>1. decided \in [Decisions -> Nat] /\ decided[d] = 0
    BY <1>2, <1>3 DEF SmartInv, TurnOK, DecisionsOK
  <2>2. ASSUME NEW e \in Decisions
        PROVE  decided'[e] <= 1 /\ (decided'[e] = 1 => e \in resolved' \/ e = d)
    BY <1>2, <1>3, <2>1 DEF SmartInv, DecisionsOK
  <2>3. HasUnresolvedFeedback' /\ chosen'[First(Unresolved)'].of = d
    BY <1>3, <1>4 DEF HasUnresolvedFeedback, i
  <2> QED
    BY <1>3, <2>2, <2>3 DEF DecisionsOK
<1>7. AnswersOK' /\ UnseenOK'
  BY <1>3 DEF SmartInv, AnswersOK, EveryCallAnswered, UnseenOK
<1> QED
  BY <1>5, <1>6, <1>7 DEF SmartInv

\* A response, or that there was none, resolves what was asked
\* (_execute_tool_calls_turn).
LEMMA ResolutionKeeps ==
  ASSUME SmartBounds, SmartInv, FeedbackResolved
  PROVE  SmartInv'
<1> DEFINE i == First(Unresolved)
           d == chosen[i].of
<1>1. /\ at = "asking" /\ at' = "turn_done" /\ resolved' = resolved \cup {d} /\ unseen' = TRUE
      /\ answered' = {j \in Indexes("ask") : j <= i}
      /\ UNCHANGED <<iteration, turn, chosen, attempted, executing, queue, outcome, decided>>
  BY DEF FeedbackResolved
<1>2. HasUnresolvedFeedback
  BY <1>1 DEF SmartInv, DecisionsOK
<1>3. i \in Unresolved
  BY <1>2, IndexesOfTurn, FirstIsOne DEF SmartInv, HasUnresolvedFeedback
<1>4. d \in Decisions
  BY <1>3, IndexesOfTurn DEF SmartInv, Unresolved
<1>5. answered' \subseteq Indexes("ask") /\ Indexes("tool")' = Indexes("tool")
      /\ Indexes("ask") \cap Indexes("tool") = {} /\ answered' \subseteq DOMAIN chosen
  BY <1>1, IndexesOfTurn DEF SmartInv, Indexes
<1> HIDE DEF i
<1>6. TurnOK'
  BY <1>1, <1>4, <1>5 DEF SmartInv, TurnOK, SmartTypeOK
<1>7. DecisionsOK'
  BY <1>1 DEF SmartInv, DecisionsOK, i
<1>8. AnswersOK' /\ UnseenOK'
  <2>1. EveryCallAnswered'
    BY <1>1, <1>5 DEF EveryCallAnswered
  <2> QED
    BY <1>1, <2>1 DEF AnswersOK, UnseenOK
<1> QED
  BY <1>6, <1>7, <1>8 DEF SmartInv

\* Without new feedback the calls start, those that gave nothing before being
\* skipped with a result (_execute_tool_calls_turn).
LEMMA ExecutionKeeps ==
  ASSUME SmartBounds, SmartInv, ExecuteToolCalls
  PROVE  SmartInv'
<1>1. /\ at = "feedback" /\ at' = "tools" /\ answered' = Indexes("ask") \cup Skipped
      /\ executing' = (IF Parallel THEN CallsToExecute ELSE {})
      /\ queue' = (IF Parallel THEN <<>> ELSE Sorted(CallsToExecute))
      /\ DOMAIN outcome' = {}
      /\ UNCHANGED <<iteration, turn, chosen, resolved, decided, unseen>>
  BY DEF ExecuteToolCalls
<1>2. CallsToExecute \cup Skipped = Indexes("tool") /\ CallsToExecute \subseteq 1..Len(chosen)
      /\ Len(chosen) \in Nat /\ DOMAIN chosen = 1..Len(chosen)
      /\ Indexes("tool") \subseteq DOMAIN chosen /\ Indexes("ask") \subseteq DOMAIN chosen
  BY IndexesOfTurn DEF SmartInv, CallsToExecute, Skipped
<1>3. /\ Sorted(CallsToExecute) \in Seq(CallsToExecute)
      /\ {Sorted(CallsToExecute)[k] : k \in DOMAIN Sorted(CallsToExecute)} = CallsToExecute
  BY <1>2, SortedKeeps
<1>4. queue' \in Seq(DOMAIN chosen)
      /\ executing' \cup {queue'[k] : k \in DOMAIN queue'} = CallsToExecute
  <2>1. CASE Parallel
    BY <1>1, <2>1
  <2>2. CASE ~Parallel
    <3>1. Sorted(CallsToExecute) \in Seq(DOMAIN chosen)
      BY <1>2, <1>3, SeqMonotonic
    <3> QED
      BY <1>1, <1>3, <2>2, <3>1
  <2> QED
    BY <2>1, <2>2
<1>5. attempted' \in [Calls -> Outcomes \cup {"no"}]
  BY DEF SmartInv, TurnOK, SmartTypeOK, ExecuteToolCalls, Outcomes
<1>6. executing' \cup answered' \subseteq DOMAIN chosen'
  BY <1>1, <1>2
<1>7. TurnOK'
  <2>1. outcome' \in [DOMAIN outcome' -> Outcomes]
    BY DEF ExecuteToolCalls
  <2> QED
    BY <1>1, <1>4, <1>5, <1>6, <2>1 DEF SmartInv, TurnOK, SmartTypeOK
<1>8. DecisionsOK'
  BY <1>1 DEF SmartInv, DecisionsOK
<1>9. AnswersOK' /\ UnseenOK'
  <2>1. Indexes("tool")' = Indexes("tool") /\ Indexes("ask")' = Indexes("ask")
    BY <1>1 DEF Indexes
  <2> QED
    BY <1>1, <1>2, <1>4, <2>1 DEF SmartInv, AnswersOK, EveryCallAnswered, UnseenOK
<1> QED
  BY <1>7, <1>8, <1>9 DEF SmartInv

\* The next call starts when the one before it has ended (_execute_tool_calls_turn).
LEMMA NextCallKeeps ==
  ASSUME SmartBounds, SmartInv, NextCall
  PROVE  SmartInv'
<1>1. /\ at = "tools" /\ queue # <<>> /\ executing = {} /\ executing' = {Head(queue)} /\ queue' = Tail(queue)
      /\ UNCHANGED <<at, iteration, turn, chosen, attempted, resolved, outcome, answered, decided, unseen>>
  BY DEF NextCall
<1>2. queue \in Seq(DOMAIN chosen)
  BY DEF SmartInv, TurnOK
<1>3. /\ Head(queue) \in DOMAIN chosen /\ queue' \in Seq(DOMAIN chosen)
      /\ {queue[k] : k \in DOMAIN queue} = {Head(queue)} \cup {queue'[k] : k \in DOMAIN queue'}
  <2>1. /\ Len(queue) \in Nat \ {0} /\ DOMAIN queue = 1..Len(queue) /\ DOMAIN queue' = 1..(Len(queue) - 1)
        /\ Head(queue) = queue[1] /\ queue' \in Seq(DOMAIN chosen)
        /\ \A k \in 1..(Len(queue) - 1) : queue'[k] = queue[k + 1]
    BY <1>1, <1>2, HeadTailProperties, EmptySeq, LenProperties
  <2>2. ASSUME NEW k \in 1..Len(queue)
        PROVE  queue[k] = Head(queue) \/ \E h \in DOMAIN queue' : queue'[h] = queue[k]
    <3>1. k = 1 \/ (k - 1 \in 1..(Len(queue) - 1) /\ (k - 1) + 1 = k)
      BY <2>1
    <3> QED
      BY <2>1, <3>1
  <2>3. ASSUME NEW k \in DOMAIN queue'
        PROVE  \E h \in DOMAIN queue : queue[h] = queue'[k]
    <3>1. k + 1 \in DOMAIN queue /\ queue[k + 1] = queue'[k]
      BY <2>1
    <3> QED
      BY <3>1
  <2> QED
    BY <1>2, <2>1, <2>2, <2>3
<1>4. TurnOK'
  BY <1>1, <1>2, <1>3 DEF SmartInv, TurnOK, SmartTypeOK
<1>5. DecisionsOK' /\ UnseenOK'
  BY <1>1 DEF SmartInv, DecisionsOK, UnseenOK
<1>6. AnswersOK'
  <2>1. Indexes("tool")' = Indexes("tool") /\ Indexes("ask")' = Indexes("ask")
    BY <1>1 DEF Indexes
  <2> QED
    BY <1>1, <1>3, <2>1 DEF SmartInv, AnswersOK, EveryCallAnswered
<1> QED
  BY <1>4, <1>5, <1>6 DEF SmartInv

\* A call ends, with something, nothing or an error (execute_tool_call).
LEMMA CallEndKeeps ==
  ASSUME SmartBounds, SmartInv, NEW i \in executing, ExecuteToolCall(i)
  PROVE  SmartInv'
<1>1. PICK o \in Outcomes : outcome' = [j \in DOMAIN outcome \cup {i} |-> IF j = i THEN o ELSE outcome[j]]
  BY DEF ExecuteToolCall
<1>2. /\ executing' = executing \ {i} /\ i \in DOMAIN chosen /\ at = "tools"
      /\ UNCHANGED <<at, iteration, turn, chosen, attempted, resolved, queue, answered, decided, unseen>>
  BY DEF ExecuteToolCall, SmartInv, TurnOK, SmartTypeOK
<1>3. DOMAIN outcome' = DOMAIN outcome \cup {i} /\ outcome' \in [DOMAIN outcome' -> Outcomes]
  BY <1>1 DEF SmartInv, TurnOK
<1>4. TurnOK'
  BY <1>2, <1>3 DEF SmartInv, TurnOK, SmartTypeOK
<1>5. DecisionsOK' /\ UnseenOK'
  BY <1>2 DEF SmartInv, DecisionsOK, UnseenOK
<1>6. AnswersOK'
  <2>1. Indexes("tool")' = Indexes("tool") /\ Indexes("ask")' = Indexes("ask")
    BY <1>2 DEF Indexes
  <2> QED
    BY <1>2, <1>3, <2>1 DEF SmartInv, AnswersOK, EveryCallAnswered
<1> QED
  BY <1>4, <1>5, <1>6 DEF SmartInv

\* When all calls have ended their results are recorded and given to the model
\* (_process_results).
LEMMA ResultsKeep ==
  ASSUME SmartBounds, SmartInv, ProcessResults
  PROVE  SmartInv'
<1>1. /\ at = "tools" /\ at' = "turn_done" /\ executing = {} /\ queue = <<>> /\ outcome' = <<>>
      /\ answered' = answered \cup DOMAIN outcome /\ attempted' = [c \in Calls |-> Recorded(c)]
      /\ UNCHANGED <<iteration, turn, chosen, resolved, executing, queue, decided, unseen>>
  BY DEF ProcessResults
<1>2. DOMAIN outcome \subseteq DOMAIN chosen /\ outcome \in [DOMAIN outcome -> Outcomes]
      /\ attempted \in [Calls -> Outcomes \cup {"no"}] /\ DOMAIN chosen = 1..Len(chosen) /\ Len(chosen) \in Nat
  BY IndexesOfTurn DEF SmartInv, TurnOK, SmartTypeOK
<1>3. ASSUME NEW c \in Calls
      PROVE  Recorded(c) \in Outcomes \cup {"no"}
  <2> DEFINE of == {i \in DOMAIN outcome : chosen[i].of = c}
  <2>1. CASE of = {}
    BY <1>2, <2>1 DEF Recorded
  <2>2. CASE of # {}
    <3>1. of \subseteq 0..Len(chosen)
      BY <1>2
    <3>2. \E i \in of : \A j \in of : j <= i
      BY <1>2, <2>2, <3>1, GreatestExists
    <3>3. (CHOOSE i \in of : \A j \in of : j <= i) \in of
      BY <3>2
    <3>4. Recorded(c) = outcome[CHOOSE i \in of : \A j \in of : j <= i]
      BY <2>2 DEF Recorded
    <3> HIDE DEF of
    <3>5. of \subseteq DOMAIN outcome
      BY DEF of
    <3> QED
      BY <1>2, <3>3, <3>4, <3>5
  <2> QED
    BY <2>1, <2>2
<1>4. DOMAIN outcome' = {} /\ outcome' \in [DOMAIN outcome' -> Outcomes]
  BY <1>1
<1>5. TurnOK'
  BY <1>1, <1>2, <1>3, <1>4 DEF SmartInv, TurnOK, SmartTypeOK
<1>6. DecisionsOK' /\ UnseenOK'
  BY <1>1 DEF SmartInv, DecisionsOK, UnseenOK
<1>7. AnswersOK'
  <2>1. Indexes("tool")' = Indexes("tool") /\ Indexes("ask")' = Indexes("ask")
    BY <1>1 DEF Indexes
  <2>2. {queue[k] : k \in DOMAIN queue} = {}
    BY <1>1
  <2> QED
    BY <1>1, <2>1, <2>2 DEF SmartInv, AnswersOK, EveryCallAnswered
<1> QED
  BY <1>5, <1>6, <1>7 DEF SmartInv

\* The invariant holds of every run, in both planning modes.
LEMMA SmartInvariance == SmartBounds => (SmartSpec => []SmartInv)
<1> SUFFICES ASSUME SmartBounds
             PROVE  SmartSpec => []SmartInv
  OBVIOUS
<1>1. SmartInit => SmartInv
  BY SmartBegins
<1>2. SmartInv /\ [SmartStep]_smartVars => SmartInv'
  <2> SUFFICES ASSUME SmartInv, [SmartStep]_smartVars
               PROVE  SmartInv'
    OBVIOUS
  <2>1. CASE SmartStep
    BY <2>1, PlannerKeeps, ChooserKeeps, TurnEndKeeps, FeedbackKeeps, ResolutionKeeps, ExecutionKeeps,
       NextCallKeeps, CallEndKeeps, ResultsKeep DEF SmartStep
  <2>2. CASE UNCHANGED smartVars
    <3>1. TurnOK'
      BY <2>2 DEF smartVars, SmartInv, TurnOK, SmartTypeOK
    <3>2. DecisionsOK' /\ AnswersOK' /\ UnseenOK'
      BY <2>2, SMTT(30) DEF smartVars, SmartInv, DecisionsOK, AnswersOK, UnseenOK, EveryCallAnswered, Turns,
                  HasUnresolvedFeedback, Unresolved, First, Indexes
    <3> QED
      BY <3>1, <3>2 DEF SmartInv
  <2> QED
    BY <2>1, <2>2
<1> QED
  BY <1>1, <1>2, PTL DEF SmartSpec

\* The state of a run keeps its types: what is recorded of a call is how one of
\* its executions ended (_process_results, _classify_tool_result).
THEOREM SmartTypes == SmartBounds => (SmartSpec => []SmartTypeOK)
<1>1. SmartInv => SmartTypeOK
  BY DEF SmartInv, TurnOK
<1> QED
  BY <1>1, SmartInvariance, PTL

\* The user is asked each decision once, whatever the model requests again and
\* whether it was answered or not (_execute_tool_calls_turn, resolved_feedback).
THEOREM AskedOnce == SmartBounds => (SmartSpec => []DecisionAskedOnce)
<1>1. SmartInv => DecisionAskedOnce
  BY DEF SmartInv, DecisionsOK, DecisionAskedOnce
<1> QED
  BY <1>1, SmartInvariance, PTL

\* A turn ends with a result for every function it called and every user_feedback
\* with a question, or, when it was one of new feedback, with none of a tool
\* (_execute_tool_calls_turn).
THEOREM CallsAnswered == SmartBounds => (SmartSpec => []EveryCallAnswered)
<1>1. SmartInv => EveryCallAnswered
  BY DEF SmartInv, AnswersOK
<1> QED
  BY <1>1, SmartInvariance, PTL

\* The loop is not left with an answer the model has not seen while it has turns
\* (_reactive_loop, _plan_and_execute).
THEOREM FeedbackUsed == SmartBounds => (SmartSpec => []FeedbackIsUsed)
<1>1. SmartInv => FeedbackIsUsed
  BY DEF SmartInv, UnseenOK, FeedbackIsUsed
<1> QED
  BY <1>1, SmartInvariance, PTL

-----------------------------------------------------------------------------
(* The operations of the NucliaDB agents.                                  *)

\* Every driver has a configuration, and the labels of a call are a sequence.
NdbBounds ==
  /\ \A c \in Configs : IsConfig(c)
  /\ \A call \in LabelCalls : \E n \in Nat : DOMAIN call = 1..n

Places == {"search", "searched", "labels", "load", "loaded", "ask", "save", "left"}
Verdicts == {"unknown", "none", "missing"}

NdbTypes ==
  /\ driver \in [Sources -> Configs] /\ known \subseteq Sources /\ operation \in Operations
  /\ asked \subseteq Resources /\ labels \in LabelCalls \cup {<<>>}
  /\ branch \in [Sources -> [at : Places, titled : SUBSET Resources]]
  /\ contexts \in [Sources -> SUBSET Resources] /\ missing \in [Sources -> Verdicts]
  /\ result \in {"running", "done", "fallback", "failed"}

\* Only the ask and advanced agents have filters of their own, and only a
\* question has an answer to save.
OperationOK ==
  /\ operation \notin {"ask_agent", "advanced"} => asked = Resources
  /\ operation # "ask_agent" => labels = <<>>
  /\ \A s \in Sources : At(s, "save") => operation \in QuestionOperations

\* When the operation has ended, no source is asked any more.
EndedOK == result \in {"fallback", "done"} => \A s \in Sources : At(s, "left")

NdbInv == NdbTypes /\ OperationOK /\ EndedOK /\ MergedFilters /\ FallbackIfAllFailed

\* What is within the filters that the operation merges.
Filtered(s, given) ==
  /\ given \subseteq asked \cap LabelFilter \cap driver[s].expression \cap ToFieldFilterExpression(driver[s])
  /\ ValidLabels /\ (\A k, l \in Several : k = l) => given \subseteq AllLabels
Merging == operation \in {"ask_agent", "ask_by_title", "search_images_by_title"}

\* The labels of a call, and what becomes of them, stay.
LEMMA LabelsStay ==
  ASSUME UNCHANGED labels
  PROVE  UNCHANGED <<LabelFilter, AllLabels, ValidLabels, Several>>
<1>1. \A i : UNCHANGED <<ValidLabel(i), Added(i)>>
  BY DEF ValidLabel, Added
<1>2. UNCHANGED LabelsDict /\ \A l : UNCHANGED LabelValues(l)
  BY <1>1 DEF LabelsDict, LabelValues
<1>3. UNCHANGED Several
  BY <1>2 DEF Several
<1>4. UNCHANGED OrFilters
  BY <1>2, <1>3 DEF OrFilters
<1>5. UNCHANGED LabelFilter
  BY <1>1, <1>2, <1>3, <1>4 DEF LabelFilter
<1>6. UNCHANGED <<AllLabels, ValidLabels>>
  BY <1>1 DEF AllLabels, ValidLabels
<1> QED
  BY <1>3, <1>5, <1>6

\* Of valid labels, each is added itself (ask_agent).
LEMMA ValidIsAdded ==
  ASSUME NdbBounds, NdbInv, ValidLabels, NEW i \in DOMAIN labels
  PROVE  Added(i) = labels[i]
<1>1. PICK n \in Nat : DOMAIN labels = 1..n
  BY DEF NdbBounds, NdbInv, NdbTypes
<1> DEFINE P(j) == (j = 1 \/ ValidLabel(j)) /\ \A k \in (j + 1)..i : ~ValidLabel(k)
<1>2. i \in 1..i /\ i \in Nat
  BY <1>1
<1>3. P(i)
  BY <1>1 DEF ValidLabels
<1>4. \A j \in 1..i : P(j) => j = i
  <2> SUFFICES ASSUME NEW j \in 1..i, P(j), j # i
               PROVE  FALSE
    OBVIOUS
  <2>1. i \in (j + 1)..i
    BY <1>2
  <2> QED
    BY <2>1 DEF ValidLabels
<1>5. (CHOOSE j \in 1..i : P(j)) = i
  <2> HIDE DEF P
  <2> QED
    BY <1>2, <1>3, <1>4
<1> QED
  BY <1>5 DEF Added

\* When the labels are valid and at most one labelset has several, nothing of them
\* is lost in and_filters and or_filters.
LEMMA LabelsAreKept ==
  ASSUME NdbBounds, NdbInv, ValidLabels, \A k, l \in Several : k = l
  PROVE  LabelFilter \subseteq AllLabels
<1>1. PICK n \in Nat : DOMAIN labels = 1..n
  <2>1. CASE labels = <<>>
    BY <2>1, 0 \in Nat
  <2> QED
    BY <2>1 DEF NdbBounds, NdbInv, NdbTypes
<1>2. \A i \in DOMAIN labels : Added(i) = labels[i]
  BY ValidIsAdded
<1> SUFFICES ASSUME NEW r \in LabelFilter, NEW i \in DOMAIN labels
             PROVE  \E j \in DOMAIN labels : labels[j].labelset = labels[i].labelset /\ r \in labels[j].of
  BY DEF LabelFilter, AllLabels
<1> DEFINE l == labels[i].labelset
<1>3. l \in LabelsDict /\ i \in LabelValues(l) /\ \A k : LabelValues(k) \subseteq DOMAIN labels
  BY <1>2 DEF LabelsDict, LabelValues
<1>4. CASE l \notin Several
  <2>1. r \in Added(i).of
    BY <1>3, <1>4 DEF LabelFilter
  <2> QED
    BY <1>2, <2>1
<1>5. CASE l \in Several
  <2>1. PICK first \in LabelValues(l) : \A j \in LabelValues(l) : first <= j
    <3>1. LabelValues(l) \subseteq Nat /\ LabelValues(l) # {}
      BY <1>1, <1>3
    <3> QED
      BY <3>1, LeastExists
  <2> DEFINE IsLast(k) == \A other \in Several : \E f \in LabelValues(other) : \A j \in LabelValues(k) : f <= j
  <2>2. IsLast(l)
    BY <1>5, <2>1
  <2>3. OrFilters \in Several
    <3>1. OrFilters = CHOOSE k \in Several : IsLast(k)
      BY DEF OrFilters
    <3> HIDE DEF IsLast
    <3> QED
      BY <1>5, <2>2, <3>1
  <2>4. OrFilters = l
    BY <1>5, <2>3
  <2>5. PICK j \in LabelValues(l) : r \in Added(j).of
    BY <1>5, <2>4 DEF LabelFilter
  <2>6. j \in DOMAIN labels /\ Added(j).labelset = l
    BY <2>5 DEF LabelValues
  <2> QED
    BY <1>2, <2>5, <2>6
<1> QED
  BY <1>4, <1>5

\* A call without labels is not filtered by any.
LEMMA NoLabelsNoFilter ==
  ASSUME labels = <<>>
  PROVE  LabelFilter = Resources
<1>1. LabelsDict = {} /\ Several = {}
  BY DEF LabelsDict, Several
<1> QED
  BY <1>1 DEF LabelFilter

\* What an operation retrieves is within the filters it sends.
LEMMA ScopeIsFiltered ==
  ASSUME NdbBounds, NdbInv, NEW s \in Sources, NEW given \in SUBSET Scope(s)
  PROVE  given \in SUBSET Resources /\ (Merging => Filtered(s, given))
<1>1. /\ driver[s].filters \subseteq Resources /\ driver[s].expression \subseteq Resources
      /\ driver[s].catalog \subseteq Resources /\ asked \subseteq Resources
      /\ branch[s].titled \subseteq Resources
      /\ ToFieldFilterExpression(driver[s]) \subseteq Resources
  BY DEF NdbBounds, NdbInv, NdbTypes, IsConfig, ToFieldFilterExpression
<1>2. ASSUME NEW filters \in SUBSET Resources
      PROVE  /\ BuildFilterExpression(driver[s], filters) \subseteq Resources
             /\ BuildFilterExpression(driver[s], filters) \subseteq
                  filters \cap driver[s].expression \cap ToFieldFilterExpression(driver[s])
  BY <1>1 DEF BuildFilterExpression
<1>3. BuildAskRequest(driver[s], asked) \subseteq Resources
  BY <1>1 DEF BuildAskRequest, ParseFilterExpression
<1>4. /\ DoNucliadbQuery(s) \subseteq Resources
      /\ DoNucliadbQuery(s) \subseteq driver[s].expression \cap ToFieldFilterExpression(driver[s])
  BY <1>1, <1>2 DEF DoNucliadbQuery
<1>5. InnerFacetsSearch(s) \subseteq Resources
  BY <1>1 DEF InnerFacetsSearch, BuildCatalogFilterExpression
<1>6. operation \in {"ask_by_title", "search_images_by_title"} => asked = Resources /\ LabelFilter = Resources
  BY NoLabelsNoFilter DEF NdbInv, OperationOK
<1>7. /\ Rag(s) \subseteq Resources /\ SearchImages(s) \subseteq Resources /\ InnerFacets(s) \subseteq Resources
      /\ InnerCatalogSearch(s) \subseteq Resources
  BY <1>1 DEF Rag, SearchImages, InnerFacets, InnerCatalogSearch
<1>8. /\ InnerRag(s) \subseteq Resources
      /\ InnerRag(s) \subseteq asked \cap LabelFilter \cap driver[s].expression \cap ToFieldFilterExpression(driver[s])
  BY <1>1, <1>2 DEF InnerRag
<1>9. Scope(s) \subseteq Resources
  BY <1>3, <1>4, <1>5, <1>7, <1>8 DEF Scope
<1>10. Merging => given \subseteq asked \cap LabelFilter \cap driver[s].expression \cap ToFieldFilterExpression(driver[s])
  <2>1. CASE operation = "ask_agent"
    BY <1>8, <2>1 DEF Scope
  <2>2. CASE operation \in {"ask_by_title", "search_images_by_title"}
    BY <1>4, <1>6, <1>9, <2>2 DEF Scope
  <2> QED
    BY <2>1, <2>2 DEF Merging
<1> QED
  BY <1>9, <1>10, LabelsAreKept DEF Filtered

\* An operation begins with nothing asked and nothing given.
LEMMA NdbBegins ==
  ASSUME NdbBounds, NdbInit
  PROVE  NdbInv
<1>1. NdbTypes
  BY DEF NdbInit, NdbTypes, Places, Verdicts
<1>2. OperationOK /\ EndedOK /\ FallbackIfAllFailed
  BY DEF NdbInit, OperationOK, EndedOK, FallbackIfAllFailed, At, ByTitle
<1>3. MergedFilters
  BY DEF NdbInit, MergedFilters
<1> QED
  BY <1>1, <1>2, <1>3 DEF NdbInv

\* A source moves, and what its title has matched stays (Goto).
LEMMA MovedSource ==
  ASSUME NdbInv, NEW s \in Sources, NEW place \in Places, Goto(s, place)
  PROVE  /\ branch[s].titled \in SUBSET Resources
         /\ branch' = [branch EXCEPT ![s] = [at |-> place, titled |-> branch[s].titled]]
         /\ branch' \in [Sources -> [at : Places, titled : SUBSET Resources]]
<1> DEFINE Entry == [at : Places, titled : SUBSET Resources]
<1>1. branch \in [Sources -> Entry] /\ branch' = [branch EXCEPT ![s] = [branch[s] EXCEPT !.at = place]]
  BY DEF NdbInv, NdbTypes, Goto
<1>2. branch[s] \in Entry
  BY <1>1
<1>3. [branch[s] EXCEPT !.at = place] = [at |-> place, titled |-> branch[s].titled] /\ branch[s].titled \in SUBSET Resources
  BY <1>2
<1>4. [at |-> place, titled |-> branch[s].titled] \in Entry
  BY <1>3
<1> HIDE DEF Entry
<1>5. branch' \in [Sources -> Entry]
  BY <1>1, <1>3, <1>4
<1> QED
  BY <1>1, <1>3, <1>5 DEF Entry

\* A source is loaded, chosen or searched, or that fails, and nothing is given.
LEMMA SourcesKeep ==
  ASSUME NdbBounds, NdbInv,
         ConvertLabels \/ ChooseSource \/ AskByTitle \/ \E s \in Sources : LoadSourceInformation(s) \/ SearchByTitle(s)
  PROVE  NdbInv'
<1>1. /\ result = "running" /\ result' \in {"running", "failed"}
      /\ UNCHANGED <<driver, operation, asked, labels, contexts, missing>>
  BY DEF ConvertLabels, ChooseSource, AskByTitle, LoadSourceInformation, SearchByTitle, Fail
<1>2. known' \subseteq Sources
  BY DEF ConvertLabels, ChooseSource, AskByTitle, LoadSourceInformation, SearchByTitle, NdbInv, NdbTypes
<1>3. branch' \in [Sources -> [at : Places, titled : SUBSET Resources]]
      /\ \A s \in Sources : At(s, "save")' => At(s, "save")
  <2> USE DEF NdbInv, NdbTypes, Places
  <2>1. CASE ConvertLabels \/ ChooseSource
    BY <2>1 DEF ConvertLabels, ChooseSource, At
  <2>2. CASE AskByTitle
    <3> DEFINE Entry == [at : Places, titled : SUBSET Resources]
               Moved(s) == IF branch[s].at = "searched" THEN "ask" ELSE branch[s].at
    <3>1. branch' = [s \in Sources |-> [branch[s] EXCEPT !.at = Moved(s)]]
      BY <2>2 DEF AskByTitle
    <3>2. ASSUME NEW s \in Sources
          PROVE  /\ [branch[s] EXCEPT !.at = Moved(s)] \in Entry
                 /\ [branch[s] EXCEPT !.at = Moved(s)].at = Moved(s)
      <4>1. branch[s] \in Entry
        OBVIOUS
      <4> QED
        BY <4>1
    <3>3. branch' \in [Sources -> Entry]
      BY <3>1, <3>2
    <3>4. ASSUME NEW s \in Sources, At(s, "save")' PROVE At(s, "save")
      BY <3>1, <3>2, <3>4 DEF At
    <3> QED
      BY <3>3, <3>4
  <2>3. ASSUME NEW s \in Sources, LoadSourceInformation(s)
        PROVE  branch' \in [Sources -> [at : Places, titled : SUBSET Resources]]
               /\ \A r \in Sources : At(r, "save")' => At(r, "save")
    <3>1. PICK place \in {"loaded", "left"} : Goto(s, place)
      BY <2>3 DEF LoadSourceInformation, Fail
    <3>2. /\ branch' = [branch EXCEPT ![s] = [at |-> place, titled |-> branch[s].titled]]
          /\ branch' \in [Sources -> [at : Places, titled : SUBSET Resources]]
      BY <3>1, MovedSource
    <3>3. ASSUME NEW r \in Sources, At(r, "save")'
          PROVE  At(r, "save")
      BY <3>2, <3>3 DEF At
    <3> QED
      BY <3>2, <3>3
  <2>4. ASSUME NEW s \in Sources, SearchByTitle(s)
        PROVE  branch' \in [Sources -> [at : Places, titled : SUBSET Resources]]
               /\ \A r \in Sources : At(r, "save")' => At(r, "save")
    <3>1. BuildCatalogFilterExpression(driver[s], Resources) \subseteq Resources
      BY DEF BuildCatalogFilterExpression
    <3> QED
      BY <2>4, <3>1, SMTT(30) DEF SearchByTitle, At, Goto, Fail
  <2> QED
    BY <2>1, <2>2, <2>3, <2>4
<1>4. NdbTypes' /\ OperationOK'
  BY <1>1, <1>2, <1>3 DEF NdbInv, NdbTypes, OperationOK
<1>5. EndedOK' /\ FallbackIfAllFailed'
  BY <1>1 DEF EndedOK, FallbackIfAllFailed
<1>6. MergedFilters'
  BY <1>1, LabelsStay DEF NdbInv, MergedFilters, ToFieldFilterExpression
<1> QED
  BY <1>4, <1>5, <1>6 DEF NdbInv

\* A knowledge box answers within the filters, or fails, and the answer of a
\* question is saved.
LEMMA RequestsKeep ==
  ASSUME NdbBounds, NdbInv, NEW s \in Sources, Ask(s) \/ AskFails(s) \/ SaveAnswer(s)
  PROVE  NdbInv'
<1>1. UNCHANGED <<driver, known, operation, asked, labels>> /\ result' \in {result, "failed"} /\ ~At(s, "left")
  BY DEF Ask, AskFails, SaveAnswer, InTurn, At, Retrieved, CreateContext, NoLabels, Fail
<1>2. result' \notin {"fallback", "done"}
  BY <1>1 DEF NdbInv, EndedOK, NdbTypes
<1>3. PICK place \in Places, titled \in SUBSET Resources :
        branch' = [branch EXCEPT ![s] = [at |-> place, titled |-> titled]]
        /\ (place = "save" => operation \in QuestionOperations)
  <2> USE DEF NdbInv, NdbTypes, Places
  <2>1. CASE Ask(s)
    <3>1. Scope(s) \subseteq Resources
      <4>1. Scope(s) \in SUBSET Scope(s)
        OBVIOUS
      <4> QED
        BY <4>1, ScopeIsFiltered
    <3>2. CASE Goto(s, "left")
      BY <3>2, MovedSource
    <3>3. CASE \E retrieved \in SUBSET Scope(s) : Retrieved(s, retrieved)
      <4>1. PICK retrieved \in SUBSET Scope(s) : Retrieved(s, retrieved)
        BY <3>3
      <4>2. retrieved \in SUBSET Resources
        BY <3>1, <4>1
      <4>3. CASE operation \in QuestionOperations
        BY <4>1, <4>2, <4>3 DEF Retrieved
      <4>4. CASE operation \notin QuestionOperations
        BY <3>2, <4>1, <4>4 DEF Retrieved
      <4> QED
        BY <4>3, <4>4
    <3> QED
      BY <2>1, <3>2, <3>3 DEF Ask, Fail
  <2>2. CASE AskFails(s) \/ SaveAnswer(s)
    <3>1. Goto(s, "left")
      BY <2>2 DEF AskFails, SaveAnswer, Fail, NoLabels
    <3> QED
      BY <3>1, MovedSource
  <2> QED
    BY <2>1, <2>2
<1>4. PICK given \in SUBSET Resources :
        /\ contexts' = [contexts EXCEPT ![s] = given]
        /\ Merging => Filtered(s, given)
  <2> DEFINE Within(g) == Merging => Filtered(s, g)
  <2>1. contexts \in [Sources -> SUBSET Resources] /\ contexts[s] \in SUBSET Resources
        /\ contexts = [contexts EXCEPT ![s] = contexts[s]] /\ Within(contexts[s])
    BY DEF NdbInv, NdbTypes, MergedFilters, Merging, Filtered
  <2>2. \A g \in SUBSET Scope(s) : g \in SUBSET Resources /\ Within(g)
    BY ScopeIsFiltered
  <2> SUFFICES \E given \in SUBSET Resources : contexts' = [contexts EXCEPT ![s] = given] /\ Within(given)
    OBVIOUS
  <2> HIDE DEF Within
  <2>3. /\ UNCHANGED contexts => \E given \in SUBSET Resources : contexts' = [contexts EXCEPT ![s] = given] /\ Within(given)
        /\ Within({})
    <3>1. Within({})
      BY <2>2
    <3>2. UNCHANGED contexts => contexts' = [contexts EXCEPT ![s] = contexts[s]]
      BY <2>1
    <3> QED
      BY <2>1, <3>1, <3>2
  <2>4. CASE Ask(s)
    <3>1. (\E retrieved \in SUBSET Scope(s) : Retrieved(s, retrieved)) \/ UNCHANGED contexts
      BY <2>4 DEF Ask
    <3>2. ASSUME NEW retrieved \in SUBSET Scope(s), Retrieved(s, retrieved)
          PROVE  UNCHANGED contexts \/ contexts' = [contexts EXCEPT ![s] = retrieved]
      BY <3>2 DEF Retrieved, CreateContext, Give
    <3> QED
      BY <2>2, <2>3, <3>1, <3>2
  <2>5. CASE AskFails(s)
    <3>1. UNCHANGED contexts \/ contexts' = [contexts EXCEPT ![s] = {}]
      BY <2>5 DEF AskFails, NoLabels, CreateContext, Give
    <3> QED
      BY <2>3, <3>1
  <2>6. CASE SaveAnswer(s)
    <3>1. operation \in QuestionOperations
      BY <2>6 DEF SaveAnswer, NdbInv, OperationOK
    <3>2. \A g \in SUBSET Resources : Within(g)
      BY <3>1 DEF Within, Merging, QuestionOperations
    <3>3. branch[s].titled \in SUBSET Resources
      BY DEF NdbInv, NdbTypes
    <3>4. UNCHANGED contexts \/ contexts' = [contexts EXCEPT ![s] = branch[s].titled]
      BY <2>6 DEF SaveAnswer, Give
    <3> QED
      BY <2>3, <3>2, <3>3, <3>4
  <2> QED
    BY <2>4, <2>5, <2>6
<1>5. missing' \in [Sources -> Verdicts]
  BY DEF Ask, AskFails, SaveAnswer, Retrieved, CreateContext, NoLabels, NdbInv, NdbTypes, Verdicts
<1>6. NdbTypes'
  BY <1>1, <1>3, <1>4, <1>5 DEF NdbInv, NdbTypes
<1>7. OperationOK'
  BY <1>1, <1>3 DEF NdbInv, NdbTypes, OperationOK, At
<1>8. EndedOK' /\ FallbackIfAllFailed'
  BY <1>2 DEF EndedOK, FallbackIfAllFailed
<1>9. MergedFilters'
  <2>1. ASSUME NEW r \in Sources, Merging
        PROVE  Filtered(r, contexts'[r])
    BY <1>4, <2>1 DEF NdbInv, NdbTypes, MergedFilters, Merging, Filtered
  <2> QED
    BY <1>1, <2>1, LabelsStay DEF MergedFilters, Merging, Filtered, ToFieldFilterExpression
<1> QED
  BY <1>6, <1>7, <1>8, <1>9 DEF NdbInv

\* The end: the fallback answers when all that were asked have missed.
LEMMA GatheredKeeps ==
  ASSUME NdbBounds, NdbInv, Gathered
  PROVE  NdbInv'
<1>1. /\ \A s \in Sources : At(s, "left")
      /\ result' = GetQuestionContext /\ UNCHANGED <<driver, known, operation, asked, labels, branch, contexts, missing>>
  BY DEF Gathered
<1>2. NdbTypes'
  BY <1>1 DEF NdbInv, NdbTypes, GetQuestionContext
<1>3. OperationOK' /\ EndedOK' /\ MergedFilters'
  BY <1>1, LabelsStay DEF NdbInv, OperationOK, EndedOK, MergedFilters, ToFieldFilterExpression, At
<1>4. FallbackIfAllFailed'
  BY <1>1 DEF FallbackIfAllFailed, GetQuestionContext
<1> QED
  BY <1>2, <1>3, <1>4 DEF NdbInv

\* The invariant holds of every operation.
LEMMA NdbInvariance == NdbBounds => (NdbSpec => []NdbInv)
<1> SUFFICES ASSUME NdbBounds
             PROVE  NdbSpec => []NdbInv
  OBVIOUS
<1>1. NdbInit => NdbInv
  BY NdbBegins
<1>2. NdbInv /\ [NdbStep]_ndbVars => NdbInv'
  <2> SUFFICES ASSUME NdbInv, [NdbStep]_ndbVars
               PROVE  NdbInv'
    OBVIOUS
  <2>1. CASE NdbStep
    BY <2>1, SourcesKeep, RequestsKeep, GatheredKeeps DEF NdbStep
  <2>2. CASE UNCHANGED ndbVars
    BY <2>2, LabelsStay DEF ndbVars, NdbInv, NdbTypes, OperationOK, EndedOK, At, MergedFilters,
       ToFieldFilterExpression, FallbackIfAllFailed
  <2> QED
    BY <2>1, <2>2
<1> QED
  BY <1>1, <1>2, PTL DEF NdbSpec

\* The sources keep their types: whatever is retrieved is of the knowledge box.
THEOREM NdbTypesKept == NdbBounds => (NdbSpec => []NdbTypeOK)
<1> SUFFICES ASSUME NdbBounds
             PROVE  NdbSpec => []NdbTypeOK
  OBVIOUS
<1>1. NdbInv => NdbTypeOK
  BY DEF NdbBounds, NdbInv, NdbTypes, NdbTypeOK, Verdicts
<1> QED
  BY <1>1, NdbInvariance, PTL

\* In ask_agent, ask_by_title and search_images_by_title the filters of the call
\* and of the driver are merged, never replaced, whatever a title matched, and so
\* are the labels, valid ones, unless two labelsets have several of them
\* (basic_ask_agent.py ask_agent, build_filter_expression).
THEOREM FiltersMerge == NdbBounds => (NdbSpec => []MergedFilters)
<1>1. NdbInv => MergedFilters
  BY DEF NdbInv
<1> QED
  BY <1>1, NdbInvariance, PTL

\* The fallback answers only when no source that was asked found enough
\* (basic_ask_agent.py _get_question_context).
THEOREM FallbackIsLast == NdbBounds => (NdbSpec => []FallbackIfAllFailed)
<1>1. NdbInv => FallbackIfAllFailed
  BY DEF NdbInv
<1> QED
  BY <1>1, NdbInvariance, PTL

-----------------------------------------------------------------------------
(* The questions of an MCPAgent.                                           *)

\* A question asks itself or plans, never both; the agent tries at least once.
MCPBounds ==
  /\ Flows \cap Planners = {}
  /\ Pages \in Nat \ {0} /\ MaxTurns \in Nat /\ MaxRetries \in Nat \ {0} /\ MaxAtOnce \in Nat

Attending == {"list", "prompts", "prompt", "choose", "process", "calling"}
FlowType ==
  [pc : {"idle", "connect", "leaving", "left", "save", "done", "failed"} \cup Attending,
   attempt : 0..(MaxRetries - 1), loaded : BOOLEAN, page : 1..Pages, turn : 0..MaxTurns, left : 0..MaxAtOnce,
   ran : Nat, told : Nat, elicited : {"none", "form", "url", "sampling"}, via : Owners \cup {NoSession},
   raised : BOOLEAN, completed : Nat]
PlannerType ==
  [pc : {"idle", "opening", "listing", "prompting", "closing", "preloaded", "calling", "done"},
   page : 1..Pages, via : Owners \cup {NoSession}]

\* Over HTTP, an interaction is complete exactly when its session is left without
\* an exception, and another attempt starts with none complete.
CompletionOK(r) ==
  /\ r.completed <= 1
  /\ r.pc \in {"idle", "connect"} \cup Attending => r.completed = 0
  /\ r.pc \in Attending => ~r.raised
  /\ r.pc \in {"leaving", "left"} => r.completed = IF r.raised THEN 0 ELSE 1
  /\ r.pc \in {"save", "done"} => r.completed = 1

\* While tools are chosen and called, the model has been told of those that ran.
ToldOK(r) == r.pc \in {"idle", "choose", "process", "calling"} => r.told = r.ran

FlowOK(r) == r \in FlowType /\ ToldOK(r) /\ (Transport = "http" => CompletionOK(r))

SharedOK ==
  /\ session \in Owners \cup {NoSession} /\ open \subseteq Owners
  /\ tools \subseteq AllPages /\ published \subseteq AllPages /\ available \subseteq AllPages
  /\ driver_cm \in {"none", "fresh", "used"} /\ preloaded \in BOOLEAN
FlowsOK == flow \in [Flows -> FlowType] /\ \A f \in Flows : FlowOK(flow[f])
PlannersOK ==
  /\ planner \in [Planners -> PlannerType]
  /\ \A p \in Planners : planner[p].pc = "calling" => planner[p].via = p /\ p \in open
MCPInv == SharedOK /\ FlowsOK /\ PlannersOK

\* An exception ends the attempt, and nothing it has completed is taken back.
LEMMA RaisedOK ==
  ASSUME MCPBounds, NEW f \in Flows, FlowOK(flow[f]), flow[f].pc \in {"connect"} \cup Attending
  PROVE  FlowOK(Raised(f)) /\ FlowOK([Raised(f) EXCEPT !.ran = @ + 1])
<1>1. Raised(f) \in FlowType /\ [Raised(f) EXCEPT !.ran = @ + 1] \in FlowType
  <2>1. flow[f] \in FlowType /\ Raised(f) \in FlowType
    BY DEF FlowOK, FlowType, Raised
  <2>2. Raised(f).ran + 1 \in Nat
    BY <2>1 DEF FlowType
  <2> QED
    BY <2>1, <2>2 DEF FlowType
<1>2. /\ Raised(f).pc = "leaving" /\ Raised(f).raised /\ Raised(f).completed = flow[f].completed
      /\ [Raised(f) EXCEPT !.ran = @ + 1].pc = "leaving" /\ [Raised(f) EXCEPT !.ran = @ + 1].raised
      /\ [Raised(f) EXCEPT !.ran = @ + 1].completed = flow[f].completed
  BY DEF FlowOK, FlowType, Raised
<1>3. Transport = "http" => flow[f].completed = 0
  BY DEF FlowOK, CompletionOK
<1> QED
  BY <1>1, <1>2, <1>3 DEF FlowOK, ToldOK, CompletionOK, Attending

\* Once the chosen tools have been called the model chooses again, or the
\* interaction is complete.
LEMMA CalledOK ==
  ASSUME MCPBounds, NEW r, FlowOK(r), r.pc \in {"process", "calling"}
  PROVE  FlowOK(Called(r))
<1>1. /\ r \in FlowType /\ r.told = r.ran
      /\ Transport = "http" => ~r.raised /\ r.completed = 0
  BY DEF FlowOK, ToldOK, CompletionOK, Attending
<1>2. CASE r.left > 1
  <2>1. /\ Called(r) = [r EXCEPT !.left = r.left - 1, !.pc = "process"] /\ r.left - 1 \in 0..MaxAtOnce
    BY <1>1, <1>2 DEF Called, FlowType, MCPBounds
  <2>2. /\ Called(r) \in FlowType /\ Called(r).pc = "process" /\ Called(r).told = r.told /\ Called(r).ran = r.ran
        /\ Called(r).raised = r.raised /\ Called(r).completed = r.completed
    BY <1>1, <2>1 DEF FlowType, Attending
  <2> QED
    BY <1>1, <2>2 DEF FlowOK, ToldOK, CompletionOK, Attending
<1>3. CASE ~(r.left > 1) /\ WorkChain /\ r.turn < MaxTurns
  <2>1. /\ Called(r) = [r EXCEPT !.left = 0, !.turn = r.turn + 1, !.pc = "choose"] /\ r.turn + 1 \in 0..MaxTurns
        /\ 0 \in 0..MaxAtOnce
    BY <1>1, <1>3 DEF Called, FlowType, MCPBounds
  <2>2. /\ Called(r) \in FlowType /\ Called(r).pc = "choose" /\ Called(r).told = r.told /\ Called(r).ran = r.ran
        /\ Called(r).raised = r.raised /\ Called(r).completed = r.completed
    BY <1>1, <2>1 DEF FlowType, Attending
  <2> QED
    BY <1>1, <2>2 DEF FlowOK, ToldOK, CompletionOK, Attending
<1>4. CASE ~(r.left > 1) /\ ~(WorkChain /\ r.turn < MaxTurns)
  <2>1. /\ Called(r) = [r EXCEPT !.left = 0, !.pc = "leaving", !.completed = r.completed + 1]
        /\ 0 \in 0..MaxAtOnce /\ r.completed + 1 \in Nat
    BY <1>1, <1>4 DEF Called, InteractionCompleted, FlowType, MCPBounds
  <2>2. /\ Called(r) \in FlowType /\ Called(r).pc = "leaving"
        /\ Called(r).raised = r.raised /\ Called(r).completed = r.completed + 1
    BY <1>1, <2>1 DEF FlowType
  <2> QED
    BY <1>1, <2>2 DEF FlowOK, ToldOK, CompletionOK, Attending
<1> QED
  BY <1>2, <1>3, <1>4

\* A question takes a step on its own, and keeps count of what it has completed
\* and told.
LEMMA FlowMoves ==
  ASSUME MCPBounds, MCPInv, NEW f \in Flows, FlowStep(f) \/ ServerAsks(f)
  PROVE  \E r : FlowOK(r) /\ Set(f, r)
<1> DEFINE o == flow[f]
<1>1. FlowOK(o) /\ o \in FlowType /\ session \in Owners \cup {NoSession} /\ f \in Owners
  BY DEF MCPInv, FlowsOK, SharedOK, Owners
<1>2. CASE Initialize(f)
  <2>1. [o EXCEPT !.pc = "connect"] \in FlowType
    BY <1>1 DEF FlowType
  <2>2. FlowOK([o EXCEPT !.pc = "connect"])
    BY <1>1, <1>2, <2>1 DEF Initialize, FlowOK, ToldOK, CompletionOK, FlowType, Attending
  <2> QED
    BY <1>2, <2>2 DEF Initialize
<1>3. CASE Connect(f)
  <2> DEFINE r == [o EXCEPT !.pc = IF o.loaded THEN "prompts" ELSE "list", !.page = 1, !.via = f, !.raised = FALSE]
  <2>1. r \in FlowType /\ r.pc \in {"prompts", "list"} /\ r.raised = FALSE /\ r.completed = o.completed
    <3>1. 1 \in 1..Pages
      BY DEF MCPBounds
    <3> QED
      BY <1>1, <3>1 DEF FlowType, Attending
  <2>2. o.pc = "connect" /\ Set(f, r)
    BY <1>3 DEF Connect
  <2>3. FlowOK(r)
    BY <1>1, <2>1, <2>2 DEF FlowOK, ToldOK, CompletionOK, Attending
  <2> QED
    BY <2>2, <2>3
<1>4. CASE ConnectFails(f)
  BY <1>1, <1>4, RaisedOK DEF ConnectFails
<1>5. CASE PreloadTools(f) \/ PreloadFails(f) \/ PreloadPrompts(f) \/ GetToolSelectionPrompt(f)
  <2>1. o.pc \in {"list", "prompts", "prompt"}
    BY <1>5 DEF PreloadTools, PreloadFails, PreloadPrompts, GetToolSelectionPrompt
  <2>2. FlowOK(Raised(f))
    BY <1>1, <2>1, RaisedOK DEF Attending
  <2>3. Transport = "http" => ~o.raised /\ o.completed = 0
    BY <1>1, <2>1 DEF FlowOK, CompletionOK, Attending
  <2>4. ASSUME o.page # Pages
        PROVE  FlowOK([o EXCEPT !.page = @ + 1, !.via = session])
    <3>1. o.page + 1 \in 1..Pages
      BY <1>1, <2>4 DEF FlowType, MCPBounds
    <3>2. [o EXCEPT !.page = @ + 1, !.via = session] \in FlowType
      BY <1>1, <3>1 DEF FlowType
    <3> QED
      BY <1>1, <2>1, <2>3, <3>2 DEF FlowOK, ToldOK, CompletionOK, FlowType, Attending
  <2>5. FlowOK([o EXCEPT !.pc = "prompts", !.loaded = TRUE]) /\ FlowOK([o EXCEPT !.pc = "prompts"])
    <3>1. [o EXCEPT !.pc = "prompts", !.loaded = TRUE] \in FlowType /\ [o EXCEPT !.pc = "prompts"] \in FlowType
      BY <1>1 DEF FlowType, Attending
    <3> QED
      BY <1>1, <2>1, <2>3, <3>1 DEF FlowOK, ToldOK, CompletionOK, FlowType, Attending
  <2>6. FlowOK([o EXCEPT !.pc = IF Transport = "stdio" THEN "leaving" ELSE "prompt"])
    <3>1. [o EXCEPT !.pc = IF Transport = "stdio" THEN "leaving" ELSE "prompt"] \in FlowType
      BY <1>1 DEF FlowType, Attending
    <3> QED
      BY <1>1, <2>1, <2>3, <3>1 DEF FlowOK, ToldOK, CompletionOK, FlowType, Attending
  <2>7. FlowOK([o EXCEPT !.pc = "choose", !.turn = 0, !.ran = 0, !.told = 0])
    <3>1. [o EXCEPT !.pc = "choose", !.turn = 0, !.ran = 0, !.told = 0] \in FlowType
      <4>1. 0 \in 0..MaxTurns /\ 0 \in Nat
        BY DEF MCPBounds
      <4> QED
        BY <1>1, <4>1 DEF FlowType, Attending
    <3> QED
      BY <1>1, <2>1, <2>3, <3>1 DEF FlowOK, ToldOK, CompletionOK, FlowType, Attending
  <2>8. CASE PreloadTools(f)
    BY <2>2, <2>4, <2>5, <2>8 DEF PreloadTools
  <2>9. CASE PreloadFails(f)
    BY <2>2, <2>5, <2>9 DEF PreloadFails
  <2>10. CASE PreloadPrompts(f)
    BY <2>2, <2>6, <2>10 DEF PreloadPrompts
  <2>11. CASE GetToolSelectionPrompt(f)
    BY <2>2, <2>7, <2>11 DEF GetToolSelectionPrompt
  <2> QED
    BY <1>5, <2>8, <2>9, <2>10, <2>11
<1>6. CASE ChooseTool(f)
  <2>1. o.pc = "choose" /\ o.told = o.ran /\ (Transport = "http" => ~o.raised /\ o.completed = 0)
    BY <1>1, <1>6 DEF ChooseTool, FlowOK, ToldOK, CompletionOK, Attending
  <2>2. FlowOK(InteractionCompleted(o))
    <3>1. /\ InteractionCompleted(o) = [o EXCEPT !.pc = "leaving", !.completed = o.completed + 1]
          /\ o.completed + 1 \in Nat
      BY <1>1 DEF InteractionCompleted, FlowType
    <3>2. /\ InteractionCompleted(o) \in FlowType /\ InteractionCompleted(o).pc = "leaving"
          /\ InteractionCompleted(o).raised = o.raised /\ InteractionCompleted(o).completed = o.completed + 1
      BY <1>1, <3>1 DEF FlowType
    <3> QED
      BY <2>1, <3>2 DEF FlowOK, ToldOK, CompletionOK, Attending
  <2>3. FlowOK(Raised(f))
    BY <1>1, <2>1, RaisedOK DEF Attending
  <2>4. ASSUME NEW n \in 1..MaxAtOnce, NEW last \in BOOLEAN
        PROVE  FlowOK([o EXCEPT !.pc = "process", !.left = n, !.turn = IF last THEN MaxTurns ELSE @])
    <3> DEFINE r == [o EXCEPT !.pc = "process", !.left = n, !.turn = IF last THEN MaxTurns ELSE @]
    <3>1. n \in 0..MaxAtOnce /\ MaxTurns \in 0..MaxTurns
      BY DEF MCPBounds
    <3>2. /\ r \in FlowType /\ r.pc = "process" /\ r.told = o.told /\ r.ran = o.ran
          /\ r.raised = o.raised /\ r.completed = o.completed
      BY <1>1, <3>1 DEF FlowType, Attending
    <3> QED
      BY <2>1, <3>2 DEF FlowOK, ToldOK, CompletionOK, Attending
  <2> QED
    BY <1>6, <2>2, <2>3, <2>4 DEF ChooseTool
<1>7. CASE ProcessTool(f)
  <2>1. o.pc = "process"
    BY <1>7 DEF ProcessTool
  <2>2. FlowOK(Raised(f)) /\ FlowOK(Called(o))
    BY <1>1, <2>1, RaisedOK, CalledOK DEF Attending
  <2>3. FlowOK([o EXCEPT !.pc = "calling", !.via = session])
    <3>1. [o EXCEPT !.pc = "calling", !.via = session] \in FlowType
      BY <1>1 DEF FlowType, Attending
    <3> QED
      BY <1>1, <2>1, <3>1 DEF FlowOK, ToldOK, CompletionOK, FlowType, Attending
  <2> QED
    BY <1>7, <2>2, <2>3 DEF ProcessTool
<1>8. CASE CallTool(f)
  <2> DEFINE ran == [o EXCEPT !.ran = @ + 1]
             r == [o EXCEPT !.ran = @ + 1, !.told = @ + 1]
  <2>1. o.pc = "calling" /\ o.ran + 1 \in Nat /\ o.told + 1 \in Nat
    BY <1>1, <1>8 DEF CallTool, FlowType
  <2>2. /\ r \in FlowType /\ r.pc = "calling" /\ r.told = o.told + 1 /\ r.ran = o.ran + 1
        /\ r.raised = o.raised /\ r.completed = o.completed
    BY <1>1, <2>1 DEF FlowType
  <2>3. FlowOK(r)
    BY <1>1, <2>1, <2>2 DEF FlowOK, ToldOK, CompletionOK, Attending
  <2>4. FlowOK(Called(r))
    BY <2>2, <2>3, CalledOK
  <2>5. ToolError(ran) = r /\ RejectOverflow(ran) = r /\ ToolResult(ran) = r
    BY <1>1 DEF ToolError, RejectOverflow, ToolResult, FlowType
  <2>6. FlowOK(Raised(f)) /\ FlowOK([Raised(f) EXCEPT !.ran = @ + 1])
    BY <1>1, <2>1, RaisedOK DEF Attending
  <2>7. Set(f, Called(r)) \/ Set(f, Raised(f)) \/ Set(f, [Raised(f) EXCEPT !.ran = @ + 1])
    BY <1>8, <2>5 DEF CallTool
  <2> QED
    BY <2>4, <2>6, <2>7
<1>9. CASE ServerAsks(f) \/ ElicitationCallback(f) \/ SamplingCallback(f)
  <2>1. PICK e \in {"none", "form", "url", "sampling"} : Set(f, [o EXCEPT !.elicited = e])
    BY <1>9 DEF ServerAsks, ElicitationCallback, SamplingCallback
  <2>2. [o EXCEPT !.elicited = e] \in FlowType
    BY <1>1 DEF FlowType
  <2>3. FlowOK([o EXCEPT !.elicited = e])
    BY <1>1, <2>2 DEF FlowOK, ToldOK, CompletionOK, FlowType
  <2> QED
    BY <2>1, <2>3
<1>10. CASE CloseSession(f)
  <2>1. o.pc = "leaving" /\ Set(f, [o EXCEPT !.pc = "left"])
    BY <1>10 DEF CloseSession
  <2>2. [o EXCEPT !.pc = "left"] \in FlowType
    BY <1>1 DEF FlowType
  <2>3. FlowOK([o EXCEPT !.pc = "left"])
    BY <1>1, <2>1, <2>2 DEF FlowOK, ToldOK, CompletionOK, FlowType, Attending
  <2> QED
    BY <2>1, <2>3
<1>11. CASE AfterAttempt(f) \/ AfterStdio(f)
  <2>1. o.pc = "left"
    BY <1>11 DEF AfterAttempt, AfterStdio
  <2>2. /\ [o EXCEPT !.pc = "failed"] \in FlowType /\ [o EXCEPT !.pc = "save"] \in FlowType
        /\ o.attempt + 1 # MaxRetries => [o EXCEPT !.pc = "connect", !.attempt = @ + 1] \in FlowType
    <3>1. o.attempt + 1 # MaxRetries => o.attempt + 1 \in 0..(MaxRetries - 1)
      BY <1>1 DEF FlowType, MCPBounds
    <3> QED
      BY <1>1, <3>1 DEF FlowType
  <2>3. Transport = "http" => o.completed = IF o.raised THEN 0 ELSE 1
    BY <1>1, <2>1 DEF FlowOK, CompletionOK
  <2>4. /\ FlowOK([o EXCEPT !.pc = "failed"])
        /\ (Transport = "http" /\ o.raised) \/ Transport # "http" => \A r \in {[o EXCEPT !.pc = "connect", !.attempt = @ + 1]} :
              r \in FlowType => FlowOK(r)
        /\ (Transport = "http" /\ ~o.raised) \/ Transport # "http" => FlowOK([o EXCEPT !.pc = "save"])
    BY <1>1, <2>2, <2>3 DEF FlowOK, ToldOK, CompletionOK, FlowType, Attending
  <2>5. CASE AfterAttempt(f)
    BY <2>2, <2>4, <2>5 DEF AfterAttempt
  <2>6. CASE AfterStdio(f)
    BY <2>2, <2>4, <2>6 DEF AfterStdio
  <2> QED
    BY <1>11, <2>5, <2>6
<1>12. CASE SaveContext(f)
  <2>1. o.pc = "save" /\ Set(f, [o EXCEPT !.pc = "done"])
    BY <1>12 DEF SaveContext
  <2>2. [o EXCEPT !.pc = "done"] \in FlowType
    BY <1>1 DEF FlowType
  <2>3. FlowOK([o EXCEPT !.pc = "done"])
    BY <1>1, <2>1, <2>2 DEF FlowOK, ToldOK, CompletionOK, FlowType, Attending
  <2> QED
    BY <2>1, <2>3
<1>13. CASE MultiQuestion(f)
  <2>1. PICK pc \in {"failed", "choose"} : Set(f, [o EXCEPT !.pc = pc])
    BY <1>13 DEF MultiQuestion
  <2>2. o.pc = "idle" /\ Transport # "http" /\ [o EXCEPT !.pc = pc] \in FlowType
    BY <1>1, <1>13 DEF MultiQuestion, FlowType, Attending
  <2>3. FlowOK([o EXCEPT !.pc = pc])
    BY <1>1, <2>2 DEF FlowOK, ToldOK, FlowType
  <2> QED
    BY <2>1, <2>3
<1> QED
  BY <1>2, <1>3, <1>4, <1>5, <1>6, <1>7, <1>8, <1>9, <1>10, <1>11, <1>12, <1>13 DEF FlowStep

\* The first page is asked for before the others, and no page after the last.
LEMMA MCPBegins ==
  ASSUME MCPBounds, MCPInit
  PROVE  MCPInv
<1>1. SharedOK
  BY DEF MCPInit, SharedOK
<1>2. NewFlow \in FlowType /\ FlowOK(NewFlow)
  <2>1. 0 \in 0..(MaxRetries - 1) /\ 1 \in 1..Pages /\ 0 \in 0..MaxTurns /\ 0 \in 0..MaxAtOnce
    BY DEF MCPBounds
  <2>2. NewFlow \in FlowType
    BY <2>1 DEF NewFlow, FlowType
  <2> QED
    BY <2>2 DEF NewFlow, FlowOK, ToldOK, CompletionOK, Attending
<1>3. FlowsOK
  BY <1>2 DEF MCPInit, FlowsOK
<1>4. PlannersOK
  <2>1. 1 \in 1..Pages
    BY DEF MCPBounds
  <2> QED
    BY <2>1 DEF MCPInit, PlannersOK, PlannerType, NewPlanner
<1> QED
  BY <1>1, <1>3, <1>4 DEF MCPInv

\* What the questions of an agent share stays of its type, and a question opens
\* and closes no session but its own.
LEMMA FlowKeepsShared ==
  ASSUME MCPBounds, MCPInv, NEW f \in Flows, FlowStep(f) \/ ServerAsks(f)
  PROVE  SharedOK' /\ UNCHANGED planner /\ \A p \in Planners : p \in open' <=> p \in open
<1>1. f \in Owners /\ flow[f].page \in AllPages /\ f \notin Planners
  BY DEF MCPInv, FlowsOK, FlowType, Owners, AllPages, MCPBounds
<1>2. UNCHANGED <<planner, published, preloaded, available>>
  BY DEF FlowStep, ServerAsks, Initialize, Connect, ConnectFails, PreloadTools, PreloadFails, PreloadPrompts,
         GetToolSelectionPrompt, ChooseTool, ProcessTool, CallTool, ElicitationCallback, SamplingCallback,
         CloseSession, AfterAttempt, AfterStdio, SaveContext, MultiQuestion, agentVars
<1>3. session' \in {session, f, NoSession} /\ driver_cm' \in {driver_cm, "fresh", "used"}
  BY DEF FlowStep, ServerAsks, Initialize, Connect, ConnectFails, PreloadTools, PreloadFails, PreloadPrompts,
         GetToolSelectionPrompt, ChooseTool, ProcessTool, CallTool, ElicitationCallback, SamplingCallback,
         CloseSession, AfterAttempt, AfterStdio, SaveContext, MultiQuestion, agentVars
<1>4. tools' \in {tools, {}, tools \cup {flow[f].page}} /\ open' \in {open, open \cup {f}, open \ {f}}
  BY DEF FlowStep, ServerAsks, Initialize, Connect, ConnectFails, PreloadTools, PreloadFails, PreloadPrompts,
         GetToolSelectionPrompt, ChooseTool, ProcessTool, CallTool, ElicitationCallback, SamplingCallback,
         CloseSession, AfterAttempt, AfterStdio, SaveContext, MultiQuestion, agentVars
<1>5. SharedOK'
  BY <1>1, <1>2, <1>3, <1>4 DEF MCPInv, SharedOK
<1> QED
  BY <1>1, <1>2, <1>4, <1>5

LEMMA FlowKeeps ==
  ASSUME MCPBounds, MCPInv, NEW f \in Flows, FlowStep(f) \/ ServerAsks(f)
  PROVE  MCPInv'
<1>1. SharedOK' /\ UNCHANGED planner /\ \A p \in Planners : p \in open' <=> p \in open
  BY FlowKeepsShared
<1>2. PICK r : FlowOK(r) /\ flow' = [flow EXCEPT ![f] = r]
  BY FlowMoves DEF Set
<1>3. FlowsOK'
  BY <1>2 DEF MCPInv, FlowsOK, FlowOK, ToldOK, CompletionOK, FlowType
<1>4. PlannersOK'
  BY <1>1 DEF MCPInv, PlannersOK, PlannerType
<1> QED
  BY <1>1, <1>3, <1>4 DEF MCPInv

\* A planner takes a step on its own: what it publishes is of the tools it has,
\* and what it calls it calls in its own session.
LEMMA PlannerMoves ==
  ASSUME MCPBounds, MCPInv, NEW p \in Planners, PlannerStep(p)
  PROVE  /\ SharedOK' /\ UNCHANGED flow
         /\ open' \in {open, open \cup {p}, open \ {p}}
         /\ \E r \in PlannerType : Become(p, r) /\ (r.pc = "calling" => r.via = p /\ p \in open')
<1> DEFINE o == planner[p]
           Moves(r) == Become(p, r) /\ (r.pc = "calling" => r.via = p /\ p \in open')
<1>1. o \in PlannerType /\ p \in Owners /\ session \in Owners \cup {NoSession}
  BY DEF MCPInv, PlannersOK, SharedOK, Owners
<1>2. /\ Refreshed({}) \subseteq AllPages /\ Refreshed(published) \subseteq AllPages /\ Refreshed(tools) \subseteq AllPages
      /\ o.page \in AllPages /\ 1 \in 1..Pages
  <2>1. o.page \in AllPages /\ 1 \in 1..Pages
    BY <1>1 DEF PlannerType, AllPages, MCPBounds
  <2>2. /\ Refreshed({}) \subseteq AllPages /\ Refreshed(published) \subseteq AllPages
        /\ Refreshed(tools) \subseteq AllPages
    BY DEF MCPInv, SharedOK, Refreshed
  <2> QED
    BY <2>1, <2>2
<1>3. \A pc \in {"preloaded", "opening", "closing", "done"} :
        /\ [o EXCEPT !.pc = pc] \in PlannerType
        /\ Become(p, [o EXCEPT !.pc = pc]) => \E r \in PlannerType : Moves(r)
  BY <1>1 DEF PlannerType
<1>4. CASE PreloadRegisteredAgents(p)
  <2>1. SharedOK' /\ UNCHANGED <<flow, open>>
    BY <1>2, <1>4 DEF PreloadRegisteredAgents, MCPInv, SharedOK
  <2> QED
    BY <1>3, <1>4, <2>1 DEF PreloadRegisteredAgents
<1>5. CASE OpenSession(p)
  <2>1. SharedOK' /\ UNCHANGED flow /\ open' = open \cup {p}
    BY <1>1, <1>5 DEF OpenSession, MCPInv, SharedOK
  <2>2. [o EXCEPT !.pc = "listing", !.via = p, !.page = 1] \in PlannerType
        /\ [o EXCEPT !.pc = "listing", !.via = p, !.page = 1].pc = "listing"
    BY <1>1, <1>2 DEF PlannerType
  <2> QED
    BY <1>5, <2>1, <2>2 DEF OpenSession
<1>6. ASSUME PublishNone(p), UNCHANGED <<driver_cm, flow>>,
             session' \in {session, NoSession}, tools' \in {tools, {}, tools \cup {o.page}}
      PROVE  SharedOK' /\ open' = open \ {p} /\ \E r \in PlannerType : Moves(r)
  <2>1. SharedOK' /\ open' = open \ {p}
    BY <1>2, <1>6 DEF PublishNone, MCPInv, SharedOK
  <2> QED
    BY <1>3, <1>6, <2>1 DEF PublishNone
<1>7. CASE OpenFails(p) \/ TeardownFails(p)
  BY <1>6, <1>7 DEF OpenFails, TeardownFails
<1>8. CASE Listed(p)
  <2>1. UNCHANGED <<driver_cm, flow>> /\ session' \in {session, NoSession} /\ tools' \in {tools, {}, tools \cup {o.page}}
    BY <1>8 DEF Listed
  <2>2. CASE PublishNone(p)
    BY <1>6, <2>1, <2>2
  <2>3. CASE ~PublishNone(p)
    <3>1. PICK refused \in BOOLEAN :
            \/ Become(p, [o EXCEPT !.pc = "closing"])
            \/ Become(p, [o EXCEPT !.pc = "prompting", !.page = @, !.via = session])
            \/ o.page # Pages /\ Become(p, [o EXCEPT !.pc = "listing", !.page = @ + 1, !.via = session])
      BY <1>8, <2>3 DEF Listed
    <3>2. UNCHANGED <<published, preloaded, available, open>>
      BY <1>8, <2>3 DEF Listed
    <3>3. SharedOK'
      BY <1>2, <2>1, <3>2 DEF MCPInv, SharedOK
    <3>4. [o EXCEPT !.pc = "prompting", !.page = @, !.via = session] \in PlannerType
          /\ [o EXCEPT !.pc = "prompting", !.page = @, !.via = session].pc = "prompting"
      BY <1>1 DEF PlannerType
    <3>5. ASSUME o.page # Pages
          PROVE  [o EXCEPT !.pc = "listing", !.page = @ + 1, !.via = session] \in PlannerType
                 /\ [o EXCEPT !.pc = "listing", !.page = @ + 1, !.via = session].pc = "listing"
      <4>1. o.page + 1 \in 1..Pages
        BY <1>1, <3>5 DEF PlannerType, MCPBounds
      <4> QED
        BY <1>1, <4>1 DEF PlannerType
    <3> QED
      BY <1>3, <2>1, <3>1, <3>2, <3>3, <3>4, <3>5
  <2> QED
    BY <2>2, <2>3
<1>9. CASE PromptsListed(p)
  <2>1. UNCHANGED <<driver_cm, flow, tools>> /\ session' \in {session, NoSession}
    BY <1>9 DEF PromptsListed
  <2>2. CASE PublishNone(p)
    BY <1>6, <2>1, <2>2
  <2>3. CASE ~PublishNone(p)
    <3>1. Become(p, [o EXCEPT !.pc = "closing"]) /\ UNCHANGED <<published, preloaded, available, open>>
      BY <1>9, <2>3 DEF PromptsListed
    <3>2. SharedOK'
      BY <2>1, <3>1 DEF MCPInv, SharedOK
    <3> QED
      BY <1>3, <2>1, <3>1, <3>2
  <2> QED
    BY <2>2, <2>3
<1>10. CASE Publish(p)
  <2>1. SharedOK' /\ UNCHANGED flow /\ open' = open \ {p}
    BY <1>2, <1>10 DEF Publish, MCPInv, SharedOK
  <2> QED
    BY <1>3, <1>10, <2>1 DEF Publish
<1>11. CASE CallPublished(p)
  <2>1. SharedOK' /\ UNCHANGED flow /\ open' = open \cup {p}
    BY <1>1, <1>11 DEF CallPublished, agentVars, MCPInv, SharedOK
  <2>2. [o EXCEPT !.pc = "calling", !.via = p] \in PlannerType /\ [o EXCEPT !.pc = "calling", !.via = p].via = p
    BY <1>1 DEF PlannerType
  <2> QED
    BY <1>11, <2>1, <2>2 DEF CallPublished
<1>12. CASE PublishedReturns(p)
  <2>1. SharedOK' /\ UNCHANGED flow /\ open' = open \ {p}
    BY <1>12 DEF PublishedReturns, agentVars, MCPInv, SharedOK
  <2> QED
    BY <1>3, <1>12, <2>1 DEF PublishedReturns
<1> QED
  BY <1>4, <1>5, <1>7, <1>8, <1>9, <1>10, <1>11, <1>12 DEF PlannerStep, OpenFails, TeardownFails

LEMMA PlannerStepKeeps ==
  ASSUME MCPBounds, MCPInv, NEW p \in Planners, PlannerStep(p)
  PROVE  MCPInv'
<1>1. /\ SharedOK' /\ UNCHANGED flow
      /\ open' \in {open, open \cup {p}, open \ {p}}
  BY PlannerMoves
<1>2. PICK r \in PlannerType : Become(p, r) /\ (r.pc = "calling" => r.via = p /\ p \in open')
  BY PlannerMoves
<1>3. FlowsOK'
  BY <1>1 DEF MCPInv, FlowsOK, FlowOK, ToldOK, CompletionOK, FlowType
<1>4. PlannersOK'
  BY <1>1, <1>2 DEF MCPInv, PlannersOK, PlannerType, Become
<1> QED
  BY <1>1, <1>3, <1>4 DEF MCPInv

\* The invariant holds whatever the transport, the questions and the planners.
LEMMA MCPInvariance == MCPBounds => (MCPSpec => []MCPInv)
<1> SUFFICES ASSUME MCPBounds
             PROVE  MCPSpec => []MCPInv
  OBVIOUS
<1>1. MCPInit => MCPInv
  BY MCPBegins
<1>2. MCPInv /\ [MCPNext]_mcpVars => MCPInv'
  <2> SUFFICES ASSUME MCPInv, [MCPNext]_mcpVars
               PROVE  MCPInv'
    OBVIOUS
  <2>1. CASE MCPNext
    BY <2>1, FlowKeeps, PlannerStepKeeps DEF MCPNext
  <2>2. CASE UNCHANGED mcpVars
    BY <2>2 DEF mcpVars, MCPInv, SharedOK, FlowsOK, FlowOK, ToldOK, CompletionOK, FlowType, PlannersOK, PlannerType
  <2> QED
    BY <2>1, <2>2
<1> QED
  BY <1>1, <1>2, PTL DEF MCPSpec

\* The state of the agent and of its questions keeps its types: no page is asked
\* for after the last (preload_tools), and no turn is taken beyond the bounds.
THEOREM MCPTypes == MCPBounds => (MCPSpec => []MCPTypeOK)
<1> SUFFICES ASSUME MCPBounds
             PROVE  MCPSpec => []MCPTypeOK
  OBVIOUS
<1>1. ASSUME MCPInv
      PROVE  MCPTypeOK
  <2>1. \A f \in Flows : /\ flow[f].via \in Owners \cup {NoSession} /\ flow[f].turn \in 0..MaxTurns
                         /\ flow[f].attempt \in 0..MaxRetries /\ flow[f].left \in 0..MaxAtOnce
    BY <1>1 DEF MCPInv, FlowsOK, FlowType, MCPBounds
  <2>2. \A p \in Planners : planner[p].via \in Owners \cup {NoSession} /\ planner[p].page \in 1..(Pages + 1)
    BY <1>1 DEF MCPInv, PlannersOK, PlannerType, MCPBounds
  <2> QED
    BY <1>1, <2>1, <2>2 DEF MCPInv, SharedOK, MCPTypeOK
<1> QED
  BY <1>1, MCPInvariance, PTL

\* Over HTTP a question that ends well has completed one interaction with the
\* server, whatever was retried (_get_question_context).
THEOREM InteractionOnce == MCPBounds /\ Transport = "http" => (MCPSpec => []CompletedOnce)
<1> SUFFICES ASSUME MCPBounds, Transport = "http"
             PROVE  MCPSpec => []CompletedOnce
  OBVIOUS
<1>1. MCPInv => CompletedOnce
  BY DEF MCPInv, FlowsOK, FlowOK, CompletionOK, CompletedOnce
<1> QED
  BY <1>1, MCPInvariance, PTL

\* Whatever the transport, when the model chooses again it has been told of each
\* call that ran (process_tool, work_chain).
THEOREM ModelIsTold == MCPBounds => (MCPSpec => []ToldOfEveryCall)
<1>1. MCPInv => ToldOfEveryCall
  BY DEF MCPInv, FlowsOK, FlowOK, ToldOK, ToldOfEveryCall
<1> QED
  BY <1>1, MCPInvariance, PTL

\* A published function is called in an open session of its own, whoever else
\* uses the agent (_make_tool_caller).
THEOREM PublishedIsolated == MCPBounds => (MCPSpec => []PublishedCallsIsolated)
<1>1. MCPInv => PublishedCallsIsolated
  BY DEF MCPInv, PlannersOK, PublishedCallsIsolated
<1> QED
  BY <1>1, MCPInvariance, PTL

-----------------------------------------------------------------------------
(* The session that a question names.                                      *)

\* A name that a client makes up is not an id that the knowledge box gives.
SessionBounds == Uuids \cap Slugs = {} /\ MaxOperations \in Nat

\* Ids and slugs are keys of the resources, and an id is given once.
KeysOK ==
  /\ Ids \subseteq used
  /\ \A r, t \in resources : r.id = t.id \/ r.slug = t.slug => r = t

\* Where a request is with a name: an id was given when the client used it, and
\* past its lookup by id it stands for no resource, unless that is the answer.
NameOK(c) ==
  LET o == caller[c] IN
  /\ o.pc # "idle" => o.name \in Names
  /\ o.pc \in {"by_id", "by_slug", "create", "ready"} /\ o.name \in Uuids => o.name \in used
  /\ o.pc \in {"by_slug", "create", "ready"} /\ o.name \in Uuids =>
        o.name \notin Ids \/ (o.pc = "ready" /\ o.found = o.name)

AnswerOK(c) ==
  caller[c].pc = "ready" =>
    /\ caller[c].found \in used
    /\ \A r \in resources : r.id = caller[c].found => caller[c].name \in {r.id, r.slug}

SessionInv == SessionStoreTypeOK /\ KeysOK /\ \A c \in Callers : NameOK(c) /\ AnswerOK(c)

\* The resources that a lookup sees: one has its id, and its slug is its own.
LEMMA ResourceFields ==
  ASSUME SessionInv, NEW r \in resources
  PROVE  r.id \in Uuids /\ r.id \in Ids /\ r.id \in used /\ r.slug \in Names /\ r.val \in 0..MaxOperations
<1>1. r \in [id : Uuids, slug : Names, val : 0..MaxOperations]
  BY DEF SessionInv, SessionStoreTypeOK
<1> QED
  BY <1>1 DEF SessionInv, KeysOK, Ids

LEMMA SessionBegins ==
  ASSUME SessionBounds, SessionStoreInit
  PROVE  SessionInv
<1>1. SessionStoreTypeOK
  BY DEF SessionStoreInit, SessionStoreTypeOK, Idle, SessionBounds
<1>2. KeysOK /\ \A c \in Callers : NameOK(c) /\ AnswerOK(c)
  BY DEF SessionStoreInit, KeysOK, Ids, NameOK, AnswerOK, Idle
<1> QED
  BY <1>1, <1>2 DEF SessionInv

\* A resource is created under an id that no one knows yet and a slug that is
\* free (create_session_resource).
LEMMA CreatedResource ==
  ASSUME SessionBounds, SessionInv, NEW slug \in Names, NEW id, CreateSessionResource(slug, id)
  PROVE  /\ id \in Uuids \ used /\ used' = used \cup {id} /\ used' \subseteq Uuids
         /\ resources' = resources \cup {[id |-> id, slug |-> slug, val |-> calls]}
         /\ resources' \in SUBSET [id : Uuids, slug : Names, val : 0..MaxOperations]
         /\ KeysOK' /\ Ids' = Ids \cup {id}
<1> DEFINE new == [id |-> id, slug |-> slug, val |-> calls]
<1>1. /\ id \in Uuids \ used /\ used' = used \cup {id} /\ resources' = resources \cup {new}
      /\ \A r \in resources : r.slug # slug
  BY DEF CreateSessionResource, BySlug
<1>2. new \in [id : Uuids, slug : Names, val : 0..MaxOperations] /\ new.id = id /\ new.slug = slug
  BY <1>1 DEF SessionInv, SessionStoreTypeOK
<1>3. used' \subseteq Uuids /\ resources' \in SUBSET [id : Uuids, slug : Names, val : 0..MaxOperations]
  BY <1>1, <1>2 DEF SessionInv, SessionStoreTypeOK
<1> HIDE DEF new
<1>4. \A r \in resources : r.id # id
  BY <1>1, ResourceFields
<1>5. Ids' = Ids \cup {id}
  BY <1>1, <1>2 DEF Ids
<1>6. ASSUME NEW r \in resources', NEW t \in resources', r.id = t.id \/ r.slug = t.slug
      PROVE  r = t
  <2>1. CASE r \in resources /\ t \in resources
    BY <1>6, <2>1 DEF SessionInv, KeysOK
  <2>2. CASE r = new \/ t = new
    BY <1>1, <1>2, <1>4, <1>6, <2>2
  <2> QED
    BY <1>1, <2>1, <2>2
<1>7. KeysOK'
  BY <1>1, <1>5, <1>6 DEF KeysOK, SessionInv
<1> QED
  BY <1>1, <1>3, <1>5, <1>7 DEF new

\* What the other requests were answered stands when a resource is created.
LEMMA OthersStand ==
  ASSUME SessionBounds, SessionInv, NEW slug \in Names, NEW id, CreateSessionResource(slug, id),
         NEW c \in Callers, caller'[c] = caller[c]
  PROVE  NameOK(c)' /\ AnswerOK(c)'
<1>1. /\ id \in Uuids \ used /\ used' = used \cup {id} /\ Ids' = Ids \cup {id}
      /\ resources' = resources \cup {[id |-> id, slug |-> slug, val |-> calls]}
  BY CreatedResource
<1>2. NameOK(c) /\ AnswerOK(c)
  BY DEF SessionInv
<1>3. NameOK(c)'
  BY <1>1, <1>2 DEF NameOK
<1>4. AnswerOK(c)'
  BY <1>1, <1>2 DEF AnswerOK
<1> QED
  BY <1>3, <1>4

\* A question names a session (ensure_session_exists).
LEMMA NamedKeeps ==
  ASSUME SessionBounds, SessionInv, NEW c \in Callers, NEW n \in Names, NEW create \in BOOLEAN,
         EnsureSessionExists(c, n, create)
  PROVE  SessionInv'
<1> DEFINE o == [Idle EXCEPT !.pc = IF n \in Uuids \cup UuidSlugs THEN "by_id" ELSE "by_slug", !.name = n, !.create = create]
<1>1. /\ n \in used \cup Slugs /\ calls < MaxOperations /\ caller' = [caller EXCEPT ![c] = o]
      /\ calls' = calls + 1 /\ UNCHANGED <<resources, used>>
  BY DEF EnsureSessionExists
<1>2. /\ o.pc \in {"by_id", "by_slug"} /\ o.name = n /\ (o.pc = "by_slug" => n \notin Uuids)
      /\ o \in [pc : {"idle", "by_id", "by_slug", "create", "ready", "missing", "failed"},
                name : Names \cup {NoResource}, create : BOOLEAN, found : Names \cup {NoResource}]
  BY DEF Idle
<1>3. n \in Uuids => n \in used
  BY <1>1 DEF SessionBounds
<1> HIDE DEF o
<1>4. SessionStoreTypeOK'
  BY <1>1, <1>2 DEF SessionInv, SessionStoreTypeOK, SessionBounds
<1>5. KeysOK' /\ UNCHANGED Ids
  BY <1>1 DEF SessionInv, KeysOK, Ids
<1>6. caller'[c] = o /\ \A d \in Callers \ {c} : caller'[d] = caller[d]
  BY <1>1 DEF SessionInv, SessionStoreTypeOK
<1>7. ASSUME NEW d \in Callers
      PROVE  NameOK(d)' /\ AnswerOK(d)'
  BY <1>1, <1>2, <1>3, <1>5, <1>6 DEF SessionInv, NameOK, AnswerOK
<1> QED
  BY <1>4, <1>5, <1>7 DEF SessionInv

\* The name is looked up, as an id and as a slug (resolve_session_id).
LEMMA ResolveKeeps ==
  ASSUME SessionBounds, SessionInv, NEW c \in Callers, ResolveById(c) \/ ResolveBySlug(c)
  PROVE  SessionInv'
<1>1. UNCHANGED <<resources, used, calls>> /\ caller[c].pc \in {"by_id", "by_slug"}
  BY DEF ResolveById, ResolveBySlug
<1>2. KeysOK' /\ UNCHANGED Ids
  BY <1>1 DEF SessionInv, KeysOK, Ids
<1>3. /\ caller[c] \in [pc : {"idle", "by_id", "by_slug", "create", "ready", "missing", "failed"},
                        name : Names \cup {NoResource}, create : BOOLEAN, found : Names \cup {NoResource}]
      /\ caller[c].name \in Names /\ NameOK(c)
  BY <1>1 DEF SessionInv, SessionStoreTypeOK, NameOK
<1>4. \E pc \in {"by_slug", "create", "ready", "missing"}, found \in Names \cup {NoResource} :
        /\ caller' = [caller EXCEPT ![c] = [caller[c] EXCEPT !.pc = pc, !.found = found]]
        /\ pc # "missing" /\ caller[c].name \in Uuids =>
              caller[c].name \notin Ids \/ (pc = "ready" /\ found = caller[c].name)
        /\ pc = "ready" => \E r \in resources : found = r.id /\ caller[c].name \in {r.id, r.slug}
  <2>1. CASE ResolveById(c) /\ caller[c].name \in Ids
    <3>1. caller' = [caller EXCEPT ![c] = [caller[c] EXCEPT !.pc = "ready", !.found = caller[c].name]]
      BY <1>3, <2>1 DEF ResolveById, SessionInv, SessionStoreTypeOK
    <3>2. PICK r \in resources : r.id = caller[c].name
      BY <2>1 DEF Ids
    <3> QED
      BY <1>3, <3>1, <3>2
  <2>2. CASE ResolveById(c) /\ caller[c].name \notin Ids
    <3>1. caller' = [caller EXCEPT ![c] = [caller[c] EXCEPT !.pc = "by_slug", !.found = caller[c].found]]
      BY <1>3, <2>2 DEF ResolveById, Proceed, SessionInv, SessionStoreTypeOK
    <3> QED
      BY <1>3, <2>2, <3>1
  <2>3. CASE ResolveBySlug(c) /\ BySlug(caller[c].name) # {}
    <3> DEFINE r == CHOOSE r \in BySlug(caller[c].name) : TRUE
    <3>1. r \in BySlug(caller[c].name)
      BY <2>3
    <3>2. r \in resources /\ r.slug = caller[c].name
      BY <3>1 DEF BySlug
    <3>3. caller' = [caller EXCEPT ![c] = [caller[c] EXCEPT !.pc = "ready", !.found = r.id]]
      BY <1>3, <2>3 DEF ResolveBySlug, LookUpSlug, SessionInv, SessionStoreTypeOK
    <3> HIDE DEF r
    <3>4. r.id \in Names /\ r.id \in Ids
      BY <3>2, ResourceFields DEF Names
    <3>5. caller[c].name \in Uuids => caller[c].name \notin Ids
      BY <1>3, <2>3 DEF ResolveBySlug, NameOK
    <3> QED
      BY <3>2, <3>3, <3>4, <3>5
  <2>4. CASE ResolveBySlug(c) /\ BySlug(caller[c].name) = {}
    <3>1. caller' = [caller EXCEPT ![c] = [caller[c] EXCEPT !.found = NoResource,
                                                           !.pc = IF caller[c].create THEN "create" ELSE "missing"]]
      BY <1>3, <2>4 DEF ResolveBySlug, LookUpSlug, SessionInv, SessionStoreTypeOK
    <3>2. caller[c].name \in Uuids => caller[c].name \notin Ids
      BY <1>3, <2>4 DEF ResolveBySlug, NameOK
    <3> QED
      BY <3>1, <3>2
  <2> QED
    BY <2>1, <2>2, <2>3, <2>4
<1>5. PICK pc \in {"by_slug", "create", "ready", "missing"}, found \in Names \cup {NoResource} :
        /\ caller' = [caller EXCEPT ![c] = [caller[c] EXCEPT !.pc = pc, !.found = found]]
        /\ pc # "missing" /\ caller[c].name \in Uuids =>
              caller[c].name \notin Ids \/ (pc = "ready" /\ found = caller[c].name)
        /\ pc = "ready" => \E r \in resources : found = r.id /\ caller[c].name \in {r.id, r.slug}
  BY <1>4
<1>6. /\ caller'[c] = [caller[c] EXCEPT !.pc = pc, !.found = found]
      /\ \A d \in Callers \ {c} : caller'[d] = caller[d]
  BY <1>5 DEF SessionInv, SessionStoreTypeOK
<1>7. caller'[c].pc = pc /\ caller'[c].found = found /\ caller'[c].name = caller[c].name
  BY <1>3, <1>6
<1>8. SessionStoreTypeOK'
  BY <1>1, <1>3, <1>5 DEF SessionInv, SessionStoreTypeOK
<1>9. NameOK(c)'
  BY <1>1, <1>2, <1>3, <1>5, <1>7 DEF NameOK
<1>10. AnswerOK(c)'
  BY <1>1, <1>5, <1>7, ResourceFields DEF AnswerOK, SessionInv, KeysOK
<1>11. ASSUME NEW d \in Callers \ {c}
       PROVE  NameOK(d)' /\ AnswerOK(d)'
  BY <1>1, <1>2, <1>6 DEF SessionInv, NameOK, AnswerOK
<1> QED
  BY <1>2, <1>8, <1>9, <1>10, <1>11 DEF SessionInv

\* The session that was not there is created under its name, or that fails.
LEMMA CreateMissingKeeps ==
  ASSUME SessionBounds, SessionInv, NEW c \in Callers, CreateMissing(c)
  PROVE  SessionInv'
<1>1. /\ caller[c].pc = "create" /\ UNCHANGED calls
      /\ caller[c] \in [pc : {"idle", "by_id", "by_slug", "create", "ready", "missing", "failed"},
                        name : Names \cup {NoResource}, create : BOOLEAN, found : Names \cup {NoResource}]
      /\ caller[c].name \in Names
      /\ caller[c].name \in Uuids => caller[c].name \in used /\ caller[c].name \notin Ids
  BY DEF CreateMissing, SessionInv, SessionStoreTypeOK, NameOK
<1>2. ASSUME NEW id \in Uuids, CreateSessionResource(caller[c].name, id),
             caller' = [caller EXCEPT ![c].found = id, ![c].pc = "ready"]
      PROVE  SessionInv'
  <2>1. /\ id \in Uuids \ used /\ used' = used \cup {id} /\ used' \subseteq Uuids
        /\ resources' = resources \cup {[id |-> id, slug |-> caller[c].name, val |-> calls]}
        /\ resources' \in SUBSET [id : Uuids, slug : Names, val : 0..MaxOperations]
        /\ KeysOK' /\ Ids' = Ids \cup {id}
    BY <1>1, <1>2, CreatedResource
  <2>2. /\ caller' = [caller EXCEPT ![c] = [caller[c] EXCEPT !.found = id, !.pc = "ready"]]
        /\ caller'[c] = [caller[c] EXCEPT !.found = id, !.pc = "ready"]
        /\ \A d \in Callers \ {c} : caller'[d] = caller[d]
    BY <1>2 DEF SessionInv, SessionStoreTypeOK
  <2>3. caller'[c].pc = "ready" /\ caller'[c].found = id /\ caller'[c].name = caller[c].name
    <3> DEFINE o == caller[c]
               n == [o EXCEPT !.found = id, !.pc = "ready"]
    <3>1. o \in [pc : {"idle", "by_id", "by_slug", "create", "ready", "missing", "failed"},
                name : Names \cup {NoResource}, create : BOOLEAN, found : Names \cup {NoResource}]
          /\ caller'[c] = n
      BY <1>1, <2>2
    <3>2. o \in [pc : {"idle", "by_id", "by_slug", "create", "ready", "missing", "failed"},
                name : Names \cup {NoResource}, create : BOOLEAN, found : Names \cup {NoResource}]
          => n.pc = "ready" /\ n.found = id /\ n.name = o.name
      OBVIOUS
    <3> QED
      BY <3>1, <3>2
  <2>4. SessionStoreTypeOK'
    BY <1>1, <2>1, <2>2 DEF SessionInv, SessionStoreTypeOK, Names
  <2>5. NameOK(c)'
    BY <1>1, <2>1, <2>3 DEF NameOK
  <2>6. AnswerOK(c)'
    <3>1. \A r \in resources : r.id # id
      BY <2>1, ResourceFields
    <3> QED
      BY <2>1, <2>3, <3>1 DEF AnswerOK
  <2>7. ASSUME NEW d \in Callers \ {c}
        PROVE  NameOK(d)' /\ AnswerOK(d)'
    BY <1>1, <1>2, <2>2, OthersStand
  <2> QED
    BY <2>1, <2>4, <2>5, <2>6, <2>7 DEF SessionInv
<1>3. CASE Proceed(c, "failed") /\ UNCHANGED <<resources, used>>
  <2>1. /\ caller'[c] = [caller[c] EXCEPT !.pc = "failed"]
        /\ \A d \in Callers \ {c} : caller'[d] = caller[d]
    BY <1>3 DEF Proceed, SessionInv, SessionStoreTypeOK
  <2>2. caller'[c].pc = "failed" /\ caller'[c].name = caller[c].name
    BY <1>1, <2>1
  <2>3. SessionStoreTypeOK'
    BY <1>1, <1>3, <2>1 DEF Proceed, SessionInv, SessionStoreTypeOK
  <2>4. KeysOK' /\ UNCHANGED Ids
    BY <1>3 DEF SessionInv, KeysOK, Ids
  <2>5. NameOK(c)' /\ AnswerOK(c)'
    BY <1>1, <2>2 DEF NameOK, AnswerOK
  <2>6. ASSUME NEW d \in Callers \ {c}
        PROVE  NameOK(d)' /\ AnswerOK(d)'
    BY <1>3, <2>1, <2>4 DEF SessionInv, NameOK, AnswerOK
  <2> QED
    BY <2>3, <2>4, <2>5, <2>6 DEF SessionInv
<1> QED
  BY <1>2, <1>3 DEF CreateMissing

\* The routes of the API create, change and remove a session, whoever waits for it.
LEMMA RoutesKeep ==
  ASSUME SessionBounds, SessionInv, NEW n \in Names, CreateSession(n) \/ PatchSession(n) \/ DeleteSession(n)
  PROVE  SessionInv'
<1>1. UNCHANGED caller /\ calls < MaxOperations /\ calls' = calls + 1 /\ calls' \in 0..MaxOperations
  BY DEF CreateSession, PatchSession, DeleteSession, SessionInv, SessionStoreTypeOK, SessionBounds
<1>2. CASE CreateSession(n)
  <2>1. PICK id \in Uuids : CreateSessionResource(n, id)
    BY <1>2 DEF CreateSession
  <2>2. used' \subseteq Uuids /\ KeysOK' /\ resources' \in SUBSET [id : Uuids, slug : Names, val : 0..MaxOperations]
    BY <2>1, CreatedResource
  <2>3. \A c \in Callers : NameOK(c)' /\ AnswerOK(c)'
    BY <1>1, <2>1, OthersStand
  <2> QED
    BY <1>1, <2>2, <2>3 DEF SessionInv, SessionStoreTypeOK
<1>3. CASE PatchSession(n)
  <2>1. PICK r \in resources : resources' = (resources \ {r}) \cup {[r EXCEPT !.val = calls]}
    BY <1>3 DEF PatchSession
  <2> DEFINE s == [r EXCEPT !.val = calls]
  <2>2. UNCHANGED used
    BY <1>3 DEF PatchSession
  <2>3. s \in [id : Uuids, slug : Names, val : 0..MaxOperations] /\ s.id = r.id /\ s.slug = r.slug
    BY DEF SessionInv, SessionStoreTypeOK
  <2>4. resources' = (resources \ {r}) \cup {s}
    BY <2>1
  <2> HIDE DEF s
  <2>5. SessionStoreTypeOK'
    BY <1>1, <2>2, <2>3, <2>4 DEF SessionInv, SessionStoreTypeOK
  <2>6. UNCHANGED Ids
    BY <2>3, <2>4 DEF Ids
  <2>7. KeysOK'
    BY <2>2, <2>3, <2>4, <2>6 DEF SessionInv, KeysOK
  <2>8. \A c \in Callers : NameOK(c)' /\ AnswerOK(c)'
    BY <1>1, <2>2, <2>3, <2>4, <2>6 DEF SessionInv, NameOK, AnswerOK
  <2> QED
    BY <2>5, <2>7, <2>8 DEF SessionInv
<1>4. CASE DeleteSession(n)
  <2>1. UNCHANGED used /\ resources' \subseteq resources /\ Ids' \subseteq Ids
    BY <1>4 DEF DeleteSession, Ids
  <2>2. SessionStoreTypeOK' /\ KeysOK'
    BY <1>1, <2>1 DEF SessionInv, SessionStoreTypeOK, KeysOK
  <2>3. \A c \in Callers : NameOK(c)' /\ AnswerOK(c)'
    BY <1>1, <2>1 DEF SessionInv, NameOK, AnswerOK
  <2> QED
    BY <2>2, <2>3 DEF SessionInv
<1> QED
  BY <1>2, <1>3, <1>4

LEMMA SessionInvariance == SessionBounds => (SessionStoreSpec => []SessionInv)
<1> SUFFICES ASSUME SessionBounds
             PROVE  SessionStoreSpec => []SessionInv
  OBVIOUS
<1>1. SessionStoreInit => SessionInv
  BY SessionBegins
<1>2. SessionInv /\ [SessionStoreNext]_sessVars => SessionInv'
  <2> SUFFICES ASSUME SessionInv, [SessionStoreNext]_sessVars
               PROVE  SessionInv'
    OBVIOUS
  <2>1. CASE SessionStoreNext
    BY <2>1, NamedKeeps, ResolveKeeps, CreateMissingKeeps, RoutesKeep DEF SessionStoreNext
  <2>2. CASE UNCHANGED sessVars
    BY <2>2 DEF sessVars, SessionInv, SessionStoreTypeOK, KeysOK, NameOK, AnswerOK, Ids
  <2> QED
    BY <2>1, <2>2
<1> QED
  BY <1>1, <1>2, PTL DEF SessionStoreSpec

\* The resources of the sessions and the requests keep their types.
THEOREM SessionTypes == SessionBounds => (SessionStoreSpec => []SessionStoreTypeOK)
<1>1. SessionInv => SessionStoreTypeOK
  BY DEF SessionInv
<1> QED
  BY <1>1, SessionInvariance, PTL

\* A question is answered with the session it named, by its id or by its slug
\* (ensure_session_exists), whatever is created, changed or removed meanwhile.
THEOREM NamedSession == SessionBounds => (SessionStoreSpec => []EffectiveIsNamed)
<1>1. SessionInv => EffectiveIsNamed
  BY DEF SessionInv, AnswerOK, EffectiveIsNamed
<1> QED
  BY <1>1, SessionInvariance, PTL

\* Two questions that name one session are in one session: an id is looked up
\* before a slug, so a slug that is another's id never hides it (resolve_session_id).
THEOREM OneSession == SessionBounds => (SessionStoreSpec => []OneSessionPerName)
<1>1. ASSUME SessionInv
      PROVE  OneSessionPerName
  <2> SUFFICES ASSUME NEW c \in Callers, NEW d \in Callers, caller[c].pc = "ready", caller[d].pc = "ready",
                      caller[c].name = caller[d].name, {caller[c].found, caller[d].found} \subseteq Ids
               PROVE  caller[c].found = caller[d].found
    BY DEF OneSessionPerName
  <2>1. PICK r \in resources : r.id = caller[c].found
    BY DEF Ids
  <2>2. PICK t \in resources : t.id = caller[d].found
    BY DEF Ids
  <2>3. caller[c].name \in {r.id, r.slug} /\ caller[c].name \in {t.id, t.slug}
    BY <1>1, <2>1, <2>2 DEF SessionInv, AnswerOK
  <2>4. caller[c].name \in Ids => caller[c].found = caller[c].name /\ caller[d].found = caller[c].name
    <3>1. caller[c].name \in Ids => caller[c].name \in Uuids
      BY <1>1, ResourceFields DEF Ids
    <3> QED
      BY <1>1, <3>1 DEF SessionInv, NameOK
  <2>5. r.id \in Ids /\ t.id \in Ids
    BY DEF Ids
  <2>6. CASE caller[c].name \notin Ids
    BY <1>1, <2>1, <2>2, <2>3, <2>5, <2>6 DEF SessionInv, KeysOK
  <2> QED
    BY <2>4, <2>6
<1> QED
  BY <1>1, SessionInvariance, PTL

-----------------------------------------------------------------------------
(* The history that a question reads.                                      *)

\* A suffix, position by position.
LEMMA SuffixByPosition ==
  ASSUME NEW S, NEW s \in Seq(S), NEW t \in Seq(S)
  PROVE  IsSuffix(s, t) <=> Len(s) <= Len(t) /\ \A i \in 1..Len(s) : s[i] = t[Len(t) - Len(s) + i]
<1> DEFINE m == Len(t) - Len(s) + 1
           u == SubSeq(t, m, Len(t))
<1>1. Len(s) \in Nat /\ Len(t) \in Nat /\ \A i \in 1..Len(t) : t[i] \in S
  BY LenProperties, ElementOfSeq
<1>2. ASSUME Len(s) <= Len(t)
      PROVE  u \in Seq(S) /\ Len(u) = Len(s) /\ \A i \in 1..Len(s) : u[i] = t[Len(t) - Len(s) + i]
  <2>1. m \in Int /\ Len(t) \in Int /\ (\A i \in m..Len(t) : t[i] \in S) /\ Len(t) - m + 1 = Len(s)
        /\ (m <= Len(t) <=> Len(s) # 0)
    BY <1>1, <1>2
  <2>2. \A i \in 1..Len(s) : m + i - 1 = Len(t) - Len(s) + i
    BY <1>1, <1>2
  <2> HIDE DEF m
  <2>3. /\ u \in Seq(S) /\ Len(u) = (IF m <= Len(t) THEN Len(t) - m + 1 ELSE 0)
        /\ \A i \in 1..(Len(t) - m + 1) : u[i] = t[m + i - 1]
    BY <2>1, SubSeqProperties
  <2> HIDE DEF u
  <2>4. Len(u) = Len(s)
    BY <2>1, <2>3
  <2> QED
    BY <2>1, <2>2, <2>3, <2>4
<1>3. IsSuffix(s, t) <=> Len(s) <= Len(t) /\ s = u
  BY DEF IsSuffix
<1> HIDE DEF u, m
<1>4. CASE Len(s) <= Len(t) /\ \A i \in 1..Len(s) : s[i] = t[Len(t) - Len(s) + i]
  <2>1. s = u
    BY <1>2, <1>4, SeqEqual
  <2> QED
    BY <1>3, <1>4, <2>1
<1>5. CASE Len(s) <= Len(t) /\ s = u
  BY <1>2, <1>3, <1>5
<1> QED
  BY <1>3, <1>4, <1>5

LEMMA SuffixFacts ==
  ASSUME NEW S, NEW t \in Seq(S)
  PROVE  IsSuffix(<<>>, t) /\ IsSuffix(t, t)
<1>1. <<>> \in Seq(S) /\ Len(<<>>) = 0 /\ Len(t) \in Nat
  BY EmptySeq, LenProperties
<1>2. IsSuffix(t, t)
  BY <1>1, SuffixByPosition
<1>3. IsSuffix(<<>>, t)
  <2>1. \A r \in Seq(S) : Len(r) = 0 => IsSuffix(r, t)
    <3> SUFFICES ASSUME NEW r \in Seq(S), Len(r) = 0
                 PROVE  IsSuffix(r, t)
      OBVIOUS
    <3>1. Len(r) <= Len(t) /\ \A i \in 1..Len(r) : r[i] = t[Len(t) - Len(r) + i]
      BY <1>1
    <3> QED
      BY <3>1, SuffixByPosition
  <2> QED
    BY <1>1, <2>1
<1> QED
  BY <1>2, <1>3

LEMMA SuffixTransitive ==
  ASSUME NEW S, NEW r \in Seq(S), NEW s \in Seq(S), NEW t \in Seq(S), IsSuffix(r, s), IsSuffix(s, t)
  PROVE  IsSuffix(r, t)
<1>1. Len(r) \in Nat /\ Len(s) \in Nat /\ Len(t) \in Nat
  BY LenProperties
<1>2. Len(r) <= Len(s) /\ \A i \in 1..Len(r) : r[i] = s[Len(s) - Len(r) + i]
  BY SuffixByPosition
<1>3. Len(s) <= Len(t) /\ \A i \in 1..Len(s) : s[i] = t[Len(t) - Len(s) + i]
  BY SuffixByPosition
<1>4. ASSUME NEW i \in 1..Len(r)
      PROVE  r[i] = t[Len(t) - Len(r) + i]
  <2>1. Len(s) - Len(r) + i \in 1..Len(s)
        /\ Len(t) - Len(s) + (Len(s) - Len(r) + i) = Len(t) - Len(r) + i
    BY <1>1, <1>2
  <2> QED
    BY <1>2, <1>3, <2>1
<1>5. Len(r) <= Len(t)
  BY <1>1, <1>2, <1>3
<1> QED
  BY <1>4, <1>5, SuffixByPosition

\* What ends with s ends with s and a question after it, when that is added to both.
LEMMA SuffixAppended ==
  ASSUME NEW S, NEW s \in Seq(S), NEW t \in Seq(S), NEW e \in S, IsSuffix(s, t)
  PROVE  IsSuffix(Append(s, e), Append(t, e))
<1>1. Len(s) \in Nat /\ Len(t) \in Nat /\ Len(s) <= Len(t) /\ \A i \in 1..Len(s) : s[i] = t[Len(t) - Len(s) + i]
  BY LenProperties, SuffixByPosition
<1>2. /\ Append(s, e) \in Seq(S) /\ Len(Append(s, e)) = Len(s) + 1
      /\ \A i \in 1..Len(s) : Append(s, e)[i] = s[i]
      /\ Append(s, e)[Len(s) + 1] = e
  BY AppendProperties
<1>3. /\ Append(t, e) \in Seq(S) /\ Len(Append(t, e)) = Len(t) + 1
      /\ \A i \in 1..Len(t) : Append(t, e)[i] = t[i]
      /\ Append(t, e)[Len(t) + 1] = e
  BY AppendProperties
<1> DEFINE a == Append(s, e)
           b == Append(t, e)
<1>4. ASSUME NEW i \in 1..(Len(s) + 1)
      PROVE  a[i] = b[(Len(t) + 1) - (Len(s) + 1) + i]
  <2>1. CASE i = Len(s) + 1
    <3>1. (Len(t) + 1) - (Len(s) + 1) + i = Len(t) + 1
      BY <1>1, <2>1
    <3> QED
      BY <1>2, <1>3, <2>1, <3>1
  <2>2. CASE i # Len(s) + 1
    <3>1. i \in 1..Len(s) /\ (Len(t) + 1) - (Len(s) + 1) + i \in 1..Len(t)
          /\ (Len(t) + 1) - (Len(s) + 1) + i = Len(t) - Len(s) + i
      BY <1>1, <2>2
    <3> QED
      BY <1>1, <1>2, <1>3, <3>1
  <2> QED
    BY <2>1, <2>2
<1> HIDE DEF a, b
<1>5. a \in Seq(S) /\ b \in Seq(S) /\ Len(a) = Len(s) + 1 /\ Len(b) = Len(t) + 1
  BY <1>2, <1>3 DEF a, b
<1>6. IsSuffix(a, b)
  <2>1. Len(a) <= Len(b) /\ \A i \in 1..Len(a) : a[i] = b[Len(b) - Len(a) + i]
    BY <1>1, <1>4, <1>5
  <2> QED
    BY <1>5, <2>1, SuffixByPosition
<1> QED
  BY <1>6 DEF a, b

\* The newest entries of a list are its end (append of the cache).
LEMMA LastIsSuffix ==
  ASSUME NEW S, NEW s \in Seq(S), NEW n \in Nat
  PROVE  Last(s, n) \in Seq(S) /\ Len(Last(s, n)) <= n /\ IsSuffix(Last(s, n), s)
<1>1. Len(s) \in Nat /\ \A i \in 1..Len(s) : s[i] \in S
  BY LenProperties, ElementOfSeq
<1>2. CASE Len(s) <= n
  BY <1>2, SuffixFacts DEF Last
<1>3. CASE ~(Len(s) <= n)
  <2> DEFINE m == Len(s) - n + 1
             u == SubSeq(s, m, Len(s))
  <2>1. Last(s, n) = u
    BY <1>3 DEF Last
  <2>2. m \in Int /\ Len(s) \in Int /\ (\A i \in m..Len(s) : s[i] \in S) /\ Len(s) - m + 1 = n
        /\ (m <= Len(s) <=> n # 0) /\ n <= Len(s)
    BY <1>1, <1>3
  <2>3. \A i \in 1..n : m + i - 1 = Len(s) - n + i
    BY <1>1, <1>3
  <2> HIDE DEF m
  <2>4. /\ u \in Seq(S) /\ Len(u) = (IF m <= Len(s) THEN Len(s) - m + 1 ELSE 0)
        /\ \A i \in 1..(Len(s) - m + 1) : u[i] = s[m + i - 1]
    BY <2>2, SubSeqProperties
  <2> HIDE DEF u
  <2>5. Len(u) = n
    BY <2>2, <2>4
  <2>6. \A i \in 1..n : u[i] = s[Len(s) - n + i]
    BY <2>2, <2>3, <2>4
  <2>7. IsSuffix(u, s)
    BY <2>2, <2>4, <2>5, <2>6, SuffixByPosition
  <2> QED
    BY <2>1, <2>4, <2>5, <2>7
<1> QED
  BY <1>2, <1>3

\* The bounds of the lists and of the pages.
HistoryBounds == PageSize \in Nat \ {0} /\ Limit \in Nat /\ MaxEvictions \in Nat

\* The pages of a list, and the one page of a list that fits it.
LEMMA PagesOfList ==
  ASSUME NEW n \in Nat, NEW size \in Nat \ {0}
  PROVE  /\ (n + size - 1) \div size \in Nat
         /\ n \in 1..size => (n + size - 1) \div size = 1
<1>1. ASSUME NEW a \in Nat
      PROVE  a \div size \in Nat
  OBVIOUS
<1>2. n + size - 1 \in Nat
  OBVIOUS
<1>3. ASSUME 1 <= n, n <= size
      PROVE  (n + size - 1) \div size = 1
  BY <1>3, SMTT(30)
<1> QED
  BY <1>1, <1>2, <1>3

\* A page of the conversation is of its messages, also when there are none left.
LEMMA PageIsOfQuestions ==
  ASSUME HistoryBounds, stored \in Seq(Questions), NEW n \in Nat
  PROVE  Page(n + 1) \in Seq(Questions)
<1> DEFINE m == n * PageSize + 1
           k == IF (n + 1) * PageSize > Len(stored) THEN Len(stored) ELSE (n + 1) * PageSize
<1>1. n * PageSize \in Nat /\ (n + 1) * PageSize \in Nat /\ (n + 1) - 1 = n
  BY DEF HistoryBounds
<1>2. Len(stored) \in Nat /\ \A i \in 1..Len(stored) : stored[i] \in Questions
  BY LenProperties, ElementOfSeq
<1>3. m \in Int /\ k \in Int /\ \A i \in m..k : i \in 1..Len(stored)
  BY <1>1, <1>2
<1>4. Page(n + 1) = SubSeq(stored, m, k)
  BY <1>1 DEF Page
<1> HIDE DEF m, k
<1>5. \A i \in m..k : stored[i] \in Questions
  BY <1>2, <1>3
<1> QED
  BY <1>3, <1>4, <1>5, SubSeqProperties

LEMMA AppendAllKeeps ==
  ASSUME HistoryBounds, QATypeOK, NEW qas \in Seq(Questions), AppendAll(qas)
  PROVE  cache' \in Seq(Questions) /\ Len(cache') <= Limit /\ IsSuffix(cache', cache \o qas)
<1>1. cache \o qas \in Seq(Questions)
  BY ConcatProperties DEF QATypeOK
<1> QED
  BY <1>1, LastIsSuffix DEF AppendAll, HistoryBounds

LEMMA HistoryBegins ==
  ASSUME HistoryBounds, QAInit
  PROVE  QATypeOK
<1>1. <<>> \in Seq(Questions) /\ Len(<<>>) = 0
  BY EmptySeq
<1> QED
  BY <1>1 DEF HistoryBounds, QAInit, QATypeOK

\* A step of the history, in any order of the questions of a session.
LEMMA HistoryTypesKept ==
  ASSUME HistoryBounds, QATypeOK, QANext
  PROVE  QATypeOK'
<1>1. ASSUME NEW q \in Questions, QaHistory(q)
      PROVE  QATypeOK'
  <2>1. cache \in Seq(Questions) /\ stored \in Seq(Questions) /\ PageCount \in Nat
    <3>1. Len(stored) \in Nat
      BY LenProperties DEF QATypeOK
    <3> QED
      BY <3>1, PagesOfList DEF QATypeOK, PageCount, HistoryBounds
  <2>2. UNCHANGED <<page, stored, cache, evictions>>
    BY <1>1 DEF QaHistory
  <2>3. asker' \in [Questions -> {"idle", "reading", "answering", "saving", "done"}]
        /\ pages' \in [Questions -> Nat] /\ read' \in [Questions -> Seq(Questions)]
    BY <1>1, <2>1 DEF QaHistory, Goes, QATypeOK
  <2> QED
    BY <2>2, <2>3 DEF QATypeOK
<1>2. ASSUME NEW q \in Questions, ReadPage(q)
      PROVE  QATypeOK'
  <2> DEFINE qas == read[q] \o Page(page[q] + 1)
  <2>1. page[q] \in Nat /\ read[q] \in Seq(Questions) /\ Page(page[q] + 1) \in Seq(Questions)
    BY PageIsOfQuestions DEF QATypeOK
  <2>2. qas \in Seq(Questions)
    BY <2>1, ConcatProperties
  <2> HIDE DEF qas
  <2>3. /\ read' = [read EXCEPT ![q] = qas] /\ AppendAll(qas) /\ page' = [page EXCEPT ![q] = page[q] + 1]
        /\ Goes(q, "answering") \/ UNCHANGED asker
        /\ UNCHANGED <<pages, stored, evictions>>
    BY <1>2 DEF ReadPage, qas
  <2>4. cache' \in Seq(Questions) /\ Len(cache') <= Limit
    BY <2>2, <2>3, AppendAllKeeps
  <2>5. asker' \in [Questions -> {"idle", "reading", "answering", "saving", "done"}]
    BY <2>3 DEF Goes, QATypeOK
  <2>6. read' \in [Questions -> Seq(Questions)]
    BY <2>2, <2>3 DEF QATypeOK
  <2>7. page' \in [Questions -> Nat]
    <3>1. page[q] + 1 \in Nat
      BY <2>1
    <3> QED
      BY <2>3, <3>1 DEF QATypeOK
  <2> QED
    BY <2>3, <2>4, <2>5, <2>6, <2>7 DEF QATypeOK
<1>3. ASSUME NEW q \in Questions, Save(q) \/ AddConversationMessage(q)
      PROVE  QATypeOK'
  <2>1. UNCHANGED <<page, pages, read, evictions>>
        /\ (UNCHANGED cache \/ AppendAll(<<q>>)) /\ (UNCHANGED stored \/ stored' = Append(stored, q))
        /\ (Goes(q, "done") \/ Goes(q, "saving"))
    BY <1>3 DEF Save, AddConversationMessage
  <2>2. <<q>> \in Seq(Questions) /\ Append(stored, q) \in Seq(Questions)
    BY AppendProperties DEF QATypeOK
  <2>3. cache' \in Seq(Questions) /\ Len(cache') <= Limit /\ stored' \in Seq(Questions)
    BY <2>1, <2>2, AppendAllKeeps DEF QATypeOK
  <2>4. asker' \in [Questions -> {"idle", "reading", "answering", "saving", "done"}]
    BY <2>1 DEF Goes, QATypeOK
  <2> QED
    BY <2>1, <2>3, <2>4 DEF QATypeOK
<1>4. ASSUME Evict
      PROVE  QATypeOK'
  <2>1. <<>> \in Seq(Questions) /\ Len(<<>>) = 0 /\ Limit \in Nat
    BY EmptySeq DEF HistoryBounds
  <2>2. evictions' \in 0..MaxEvictions
    BY <1>4 DEF Evict, QATypeOK, HistoryBounds
  <2> QED
    BY <1>4, <2>1, <2>2 DEF Evict, QATypeOK
<1> QED
  BY <1>1, <1>2, <1>3, <1>4 DEF QANext

\* Every list of a history is of questions of the session, and the cached one is
\* within its limit, whether or not questions run at the same time (append).
THEOREM HistoryTypes == HistoryBounds => (QASpec => []QATypeOK)
<1> SUFFICES ASSUME HistoryBounds
             PROVE  QASpec => []QATypeOK
  OBVIOUS
<1>1. QAInit => QATypeOK
  BY HistoryBegins
<1>2. QATypeOK /\ [QANext]_qaVars => QATypeOK'
  <2>1. CASE UNCHANGED qaVars
    BY <2>1 DEF qaVars, QATypeOK
  <2> QED
    BY <2>1, HistoryTypesKept
<1> QED
  BY <1>1, <1>2, PTL DEF QASpec

\* Questions are asked one after another, and a conversation has a message of
\* each at most: they fit one page.
OneAfterAnother ==
  /\ HistoryBounds /\ Sequential
  /\ IsFiniteSet(Questions) /\ Cardinality(Questions) <= PageSize

Waiting == {q \in Questions : asker[q] # "done"}

\* One question is asked at a time, and those that are not saved yet leave room
\* for themselves in the page.
TurnTaken ==
  /\ \A q, o \in Questions : {asker[q], asker[o]} \cap {"idle", "done"} = {} => q = o
  /\ Len(stored) + Cardinality(Waiting) <= Cardinality(Questions)

\* A question reads the page of the conversation, into an empty cache.
ReadingOK ==
  \A q \in Questions :
    /\ asker[q] = "idle" => page[q] = 0 /\ read[q] = <<>>
    /\ asker[q] = "reading" => cache = <<>> /\ page[q] = 0 /\ pages[q] = 1 /\ read[q] = <<>>

\* The cache is an end of the conversation, with the question that is being saved.
CacheOK ==
  /\ \A q \in Questions : asker[q] = "saving" => IsSuffix(cache, Append(stored, q))
  /\ (\A q \in Questions : asker[q] # "saving") => IsSuffix(cache, stored)

HistoryInv == QATypeOK /\ TurnTaken /\ ReadingOK /\ CacheOK /\ HistoryIsASuffix

\* A question moves on, and when it is done it no longer takes room.
LEMMA MovesOn ==
  ASSUME OneAfterAnother, HistoryInv, NEW q \in Questions, asker[q] # "done",
         NEW s \in {"reading", "answering", "saving", "done"}, Goes(q, s),
         asker[q] = "idle" => \A o \in Questions : asker[o] \in {"idle", "done"}
  PROVE  /\ asker' = [asker EXCEPT ![q] = s] /\ asker'[q] = s
         /\ \A o \in Questions \ {q} : asker'[o] = asker[o] /\ asker[o] \in {"idle", "done"}
         /\ Cardinality(Waiting') = Cardinality(Waiting) - (IF s = "done" THEN 1 ELSE 0)
         /\ Cardinality(Waiting) \in Nat \ {0} /\ Len(stored) \in Nat
         /\ Len(stored) + Cardinality(Waiting) <= Cardinality(Questions)
<1>1. asker' = [asker EXCEPT ![q] = s] /\ asker'[q] = s /\ \A o \in Questions \ {q} : asker'[o] = asker[o]
  BY DEF HistoryInv, QATypeOK, Goes
<1>2. \A o \in Questions \ {q} : asker[o] \in {"idle", "done"}
  BY DEF HistoryInv, TurnTaken, QATypeOK
<1>3. IsFiniteSet(Waiting) /\ q \in Waiting
  BY FS_Subset DEF Waiting, OneAfterAnother
<1>4. /\ Cardinality(Waiting) \in Nat /\ Cardinality(Waiting \ {q}) = Cardinality(Waiting) - 1
      /\ Cardinality(Waiting \ {q}) \in Nat
  BY <1>3, FS_RemoveElement, FS_CardinalityType
<1>5. Waiting' = IF s = "done" THEN Waiting \ {q} ELSE Waiting
  BY <1>1 DEF Waiting
<1>6. Len(stored) \in Nat
  BY LenProperties DEF HistoryInv, QATypeOK
<1>7. Len(stored) + Cardinality(Waiting) <= Cardinality(Questions)
  BY DEF HistoryInv, TurnTaken
<1>8. Cardinality(Waiting') = Cardinality(Waiting) - (IF s = "done" THEN 1 ELSE 0)
  BY <1>4, <1>5
<1> QED
  BY <1>1, <1>2, <1>4, <1>6, <1>7, <1>8

LEMMA HistoryInvBegins ==
  ASSUME OneAfterAnother, QAInit
  PROVE  HistoryInv
<1>1. QATypeOK
  BY HistoryBegins DEF OneAfterAnother
<1>2. <<>> \in Seq(Questions) /\ Len(<<>>) = 0
  BY EmptySeq
<1>3. TurnTaken
  <2>1. Waiting = Questions /\ Cardinality(Questions) \in Nat
    BY FS_CardinalityType DEF QAInit, Waiting, OneAfterAnother
  <2>2. Len(stored) + Cardinality(Waiting) <= Cardinality(Questions)
    <3>1. Len(stored) = 0
      BY <1>2 DEF QAInit
    <3> QED
      BY <2>1, <3>1
  <2>3. \A q \in Questions : asker[q] = "idle"
    BY DEF QAInit
  <2> QED
    BY <2>2, <2>3 DEF TurnTaken
<1>4. ReadingOK
  BY DEF QAInit, ReadingOK
<1>5. CacheOK /\ HistoryIsASuffix
  BY <1>2, SuffixFacts DEF QAInit, CacheOK, HistoryIsASuffix
<1> QED
  BY <1>1, <1>3, <1>4, <1>5 DEF HistoryInv

\* A question takes the cached list, what is stored, or looks for its page
\* (qa_history).
LEMMA QaHistoryKeeps ==
  ASSUME OneAfterAnother, HistoryInv, NEW q \in Questions, QaHistory(q)
  PROVE  HistoryInv'
<1>1. QATypeOK'
  BY HistoryTypesKept DEF OneAfterAnother, HistoryInv, QANext
<1>2. /\ asker[q] = "idle" /\ \A o \in Questions : asker[o] \in {"idle", "done"}
      /\ UNCHANGED <<page, stored, cache, evictions>>
  BY DEF QaHistory, OneAfterAnother
<1>3. PICK s \in {"reading", "answering"} : Goes(q, s)
  BY DEF QaHistory
<1>4. /\ asker' = [asker EXCEPT ![q] = s] /\ asker'[q] = s
      /\ \A o \in Questions \ {q} : asker'[o] = asker[o] /\ asker[o] \in {"idle", "done"}
      /\ Cardinality(Waiting') = Cardinality(Waiting)
      /\ Cardinality(Waiting) \in Nat \ {0} /\ Len(stored) \in Nat
      /\ Len(stored) + Cardinality(Waiting) <= Cardinality(Questions)
  BY <1>2, <1>3, MovesOn
<1>5. TurnTaken'
  BY <1>2, <1>4 DEF TurnTaken
<1>6. IsSuffix(cache, stored) /\ page[q] = 0 /\ read[q] = <<>>
  BY <1>2 DEF HistoryInv, CacheOK, ReadingOK
<1>7. CacheOK'
  BY <1>2, <1>3, <1>4, <1>6 DEF CacheOK
<1>8. ReadingOK'
  <2>1. s = "reading" => cache = <<>> /\ stored # <<>> /\ pages' = [pages EXCEPT ![q] = PageCount] /\ UNCHANGED read
    BY <1>2, <1>3, <1>4 DEF QaHistory, Goes
  <2>2. s = "reading" => PageCount = 1
    <3>1. stored # <<>> => Len(stored) \in Nat \ {0}
      BY EmptySeq DEF HistoryInv, QATypeOK
    <3>2. Cardinality(Questions) \in Nat
      BY FS_CardinalityType DEF OneAfterAnother
    <3>3. stored # <<>> => Len(stored) \in 1..PageSize
      BY <1>4, <3>1, <3>2 DEF OneAfterAnother, HistoryBounds
    <3> QED
      BY <1>4, <2>1, <3>3, PagesOfList DEF PageCount, OneAfterAnother, HistoryBounds
  <2>3. s = "reading" => pages'[q] = 1
    BY <2>1, <2>2 DEF HistoryInv, QATypeOK
  <2>4. \A o \in Questions \ {q} : read'[o] = read[o]
    BY DEF QaHistory, HistoryInv, QATypeOK
  <2> QED
    BY <1>2, <1>4, <1>6, <2>1, <2>3, <2>4 DEF ReadingOK, HistoryInv
<1>9. HistoryIsASuffix'
  <2>1. s = "answering" => read'[q] \in {cache, stored}
    BY <1>3, <1>4 DEF QaHistory, Goes, HistoryInv, QATypeOK
  <2>2. IsSuffix(stored, stored)
    BY SuffixFacts DEF HistoryInv, QATypeOK
  <2> QED
    BY <1>2, <1>4, <1>6, <2>1, <2>2 DEF HistoryIsASuffix, IsSuffix
<1> QED
  BY <1>1, <1>5, <1>7, <1>8, <1>9 DEF HistoryInv

\* The one page is the whole conversation (get_qas).
LEMMA ReadPageKeeps ==
  ASSUME OneAfterAnother, HistoryInv, NEW q \in Questions, ReadPage(q)
  PROVE  HistoryInv'
<1>1. QATypeOK'
  BY HistoryTypesKept DEF OneAfterAnother, HistoryInv, QANext
<1>2. /\ asker[q] = "reading" /\ cache = <<>> /\ page[q] = 0 /\ pages[q] = 1 /\ read[q] = <<>>
      /\ stored \in Seq(Questions) /\ Len(stored) \in Nat
  BY LenProperties DEF ReadPage, HistoryInv, ReadingOK, QATypeOK
<1>3. /\ Goes(q, "answering") /\ read' = [read EXCEPT ![q] = <<>> \o Page(1)] /\ AppendAll(<<>> \o Page(1))
      /\ page' = [page EXCEPT ![q] = 1] /\ UNCHANGED <<pages, stored, evictions>>
  BY <1>2 DEF ReadPage
<1>4. /\ asker' = [asker EXCEPT ![q] = "answering"] /\ asker'[q] = "answering"
      /\ \A o \in Questions \ {q} : asker'[o] = asker[o] /\ asker[o] \in {"idle", "done"}
      /\ Cardinality(Waiting') = Cardinality(Waiting)
      /\ Cardinality(Waiting) \in Nat \ {0}
      /\ Len(stored) + Cardinality(Waiting) <= Cardinality(Questions)
  BY <1>2, <1>3, MovesOn
<1>5. TurnTaken'
  BY <1>3, <1>4 DEF TurnTaken
<1>6. <<>> \o Page(1) = stored
  <2>1. Len(stored) <= PageSize /\ 1 * PageSize = PageSize /\ (1 - 1) * PageSize + 1 = 1
    <3>1. Cardinality(Questions) \in Nat
      BY FS_CardinalityType DEF OneAfterAnother
    <3> QED
      BY <1>2, <1>4, <3>1 DEF OneAfterAnother, HistoryBounds
  <2>2. (IF PageSize > Len(stored) THEN Len(stored) ELSE PageSize) = Len(stored)
    BY <1>2, <2>1 DEF OneAfterAnother, HistoryBounds
  <2>3. Page(1) = SubSeq(stored, 1, Len(stored))
    BY <2>1, <2>2 DEF Page
  <2>4. Page(1) = stored
    BY <1>2, <2>3, SubSeqFull
  <2> QED
    BY <1>2, <2>4, ConcatEmptySeq
<1>7. /\ read' = [read EXCEPT ![q] = stored] /\ read'[q] = stored /\ AppendAll(stored)
      /\ \A o \in Questions \ {q} : read'[o] = read[o] /\ page'[o] = page[o]
  BY <1>3, <1>6 DEF HistoryInv, QATypeOK
<1>8. IsSuffix(cache', stored)
  <2>1. cache \o stored = stored
    BY <1>2, ConcatEmptySeq
  <2> QED
    BY <1>2, <1>7, <2>1, AppendAllKeeps DEF OneAfterAnother, HistoryInv
<1>9. CacheOK' /\ ReadingOK'
  BY <1>3, <1>4, <1>7, <1>8 DEF CacheOK, ReadingOK, HistoryInv
<1>10. HistoryIsASuffix'
  <2>1. IsSuffix(stored, stored)
    BY <1>2, SuffixFacts
  <2> QED
    BY <1>3, <1>4, <1>7, <2>1 DEF HistoryIsASuffix
<1> QED
  BY <1>1, <1>5, <1>9, <1>10 DEF HistoryInv

\* A question with an answer is appended to the cached list, and to the
\* conversation at once or next (save).
LEMMA SaveKeeps ==
  ASSUME OneAfterAnother, HistoryInv, NEW q \in Questions, Save(q)
  PROVE  HistoryInv'
<1>1. QATypeOK'
  BY HistoryTypesKept DEF OneAfterAnother, HistoryInv, QANext
<1>2. asker[q] = "answering" /\ UNCHANGED <<page, pages, read, evictions>>
  BY DEF Save
<1>3. PICK s \in {"done", "saving"} :
        /\ Goes(q, s)
        /\ s = "done" => UNCHANGED <<stored, cache>> \/ (stored' = Append(stored, q) /\ AppendAll(<<q>>))
        /\ s = "saving" => AppendAll(<<q>>) /\ UNCHANGED stored
  BY DEF Save
<1>4. /\ asker' = [asker EXCEPT ![q] = s] /\ asker'[q] = s
      /\ \A o \in Questions \ {q} : asker'[o] = asker[o] /\ asker[o] \in {"idle", "done"}
      /\ Cardinality(Waiting') = Cardinality(Waiting) - (IF s = "done" THEN 1 ELSE 0)
      /\ Cardinality(Waiting) \in Nat \ {0} /\ Len(stored) \in Nat
      /\ Len(stored) + Cardinality(Waiting) <= Cardinality(Questions)
  BY <1>2, <1>3, MovesOn
<1>5. /\ cache \in Seq(Questions) /\ stored \in Seq(Questions) /\ IsSuffix(cache, stored)
  BY <1>2, <1>4 DEF HistoryInv, QATypeOK, CacheOK
<1>6. Append(stored, q) \in Seq(Questions) /\ Len(Append(stored, q)) = Len(stored) + 1
  BY <1>5, AppendProperties
<1>7. AppendAll(<<q>>) => IsSuffix(cache', Append(stored, q))
  <2>1. <<q>> \in Seq(Questions) /\ cache \o <<q>> = Append(cache, q) /\ Append(cache, q) \in Seq(Questions)
    BY <1>5, AppendProperties, AppendIsConcat
  <2>2. IsSuffix(Append(cache, q), Append(stored, q))
    BY <1>5, SuffixAppended
  <2>3. AppendAll(<<q>>) => cache' \in Seq(Questions) /\ IsSuffix(cache', Append(cache, q))
    BY <2>1, AppendAllKeeps DEF OneAfterAnother, HistoryInv
  <2> QED
    BY <1>6, <2>1, <2>2, <2>3, SuffixTransitive
<1>8. TurnTaken'
  <2>1. Len(stored') + Cardinality(Waiting') <= Cardinality(Questions)
    <3>1. Cardinality(Questions) \in Nat
      BY FS_CardinalityType DEF OneAfterAnother
    <3> QED
      BY <1>3, <1>4, <1>6, <3>1
  <2> QED
    BY <1>4, <2>1 DEF TurnTaken
<1>9. CacheOK'
  BY <1>3, <1>4, <1>5, <1>7 DEF CacheOK
<1>10. ReadingOK' /\ HistoryIsASuffix'
  BY <1>2, <1>4 DEF ReadingOK, HistoryIsASuffix, HistoryInv
<1> QED
  BY <1>1, <1>8, <1>9, <1>10 DEF HistoryInv

LEMMA AddMessageKeeps ==
  ASSUME OneAfterAnother, HistoryInv, NEW q \in Questions, AddConversationMessage(q)
  PROVE  HistoryInv'
<1>1. QATypeOK'
  BY HistoryTypesKept DEF OneAfterAnother, HistoryInv, QANext
<1>2. /\ asker[q] = "saving" /\ Goes(q, "done") /\ stored' = Append(stored, q)
      /\ UNCHANGED <<page, pages, read, cache, evictions>>
  BY DEF AddConversationMessage
<1>3. /\ asker' = [asker EXCEPT ![q] = "done"] /\ asker'[q] = "done"
      /\ \A o \in Questions \ {q} : asker'[o] = asker[o] /\ asker[o] \in {"idle", "done"}
      /\ Cardinality(Waiting') = Cardinality(Waiting) - 1
      /\ Cardinality(Waiting) \in Nat \ {0} /\ Len(stored) \in Nat
      /\ Len(stored) + Cardinality(Waiting) <= Cardinality(Questions)
  BY <1>2, MovesOn
<1>4. Len(stored') = Len(stored) + 1
  BY <1>2, AppendProperties DEF HistoryInv, QATypeOK
<1>5. TurnTaken'
  <2>1. Cardinality(Questions) \in Nat
    BY FS_CardinalityType DEF OneAfterAnother
  <2>2. Len(stored') + Cardinality(Waiting') <= Cardinality(Questions)
    BY <1>3, <1>4, <2>1
  <2> QED
    BY <1>3, <2>2 DEF TurnTaken
<1>6. CacheOK'
  BY <1>2, <1>3 DEF CacheOK, HistoryInv
<1>7. ReadingOK' /\ HistoryIsASuffix'
  BY <1>2, <1>3 DEF ReadingOK, HistoryIsASuffix, HistoryInv
<1> QED
  BY <1>1, <1>5, <1>6, <1>7 DEF HistoryInv

\* An empty list is an end of every conversation: losing the entry harms nothing.
LEMMA EvictKeeps ==
  ASSUME OneAfterAnother, HistoryInv, Evict
  PROVE  HistoryInv'
<1>1. QATypeOK'
  BY HistoryTypesKept DEF OneAfterAnother, HistoryInv, QANext
<1>2. cache' = <<>> /\ UNCHANGED <<asker, page, pages, read, stored>> /\ stored \in Seq(Questions)
  BY DEF Evict, HistoryInv, QATypeOK
<1>3. CacheOK'
  <2>1. \A q \in Questions : Append(stored, q) \in Seq(Questions)
    BY <1>2, AppendProperties
  <2>2. IsSuffix(<<>>, stored) /\ \A q \in Questions : IsSuffix(<<>>, Append(stored, q))
    BY <1>2, <2>1, SuffixFacts
  <2> QED
    BY <1>2, <2>2 DEF CacheOK
<1>4. TurnTaken' /\ ReadingOK' /\ HistoryIsASuffix'
  BY <1>2 DEF HistoryInv, TurnTaken, Waiting, ReadingOK, HistoryIsASuffix
<1> QED
  BY <1>1, <1>3, <1>4 DEF HistoryInv

\* Questions asked one after another read the newest of their conversation, in
\* order and without a gap, from the cache and from the store alike (qa_history).
THEOREM HistorySuffix == OneAfterAnother => (QASpec => []HistoryIsASuffix)
<1> SUFFICES ASSUME OneAfterAnother
             PROVE  QASpec => []HistoryIsASuffix
  OBVIOUS
<1>1. QAInit => HistoryInv
  BY HistoryInvBegins
<1>2. HistoryInv /\ [QANext]_qaVars => HistoryInv'
  <2>1. CASE UNCHANGED qaVars
    BY <2>1 DEF qaVars, HistoryInv, QATypeOK, TurnTaken, Waiting, ReadingOK, CacheOK, HistoryIsASuffix
  <2> QED
    BY <2>1, QaHistoryKeeps, ReadPageKeeps, SaveKeeps, AddMessageKeeps, EvictKeeps DEF QANext
<1>3. HistoryInv => HistoryIsASuffix
  BY DEF HistoryInv
<1> QED
  BY <1>1, <1>2, <1>3, PTL DEF QASpec

-----------------------------------------------------------------------------
(* The text that is gathered of a remote task.                             *)

\* A remote task, as its server keeps it.
Texts == [Artifacts -> Seq(Nat)]
RemoteOK ==
  /\ remote \in [state : {"working", "input_required", "completed"} \cup Terminal, artifacts : Texts,
                 chunks : Nat, streams : BOOLEAN]
  /\ gathered \in Texts /\ agent \in {"reading", "asking", "returned", "raised"}

\* The artifacts of the answer: the agent's steps are not part of it.
WithoutSteps(texts) == [a \in Artifacts |-> IF a = "step" THEN <<>> ELSE texts[a]]

\* What a server tells of each change is gathered as it comes, and of a task that
\* is complete everything is; only a completed task is returned.
GatheredOK ==
  /\ agent \in {"asking", "reading"} => (remote.state = "input_required" <=> agent = "asking")
  /\ agent = "reading" /\ (remote.streams \/ remote.state = "completed") =>
        gathered = WithoutSteps(remote.artifacts)
  /\ agent = "asking" /\ remote.streams => gathered = WithoutSteps(remote.artifacts)
  /\ agent = "returned" => gathered = WithoutSteps(remote.artifacts)
A2AInv == RemoteOK /\ GatheredOK

LEMMA A2ABegins ==
  ASSUME A2AInit
  PROVE  A2AInv
<1>1. <<>> \in Seq(Nat)
  BY EmptySeq
<1>2. Nothing \in Texts /\ WithoutSteps(Nothing) = Nothing
  BY <1>1 DEF Nothing, Texts, WithoutSteps
<1>3. PICK streams \in BOOLEAN : remote = [state |-> "working", artifacts |-> Nothing, chunks |-> 0, streams |-> streams]
  BY DEF A2AInit
<1>4. RemoteOK
  BY <1>2, <1>3 DEF A2AInit, RemoteOK
<1> QED
  BY <1>2, <1>3, <1>4 DEF A2AInit, A2AInv, GatheredOK

\* A change of an artifact reaches both texts alike, unless it is a step.
LEMMA ChangeIsGathered ==
  ASSUME NEW texts \in Texts, NEW a \in Artifacts, NEW text \in Seq(Nat), NEW append \in BOOLEAN
  PROVE  LET changed == [texts EXCEPT ![a] = IF append THEN @ \o text ELSE text]
         IN  /\ changed \in Texts
             /\ WithoutSteps(changed) = UpdateArtifact(WithoutSteps(texts), a, text, append)
<1> DEFINE t == IF append THEN texts[a] \o text ELSE text
           changed == [texts EXCEPT ![a] = IF append THEN @ \o text ELSE text]
<1>1. texts[a] \in Seq(Nat) /\ texts \in [Artifacts -> Seq(Nat)]
  BY DEF Texts
<1>2. t \in Seq(Nat)
  BY <1>1, ConcatProperties
<1>3. changed = [texts EXCEPT ![a] = t]
  OBVIOUS
<1>4. changed \in Texts /\ \A b \in Artifacts : changed[b] = IF b = a THEN t ELSE texts[b]
  BY <1>1, <1>2, <1>3 DEF Texts
<1>5. CASE a = "step"
  <2>1. WithoutSteps(changed) = WithoutSteps(texts)
    BY <1>4, <1>5 DEF WithoutSteps
  <2> QED
    BY <1>4, <1>5, <2>1 DEF UpdateArtifact
<1>6. CASE a # "step"
  <2>1. WithoutSteps(texts)[a] = texts[a]
    BY <1>6 DEF WithoutSteps
  <2>2. UpdateArtifact(WithoutSteps(texts), a, text, append) = [WithoutSteps(texts) EXCEPT ![a] = t]
    BY <1>6, <2>1 DEF UpdateArtifact
  <2>3. WithoutSteps(changed) = [WithoutSteps(texts) EXCEPT ![a] = t]
    BY <1>4, <1>6 DEF WithoutSteps
  <2> QED
    BY <1>4, <2>2, <2>3
<1> QED
  BY <1>5, <1>6

LEMMA WithoutStepsIsText ==
  ASSUME NEW texts \in Texts
  PROVE  WithoutSteps(texts) \in Texts
<1>1. <<>> \in Seq(Nat)
  BY EmptySeq
<1> QED
  BY <1>1 DEF WithoutSteps, Texts

LEMMA ArtifactKeeps ==
  ASSUME A2AInv, ArtifactUpdate
  PROVE  A2AInv'
<1>1. PICK a \in Artifacts, append \in BOOLEAN :
        /\ remote' = [remote EXCEPT !.artifacts[a] = IF append THEN @ \o <<remote.chunks + 1>> ELSE <<remote.chunks + 1>>,
                                    !.chunks = @ + 1]
        /\ gathered' = IF remote.streams THEN UpdateArtifact(gathered, a, <<remote.chunks + 1>>, append) ELSE gathered
  BY DEF ArtifactUpdate
<1>2. agent = "reading" /\ remote.state = "working" /\ UNCHANGED <<agent, asks>>
  BY DEF ArtifactUpdate
<1> DEFINE text == <<remote.chunks + 1>>
           changed == [remote.artifacts EXCEPT ![a] = IF append THEN @ \o text ELSE text]
<1>3. remote.artifacts \in Texts /\ remote.chunks \in Nat /\ remote.streams \in BOOLEAN
  BY DEF A2AInv, RemoteOK
<1>4. text \in Seq(Nat)
  BY <1>3
<1>5. /\ changed \in Texts
      /\ WithoutSteps(changed) = UpdateArtifact(WithoutSteps(remote.artifacts), a, text, append)
  BY <1>3, <1>4, ChangeIsGathered
<1>6. remote' = [remote EXCEPT !.artifacts = changed, !.chunks = remote.chunks + 1]
  BY <1>1 DEF A2AInv, RemoteOK
<1>7. gathered' = IF remote.streams THEN UpdateArtifact(gathered, a, text, append) ELSE gathered
  BY <1>1
<1> HIDE DEF changed, text
<1>8. /\ remote'.artifacts = changed /\ remote'.state = "working" /\ remote'.streams = remote.streams
      /\ remote' \in [state : {"working", "input_required", "completed"} \cup Terminal, artifacts : Texts,
                      chunks : Nat, streams : BOOLEAN]
  <2>1. /\ remote \in [state : {"working", "input_required", "completed"} \cup Terminal, artifacts : Texts,
                       chunks : Nat, streams : BOOLEAN]
        /\ remote.state = "working" /\ remote.chunks + 1 \in Nat /\ changed \in Texts
    BY <1>2, <1>3, <1>5 DEF A2AInv, RemoteOK
  <2> QED
    BY <1>6, <2>1
<1>9. remote.streams => gathered' = WithoutSteps(changed)
  BY <1>2, <1>5, <1>7 DEF A2AInv, GatheredOK
<1>10. gathered' \in Texts
  BY <1>5, <1>7, <1>9, WithoutStepsIsText DEF A2AInv, RemoteOK
<1> QED
  BY <1>2, <1>8, <1>9, <1>10 DEF A2AInv, RemoteOK, GatheredOK

\* A task takes the place of what was told of it; the stream pauses, goes on and
\* ends.
LEMMA StreamKeeps ==
  ASSUME A2AInv, Task \/ InputRequired \/ Feedback \/ Ends \/ Returns \/ TimesOut
  PROVE  A2AInv'
<1>1. AddTask(remote.artifacts) = WithoutSteps(remote.artifacts) /\ AddTask(remote.artifacts) \in Texts
  BY WithoutStepsIsText DEF AddTask, WithoutSteps, A2AInv, RemoteOK
<1>2. CASE Task
  BY <1>1, <1>2 DEF Task, A2AInv, RemoteOK, GatheredOK
<1>3. CASE InputRequired
  BY <1>3 DEF InputRequired, A2AInv, RemoteOK, GatheredOK
<1>4. CASE Feedback
  BY <1>4 DEF Feedback, A2AInv, RemoteOK, GatheredOK
<1>5. CASE Ends
  <2>1. PICK state \in Terminal \cup {"completed"} :
          /\ remote' = [remote EXCEPT !.state = state]
          /\ agent' = IF state \in Terminal THEN "raised" ELSE agent
          /\ gathered' = IF state = "completed" /\ ~remote.streams THEN AddTask(remote.artifacts) ELSE gathered
    BY <1>5 DEF Ends
  <2>2. agent = "reading" /\ remote.state = "working"
    BY <1>5 DEF Ends
  <2>3. /\ remote'.artifacts = remote.artifacts /\ remote'.state = state /\ remote'.streams = remote.streams
        /\ remote' \in [state : {"working", "input_required", "completed"} \cup Terminal, artifacts : Texts,
                        chunks : Nat, streams : BOOLEAN]
    BY <2>1 DEF A2AInv, RemoteOK
  <2>4. gathered' \in Texts /\ agent' \in {"reading", "raised"}
    BY <1>1, <2>1, <2>2 DEF A2AInv, RemoteOK
  <2>5. agent' = "reading" => state = "completed" /\ gathered' = WithoutSteps(remote.artifacts)
    BY <1>1, <2>1, <2>2 DEF A2AInv, GatheredOK, RemoteOK
  <2> QED
    BY <2>3, <2>4, <2>5 DEF A2AInv, RemoteOK, GatheredOK
<1>6. CASE Returns
  BY <1>6 DEF Returns, A2AInv, RemoteOK, GatheredOK
<1>7. CASE TimesOut
  BY <1>7 DEF TimesOut, A2AInv, RemoteOK, GatheredOK
<1> QED
  BY <1>2, <1>3, <1>4, <1>5, <1>6, <1>7

LEMMA A2AInvariance == A2ASpec => []A2AInv
<1>1. A2AInit => A2AInv
  BY A2ABegins
<1>2. A2AInv /\ [A2ANext]_a2aVars => A2AInv'
  <2>1. CASE UNCHANGED a2aVars
    BY <2>1 DEF a2aVars, A2AInv, RemoteOK, GatheredOK
  <2> QED
    BY <2>1, ArtifactKeeps, StreamKeeps DEF A2ANext
<1> QED
  BY <1>1, <1>2, PTL DEF A2ASpec

\* The answer has each artifact of the remote task as it is at the end, whether
\* it was told of in pieces or at once (ResponseTextAccumulator).
THEOREM RemoteAnswer == A2ASpec => []AnswerIsTheTasks
<1>1. ASSUME A2AInv
      PROVE  AnswerIsTheTasks
  <2>1. WithoutSteps(remote.artifacts) = [remote.artifacts EXCEPT !["step"] = <<>>]
    BY <1>1 DEF A2AInv, RemoteOK, Texts, WithoutSteps
  <2> QED
    BY <1>1, <2>1 DEF A2AInv, GatheredOK, AnswerIsTheTasks
<1> QED
  BY <1>1, A2AInvariance, PTL

-----------------------------------------------------------------------------
(* What else a question goes through: the restricted agent, the pipeline   *)
(* and the graphs that are evolved.  They are instances, their names being *)
(* those of the modules above.                                             *)

CONSTANTS
  AgentQuestions, Codes, AgentRetries, MaxCallbacks, \* of the restricted agent
  NodeIds, Procedures, AvailableTools, InitialGraphs, Rounds, MaxScore, MaxEdits, MemoryLimit, MaxChars, Sizes,
  Preprocess, Context, Generation, Postprocess, Kind, Fallback, NextAgent, ThenAgents, ElseAgents, Pruning,
  Retries, MaxSplit, MaxFound, NoAgent

VARIABLES
  output, flow_id, cases, question, code, saved,
  pc, round, retained, candidate, verdict, rejections, told, graphs, baseline, rounds, rejected, current,
  stage, restart, restarts, context_questions, task, flows, memory_contexts, answers, final

Restricted == INSTANCE RestrictedAgent WITH Questions <- AgentQuestions, MaxRetries <- AgentRetries
Evolving == INSTANCE Evolution WITH Ids <- NodeIds
Retrieving == INSTANCE Retrieval WITH
  Then <- ThenAgents, Else <- ElseAgents, asked <- context_questions, contexts <- memory_contexts

-----------------------------------------------------------------------------
(* The restricted agent.                                                   *)

\* The bounds of a restricted agent are numbers.
RestrictedBounds == Codes \in Nat \ {0} /\ AgentRetries \in Nat /\ MaxCallbacks \in Nat

\* Where its questions and executions are.
RestrictedInv ==
  /\ output \in [resolved : BOOLEAN, missing : 0..Codes, contexts : SUBSET AgentQuestions, final : BOOLEAN]
  /\ flow_id \in AgentQuestions \cup {Restricted!NoQuestion} /\ cases \subseteq AgentQuestions
  /\ question \in [AgentQuestions -> [at : {"idle", "preload", "loop", "gather", "failed", "done"},
                                      depth : 0..AgentRetries, callbacks : 0..MaxCallbacks]]
  /\ code \in [AgentQuestions -> [1..Codes -> [at : {"ended", "running", "calling"},
                                               reply : Restricted!Replies \cup {"refused"}]]]
  /\ saved \subseteq [flow : AgentQuestions, of : AgentQuestions]

\* A question moves on.
LEMMA QuestionMoves ==
  ASSUME RestrictedInv, NEW q \in AgentQuestions, NEW to \in {"idle", "preload", "loop", "gather", "failed", "done"},
         Restricted!Goto(q, to)
  PROVE  question' \in [AgentQuestions -> [at : {"idle", "preload", "loop", "gather", "failed", "done"},
                                           depth : 0..AgentRetries, callbacks : 0..MaxCallbacks]]
<1> DEFINE Entry == [at : {"idle", "preload", "loop", "gather", "failed", "done"},
                     depth : 0..AgentRetries, callbacks : 0..MaxCallbacks]
<1>1. question \in [AgentQuestions -> Entry] /\ question' = [question EXCEPT ![q].at = to]
  BY DEF RestrictedInv, Restricted!Goto
<1>2. [question[q] EXCEPT !.at = to] \in Entry
  BY <1>1
<1> QED
  BY <1>1, <1>2

\* An execution is answered, waits or ends.
LEMMA CodeMoves ==
  ASSUME RestrictedInv, NEW q \in AgentQuestions, NEW c \in 1..Codes,
         NEW r \in [at : {"ended", "running", "calling"}, reply : Restricted!Replies \cup {"refused"}],
         code' = [code EXCEPT ![q][c] = r]
  PROVE  code' \in [AgentQuestions -> [1..Codes -> [at : {"ended", "running", "calling"},
                                               reply : Restricted!Replies \cup {"refused"}]]]
BY DEF RestrictedInv

\* A callback is counted, and answered.
LEMMA CallbackMoves ==
  ASSUME RestrictedInv, RestrictedBounds, NEW q \in AgentQuestions, NEW c \in 1..Codes, Restricted!Callback(q, c)
  PROVE  /\ question' \in [AgentQuestions -> [at : {"idle", "preload", "loop", "gather", "failed", "done"},
                                           depth : 0..AgentRetries, callbacks : 0..MaxCallbacks]]
         /\ \A p \in AgentQuestions : question'[p].at = question[p].at
<1> DEFINE Entry == [at : {"idle", "preload", "loop", "gather", "failed", "done"},
                     depth : 0..AgentRetries, callbacks : 0..MaxCallbacks]
<1>1. /\ question \in [AgentQuestions -> Entry] /\ question[q].callbacks < MaxCallbacks
      /\ question' = [question EXCEPT ![q] = [question[q] EXCEPT !.callbacks = @ + 1]]
  BY DEF RestrictedInv, Restricted!Callback
<1>2. question[q].callbacks + 1 \in 0..MaxCallbacks
  BY <1>1 DEF RestrictedBounds
<1>3. [question[q] EXCEPT !.callbacks = @ + 1] \in Entry
  BY <1>1, <1>2
<1> QED
  BY <1>1, <1>3

\* What an execution is answered is an answer.
LEMMA RepliesOfCalls ==
  ASSUME NEW fn \in Restricted!Functions
  PROVE  Restricted!Reply(fn) \subseteq Restricted!Replies
BY DEF Restricted!Reply, Restricted!Replies, Restricted!Functions, Restricted!Transform, Restricted!Rephrase,
       Restricted!Extract, Restricted!RemiValidation, Restricted!Validate, Restricted!ChildFunction,
       Restricted!UserValidation, Restricted!AddStep

LEMMA AnswerMoves ==
  ASSUME RestrictedInv, NEW q \in AgentQuestions, NEW c \in 1..Codes,
         NEW reply \in Restricted!Replies \cup {"refused"}, Restricted!Answer(q, c, reply)
  PROVE  code' \in [AgentQuestions -> [1..Codes -> [at : {"ended", "running", "calling"},
                                               reply : Restricted!Replies \cup {"refused"}]]]
<1> DEFINE Entry == [at : {"ended", "running", "calling"}, reply : Restricted!Replies \cup {"refused"}]
<1>0. code \in [AgentQuestions -> [1..Codes -> Entry]]
  BY DEF RestrictedInv
<1> HIDE DEF Entry
<1>1. code[q][c] \in Entry
  BY <1>0
<1>2. [code[q][c] EXCEPT !.reply = reply] \in Entry
  BY <1>1 DEF Entry
<1>3. code' = [code EXCEPT ![q][c] = [code[q][c] EXCEPT !.reply = reply]]
  BY Zenon DEF Restricted!Answer
<1> QED
  BY <1>2, <1>3, CodeMoves DEF Entry

LEMMA RestrictedKeeps ==
  ASSUME RestrictedBounds, RestrictedInv, Restricted!Next
  PROVE  RestrictedInv'
<1> DEFINE Where == {"idle", "preload", "loop", "gather", "failed", "done"}
           Out == [resolved : BOOLEAN, missing : 0..Codes, contexts : SUBSET AgentQuestions, final : BOOLEAN]
           Entry == [at : {"ended", "running", "calling"}, reply : Restricted!Replies \cup {"refused"}]
<1>0. output \in Out /\ code \in [AgentQuestions -> [1..Codes -> Entry]]
  BY DEF RestrictedInv
<1>1. PICK q \in AgentQuestions :
        \/ Restricted!GetQuestionContext(q) \/ Restricted!PreloadChildAgents(q) \/ Restricted!RunMissing(q)
        \/ Restricted!Gathered(q) \/ Restricted!SaveOutput(q)
        \/ \E c \in 1..Codes : Restricted!CodeStep(q, c)
  BY DEF Restricted!Next
<1>2. CASE Restricted!GetQuestionContext(q)
  BY <1>2, QuestionMoves DEF Restricted!GetQuestionContext, RestrictedInv
<1>3. CASE Restricted!PreloadChildAgents(q)
  <2>1. Restricted!NewOutput \in Out
    BY DEF Restricted!NewOutput, RestrictedBounds
  <2> QED
    BY <1>3, <2>1, QuestionMoves DEF Restricted!PreloadChildAgents, RestrictedInv
<1>4. CASE Restricted!RunMissing(q)
  <2>1. output' \in Out
    <3>1. [output EXCEPT !.missing = 0] \in Out
      BY <1>0 DEF RestrictedBounds
    <3> QED
      BY <1>4, <3>1 DEF Restricted!RunMissing
  <2>2. Restricted!NoCode \in Entry /\ [Restricted!NoCode EXCEPT !.at = "running"] \in Entry
    BY DEF Restricted!NoCode, Restricted!Replies
  <2>3. code' \in [AgentQuestions -> [1..Codes -> Entry]]
    BY <1>0, <1>4, <2>2 DEF Restricted!RunMissing
  <2>4. question[q].depth + 1 \in 0..AgentRetries
    BY <1>4 DEF Restricted!RunMissing, RestrictedInv, RestrictedBounds
  <2>5. [question[q] EXCEPT !.at = "gather", !.depth = @ + 1] \in
            [at : Where, depth : 0..AgentRetries, callbacks : 0..MaxCallbacks]
    <3> DEFINE Asked == [at : Where, depth : 0..AgentRetries, callbacks : 0..MaxCallbacks]
    <3>1. question \in [AgentQuestions -> Asked]
      BY DEF RestrictedInv
    <3> HIDE DEF Asked
    <3>2. question[q] \in Asked
      BY <3>1
    <3> QED
      BY <2>4, <3>2 DEF Asked
  <2>6. question' = [question EXCEPT ![q] = [question[q] EXCEPT !.at = "gather", !.depth = @ + 1]]
    BY <1>4, Zenon DEF Restricted!RunMissing
  <2>7. question' \in [AgentQuestions -> [at : Where, depth : 0..AgentRetries, callbacks : 0..MaxCallbacks]]
    BY <2>5, <2>6 DEF RestrictedInv
  <2> QED
    BY <1>4, <2>1, <2>3, <2>7 DEF Restricted!RunMissing, RestrictedInv
<1>5. CASE Restricted!Gathered(q)
  BY <1>5, QuestionMoves DEF Restricted!Gathered, RestrictedInv
<1>6. CASE Restricted!SaveOutput(q)
  BY <1>6, QuestionMoves DEF Restricted!SaveOutput, RestrictedInv
<1>7. ASSUME NEW c \in 1..Codes, Restricted!CodeStep(q, c)
      PROVE  RestrictedInv'
  <2>1. Restricted!NoCode \in Entry
    BY DEF Restricted!NoCode, Restricted!Replies
  <2>2. CASE Restricted!CodeFails(q, c)
    BY <2>1, <2>2, QuestionMoves, CodeMoves DEF Restricted!CodeFails, RestrictedInv
  <2>3. CASE Restricted!CodeEnds(q, c)
    BY <2>1, <2>3, CodeMoves DEF Restricted!CodeEnds, RestrictedInv
  <2>4. CASE Restricted!HandleCall(q, c)
    <3>1. PICK fn \in Restricted!Functions :
            IF Restricted!Authorized(fn) THEN \E r \in Restricted!Reply(fn) : Restricted!Answer(q, c, r)
            ELSE Restricted!Answer(q, c, "refused")
      BY <2>4 DEF Restricted!HandleCall
    <3>2. \E reply \in Restricted!Replies \cup {"refused"} : Restricted!Answer(q, c, reply)
      BY <3>1, RepliesOfCalls, Zenon
    <3> QED
      BY <2>4, <3>2, CallbackMoves, AnswerMoves DEF Restricted!HandleCall, RestrictedInv
  <2>5. CASE Restricted!Choose(q, c)
    <3>1. [code[q][c] EXCEPT !.at = "calling"] \in Entry
      <4> HIDE DEF Entry
      <4>1. code[q][c] \in Entry
        BY <1>0
      <4> QED
        BY <4>1 DEF Entry
    <3>2. code' = [code EXCEPT ![q][c] = [code[q][c] EXCEPT !.at = "calling"]]
      BY <2>5, Zenon DEF Restricted!Choose
    <3>3. code' \in [AgentQuestions -> [1..Codes -> Entry]]
      BY <3>1, <3>2, CodeMoves
    <3>4. cases' \subseteq AgentQuestions
      BY <2>5 DEF Restricted!Choose, RestrictedInv
    <3> QED
      BY <2>5, <3>3, <3>4, CallbackMoves DEF Restricted!Choose, RestrictedInv
  <2>6. CASE Restricted!Chosen(q, c)
    <3>1. PICK case \in cases \cup {"none"} : code' = [code EXCEPT ![q][c] = [at |-> "running", reply |-> case]]
      BY <2>6 DEF Restricted!Chosen
    <3>2. [at |-> "running", reply |-> case] \in Entry
      BY <3>1 DEF Restricted!Replies, RestrictedInv
    <3> QED
      BY <2>6, <3>1, <3>2, CodeMoves DEF Restricted!Chosen, RestrictedInv
  <2>7. CASE Restricted!Save(q, c)
    <3>1. output' \in Out
      BY <1>0, <2>7 DEF Restricted!Save
    <3>2. "resolved" \in Restricted!Replies
      BY DEF Restricted!Replies
    <3> QED
      BY <2>7, <3>1, <3>2, CallbackMoves, AnswerMoves DEF Restricted!Save, RestrictedInv
  <2> QED
    BY <1>7, <2>2, <2>3, <2>4, <2>5, <2>6, <2>7 DEF Restricted!CodeStep
<1> QED
  BY <1>1, <1>2, <1>3, <1>4, <1>5, <1>6, <1>7

LEMMA RestrictedInvariance == RestrictedBounds => (Restricted!Spec => []RestrictedInv)
<1> SUFFICES ASSUME RestrictedBounds
             PROVE  Restricted!Spec => []RestrictedInv
  OBVIOUS
<1>1. Restricted!Init => RestrictedInv
  <2> SUFFICES ASSUME Restricted!Init
               PROVE  RestrictedInv
    OBVIOUS
  <2>1. output = [resolved |-> FALSE, missing |-> 0, contexts |-> {}, final |-> FALSE]
    BY DEF Restricted!Init, Restricted!NewOutput
  <2>2. Restricted!NoCode \in [at : {"ended", "running", "calling"}, reply : Restricted!Replies \cup {"refused"}]
    BY DEF Restricted!NoCode, Restricted!Replies
  <2>3. output \in [resolved : BOOLEAN, missing : 0..Codes, contexts : SUBSET AgentQuestions, final : BOOLEAN]
    BY <2>1 DEF RestrictedBounds
  <2>4. question \in [AgentQuestions -> [at : {"idle", "preload", "loop", "gather", "failed", "done"},
                                        depth : 0..AgentRetries, callbacks : 0..MaxCallbacks]]
    BY DEF Restricted!Init, RestrictedBounds
  <2>5. flow_id = Restricted!NoQuestion /\ cases = {} /\ saved = {}
    BY DEF Restricted!Init
  <2>6. code \in [AgentQuestions -> [1..Codes -> [at : {"ended", "running", "calling"},
                                                 reply : Restricted!Replies \cup {"refused"}]]]
    BY <2>2 DEF Restricted!Init
  <2> QED
    BY <2>3, <2>4, <2>5, <2>6 DEF RestrictedInv
<1>2. RestrictedInv /\ UNCHANGED Restricted!restrictedVars => RestrictedInv'
  BY DEF RestrictedInv, Restricted!restrictedVars
<1> QED
  BY <1>1, <1>2, RestrictedKeeps, PTL DEF Restricted!Spec

\* What an execution has resolved is undone by nothing that runs for the same
\* question, only by another question that begins (PythonAgent.output is one).
LEMMA OnlyAPreloadUndoes ==
  ASSUME RestrictedInv, Restricted!Next, NEW q \in AgentQuestions, question[q].at = "gather", output.resolved
  PROVE  \/ output'.resolved
         \/ \E p \in AgentQuestions \ {q} : Restricted!PreloadChildAgents(p)
<1>1. PICK p \in AgentQuestions :
        \/ Restricted!GetQuestionContext(p) \/ Restricted!PreloadChildAgents(p) \/ Restricted!RunMissing(p)
        \/ Restricted!Gathered(p) \/ Restricted!SaveOutput(p)
        \/ \E c \in 1..Codes : Restricted!CodeStep(p, c)
  BY DEF Restricted!Next
<1>2. CASE Restricted!GetQuestionContext(p) \/ Restricted!Gathered(p) \/ Restricted!SaveOutput(p)
  BY <1>2 DEF Restricted!GetQuestionContext, Restricted!Gathered, Restricted!SaveOutput
<1>3. CASE Restricted!RunMissing(p)
  BY <1>3 DEF Restricted!RunMissing
<1>4. CASE Restricted!PreloadChildAgents(p)
  BY <1>4 DEF Restricted!PreloadChildAgents
<1>5. ASSUME NEW c \in 1..Codes, Restricted!CodeStep(p, c)
      PROVE  output'.resolved
  <2>1. CASE Restricted!Save(p, c)
    <3>1. PICK solved \in BOOLEAN, got \in BOOLEAN, lacking \in 0..Codes, last \in BOOLEAN :
            output' = [resolved |-> output.resolved \/ solved, missing |-> lacking, final |-> last,
                       contexts |-> IF got THEN output.contexts \cup {p} ELSE output.contexts]
      BY <2>1 DEF Restricted!Save
    <3>2. output'.resolved = (output.resolved \/ solved)
      BY <3>1, Zenon
    <3> QED
      BY <3>2
  <2>2. CASE UNCHANGED output
    BY <2>2
  <2> QED
    BY <1>5, <2>1, <2>2, Zenon
    DEF Restricted!CodeStep, Restricted!CodeFails, Restricted!CodeEnds, Restricted!HandleCall, Restricted!Choose,
        Restricted!Chosen
<1> QED
  BY <1>1, <1>2, <1>3, <1>4, <1>5

\* The state of a restricted agent keeps its types.
THEOREM RestrictedTypes == RestrictedBounds => (Restricted!Spec => []Restricted!RestrictedTypeOK)
<1> SUFFICES ASSUME RestrictedBounds
             PROVE  Restricted!Spec => []Restricted!RestrictedTypeOK
  OBVIOUS
<1>1. RestrictedInv => Restricted!RestrictedTypeOK
  <2> SUFFICES ASSUME RestrictedInv
               PROVE  Restricted!RestrictedTypeOK
    OBVIOUS
  <2>1. \A q \in AgentQuestions : question[q].depth \in 0..AgentRetries /\ question[q].callbacks \in 0..MaxCallbacks
    BY DEF RestrictedInv
  <2>2. \A q \in AgentQuestions : \A c \in 1..Codes :
          code[q][c].at \in {"ended", "running", "calling"} /\ code[q][c].reply \in Restricted!Replies \cup {"refused"}
    <3> DEFINE Entry == [at : {"ended", "running", "calling"}, reply : Restricted!Replies \cup {"refused"}]
    <3>1. code \in [AgentQuestions -> [1..Codes -> Entry]]
      BY DEF RestrictedInv
    <3> HIDE DEF Entry
    <3>2. \A q \in AgentQuestions : \A c \in 1..Codes : code[q][c] \in Entry
      BY <3>1
    <3> QED
      BY <3>2 DEF Entry
  <2> QED
    BY <2>1, <2>2 DEF RestrictedInv, Restricted!RestrictedTypeOK
<1> QED
  BY <1>1, RestrictedInvariance, PTL

\* Of an agent that answers one question at a time, what an execution has
\* resolved stays resolved, whatever the executions beside it save.
THEOREM ResolutionSticks ==
  RestrictedBounds /\ (\A p, q \in AgentQuestions : p = q) => (Restricted!Spec => Restricted!ResolvedSticks)
<1> SUFFICES ASSUME RestrictedBounds, \A p, q \in AgentQuestions : p = q
             PROVE  Restricted!Spec => Restricted!ResolvedSticks
  OBVIOUS
<1>1. RestrictedInv /\ [Restricted!Next]_Restricted!restrictedVars =>
        [\A q \in AgentQuestions : question[q].at = "gather" /\ output.resolved => output'.resolved]_Restricted!restrictedVars
  BY OnlyAPreloadUndoes
<1> QED
  BY <1>1, RestrictedInvariance, PTL DEF Restricted!Spec, Restricted!ResolvedSticks

-----------------------------------------------------------------------------
(* The evolution of a graph.                                              *)

\* Rounds and scores are numbers.
EvolutionBounds == Rounds \in Nat /\ MaxScore \in Nat

\* A graph and its score; what retained.json says.
Scored == [graph |-> retained.graph, score |-> retained.score]
Written == [graph |-> current.graph, score |-> current.score, round |-> current.round]
Proposed == [graph |-> candidate.graph, score |-> candidate.score]
\* The records of the rounds are a sequence.
OnRecord == \E S : rounds \in Seq(S)
EvolutionTypes ==
  /\ pc \in {"manifest", "first graph", "first retain", "validate first", "retain first", "round", "save candidate",
             "validate", "record", "accept", "reject", "over", "returned"}
  /\ round \in 0..Rounds /\ baseline \in {"none", "scored", "error"}
  /\ retained = Scored /\ retained.score \in 0..Evolving!Unscored
  /\ candidate = Proposed /\ candidate.score \in 0..Evolving!Unscored
  /\ current = Written /\ current.score \in 0..Evolving!Unscored /\ current.round \in 0..Len(rounds)
  /\ OnRecord /\ Len(rounds) \in {round, round - 1}
  /\ rejected \subseteq 1..Len(rounds)

Beginning == {"manifest", "first graph", "first retain"}
FirstOf == Beginning \cup {"validate first", "retain first"}
Valid(g) == Evolving!ValidGraph(g) /\ Evolving!CheckTools(g)

\* Before the first round nothing is recorded; from then on retained.json says
\* what is retained, but while the directory is behind, and a candidate is on
\* record, and no worse, before it replaces it.
BeginsOK ==
  /\ pc \in FirstOf => rounds = <<>> /\ round = 0 /\ rejected = {} /\ current.round = 0 /\ current.score = Evolving!Unscored
  /\ pc \in Beginning => current.graph = Evolving!NoGraph /\ retained.score = Evolving!Unscored
  /\ pc \in {"first retain"} => retained.graph \in graphs
  /\ pc = "validate first" => current.graph \in graphs /\ current.graph = retained.graph
  /\ pc = "retain first" =>
       /\ baseline = "scored" /\ current.graph \in graphs /\ current.graph = retained.graph
       /\ retained.score # Evolving!Unscored
RoundOK ==
  /\ pc \notin FirstOf \cup {"over"} =>
       /\ current.graph = retained.graph /\ current.score = retained.score /\ retained.graph \in graphs
       /\ retained.score # Evolving!Unscored /\ baseline = "scored"
  /\ pc \in {"round", "accept", "reject"} => Len(rounds) = round
  /\ pc \in {"accept", "reject"} => round # 0
  /\ pc \in {"save candidate", "validate", "record"} => Len(rounds) = round - 1
  /\ pc = "round" => \A r \in 1..Len(rounds) : rounds[r].verdict = "accepted" => r <= current.round
  /\ pc \in {"save candidate", "validate"} => Valid(candidate.graph)
  /\ pc = "validate" => candidate.graph \in graphs
  /\ (pc = "record" /\ verdict = "accepted") \/ pc = "accept" =>
       candidate.graph \in graphs /\ candidate.score \in Evolving!Scores /\ candidate.score >= retained.score
  /\ pc = "accept" => rounds[round] = [verdict |-> "accepted", graph |-> candidate.graph, score |-> candidate.score]
  /\ pc = "reject" => rounds[round].verdict # "accepted"
GraphsValid == Valid(retained.graph) /\ \A g \in graphs : Valid(g)
EvolutionInv == EvolutionTypes /\ BeginsOK /\ RoundOK /\ GraphsValid /\ Evolving!RetainedIsRecorded

\* The rounds are counted.
LEMMA RoundIsANumber ==
  ASSUME EvolutionBounds, EvolutionInv
  PROVE  round \in Nat
<1>1. round \in 0..Rounds /\ Rounds \in Nat
  BY DEF EvolutionInv, EvolutionTypes, EvolutionBounds
<1> QED
  BY <1>1

\* What a sequence of records becomes when one is added.
LEMMA RecordAdded ==
  ASSUME NEW s, \E S : s \in Seq(S), NEW e
  PROVE  /\ \E S : Append(s, e) \in Seq(S)
         /\ Len(Append(s, e)) = Len(s) + 1 /\ Len(s) \in Nat
         /\ Append(s, e)[Len(s) + 1] = e /\ \A r \in 1..Len(s) : Append(s, e)[r] = s[r]
<1>1. PICK S : s \in Seq(S)
  OBVIOUS
<1>2. s \in Seq(S \cup {e})
  BY <1>1, SeqMonotonic
<1> QED
  BY <1>2, AppendProperties, LenProperties

\* Before the directory is claimed nothing is on record.
LEMMA EvolutionBegins ==
  ASSUME EvolutionBounds, Evolving!Init
  PROVE  EvolutionInv
<1>1. PICK g \in {h \in InitialGraphs : Evolving!ValidGraph(h) /\ Evolving!CheckTools(h)} :
        retained = [graph |-> g, score |-> Evolving!Unscored]
  BY DEF Evolving!Init
<1>2. EvolutionTypes
  <2>1. OnRecord /\ Len(rounds) = 0
    BY DEF Evolving!Init, OnRecord
  <2> QED
    BY <1>1, <2>1 DEF EvolutionTypes, Evolving!Init, EvolutionBounds, Evolving!Unscored, Scored, Proposed, Written
<1>3. BeginsOK /\ RoundOK /\ Evolving!RetainedIsRecorded
  BY <1>1 DEF BeginsOK, RoundOK, Evolving!RetainedIsRecorded, Evolving!Init, Beginning, FirstOf
<1>4. GraphsValid
  BY <1>1 DEF GraphsValid, Valid, Evolving!Init
<1> QED
  BY <1>2, <1>3, <1>4 DEF EvolutionInv

\* The directory is claimed and the initial graph retained.
LEMMA ClaimedKeeps ==
  ASSUME EvolutionBounds, EvolutionInv, Evolving!Claimed
  PROVE  EvolutionInv'
<1>1. UNCHANGED <<round, retained, candidate, verdict, baseline, rounds, rejected>> /\ graphs \subseteq graphs'
      /\ graphs' \subseteq graphs \cup {retained.graph}
  BY DEF Evolving!Claimed, Evolving!SaveGraph, Evolving!Retain, Evolving!files
<1>2. OnRecord'
  BY <1>1 DEF OnRecord, EvolutionInv, EvolutionTypes
<1>3. /\ rounds = <<>> /\ round = 0 /\ rejected = {} /\ current.graph = Evolving!NoGraph /\ current.round = 0
      /\ current.score = Evolving!Unscored
  BY DEF Evolving!Claimed, EvolutionInv, BeginsOK, Beginning, FirstOf
<1>4. \/ pc = "manifest" /\ pc' = "first graph" /\ UNCHANGED current
      \/ pc = "first graph" /\ pc' = "first retain" /\ UNCHANGED current /\ retained.graph \in graphs'
      \/ /\ pc = "first retain" /\ pc' = "validate first" /\ UNCHANGED graphs
         /\ current' = [graph |-> retained.graph, score |-> retained.score, round |-> 0]
  BY DEF Evolving!Claimed, Evolving!SaveGraph, Evolving!Retain, Evolving!files, Evolving!Then
<1>5. retained.score = Evolving!Unscored /\ Evolving!Unscored \in 0..Evolving!Unscored
  <2>1. pc \in Beginning
    BY <1>4 DEF Beginning
  <2>2. Evolving!Unscored \in 0..Evolving!Unscored
    BY DEF EvolutionBounds, Evolving!Unscored
  <2> QED
    BY <2>1, <2>2 DEF EvolutionInv, BeginsOK
<1>6. /\ current' = [graph |-> current'.graph, score |-> current'.score, round |-> current'.round]
      /\ current'.round = 0 /\ current'.score = Evolving!Unscored
      /\ (pc = "first retain" => current'.graph = retained.graph)
      /\ (pc # "first retain" => current'.graph = Evolving!NoGraph)
  <2>1. CASE UNCHANGED current /\ pc # "first retain"
    <3>1. current = [graph |-> current.graph, score |-> current.score, round |-> current.round]
      BY DEF EvolutionInv, EvolutionTypes, Written
    <3> QED
      BY <1>3, <2>1, <3>1
  <2>2. CASE pc = "first retain"
    <3>1. current' = [graph |-> retained.graph, score |-> retained.score, round |-> 0]
      BY <1>4, <2>2
    <3>2. /\ [graph |-> retained.graph, score |-> retained.score, round |-> 0].graph = retained.graph
          /\ [graph |-> retained.graph, score |-> retained.score, round |-> 0].score = retained.score
          /\ [graph |-> retained.graph, score |-> retained.score, round |-> 0].round = 0
      OBVIOUS
    <3> QED
      BY <1>5, <2>2, <3>1, <3>2
  <2> QED
    BY <1>4, <2>1, <2>2
<1>7. EvolutionTypes'
  BY <1>1, <1>2, <1>3, <1>4, <1>5, <1>6 DEF EvolutionInv, EvolutionTypes, Scored, Proposed, Written
<1>8. BeginsOK'
  BY <1>1, <1>3, <1>4, <1>5, <1>6 DEF EvolutionInv, BeginsOK, Beginning, FirstOf
<1>9. RoundOK'
  BY <1>4 DEF RoundOK, Beginning, FirstOf
<1>10. GraphsValid'
  BY <1>1 DEF EvolutionInv, GraphsValid, Valid
<1>11. Evolving!RetainedIsRecorded'
  <2>1. Len(rounds) = 0 /\ UNCHANGED <<rounds, rejected>> /\ pc' # "returned"
    BY <1>1, <1>3, <1>4
  <2>2. pc = "first retain" => retained.graph \in graphs'
    BY <1>1 DEF EvolutionInv, BeginsOK
  <2>3. /\ current'.graph # Evolving!NoGraph => current'.graph \in graphs'
        /\ current'.round = 0 /\ current'.score = Evolving!Unscored
    BY <1>6, <2>2
  <2> QED
    BY <1>3, <2>1, <2>3 DEF Evolving!RetainedIsRecorded
<1> QED
  BY <1>7, <1>8, <1>9, <1>10, <1>11 DEF EvolutionInv

\* The initial graph is scored, and retained with its score.
LEMMA BaselineKeeps ==
  ASSUME EvolutionBounds, EvolutionInv, Evolving!Baseline
  PROVE  EvolutionInv'
<1>1. /\ UNCHANGED <<round, candidate, verdict, graphs, rounds, rejected>> /\ pc \in {"validate first", "retain first"}
      /\ pc' \in {"retain first", "over", "round"}
  BY DEF Evolving!Baseline, Evolving!Then, Evolving!Retain, Evolving!files
<1>2. OnRecord'
  BY <1>1 DEF OnRecord, EvolutionInv, EvolutionTypes
<1>3. /\ rounds = <<>> /\ Len(rounds) = 0 /\ round = 0 /\ rejected = {} /\ current.round = 0 /\ current.score = Evolving!Unscored
      /\ current.graph = retained.graph /\ retained.graph \in graphs
  BY <1>1 DEF EvolutionInv, BeginsOK, FirstOf
<1>4. Evolving!Unscored \in Nat /\ Evolving!Scores \subseteq 0..Evolving!Unscored /\ Evolving!Unscored \notin Evolving!Scores
  BY DEF EvolutionBounds, Evolving!Unscored, Evolving!Scores
<1>5. CASE /\ pc = "validate first" /\ UNCHANGED current
           /\ \/ \E s \in Evolving!Scores : retained' = [retained EXCEPT !.score = s] /\ baseline' = "scored" /\ pc' = "retain first"
              \/ baseline' = "error" /\ pc' = "over" /\ UNCHANGED retained
  <2>1. /\ retained' = [graph |-> retained'.graph, score |-> retained'.score] /\ retained'.graph = retained.graph
        /\ retained'.score \in 0..Evolving!Unscored
        /\ pc' = "retain first" => retained'.score # Evolving!Unscored
    <3>1. retained = [graph |-> retained.graph, score |-> retained.score] /\ retained.score \in 0..Evolving!Unscored
      BY DEF EvolutionInv, EvolutionTypes, Scored
    <3>2. CASE UNCHANGED retained /\ pc' = "over"
      BY <3>1, <3>2
    <3>3. ASSUME NEW s \in Evolving!Scores, retained' = [retained EXCEPT !.score = s]
          PROVE  /\ retained' = [graph |-> retained'.graph, score |-> retained'.score] /\ retained'.graph = retained.graph
                 /\ retained'.score = s
      BY <3>1, <3>3
    <3> QED
      BY <1>4, <1>5, <3>2, <3>3
  <2>2. EvolutionTypes'
    BY <1>1, <1>2, <1>3, <1>5, <2>1 DEF EvolutionInv, EvolutionTypes, Scored, Proposed, Written
  <2>3. BeginsOK' /\ RoundOK'
    BY <1>1, <1>3, <1>5, <2>1 DEF BeginsOK, RoundOK, Beginning, FirstOf
  <2>4. Evolving!RetainedIsRecorded'
    <3>1. UNCHANGED <<round, graphs, rounds, rejected, current>> /\ pc' # "returned"
      BY <1>1, <1>5
    <3> QED
      BY <1>3, <3>1 DEF Evolving!RetainedIsRecorded
  <2>5. GraphsValid'
    BY <1>1, <2>1 DEF EvolutionInv, GraphsValid, Valid
  <2> QED
    BY <2>2, <2>3, <2>4, <2>5 DEF EvolutionInv
<1>6. CASE /\ pc = "retain first" /\ pc' = "round" /\ UNCHANGED <<retained, baseline>>
           /\ current' = [graph |-> retained.graph, score |-> retained.score, round |-> 0]
  <2>1. /\ current' = [graph |-> current'.graph, score |-> current'.score, round |-> current'.round]
        /\ current'.graph = retained.graph /\ current'.score = retained.score /\ current'.round = 0
    BY <1>6
  <2>2. EvolutionTypes'
    BY <1>1, <1>2, <1>3, <1>6, <2>1 DEF EvolutionInv, EvolutionTypes, Scored, Proposed, Written
  <2>3. BeginsOK' /\ RoundOK'
    <3>1. retained.score # Evolving!Unscored /\ baseline = "scored"
      BY <1>6 DEF EvolutionInv, BeginsOK
    <3>2. /\ UNCHANGED <<round, graphs, rounds, rejected, retained, baseline>> /\ pc' = "round"
          /\ current'.graph = retained.graph /\ current'.round = 0 /\ current'.score = retained.score
      BY <1>1, <1>6, <2>1
    <3>3. BeginsOK'
      BY <3>2 DEF BeginsOK, Beginning, FirstOf
    <3>4. \A r \in 1..Len(rounds) : FALSE
      BY <1>3
    <3>5. RoundOK'
      BY <1>3, <3>1, <3>2, <3>4 DEF RoundOK, FirstOf, Beginning
    <3> QED
      BY <3>3, <3>5
  <2>4. Evolving!RetainedIsRecorded'
    <3>1. baseline = "scored"
      BY <1>6 DEF EvolutionInv, BeginsOK
    <3>2. /\ UNCHANGED <<round, graphs, rounds, rejected, retained, baseline>> /\ pc' # "returned"
          /\ current'.graph = retained.graph /\ current'.round = 0
      BY <1>1, <1>6, <2>1
    <3> QED
      BY <1>3, <3>1, <3>2 DEF Evolving!RetainedIsRecorded
  <2>5. GraphsValid'
    BY <1>1, <1>6 DEF EvolutionInv, GraphsValid, Valid
  <2> QED
    BY <2>2, <2>3, <2>4, <2>5 DEF EvolutionInv
<1> QED
  BY <1>5, <1>6 DEF Evolving!Baseline, Evolving!Then, Evolving!Retain, Evolving!files

\* A candidate is prepared only if it is valid (prepare_candidate).
LEMMA CandidateIsValid ==
  ASSUME NEW g, NEW edits, Evolving!PrepareCandidate(g, edits) # Evolving!NoGraph
  PROVE  Valid(Evolving!PrepareCandidate(g, edits))
BY DEF Evolving!PrepareCandidate, Valid

\* A round begins and comes to a candidate, or to nothing.
LEMMA ProposeKeeps ==
  ASSUME EvolutionBounds, EvolutionInv, Evolving!Propose
  PROVE  EvolutionInv'
<1>1. /\ pc = "round" /\ round < Rounds /\ round' = round + 1
      /\ UNCHANGED <<retained, graphs, baseline, rounds, rejected, current>>
  BY DEF Evolving!Propose, Evolving!files
<1>2. OnRecord'
  BY <1>1 DEF OnRecord, EvolutionInv, EvolutionTypes
<1>3. PICK g : /\ candidate' = [graph |-> g, score |-> Evolving!Unscored]
               /\ verdict' = "none" => Valid(g)
               /\ verdict' \in {"none", "training_error", "refiner_error", "proposal_error"}
  <2>1. CASE /\ verdict' \in {"training_error", "refiner_error"}
             /\ candidate' = [graph |-> Evolving!NoGraph, score |-> Evolving!Unscored]
    BY <2>1
  <2>2. ASSUME NEW edits \in Evolving!Edits,
               candidate' = [graph |-> Evolving!PrepareCandidate(retained.graph, edits), score |-> Evolving!Unscored],
               verdict' = IF candidate'.graph = Evolving!NoGraph THEN "proposal_error" ELSE "none"
        PROVE  \E g : /\ candidate' = [graph |-> g, score |-> Evolving!Unscored]
                      /\ verdict' = "none" => Valid(g)
                      /\ verdict' \in {"none", "training_error", "refiner_error", "proposal_error"}
    <3>1. candidate'.graph = Evolving!PrepareCandidate(retained.graph, edits)
      BY <2>2
    <3> QED
      BY <2>2, <3>1, CandidateIsValid
  <2> QED
    BY <2>1, <2>2 DEF Evolving!Propose
<1>4. pc' = IF verdict' = "none" THEN "save candidate" ELSE "record"
  BY DEF Evolving!Propose, Evolving!Then
<1>5. /\ candidate' = [graph |-> candidate'.graph, score |-> candidate'.score] /\ candidate'.graph = g
      /\ candidate'.score = Evolving!Unscored /\ Evolving!Unscored \in 0..Evolving!Unscored
  BY <1>3 DEF Evolving!Unscored, EvolutionBounds
<1>6. Len(rounds) = round /\ round \in Nat /\ Len(rounds) = round' - 1 /\ round' \in 0..Rounds
  BY <1>1 DEF EvolutionInv, RoundOK, EvolutionTypes, EvolutionBounds
<1>7. EvolutionTypes'
  BY <1>1, <1>2, <1>4, <1>5, <1>6 DEF EvolutionInv, EvolutionTypes, Scored, Proposed, Written
<1>8. BeginsOK'
  BY <1>4 DEF BeginsOK, Beginning, FirstOf
<1>9. RoundOK'
  BY <1>1, <1>3, <1>4, <1>5, <1>6 DEF EvolutionInv, RoundOK, FirstOf, Beginning
<1>10. GraphsValid'
  BY <1>1 DEF EvolutionInv, GraphsValid, Valid
<1>11. Evolving!RetainedIsRecorded'
  <2>1. \A r \in 1..Len(rounds) : rounds[r].verdict = "accepted" => r <= current.round
    BY <1>1 DEF EvolutionInv, RoundOK
  <2> QED
    BY <1>1, <1>4, <2>1 DEF EvolutionInv, Evolving!RetainedIsRecorded
<1> QED
  BY <1>7, <1>8, <1>9, <1>10, <1>11 DEF EvolutionInv

\* The candidate is written, and then scored.
LEMMA CandidateKeeps ==
  ASSUME EvolutionBounds, EvolutionInv, Evolving!SaveCandidate \/ Evolving!Validate
  PROVE  EvolutionInv'
<1>1. UNCHANGED <<round, retained, baseline, rounds, rejected, current>> /\ pc' # "returned"
  BY DEF Evolving!SaveCandidate, Evolving!SaveGraph, Evolving!Validate, Evolving!files, Evolving!Then
<1>2. OnRecord'
  BY <1>1 DEF OnRecord, EvolutionInv, EvolutionTypes
<1>3. CASE Evolving!SaveCandidate
  <2>1. /\ pc = "save candidate" /\ pc' = "validate" /\ graphs' = graphs \cup {candidate.graph}
        /\ UNCHANGED <<candidate, verdict>>
    BY <1>3 DEF Evolving!SaveCandidate, Evolving!SaveGraph, Evolving!Then
  <2>2. EvolutionTypes'
    BY <1>1, <1>2, <2>1 DEF EvolutionInv, EvolutionTypes, Scored, Proposed, Written
  <2>3. BeginsOK'
    BY <2>1 DEF BeginsOK, Beginning, FirstOf
  <2>4. RoundOK'
    BY <1>1, <2>1 DEF EvolutionInv, RoundOK, FirstOf, Beginning, Valid
  <2>5. GraphsValid'
    BY <1>1, <2>1 DEF EvolutionInv, GraphsValid, RoundOK, Valid
  <2>6. Evolving!RetainedIsRecorded'
    BY <1>1, <2>1 DEF EvolutionInv, Evolving!RetainedIsRecorded
  <2> QED
    BY <2>2, <2>3, <2>4, <2>5, <2>6 DEF EvolutionInv
<1>4. CASE Evolving!Validate
  <2>1. pc = "validate" /\ pc' = "record" /\ UNCHANGED graphs
    BY <1>4 DEF Evolving!Validate, Evolving!Then, Evolving!files
  <2>2. /\ candidate' = [graph |-> candidate.graph, score |-> candidate'.score] /\ candidate'.graph = candidate.graph
        /\ candidate'.score \in 0..Evolving!Unscored
        /\ verdict' = "accepted" => candidate'.score \in Evolving!Scores /\ candidate'.score >= retained.score
    <3>1. candidate = [graph |-> candidate.graph, score |-> candidate.score] /\ candidate.score \in 0..Evolving!Unscored
      BY DEF EvolutionInv, EvolutionTypes, Proposed
    <3>2. CASE verdict' = "validation_error" /\ UNCHANGED candidate
      BY <3>1, <3>2
    <3>3. ASSUME NEW s \in Evolving!Scores, candidate' = [candidate EXCEPT !.score = s],
                 verdict' = IF Evolving!NotWorse(s) THEN "accepted" ELSE "validation_worse"
          PROVE  /\ candidate' = [graph |-> candidate.graph, score |-> s] /\ s \in 0..Evolving!Unscored
                 /\ verdict' = "accepted" => s >= retained.score
      <4>1. candidate' = [graph |-> candidate.graph, score |-> s]
        BY <3>1, <3>3
      <4> QED
        <5>1. s \in 0..Evolving!Unscored
          BY DEF Evolving!Scores, Evolving!Unscored, EvolutionBounds
        <5>2. verdict' = "accepted" => s >= retained.score
          BY <3>3 DEF Evolving!NotWorse
        <5> QED
          BY <4>1, <5>1, <5>2
    <3>4. \A s : candidate' = [graph |-> candidate.graph, score |-> s] => candidate'.score = s /\ candidate'.graph = candidate.graph
      OBVIOUS
    <3> QED
      BY <1>4, <3>2, <3>3, <3>4 DEF Evolving!Validate
  <2>3. EvolutionTypes'
    BY <1>1, <1>2, <2>1, <2>2 DEF EvolutionInv, EvolutionTypes, Scored, Proposed, Written
  <2>4. BeginsOK'
    BY <2>1 DEF BeginsOK, Beginning, FirstOf
  <2>5. RoundOK'
    BY <1>1, <2>1, <2>2 DEF EvolutionInv, RoundOK, FirstOf, Beginning
  <2>6. GraphsValid'
    BY <1>1, <2>1 DEF EvolutionInv, GraphsValid, Valid
  <2>7. Evolving!RetainedIsRecorded'
    BY <1>1, <2>1 DEF EvolutionInv, Evolving!RetainedIsRecorded
  <2> QED
    BY <2>3, <2>4, <2>5, <2>6, <2>7 DEF EvolutionInv
<1> QED
  BY <1>3, <1>4

\* The round is recorded before what follows from it.
LEMMA RecordKeeps ==
  ASSUME EvolutionBounds, EvolutionInv, Evolving!Record
  PROVE  EvolutionInv'
<1> DEFINE e == [verdict |-> verdict, graph |-> candidate.graph, score |-> candidate.score]
<1>1. /\ pc = "record" /\ rounds' = Append(rounds, e) /\ pc' = IF verdict = "accepted" THEN "accept" ELSE "reject"
      /\ UNCHANGED <<round, retained, candidate, verdict, graphs, baseline, rejected, current>>
  BY DEF Evolving!Record, Evolving!Then
<1>2. e.verdict = verdict
  OBVIOUS
<1>3. /\ OnRecord' /\ Len(rounds') = Len(rounds) + 1 /\ Len(rounds) \in Nat /\ rounds'[Len(rounds) + 1] = e
      /\ \A r \in 1..Len(rounds) : rounds'[r] = rounds[r]
  <2>1. \E S : rounds \in Seq(S)
    BY DEF EvolutionInv, EvolutionTypes, OnRecord
  <2> HIDE DEF e
  <2> QED
    BY <1>1, <2>1, RecordAdded, ZenonT(60) DEF OnRecord
<1>4. Len(rounds) = round - 1 /\ Len(rounds') = round /\ rounds'[round] = e /\ round \in 1..Rounds
      /\ \A r \in 1..Len(rounds) : r < round
  BY <1>1, <1>3 DEF EvolutionInv, RoundOK, EvolutionTypes, EvolutionBounds
<1> HIDE DEF e
<1>5. EvolutionTypes'
  <2>1. rejected \subseteq 1..round /\ current.round \in 0..round
    <3>1. rejected \subseteq 1..Len(rounds) /\ current.round \in 0..Len(rounds)
      BY DEF EvolutionInv, EvolutionTypes
    <3>2. round \in Nat
      BY <1>4, RoundIsANumber
    <3> QED
      BY <1>4, <3>1, <3>2
  <2>2. rejected' \subseteq 1..Len(rounds') /\ current'.round \in 0..Len(rounds') /\ Len(rounds') \in {round', round' - 1}
    BY <1>1, <1>4, <2>1
  <2>3. UNCHANGED <<round, retained, candidate, baseline, current>>
        /\ pc' \in {"accept", "reject"}
    BY <1>1
  <2> QED
    BY <1>3, <2>2, <2>3 DEF EvolutionInv, EvolutionTypes, Scored, Proposed, Written
<1>6. BeginsOK'
  BY <1>1 DEF BeginsOK, Beginning, FirstOf
<1>7. RoundOK'
  BY <1>1, <1>2, <1>4 DEF EvolutionInv, RoundOK, FirstOf, Beginning, e
<1>8. GraphsValid'
  BY <1>1 DEF EvolutionInv, GraphsValid, Valid
<1>9. Evolving!RetainedIsRecorded'
  <2>1. current.round > 0 => rounds'[current.round] = rounds[current.round]
    <3>1. current.round \in 0..Len(rounds)
      BY DEF EvolutionInv, EvolutionTypes
    <3> QED
      BY <1>3, <3>1
  <2>2. \A r \in 1..Len(rounds') : r < round => r \in 1..Len(rounds)
    BY <1>4
  <2>3. \A r \in rejected : rounds'[r] = rounds[r]
    BY <1>3 DEF EvolutionInv, EvolutionTypes
  <2>4. pc' # "returned"
    BY <1>1
  <2> QED
    BY <1>1, <1>3, <2>1, <2>2, <2>3, <2>4 DEF EvolutionInv, Evolving!RetainedIsRecorded
<1> QED
  BY <1>5, <1>6, <1>7, <1>8, <1>9 DEF EvolutionInv

\* An accepted candidate replaces the retained graph, a rejected one leaves it.
LEMMA AcceptKeeps ==
  ASSUME EvolutionBounds, EvolutionInv, Evolving!Accept
  PROVE  EvolutionInv'
<1>1. /\ pc = "accept" /\ pc' = "round" /\ retained' = candidate
      /\ current' = [graph |-> candidate.graph, score |-> candidate.score, round |-> round]
      /\ UNCHANGED <<round, candidate, verdict, graphs, baseline, rounds, rejected>>
  BY DEF Evolving!Accept, Evolving!Retain, Evolving!Then
<1>2. /\ current' = [graph |-> current'.graph, score |-> current'.score, round |-> current'.round]
      /\ current'.graph = candidate.graph /\ current'.score = candidate.score /\ current'.round = round
  BY <1>1
<1>3. OnRecord'
  BY <1>1 DEF OnRecord, EvolutionInv, EvolutionTypes
<1>4. /\ Len(rounds) = round /\ round \in Nat /\ baseline = "scored"
      /\ candidate.graph \in graphs /\ candidate.score \in 0..Evolving!Unscored /\ candidate.score # Evolving!Unscored
      /\ rounds[round] = [verdict |-> "accepted", graph |-> candidate.graph, score |-> candidate.score]
  <2>1. candidate.score \in Evolving!Scores => candidate.score \in 0..Evolving!Unscored /\ candidate.score # Evolving!Unscored
    BY DEF Evolving!Scores, Evolving!Unscored, EvolutionBounds
  <2> QED
    BY <1>1, <2>1 DEF EvolutionInv, RoundOK, EvolutionTypes, FirstOf, Beginning
<1>5. EvolutionTypes'
  <2>1. candidate = [graph |-> candidate.graph, score |-> candidate.score]
    BY DEF EvolutionInv, EvolutionTypes, Proposed
  <2> QED
    BY <1>1, <1>2, <1>3, <1>4, <2>1 DEF EvolutionInv, EvolutionTypes, Scored, Proposed, Written
<1>6. BeginsOK'
  BY <1>1 DEF BeginsOK, Beginning, FirstOf
<1>7. RoundOK'
  BY <1>1, <1>2, <1>4 DEF EvolutionInv, RoundOK, FirstOf, Beginning
<1>8. GraphsValid'
  BY <1>1, <1>4 DEF EvolutionInv, GraphsValid, Valid
<1>9. Evolving!RetainedIsRecorded'
  <2>1. \A r \in rejected : rounds[r].verdict # "accepted"
    BY DEF EvolutionInv, Evolving!RetainedIsRecorded
  <2> QED
    BY <1>1, <1>2, <1>4, <2>1 DEF Evolving!RetainedIsRecorded
<1> QED
  BY <1>5, <1>6, <1>7, <1>8, <1>9 DEF EvolutionInv

LEMMA RejectKeeps ==
  ASSUME EvolutionBounds, EvolutionInv, Evolving!Reject
  PROVE  EvolutionInv'
<1>1. /\ pc = "reject" /\ pc' = "round" /\ rejected' = rejected \cup {round}
      /\ UNCHANGED <<round, retained, candidate, verdict, graphs, baseline, rounds, current>>
  BY DEF Evolving!Reject, Evolving!Then
<1>2. OnRecord'
  BY <1>1 DEF OnRecord, EvolutionInv, EvolutionTypes
<1>3. Len(rounds) = round /\ rounds[round].verdict # "accepted"
  BY <1>1 DEF EvolutionInv, RoundOK
<1>4. round \in 1..Len(rounds)
  <2>1. round \in Nat
    BY RoundIsANumber
  <2>2. round # 0
    \* A round that is rejected has begun.
    BY <1>1 DEF EvolutionInv, RoundOK
  <2> QED
    BY <1>3, <2>1, <2>2
<1>5. EvolutionTypes'
  BY <1>1, <1>2, <1>4 DEF EvolutionInv, EvolutionTypes, Scored, Proposed, Written
<1>6. BeginsOK'
  BY <1>1 DEF BeginsOK, Beginning, FirstOf
<1>7. RoundOK'
  <2>1. \A r \in 1..Len(rounds) : rounds[r].verdict = "accepted" => r <= current.round
    <3>1. ASSUME NEW r \in 1..Len(rounds), rounds[r].verdict = "accepted"
          PROVE  r < round
      BY <1>3, <3>1, <1>4
    <3> QED
      BY <3>1 DEF EvolutionInv, Evolving!RetainedIsRecorded
  <2> QED
    BY <1>1, <1>3, <2>1 DEF EvolutionInv, RoundOK, FirstOf, Beginning
<1>8. GraphsValid'
  BY <1>1 DEF EvolutionInv, GraphsValid, Valid
<1>9. Evolving!RetainedIsRecorded'
  BY <1>1, <1>3 DEF EvolutionInv, Evolving!RetainedIsRecorded
<1> QED
  BY <1>5, <1>6, <1>7, <1>8, <1>9 DEF EvolutionInv

\* evolve() returns, or the process stops.
LEMMA EndsKeeps ==
  ASSUME EvolutionBounds, EvolutionInv, Evolving!Ends
  PROVE  EvolutionInv'
<1>1. /\ UNCHANGED <<round, retained, candidate, verdict, graphs, baseline, rounds, rejected, current>>
      /\ (pc' = "returned" /\ pc = "round") \/ pc' = "over"
  BY DEF Evolving!Ends, Evolving!files, Evolving!Then
<1>2. OnRecord'
  BY <1>1 DEF OnRecord, EvolutionInv, EvolutionTypes
<1>3. EvolutionTypes'
  BY <1>1, <1>2 DEF EvolutionInv, EvolutionTypes, Scored, Proposed, Written
<1>4. BeginsOK' /\ RoundOK'
  BY <1>1 DEF EvolutionInv, BeginsOK, RoundOK, Beginning, FirstOf
<1>5. GraphsValid'
  BY <1>1 DEF EvolutionInv, GraphsValid, Valid
<1>6. Evolving!RetainedIsRecorded'
  BY <1>1 DEF EvolutionInv, Evolving!RetainedIsRecorded, RoundOK, Beginning, FirstOf
<1> QED
  BY <1>3, <1>4, <1>5, <1>6 DEF EvolutionInv

LEMMA EvolutionInvariance == EvolutionBounds => (Evolving!Spec => []EvolutionInv)
<1> SUFFICES ASSUME EvolutionBounds
             PROVE  Evolving!Spec => []EvolutionInv
  OBVIOUS
<1>1. EvolutionInv /\ UNCHANGED Evolving!vars => EvolutionInv'
  <2> SUFFICES ASSUME EvolutionInv, UNCHANGED Evolving!vars
               PROVE  EvolutionInv'
    OBVIOUS
  <2>1. UNCHANGED <<pc, round, retained, candidate, verdict, graphs, baseline, rounds, rejected, current>>
    BY DEF Evolving!vars
  <2>2. EvolutionTypes'
    BY <2>1 DEF EvolutionInv, EvolutionTypes, OnRecord, Scored, Proposed, Written
  <2>3. BeginsOK' /\ RoundOK'
    BY <2>1 DEF EvolutionInv, BeginsOK, RoundOK, Valid
  <2>4. GraphsValid' /\ Evolving!RetainedIsRecorded'
    BY <2>1 DEF EvolutionInv, GraphsValid, Valid, Evolving!RetainedIsRecorded
  <2> QED
    BY <2>2, <2>3, <2>4 DEF EvolutionInv
<1>2. EvolutionInv /\ Evolving!Next => EvolutionInv'
  BY ClaimedKeeps, BaselineKeeps, ProposeKeeps, CandidateKeeps, RecordKeeps, AcceptKeeps, RejectKeeps, EndsKeeps
  DEF Evolving!Next
<1> QED
  BY <1>1, <1>2, EvolutionBegins, PTL DEF Evolving!Spec

\* The state of an evolution keeps its types.
THEOREM EvolutionTypesKept == EvolutionBounds => (Evolving!Spec => []Evolving!EvolutionTypeOK)
<1> SUFFICES ASSUME EvolutionBounds
             PROVE  Evolving!Spec => []Evolving!EvolutionTypeOK
  OBVIOUS
<1>1. EvolutionInv => Evolving!EvolutionTypeOK
  <2>1. ASSUME EvolutionInv PROVE rejected \subseteq 1..round
    <3>1. rejected \subseteq 1..Len(rounds) /\ Len(rounds) \in {round, round - 1} /\ round \in Nat
      BY <2>1, RoundIsANumber DEF EvolutionInv, EvolutionTypes
    <3> QED
      BY <3>1
  <2> QED
    BY <2>1 DEF EvolutionInv, EvolutionTypes, Evolving!EvolutionTypeOK
<1> QED
  BY <1>1, EvolutionInvariance, PTL

\* Wherever the process stops, retained.json leads to a graph that was written
\* and to the accepted record of its score, which only the newest round may be
\* ahead of, and no round is both accepted and rejected (procedural/evolution.py).
THEOREM RetainedOnRecord == EvolutionBounds => (Evolving!Spec => []Evolving!RetainedIsRecorded)
<1> SUFFICES ASSUME EvolutionBounds
             PROVE  Evolving!Spec => []Evolving!RetainedIsRecorded
  OBVIOUS
<1>1. EvolutionInv => Evolving!RetainedIsRecorded
  BY DEF EvolutionInv
<1> QED
  BY <1>1, EvolutionInvariance, PTL

\* The score that retained.json gives never gets worse (evolve).
THEOREM ScoreNeverWorse == EvolutionBounds => (Evolving!Spec => Evolving!NeverWorse)
<1> SUFFICES ASSUME EvolutionBounds
             PROVE  Evolving!Spec => Evolving!NeverWorse
  OBVIOUS
<1>1. EvolutionInv /\ [Evolving!Next]_Evolving!vars =>
        [current.score # Evolving!Unscored => current'.score >= current.score /\ current'.score # Evolving!Unscored]_current
  <2> SUFFICES ASSUME EvolutionInv, Evolving!Next, current' # current, current.score # Evolving!Unscored
               PROVE  current'.score >= current.score /\ current'.score # Evolving!Unscored
    BY DEF Evolving!vars
  <2>1. CASE Evolving!Accept
    <3>1. pc = "accept" /\ current'.score = candidate.score
      BY <2>1 DEF Evolving!Accept, Evolving!Retain
    <3>2. candidate.score >= retained.score /\ candidate.score \in Evolving!Scores /\ current.score = retained.score
      BY <3>1 DEF EvolutionInv, RoundOK, FirstOf, Beginning
    <3> QED
      BY <3>1, <3>2 DEF Evolving!Scores, Evolving!Unscored, EvolutionBounds
  <2>2. CASE Evolving!Claimed \/ Evolving!Baseline
    <3>1. pc \in FirstOf
      BY <2>2 DEF Evolving!Claimed, Evolving!Baseline, FirstOf, Beginning
    <3> QED
      BY <3>1 DEF EvolutionInv, BeginsOK
  <2>3. CASE Evolving!Propose \/ Evolving!SaveCandidate \/ Evolving!Validate \/ Evolving!Record \/ Evolving!Reject \/ Evolving!Ends
    BY <2>3 DEF Evolving!Propose, Evolving!SaveCandidate, Evolving!SaveGraph, Evolving!Validate, Evolving!Record,
                Evolving!Reject, Evolving!Ends, Evolving!files
  <2> QED
    BY <2>1, <2>2, <2>3 DEF Evolving!Next
<1> QED
  BY <1>1, EvolutionInvariance, PTL DEF Evolving!Spec, Evolving!NeverWorse

-----------------------------------------------------------------------------
(* What the searches of a graph compute.  Each is a function on the numbers   *)
(* of steps: there is one, and by its equation each step follows from the     *)
(* step before it.                                                            *)

\* A graph has finitely many nodes, and each of its edges is a pair.
WellFormed(g) ==
  /\ g = [nodes |-> g.nodes, edges |-> g.edges, acyclic |-> g.acyclic]
  /\ IsFiniteSet(Evolving!Nodes(g)) /\ \A e \in g.edges : e = <<e[1], e[2]>>

\* They go on for as many steps as there are nodes.
Size(g) == Evolving!Cardinality(Evolving!Nodes(g))
LEMMA SizeIsANumber ==
  ASSUME NEW g, IsFiniteSet(Evolving!Nodes(g))
  PROVE  Size(g) \in Nat
<1>1. Size(g) = Cardinality(Evolving!Nodes(g))
  BY DEF Size, Evolving!Cardinality, Cardinality
<1> QED
  BY <1>1, FS_CardinalityType

ReachedBy(g, S, f) ==
  f = [k \in S |-> IF k = 0 THEN {n \in Evolving!Nodes(g) : Evolving!Targets(g, n) = {}}
                   ELSE LET r == f[k - 1] IN r \cup {n \in Evolving!Nodes(g) : Evolving!Targets(g, n) \cap r # {}}]
LeftBy(g, S, f) ==
  f = [k \in S |-> IF k = 0 THEN Evolving!Nodes(g)
                   ELSE LET r == f[k - 1] IN {n \in r : \E m \in r : n \in Evolving!Targets(g, m)}]

\* There is such a search of any number of steps.
LEMMA ReachedExists ==
  ASSUME NEW g, NEW N \in Nat
  PROVE  \E f : ReachedBy(g, 0..N, f)
<1> DEFINE T == {n \in Nat : ~ \E f : ReachedBy(g, 0..n, f)}
<1> SUFFICES ASSUME T # {}
             PROVE  FALSE
  OBVIOUS
<1>1. PICK n \in T : \A m \in T : n <= m
  BY LeastExists
<1>2. n # 0
  <2> DEFINE f == [k \in 0..0 |-> {x \in Evolving!Nodes(g) : Evolving!Targets(g, x) = {}}]
  <2>1. ReachedBy(g, 0..0, f)
    BY DEF ReachedBy
  <2> QED
    BY <2>1
<1>3. PICK f : ReachedBy(g, 0..(n - 1), f)
  BY <1>1, <1>2
<1> DEFINE next == f[n - 1] \cup {x \in Evolving!Nodes(g) : Evolving!Targets(g, x) \cap f[n - 1] # {}}
           h == [k \in 0..n |-> IF k = n THEN next ELSE f[k]]
<1>4. \A k \in 0..n : h[k] = IF k = 0 THEN {x \in Evolving!Nodes(g) : Evolving!Targets(g, x) = {}}
                            ELSE LET r == h[k - 1] IN r \cup {x \in Evolving!Nodes(g) : Evolving!Targets(g, x) \cap r # {}}
  <2> SUFFICES ASSUME NEW k \in 0..n
               PROVE  h[k] = IF k = 0 THEN {x \in Evolving!Nodes(g) : Evolving!Targets(g, x) = {}}
                             ELSE LET r == h[k - 1] IN r \cup {x \in Evolving!Nodes(g) : Evolving!Targets(g, x) \cap r # {}}
    OBVIOUS
  <2>1. CASE k = n
    BY <1>2, <2>1
  <2>2. CASE k # n
    <3>1. k \in 0..(n - 1) /\ h[k] = f[k] /\ (k # 0 => h[k - 1] = f[k - 1])
      BY <2>2
    <3> QED
      BY <1>3, <3>1 DEF ReachedBy
  <2> QED
    BY <2>1, <2>2
<1>5. ReachedBy(g, 0..n, h)
  <2> HIDE DEF next
  <2> QED
    BY <1>4 DEF ReachedBy
<1> QED
  BY <1>5
LEMMA LeftExists ==
  ASSUME NEW g, NEW N \in Nat
  PROVE  \E f : LeftBy(g, 0..N, f)
<1> DEFINE T == {n \in Nat : ~ \E f : LeftBy(g, 0..n, f)}
<1> SUFFICES ASSUME T # {}
             PROVE  FALSE
  OBVIOUS
<1>1. PICK n \in T : \A m \in T : n <= m
  BY LeastExists
<1>2. n # 0
  <2> DEFINE f == [k \in 0..0 |-> Evolving!Nodes(g)]
  <2>1. LeftBy(g, 0..0, f)
    BY DEF LeftBy
  <2> QED
    BY <2>1
<1>3. PICK f : LeftBy(g, 0..(n - 1), f)
  BY <1>1, <1>2
<1> DEFINE next == {x \in f[n - 1] : \E m \in f[n - 1] : x \in Evolving!Targets(g, m)}
           h == [k \in 0..n |-> IF k = n THEN next ELSE f[k]]
<1>4. \A k \in 0..n : h[k] = IF k = 0 THEN Evolving!Nodes(g)
                            ELSE LET r == h[k - 1] IN {x \in r : \E m \in r : x \in Evolving!Targets(g, m)}
  <2> SUFFICES ASSUME NEW k \in 0..n
               PROVE  h[k] = IF k = 0 THEN Evolving!Nodes(g)
                             ELSE LET r == h[k - 1] IN {x \in r : \E m \in r : x \in Evolving!Targets(g, m)}
    OBVIOUS
  <2>1. CASE k = n
    BY <1>2, <2>1
  <2>2. CASE k # n
    <3>1. k \in 0..(n - 1) /\ h[k] = f[k] /\ (k # 0 => h[k - 1] = f[k - 1])
      BY <2>2
    <3> QED
      BY <1>3, <3>1 DEF LeftBy
  <2> QED
    BY <2>1, <2>2
<1>5. LeftBy(g, 0..n, h)
  <2> HIDE DEF next
  <2> QED
    BY <1>4 DEF LeftBy
<1> QED
  BY <1>5

\* The nodes ReachTerminal returns have a path to a terminal: a node is added
\* when there is an edge from it to one that has such a path.
LEMMA TerminalIsReached ==
  ASSUME NEW g, WellFormed(g), NEW a \in Evolving!ReachTerminal(g)
  PROVE  \E b \in Evolving!Nodes(g), n \in 0..Size(g) :
           Evolving!Path(g, a, b, n) /\ \A m \in Evolving!Nodes(g) : ~Evolving!Path(g, b, m, 1)
<1> DEFINE N == Size(g)
           EndsIn(x, k) == \E b \in Evolving!Nodes(g), n \in 0..k :
                           Evolving!Path(g, x, b, n) /\ Evolving!Targets(g, b) = {}
<1>1. N \in Nat
  BY SizeIsANumber DEF WellFormed
<1> DEFINE f == CHOOSE f : ReachedBy(g, 0..N, f)
<1>2. ReachedBy(g, 0..N, f)
  BY <1>1, ReachedExists
<1>3. Evolving!ReachTerminal(g) = f[N]
  BY DEF Evolving!ReachTerminal, ReachedBy, Size
<1> HIDE DEF f, N
<1>4. /\ f[0] = {n \in Evolving!Nodes(g) : Evolving!Targets(g, n) = {}}
      /\ \A k \in 1..N : f[k] = f[k - 1] \cup {n \in Evolving!Nodes(g) : Evolving!Targets(g, n) \cap f[k - 1] # {}}
  <2>1. \A k \in 0..N : f[k] = IF k = 0 THEN {n \in Evolving!Nodes(g) : Evolving!Targets(g, n) = {}}
                            ELSE f[k - 1] \cup {n \in Evolving!Nodes(g) : Evolving!Targets(g, n) \cap f[k - 1] # {}}
    BY <1>2 DEF ReachedBy
  <2>2. 0 \in 0..N /\ \A k \in 1..N : k \in 0..N /\ k # 0
    BY <1>1
  <2> QED
    BY <2>1, <2>2
<1>5. ASSUME NEW k \in 0..N, NEW x \in f[k], \A j \in 0..N : j < k => \A y \in f[j] : EndsIn(y, j)
      PROVE  EndsIn(x, k)
  <2>1. CASE k = 0
    <3> DEFINE p == [i \in 0..0 |-> x]
    <3>1. x \in Evolving!Nodes(g) /\ Evolving!Targets(g, x) = {}
      BY <1>4, <2>1
    <3>2. p \in [0..0 -> Evolving!Nodes(g)] /\ p[0] = x /\ \A i \in 1..0 : <<p[i - 1], p[i]>> \in g.edges
      BY <3>1
    <3>3. Evolving!Path(g, x, x, 0)
      BY <3>2 DEF Evolving!Path
    <3> QED
      BY <2>1, <3>1, <3>3
  <2>2. CASE k # 0 /\ x \in f[k - 1]
    <3>1. k - 1 \in 0..N /\ k - 1 < k
      BY <1>1, <2>2
    <3>2. EndsIn(x, k - 1)
      BY <1>5, <2>2, <3>1
    <3>3. 0..(k - 1) \subseteq 0..k
      BY <3>1
    <3> QED
      BY <3>2, <3>3
  <2>3. CASE k # 0 /\ x \notin f[k - 1]
    <3>1. k - 1 \in 0..N /\ k - 1 < k /\ k \in 1..N
      BY <1>1, <2>3
    <3>2. x \in Evolving!Nodes(g) /\ Evolving!Targets(g, x) \cap f[k - 1] # {}
      BY <1>4, <2>3, <3>1
    <3>3. PICK y \in f[k - 1] : <<x, y>> \in g.edges
      <4>1. PICK y \in f[k - 1] : y \in Evolving!Targets(g, x)
        BY <3>2
      <4>2. PICK e \in g.edges : e[1] = x /\ e[2] = y
        BY <4>1 DEF Evolving!Targets
      <4>3. e = <<x, y>>
        BY <4>2 DEF WellFormed
      <4> QED
        BY <4>1, <4>2, <4>3
    <3>4. PICK b \in Evolving!Nodes(g), n \in 0..(k - 1) :
            Evolving!Path(g, y, b, n) /\ Evolving!Targets(g, b) = {}
      BY <1>5, <3>1
    <3>5. PICK p \in [0..n -> Evolving!Nodes(g)] :
            p[0] = y /\ p[n] = b /\ \A i \in 1..n : <<p[i - 1], p[i]>> \in g.edges
      BY <3>4 DEF Evolving!Path
    <3> DEFINE q == [i \in 0..(n + 1) |-> IF i = 0 THEN x ELSE p[i - 1]]
    <3>6. q \in [0..(n + 1) -> Evolving!Nodes(g)] /\ q[0] = x /\ q[n + 1] = b
      BY <3>2, <3>5
    <3>7. ASSUME NEW i \in 1..(n + 1) PROVE <<q[i - 1], q[i]>> \in g.edges
      <4>1. CASE i = 1
        BY <3>3, <3>5, <4>1
      <4>2. CASE i # 1
        BY <3>5, <4>2
      <4> QED
        BY <4>1, <4>2
    <3>8. Evolving!Path(g, x, b, n + 1)
      <4> HIDE DEF q
      <4> QED
        BY <3>6, <3>7 DEF Evolving!Path
    <3>9. n + 1 \in 0..k
      BY <3>1
    <3> QED
      BY <3>4, <3>8, <3>9
  <2> QED
    BY <2>1, <2>2, <2>3
<1>6. \A k \in 0..N : \A x \in f[k] : EndsIn(x, k)
  <2> DEFINE T == {k \in 0..N : ~ \A x \in f[k] : EndsIn(x, k)}
  <2> HIDE DEF EndsIn
  <2> SUFFICES ASSUME T # {}
               PROVE  FALSE
    OBVIOUS
  <2>1. T \subseteq Nat
    BY <1>1
  <2>2. PICK k \in T : \A j \in T : k <= j
    BY <2>1, LeastExists
  <2>3. \A j \in 0..N : j < k => j \notin T
    BY <2>1, <2>2
  <2> QED
    BY <1>5, <2>2, <2>3
<1>7. PICK b \in Evolving!Nodes(g), n \in 0..N : Evolving!Path(g, a, b, n) /\ Evolving!Targets(g, b) = {}
  <2>1. N \in 0..N /\ a \in f[N]
    BY <1>1, <1>3
  <2>2. EndsIn(a, N)
    BY <1>6, <2>1
  <2> QED
    BY <2>2
<1>8. ASSUME NEW m \in Evolving!Nodes(g) PROVE ~Evolving!Path(g, b, m, 1)
  <2>1. <<b, m>> \in g.edges => <<b, m>>[2] \in Evolving!Targets(g, b)
    BY DEF Evolving!Targets
  <2>2. Evolving!Path(g, b, m, 1) => <<b, m>> \in g.edges
    BY DEF Evolving!Path
  <2> QED
    BY <1>7, <2>1, <2>2
<1> QED
  BY <1>7, <1>8 DEF N

\* What lies on a cycle is never taken away.
LEMMA CyclesAreLeft ==
  ASSUME NEW g, WellFormed(g), NEW a, NEW n \in Nat, n # 0, Evolving!Path(g, a, a, n)
  PROVE  a \in Evolving!Unsorted(g)
<1> DEFINE N == Size(g)
<1>1. N \in Nat
  BY SizeIsANumber DEF WellFormed
<1> DEFINE f == CHOOSE f : LeftBy(g, 0..N, f)
<1>2. LeftBy(g, 0..N, f)
  BY <1>1, LeftExists
<1>3. Evolving!Unsorted(g) = f[N]
  BY DEF Evolving!Unsorted, LeftBy, Size
<1> HIDE DEF f, N
<1>4. /\ f[0] = Evolving!Nodes(g)
      /\ \A k \in 1..N : f[k] = {x \in f[k - 1] : \E m \in f[k - 1] : x \in Evolving!Targets(g, m)}
  BY <1>1, <1>2 DEF LeftBy
<1>5. PICK p \in [0..n -> Evolving!Nodes(g)] :
        p[0] = a /\ p[n] = a /\ \A i \in 1..n : <<p[i - 1], p[i]>> \in g.edges
  BY DEF Evolving!Path
<1> DEFINE On(k) == \A i \in 0..n : p[i] \in f[k]
<1>6. ASSUME NEW k \in 1..N, On(k - 1) PROVE On(k)
  <2> SUFFICES ASSUME NEW i \in 0..n PROVE p[i] \in f[k]
    OBVIOUS
  <2>1. PICK j \in 0..n : <<p[j], p[i]>> \in g.edges
    <3>1. CASE i = 0
      <4>1. n - 1 \in 0..n /\ n \in 1..n
        OBVIOUS
      <4>2. <<p[n - 1], p[n]>> \in g.edges /\ p[n] = p[i]
        BY <1>5, <3>1, <4>1
      <4> QED
        BY <4>1, <4>2
    <3>2. CASE i # 0
      <4>1. i - 1 \in 0..n /\ i \in 1..n
        BY <3>2
      <4> QED
        BY <1>5, <4>1
    <3> QED
      BY <3>1, <3>2
  <2>2. p[i] \in Evolving!Targets(g, p[j])
    <3>1. <<p[j], p[i]>>[1] = p[j] /\ <<p[j], p[i]>>[2] = p[i]
      OBVIOUS
    <3> QED
      BY <2>1, <3>1 DEF Evolving!Targets
  <2> QED
    BY <1>4, <1>6, <2>2
<1>7. On(N)
  <2> DEFINE T == {k \in 0..N : ~On(k)}
  <2>1. On(0)
    BY <1>4, <1>5
  <2> HIDE DEF On
  <2> SUFFICES ASSUME T # {}
               PROVE  FALSE
    BY <1>1
  <2>2. T \subseteq Nat
    BY <1>1
  <2>3. PICK k \in T : \A j \in T : k <= j
    BY <2>2, LeastExists
  <2>4. k # 0
    BY <2>1
  <2>5. k \in 1..N /\ k - 1 \in 0..N /\ k - 1 \notin T
    BY <1>1, <2>3, <2>4
  <2> QED
    BY <1>6, <2>3, <2>5
<1> QED
  BY <1>3, <1>5, <1>7
\* The edits of a proposal are finitely many.
EditsBy(S, f) == f = [n \in S |-> IF n = 0 THEN {{}} ELSE Evolving!OneMore(f[n - 1])]
LEMMA EditsExist ==
  ASSUME NEW N \in Nat
  PROVE  \E f : EditsBy(0..N, f)
<1> DEFINE T == {n \in Nat : ~ \E f : EditsBy(0..n, f)}
<1> SUFFICES ASSUME T # {}
             PROVE  FALSE
  OBVIOUS
<1>1. PICK n \in T : \A m \in T : n <= m
  BY LeastExists
<1>2. n # 0
  <2> DEFINE f == [k \in 0..0 |-> {{}}]
  <2>1. EditsBy(0..0, f)
    BY DEF EditsBy
  <2> QED
    BY <2>1
<1>3. PICK f : EditsBy(0..(n - 1), f)
  BY <1>1, <1>2
<1> DEFINE next == Evolving!OneMore(f[n - 1])
           h == [k \in 0..n |-> IF k = n THEN next ELSE f[k]]
<1>4. \A k \in 0..n : h[k] = IF k = 0 THEN {{}} ELSE Evolving!OneMore(h[k - 1])
  <2> SUFFICES ASSUME NEW k \in 0..n
               PROVE  h[k] = IF k = 0 THEN {{}} ELSE Evolving!OneMore(h[k - 1])
    OBVIOUS
  <2>1. CASE k = n
    <3>1. h[k] = next /\ h[k - 1] = f[n - 1]
      BY <1>2, <2>1
    <3> QED
      BY <1>2, <2>1, <3>1
  <2>2. CASE k # n
    <3>1. k \in 0..(n - 1) /\ h[k] = f[k] /\ (k # 0 => h[k - 1] = f[k - 1])
      BY <2>2
    <3>2. f[k] = IF k = 0 THEN {{}} ELSE Evolving!OneMore(f[k - 1])
      BY <1>3, <3>1 DEF EditsBy
    <3> QED
      BY <3>1, <3>2
  <2> QED
    BY <2>1, <2>2
<1>5. EditsBy(0..n, h)
  <2> HIDE DEF next
  <2> QED
    BY <1>4 DEF EditsBy
<1> QED
  BY <1>5

LEMMA EditsAreFew ==
  ASSUME MaxEdits \in Nat, NEW edits \in Evolving!Edits
  PROVE  IsFiniteSet({e.node : e \in edits})
<1> DEFINE f == CHOOSE f : EditsBy(0..MaxEdits, f)
           Few(k) == \A some \in f[k] : IsFiniteSet({e.node : e \in some})
<1>1. edits \in f[MaxEdits]
  BY DEF Evolving!Edits, EditsBy
<1>2. EditsBy(0..MaxEdits, f)
  BY EditsExist
<1> HIDE DEF f
<1>3. ASSUME NEW k \in 0..MaxEdits, k # 0 => Few(k - 1) PROVE Few(k)
  <2> SUFFICES ASSUME NEW some \in f[k], some # {}
               PROVE  IsFiniteSet({e.node : e \in some})
    BY FS_EmptySet
  <2>1. f[k] = IF k = 0 THEN {{}} ELSE Evolving!OneMore(f[k - 1])
    BY <1>2 DEF EditsBy
  <2>2. k # 0
    BY <2>1
  <2>3. PICK s \in f[k - 1], e \in Evolving!Edit : some = s \cup {e}
    BY <2>1, <2>2 DEF Evolving!OneMore
  <2>4. {x.node : x \in some} = {x.node : x \in s} \cup {e.node}
    BY <2>3
  <2>5. IsFiniteSet({x.node : x \in s})
    BY <1>3, <2>2, <2>3
  <2> QED
    BY <2>4, <2>5, FS_AddElement
<1>4. Few(MaxEdits)
  <2> DEFINE T == {k \in 0..MaxEdits : ~Few(k)}
  <2> HIDE DEF Few
  <2> SUFFICES ASSUME T # {}
               PROVE  FALSE
    OBVIOUS
  <2>0. T \subseteq Nat
    OBVIOUS
  <2>1. PICK k \in T : \A j \in T : k <= j
    BY <2>0, LeastExists
  <2>2. k # 0 => k - 1 \in 0..MaxEdits /\ k - 1 \notin T
    BY <2>1
  <2> QED
    BY <1>3, <2>1, <2>2
<1> QED
  BY <1>1, <1>4

\* A candidate is a graph of finitely many nodes again.
LEMMA PreparedIsWellFormed ==
  ASSUME MaxEdits \in Nat, NEW g, WellFormed(g), NEW edits \in Evolving!Edits
  PROVE  WellFormed(Evolving!PrepareCandidate(g, edits))
<1> DEFINE deleted == {e.node : e \in Evolving!The(edits, "delete node")}
           kept == Evolving!Nodes(g) \ deleted
           added == Evolving!The(edits, "add node")
           left == {e \in g.edges \ Evolving!Pairs(Evolving!The(edits, "delete edge")) : {e[1], e[2]} \cap deleted = {}}
           links == Evolving!Pairs(Evolving!The(edits, "add edge"))
           bound == [n \in kept \cup {e.node : e \in added} |->
                       IF n \in kept THEN g.nodes[n] ELSE (CHOOSE e \in added : e.node = n).with]
           prepared == [g EXCEPT !.nodes = bound, !.edges = left \cup links]
<1>1. WellFormed(Evolving!NoGraph)
  <2>1. Evolving!Nodes(Evolving!NoGraph) = {}
    BY DEF Evolving!Nodes, Evolving!NoGraph
  <2> QED
    BY <2>1, FS_EmptySet DEF WellFormed, Evolving!NoGraph
<1>2. Evolving!PrepareCandidate(g, edits) \in {prepared, Evolving!NoGraph}
  BY DEF Evolving!PrepareCandidate
<1>3. IsFiniteSet(kept \cup {e.node : e \in added})
  <2>1. {e.node : e \in added} \subseteq {e.node : e \in edits}
    BY DEF Evolving!The
  <2>2. IsFiniteSet({e.node : e \in added})
    BY <2>1, EditsAreFew, FS_Subset
  <2>3. IsFiniteSet(kept)
    BY FS_Subset DEF WellFormed
  <2> QED
    BY <2>2, <2>3, FS_Union
<1>4. \A e \in left \cup links : e = <<e[1], e[2]>>
  <2>1. \A e \in left : e = <<e[1], e[2]>>
    BY DEF WellFormed
  <2>2. ASSUME NEW e \in links PROVE e = <<e[1], e[2]>>
    <3>1. PICK x \in Evolving!The(edits, "add edge") : e = <<x.node, x.with>>
      BY DEF Evolving!Pairs
    <3> QED
      BY <3>1
  <2> QED
    BY <2>1, <2>2
<1>5. WellFormed(prepared)
  <2>1. g = [nodes |-> g.nodes, edges |-> g.edges, acyclic |-> g.acyclic]
    BY DEF WellFormed
  <2> HIDE DEF bound, left, links
  <2>2. prepared = [nodes |-> bound, edges |-> left \cup links, acyclic |-> g.acyclic]
    <3>1. ASSUME NEW a, NEW b, NEW c
          PROVE  [[nodes |-> a, edges |-> b, acyclic |-> c] EXCEPT !.nodes = bound, !.edges = left \cup links]
                   = [nodes |-> bound, edges |-> left \cup links, acyclic |-> c]
      <4>1. [[nodes |-> a, edges |-> b, acyclic |-> c] EXCEPT !.nodes = bound] = [nodes |-> bound, edges |-> b, acyclic |-> c]
        OBVIOUS
      <4>2. [[nodes |-> bound, edges |-> b, acyclic |-> c] EXCEPT !.edges = left \cup links]
              = [nodes |-> bound, edges |-> left \cup links, acyclic |-> c]
        OBVIOUS
      <4> QED
        BY <4>1, <4>2
    <3> QED
      BY <2>1, <3>1, ZenonT(60)
  <2>3. prepared.nodes = bound /\ prepared.edges = left \cup links /\ prepared.acyclic = g.acyclic
    BY <2>2
  <2>4. DOMAIN bound = kept \cup {e.node : e \in added}
    BY DEF bound
  <2> HIDE DEF prepared
  <2> QED
    BY <1>3, <1>4, <2>2, <2>3, <2>4 DEF WellFormed, Evolving!Nodes
<1> QED
  BY <1>1, <1>2, <1>5
\* The graphs that are kept, retained or proposed are well formed.
FinitelyMade == MaxEdits \in Nat /\ \A g \in InitialGraphs : WellFormed(g)
GraphsFormed == WellFormed(retained.graph) /\ WellFormed(candidate.graph) /\ \A g \in graphs : WellFormed(g)

LEMMA GraphsFormedInvariance == EvolutionBounds /\ FinitelyMade => (Evolving!Spec => []GraphsFormed)
<1> SUFFICES ASSUME EvolutionBounds, FinitelyMade
             PROVE  Evolving!Spec => []GraphsFormed
  OBVIOUS
<1>1. WellFormed(Evolving!NoGraph)
  <2>1. Evolving!Nodes(Evolving!NoGraph) = {}
    BY DEF Evolving!Nodes, Evolving!NoGraph
  <2> QED
    BY <2>1, FS_EmptySet DEF WellFormed, Evolving!NoGraph
<1>2. Evolving!Init => GraphsFormed
  BY <1>1 DEF Evolving!Init, GraphsFormed, FinitelyMade
<1>3. EvolutionInv /\ GraphsFormed /\ [Evolving!Next]_Evolving!vars => GraphsFormed'
  <2> SUFFICES ASSUME EvolutionInv, GraphsFormed, [Evolving!Next]_Evolving!vars
               PROVE  GraphsFormed'
    OBVIOUS
  <2> USE DEF Evolving!Then, Evolving!Retain, Evolving!SaveGraph, Evolving!files
  <2>1. CASE Evolving!Claimed
    BY <2>1 DEF Evolving!Claimed, GraphsFormed
  <2>2. CASE Evolving!Baseline
    <3>1. UNCHANGED <<candidate, graphs>> /\ (UNCHANGED retained \/ \E s \in Evolving!Scores : retained' = [retained EXCEPT !.score = s])
      BY <2>2 DEF Evolving!Baseline
    <3>2. retained = [graph |-> retained.graph, score |-> retained.score]
      BY DEF EvolutionInv, EvolutionTypes, Scored
    <3>3. retained'.graph = retained.graph
      BY <3>1, <3>2
    <3> QED
      BY <3>1, <3>3 DEF GraphsFormed
  <2>3. CASE Evolving!Propose
    <3>1. UNCHANGED <<retained, graphs>>
      BY <2>3 DEF Evolving!Propose
    <3>2. \/ candidate' = [graph |-> Evolving!NoGraph, score |-> Evolving!Unscored]
          \/ \E edits \in Evolving!Edits :
               candidate' = [graph |-> Evolving!PrepareCandidate(retained.graph, edits), score |-> Evolving!Unscored]
      BY <2>3, Zenon DEF Evolving!Propose
    <3>3. \/ candidate'.graph = Evolving!NoGraph
          \/ \E edits \in Evolving!Edits : candidate'.graph = Evolving!PrepareCandidate(retained.graph, edits)
      BY <3>2
    <3> QED
      BY <1>1, <3>1, <3>3, PreparedIsWellFormed DEF GraphsFormed, FinitelyMade
  <2>4. CASE Evolving!SaveCandidate
    BY <2>4 DEF Evolving!SaveCandidate, GraphsFormed
  <2>5. CASE Evolving!Validate
    <3>1. UNCHANGED <<retained, graphs>> /\ (UNCHANGED candidate \/ \E s \in Evolving!Scores : candidate' = [candidate EXCEPT !.score = s])
      BY <2>5 DEF Evolving!Validate
    <3>2. candidate = [graph |-> candidate.graph, score |-> candidate.score]
      BY DEF EvolutionInv, EvolutionTypes, Proposed
    <3>3. candidate'.graph = candidate.graph
      BY <3>1, <3>2
    <3> QED
      BY <3>1, <3>3 DEF GraphsFormed
  <2>6. CASE Evolving!Accept
    BY <2>6 DEF Evolving!Accept, GraphsFormed
  <2>7. CASE Evolving!Record \/ Evolving!Reject \/ Evolving!Ends \/ UNCHANGED Evolving!vars
    <3>1. UNCHANGED <<retained, candidate, graphs>>
      BY <2>7 DEF Evolving!Record, Evolving!Reject, Evolving!Ends, Evolving!vars
    <3> QED
      BY <3>1 DEF GraphsFormed
  <2> QED
    BY <2>1, <2>2, <2>3, <2>4, <2>5, <2>6, <2>7 DEF Evolving!Next
<1> QED
  BY <1>2, <1>3, EvolutionInvariance, PTL DEF Evolving!Spec

\* Whatever the refiner proposes, each node of a graph that is kept has a way to
\* a terminal, nothing is on a cycle where none is allowed, and no tool is bound
\* that is not there (procedural/graph.py, validate_graph and check_tools).
THEOREM GraphsSound == EvolutionBounds /\ FinitelyMade => (Evolving!Spec => []Evolving!GraphsAreSound)
<1> SUFFICES ASSUME EvolutionBounds, FinitelyMade
             PROVE  Evolving!Spec => []Evolving!GraphsAreSound
  OBVIOUS
<1>1. EvolutionInv /\ GraphsFormed => Evolving!GraphsAreSound
  <2> SUFFICES ASSUME NEW g \in graphs, WellFormed(g), Valid(g)
               PROVE  /\ \A a \in Evolving!Nodes(g) :
                           \E b \in Evolving!Nodes(g), n \in 0..Size(g) :
                             Evolving!Path(g, a, b, n) /\ \A m \in Evolving!Nodes(g) : ~Evolving!Path(g, b, m, 1)
                      /\ g.acyclic => ~\E a \in Evolving!Nodes(g), n \in 1..Size(g) : Evolving!Path(g, a, a, n)
                      /\ {g.nodes[n] : n \in Evolving!Nodes(g)} \subseteq AvailableTools \cup {Evolving!NoTool}
    BY DEF EvolutionInv, GraphsValid, GraphsFormed, Evolving!GraphsAreSound, Size
  <2>1. ASSUME NEW a \in Evolving!Nodes(g)
        PROVE  \E b \in Evolving!Nodes(g), n \in 0..Size(g) :
                 Evolving!Path(g, a, b, n) /\ \A m \in Evolving!Nodes(g) : ~Evolving!Path(g, b, m, 1)
    <3>1. a \in Evolving!ReachTerminal(g)
      BY DEF Valid, Evolving!ValidGraph, Evolving!EachReachesTerminal
    <3> QED
      BY <3>1, TerminalIsReached
  <2>2. ASSUME g.acyclic, NEW a \in Evolving!Nodes(g), NEW n \in 1..Size(g), Evolving!Path(g, a, a, n)
        PROVE  FALSE
    <3>1. n \in Nat /\ n # 0
      BY SizeIsANumber DEF WellFormed
    <3>2. a \in Evolving!Unsorted(g)
      BY <2>2, <3>1, CyclesAreLeft
    <3> QED
      BY <2>2, <3>2 DEF Valid, Evolving!ValidGraph
  <2>3. {g.nodes[n] : n \in Evolving!Nodes(g)} \subseteq AvailableTools \cup {Evolving!NoTool}
    BY DEF Valid, Evolving!CheckTools, Evolving!Bound
  <2> QED
    BY <2>1, <2>2, <2>3
<1> QED
  BY <1>1, EvolutionInvariance, GraphsFormedInvariance, PTL

-----------------------------------------------------------------------------
(* The pipeline of a question.                                             *)

RetrievalBounds == Retries \in Nat /\ MaxSplit \in Nat /\ MaxFound \in Nat

\* What a retrieval saves.
Saved == [summary : BOOLEAN, cites : {"unset", "empty", "some"}, chunks : {"all", "cited", "none"}]
Found == {c \in Saved : c.chunks = "all"}
HasContent(c) == c.summary \/ c.chunks # "none"

\* What is kept of the contexts of a source, one after another.
KeptBy(a, cs, S, f) ==
  f = [n \in S |-> IF n = 0 THEN <<>> ELSE f[n - 1] \o Retrieving!Keep(a, cs[n])]

LEMMA KeptExists ==
  ASSUME NEW a, NEW cs, NEW N \in Nat
  PROVE  \E f : KeptBy(a, cs, 0..N, f)
<1> DEFINE T == {n \in Nat : ~ \E f : KeptBy(a, cs, 0..n, f)}
<1> SUFFICES ASSUME T # {}
             PROVE  FALSE
  OBVIOUS
<1>1. PICK n \in T : \A m \in T : n <= m
  BY LeastExists
<1>2. n # 0
  <2> DEFINE f == [k \in 0..0 |-> <<>>]
  <2>1. KeptBy(a, cs, 0..0, f)
    BY DEF KeptBy
  <2> QED
    BY <2>1
<1>3. PICK f : KeptBy(a, cs, 0..(n - 1), f)
  BY <1>1, <1>2
<1> DEFINE next == f[n - 1] \o Retrieving!Keep(a, cs[n])
           h == [k \in 0..n |-> IF k = n THEN next ELSE f[k]]
<1>4. \A k \in 0..n : h[k] = IF k = 0 THEN <<>> ELSE h[k - 1] \o Retrieving!Keep(a, cs[k])
  <2> SUFFICES ASSUME NEW k \in 0..n
               PROVE  h[k] = IF k = 0 THEN <<>> ELSE h[k - 1] \o Retrieving!Keep(a, cs[k])
    OBVIOUS
  <2>1. CASE k = n
    BY <1>2, <2>1
  <2>2. CASE k # n
    <3>1. k \in 0..(n - 1) /\ h[k] = f[k] /\ (k # 0 => h[k - 1] = f[k - 1])
      BY <2>2
    <3> QED
      BY <1>3, <3>1 DEF KeptBy
  <2> QED
    BY <2>1, <2>2
<1>5. KeptBy(a, cs, 0..n, h)
  <2> HIDE DEF next
  <2> QED
    BY <1>4 DEF KeptBy
<1> QED
  BY <1>5

\* A context that is kept has content, whatever was selected.
LEMMA KeepHasContent ==
  ASSUME NEW a, NEW c \in Found
  PROVE  /\ Retrieving!Keep(a, c) \in Seq(Saved)
         /\ \A i \in 1..Len(Retrieving!Keep(a, c)) : HasContent(Retrieving!Keep(a, c)[i])
<1> DEFINE kept == IF a \in Pruning THEN Retrieving!PruneToCitations(c) ELSE c
<1>1. c = [summary |-> c.summary, cites |-> c.cites, chunks |-> "all"]
      /\ c.summary \in BOOLEAN /\ c.cites \in {"unset", "empty", "some"}
  BY DEF Found, Saved
<1>2. Retrieving!Keep(a, c) = <<>> \/
      /\ Retrieving!Keep(a, c) = <<kept>>
      /\ c.cites # "unset" /\ ~(a \in Pruning /\ c.cites = "empty" /\ ~c.summary)
  BY DEF Retrieving!Keep
<1>3. CASE Retrieving!Keep(a, c) = <<>>
  BY <1>3
<1>4. CASE Retrieving!Keep(a, c) # <<>>
  <2>1. kept \in Saved /\ HasContent(kept)
    <3>1. CASE a \notin Pruning
      BY <1>1, <3>1 DEF HasContent, Found
    <3>2. CASE a \in Pruning /\ c.cites = "empty"
      <4>1. kept = [summary |-> c.summary, cites |-> c.cites, chunks |-> "none"]
        BY <1>1, <3>2 DEF Retrieving!PruneToCitations
      <4> QED
        BY <1>1, <1>2, <1>4, <3>2, <4>1 DEF HasContent, Saved
    <3>3. CASE a \in Pruning /\ c.cites = "some"
      <4>1. kept = [summary |-> c.summary, cites |-> c.cites, chunks |-> "cited"]
        BY <1>1, <3>3 DEF Retrieving!PruneToCitations
      <4> QED
        BY <1>1, <4>1 DEF HasContent, Saved
    <3> QED
      BY <1>1, <1>2, <1>4, <3>1, <3>2, <3>3
  <2>2. ASSUME NEW x, x \in Saved, HasContent(x)
        PROVE  <<x>> \in Seq(Saved) /\ \A i \in 1..Len(<<x>>) : HasContent(<<x>>[i])
    BY <2>2
  <2> QED
    BY <1>2, <1>4, <2>1, <2>2
<1> QED
  BY <1>3, <1>4

LEMMA KeepAllHasContent ==
  ASSUME NEW a, NEW cs \in Seq(Found)
  PROVE  /\ Retrieving!KeepAll(a, cs) \in Seq(Saved)
         /\ \A i \in 1..Len(Retrieving!KeepAll(a, cs)) : HasContent(Retrieving!KeepAll(a, cs)[i])
<1> DEFINE f == CHOOSE f : KeptBy(a, cs, 0..Len(cs), f)
           Kept(s) == s \in Seq(Saved) /\ \A i \in 1..Len(s) : HasContent(s[i])
<1>1. Retrieving!KeepAll(a, cs) = f[Len(cs)]
  BY DEF Retrieving!KeepAll, KeptBy
<1>2. Len(cs) \in Nat
  OBVIOUS
<1>3. KeptBy(a, cs, 0..Len(cs), f)
  BY <1>2, KeptExists
<1> HIDE DEF f
<1>4. ASSUME NEW k \in 0..Len(cs), k # 0 => Kept(f[k - 1]) PROVE Kept(f[k])
  <2>1. f[k] = IF k = 0 THEN <<>> ELSE f[k - 1] \o Retrieving!Keep(a, cs[k])
    BY <1>3 DEF KeptBy
  <2>2. CASE k = 0
    BY <2>1, <2>2
  <2>3. CASE k # 0
    <3>1. cs[k] \in Found
      BY <1>2, <2>3
    <3>2. Kept(Retrieving!Keep(a, cs[k])) /\ Kept(f[k - 1])
      BY <1>4, <2>3, <3>1, KeepHasContent
    <3>3. ASSUME NEW s, NEW t, Kept(s), Kept(t) PROVE Kept(s \o t)
      <4> HIDE DEF Saved, HasContent
      <4>1. s \o t \in Seq(Saved) /\ Len(s \o t) = Len(s) + Len(t)
            /\ \A i \in 1..(Len(s) + Len(t)) : (s \o t)[i] = IF i <= Len(s) THEN s[i] ELSE t[i - Len(s)]
        BY <3>3, ConcatProperties
      <4> QED
        BY <3>3, <4>1
    <3> QED
      BY <2>1, <2>3, <3>2, <3>3
  <2> QED
    BY <2>2, <2>3
<1>5. Kept(f[Len(cs)])
  <2> DEFINE T == {k \in 0..Len(cs) : ~Kept(f[k])}
  <2> HIDE DEF Kept
  <2> SUFFICES ASSUME T # {}
               PROVE  FALSE
    BY <1>2
  <2>1. T \subseteq Nat
    OBVIOUS
  <2>2. PICK k \in T : \A j \in T : k <= j
    BY <2>1, LeastExists
  <2>3. k # 0 => k - 1 \in 0..Len(cs) /\ k - 1 \notin T
    BY <1>2, <2>2
  <2> QED
    BY <1>4, <2>2, <2>3
<1> QED
  BY <1>1, <1>5
\* Fields of a context that change.
LEMMA PrunedIsSaved ==
  ASSUME NEW c \in Saved
  PROVE  Retrieving!PruneToCitations(c) \in Saved /\ Retrieving!PruneToCitations(c).summary = c.summary
<1>1. c = [summary |-> c.summary, cites |-> c.cites, chunks |-> c.chunks] /\ c.cites \in {"unset", "empty", "some"}
      /\ c.summary \in BOOLEAN
  BY DEF Saved
<1>2. Retrieving!PruneToCitations(c) \in
        {c, [summary |-> c.summary, cites |-> c.cites, chunks |-> "none"],
            [summary |-> c.summary, cites |-> c.cites, chunks |-> "cited"]}
  BY <1>1 DEF Retrieving!PruneToCitations
<1> QED
  BY <1>1, <1>2 DEF Saved

LEMMA SelectedIsFound ==
  ASSUME NEW c \in Found, NEW response \in Retrieving!Responses
  PROVE  Retrieving!Select(c, response) \in Found
<1>1. c = [summary |-> c.summary, cites |-> c.cites, chunks |-> "all"] /\ c.cites \in {"unset", "empty", "some"}
      /\ c.summary \in BOOLEAN
  BY DEF Found, Saved
<1>2. response.answer \in BOOLEAN /\ response.cited \in BOOLEAN
  BY DEF Retrieving!Responses
<1>3. ASSUME NEW s, NEW x PROVE [c EXCEPT !.summary = s, !.cites = x] = [summary |-> s, cites |-> x, chunks |-> "all"]
  <2>1. [c EXCEPT !.summary = s] = [summary |-> s, cites |-> c.cites, chunks |-> "all"]
    BY <1>1
  <2>2. [[summary |-> s, cites |-> c.cites, chunks |-> "all"] EXCEPT !.cites = x] = [summary |-> s, cites |-> x, chunks |-> "all"]
    OBVIOUS
  <2> QED
    BY <2>1, <2>2
<1>4. [c EXCEPT !.cites = "unset"] = [summary |-> c.summary, cites |-> "unset", chunks |-> "all"]
  BY <1>1
<1>5. \E s \in BOOLEAN, x \in {"unset", "some", "empty"} :
        Retrieving!Select(c, response) = [summary |-> s, cites |-> x, chunks |-> "all"]
  <2>1. CASE response.answer \/ response.cited \/ c.summary
    <3> DEFINE x == IF c.cites = "some" \/ response.cited THEN "some" ELSE "empty"
               s == c.summary \/ response.answer
    <3>1. Retrieving!Select(c, response) = [c EXCEPT !.summary = s, !.cites = x]
      BY <2>1 DEF Retrieving!Select
    <3>2. s \in BOOLEAN /\ x \in {"unset", "some", "empty"}
      OBVIOUS
    <3> HIDE DEF s, x
    <3>3. Retrieving!Select(c, response) = [summary |-> s, cites |-> x, chunks |-> "all"]
      BY <1>3, <3>1
    <3> QED
      BY <3>2, <3>3
  <2>2. CASE ~(response.answer \/ response.cited \/ c.summary)
    <3>1. Retrieving!Select(c, response) = [summary |-> c.summary, cites |-> "unset", chunks |-> "all"]
      BY <1>4, <2>2 DEF Retrieving!Select
    <3> QED
      BY <1>1, <3>1
  <2> QED
    BY <2>1, <2>2
<1> QED
  BY <1>5 DEF Found, Saved

\* A verdict of the model keeps a context's form.
LEMMA ValidatedIsSaved ==
  ASSUME NEW c \in Found, NEW v \in Retrieving!Validations(c)
  PROVE  v.context \in Saved /\ v.missing \in Nat
<1>1. c = [summary |-> c.summary, cites |-> c.cites, chunks |-> "all"] /\ c.cites \in {"unset", "empty", "some"}
      /\ c \in Saved
  BY DEF Found, Saved
<1>2. CASE v = [useful |-> FALSE, missing |-> 1, error |-> TRUE, context |-> c]
  BY <1>1, <1>2
<1>3. CASE v # [useful |-> FALSE, missing |-> 1, error |-> TRUE, context |-> c]
  <2> DEFINE judged(u, m, s, x) ==
        [useful |-> u, missing |-> m, error |-> FALSE, context |-> Retrieving!Validated(c, s, x)]
  <2>0. Retrieving!Validations(c) =
          {judged(u, m, s, x) : u \in BOOLEAN, m \in 0..1, s \in BOOLEAN, x \in {"absent", "empty", "some"}}
            \cup {[useful |-> FALSE, missing |-> 1, error |-> TRUE, context |-> c]}
    BY DEF Retrieving!Validations
  <2> HIDE DEF judged
  <2>1. PICK u \in BOOLEAN, m \in 0..1, s \in BOOLEAN, x \in {"absent", "empty", "some"} : v = judged(u, m, s, x)
    BY <1>3, <2>0
  <2> DEFINE y == IF x = "absent" THEN c.cites ELSE x
  <2>2. Retrieving!Validated(c, s, x) = [summary |-> s, cites |-> y, chunks |-> "all"]
    <3>1. [c EXCEPT !.summary = s] = [summary |-> s, cites |-> c.cites, chunks |-> "all"]
      BY <1>1
    <3>2. [[summary |-> s, cites |-> c.cites, chunks |-> "all"] EXCEPT !.cites = y] = [summary |-> s, cites |-> y, chunks |-> "all"]
      OBVIOUS
    <3>3. [[summary |-> s, cites |-> c.cites, chunks |-> "all"] EXCEPT !.cites = IF x = "absent" THEN @ ELSE x]
            = [[summary |-> s, cites |-> c.cites, chunks |-> "all"] EXCEPT !.cites = y]
      OBVIOUS
    <3> QED
      BY <3>1, <3>2, <3>3 DEF Retrieving!Validated
  <2>3. y \in {"unset", "empty", "some"}
    BY <1>1
  <2>4. v.context = [summary |-> s, cites |-> y, chunks |-> "all"] /\ v.missing = m
    BY <2>1, <2>2 DEF judged
  <2> HIDE DEF y
  <2> QED
    BY <2>3, <2>4 DEF Saved
<1> QED
  BY <1>2, <1>3

\* What a retrieval saves has its form, and content if it is a source's.
LEMMA RetrievedHasContent ==
  ASSUME MaxFound \in Nat, NEW a, NEW r \in Retrieving!Retrievals(a)
  PROVE  /\ r.saved \in Seq(Saved) /\ r.missing \in Nat
         /\ Kind[a] = "source" => \A i \in 1..Len(r.saved) : HasContent(r.saved[i])
<1> DEFINE RawFound == {Retrieving!Raw(s, c) : s \in BOOLEAN, c \in {"unset", "empty", "some"}}
<1>1. RawFound \subseteq Found
  BY DEF Found, Saved, Retrieving!Raw
<1>2. CASE Kind[a] = "source"
  <2>1. PICK cs \in Retrieving!SourceContexts : r \in Retrieving!SaveContextsAndReturnMissing(a, cs)
    BY <1>2 DEF Retrieving!Retrievals
  <2>2. PICK n \in 0..MaxFound : cs \in [1..n -> RawFound]
    BY DEF Retrieving!SourceContexts
  <2>3. cs \in Seq(Found) /\ DOMAIN cs = 1..Len(cs)
    BY <1>1, <2>2
  <2> HIDE DEF RawFound
  <2> DEFINE complete == cs # <<>> /\ \A i \in DOMAIN cs : cs[i].summary /\ cs[i].cites # "unset"
             selected(rs) == [i \in DOMAIN cs |-> Retrieving!Select(cs[i], rs[i])]
             useful(xs) == \E i \in DOMAIN xs : xs[i].cites # "unset"
  <2>4. CASE Retrieving!ShouldValidate(a) /\ ~complete
    <3> DEFINE kept(rs, m) ==
          [saved |-> IF useful(selected(rs)) THEN Retrieving!KeepAll(a, selected(rs)) ELSE <<>>, missing |-> m]
    <3>0. Retrieving!SaveContextsAndReturnMissing(a, cs) =
            {kept(rs, m) : rs \in [DOMAIN cs -> Retrieving!Responses], m \in 0..1}
               \cup {[saved |-> Retrieving!KeepAll(a, cs), missing |-> 1]}
      BY <2>4 DEF Retrieving!SaveContextsAndReturnMissing
    <3> HIDE DEF kept
    <3>1. \/ \E rs \in [DOMAIN cs -> Retrieving!Responses], m \in 0..1 : r = kept(rs, m)
          \/ r = [saved |-> Retrieving!KeepAll(a, cs), missing |-> 1]
      BY <2>1, <3>0
    <3>2. CASE r = [saved |-> Retrieving!KeepAll(a, cs), missing |-> 1]
      BY <2>3, <3>2, KeepAllHasContent
    <3>3. ASSUME NEW rs \in [DOMAIN cs -> Retrieving!Responses], NEW m \in 0..1,
                 r = kept(rs, m)
          PROVE  /\ r.saved \in Seq(Saved) /\ r.missing \in Nat
                 /\ \A i \in 1..Len(r.saved) : HasContent(r.saved[i])
      <4>1. selected(rs) \in Seq(Found)
        <5>1. \A i \in 1..Len(cs) : Retrieving!Select(cs[i], rs[i]) \in Found
          BY <2>3, SelectedIsFound
        <5> QED
          BY <2>3, <5>1
      <4> DEFINE xs == selected(rs)
      <4> HIDE DEF selected, useful, xs
      <4>2. r.saved = Retrieving!KeepAll(a, xs) \/ r.saved = <<>>
        BY <3>3 DEF xs, kept
      <4>3. r.missing = m
        BY <3>3 DEF kept
      <4>4. xs \in Seq(Found)
        BY <4>1 DEF xs
      <4>5. CASE r.saved = <<>>
        BY <4>3, <4>5
      <4>6. CASE r.saved = Retrieving!KeepAll(a, xs)
        BY <4>3, <4>4, <4>6, KeepAllHasContent
      <4> QED
        BY <4>2, <4>5, <4>6
    <3> QED
      BY <3>1, <3>2, <3>3
  <2>5. CASE ~(Retrieving!ShouldValidate(a) /\ ~complete)
    <3> DEFINE all == [i \in DOMAIN cs |-> IF a \in Pruning THEN Retrieving!PruneToCitations(cs[i]) ELSE cs[i]]
    <3>1. r = [saved |-> all, missing |-> 0]
      BY <2>1, <2>5 DEF Retrieving!SaveContextsAndReturnMissing
    <3>2. ASSUME NEW i \in 1..Len(cs) PROVE all[i] \in Saved /\ HasContent(all[i])
      <4>1. cs[i] \in Found
        BY <2>3
      <4>2. CASE a \notin Pruning
        BY <2>3, <4>1, <4>2 DEF HasContent, Found
      <4>3. CASE a \in Pruning
        <5>1. cs[i].summary
          BY <2>3, <2>5, <4>3 DEF Retrieving!ShouldValidate
        <5>2. all[i] = Retrieving!PruneToCitations(cs[i])
          BY <2>3, <4>3
        <5> QED
          BY <4>1, <5>1, <5>2, PrunedIsSaved DEF Found, HasContent
      <4> QED
        BY <4>2, <4>3
    <3>3. all \in [1..Len(cs) -> Saved] /\ Len(cs) \in Nat
      BY <2>3, <3>2
    <3> HIDE DEF all
    <3>4. all \in Seq(Saved) /\ Len(all) = Len(cs)
      BY <3>3
    <3> QED
      BY <3>1, <3>2, <3>4
  <2> QED
    BY <2>4, <2>5
<1>3. CASE Kind[a] # "source"
  <2>1. PICK c \in Retrieving!RawContext(Kind[a]) : r \in Retrieving!SaveCtxAndReturnMissing(a, c)
    BY <1>3 DEF Retrieving!Retrievals
  <2>2. c = Retrieving!Raw(FALSE, "unset") \/ c = Retrieving!Raw(TRUE, "unset")
    BY DEF Retrieving!RawContext, Retrieving!StaticContext, Retrieving!HttpContext, Retrieving!GoogleContext,
           Retrieving!PerplexityContext, Retrieving!PerplexitySearchContext
  <2>3. c \in Found
    <3>1. ASSUME NEW s \in BOOLEAN PROVE Retrieving!Raw(s, "unset") \in Found
      BY DEF Found, Saved, Retrieving!Raw
    <3> QED
      BY <2>2, <3>1
  <2>4. CASE ~Retrieving!ShouldValidate(a)
    <3>1. r = [saved |-> <<c>>, missing |-> 0]
      BY <2>1, <2>4 DEF Retrieving!SaveCtxAndReturnMissing
    <3>2. c \in Saved
      BY <2>3 DEF Found
    <3> QED
      BY <1>3, <3>1, <3>2
  <2>5. CASE Retrieving!ShouldValidate(a)
    <3>1. PICK v \in Retrieving!Validations(c) :
            r = [saved |-> IF v.useful \/ v.error
                             THEN <<IF a \in Pruning /\ ~v.error THEN Retrieving!PruneToCitations(v.context) ELSE v.context>>
                             ELSE <<>>,
                 missing |-> v.missing]
      BY <2>1, <2>5 DEF Retrieving!SaveCtxAndReturnMissing
    <3>2. v.context \in Saved /\ v.missing \in Nat
      BY <2>3, ValidatedIsSaved
    <3>3. Retrieving!PruneToCitations(v.context) \in Saved
      BY <3>2, PrunedIsSaved
    <3>4. r.missing = v.missing /\ (r.saved = <<>> \/ \E x \in Saved : r.saved = <<x>>)
      BY <3>1, <3>2, <3>3
    <3>5. <<>> \in Seq(Saved) /\ \A x \in Saved : <<x>> \in Seq(Saved)
      OBVIOUS
    <3> QED
      BY <1>3, <3>2, <3>4, <3>5
  <2> QED
    BY <2>4, <2>5
<1> QED
  BY <1>2, <1>3
\* The agents that are called for a question, each once: an agent's branches and
\* its fallback come before its next agent, as in the tree they are configured in.
\* They are not those of the generation, which are not of the preprocessing.
Chain(rank) == DOMAIN rank \ {NoAgent}
AgentsFormTree(rank) ==
  /\ rank \in [DOMAIN rank -> Nat] /\ NoAgent \in DOMAIN rank
  /\ Context \subseteq Chain(rank) /\ (Chain(rank) \cup Preprocess) \cap Generation = {}
  /\ \A a \in Chain(rank) :
       /\ Fallback[a] \in DOMAIN rank /\ NextAgent[a] \in DOMAIN rank
       /\ Kind[a] = "conditional" => \A b \in {ThenAgents[a], ElseAgents[a]} : b \in Seq(Chain(rank))
       /\ NextAgent[a] # NoAgent =>
            /\ rank[a] < rank[NextAgent[a]] /\ rank[Fallback[a]] < rank[NextAgent[a]]
            /\ Kind[a] = "conditional" => \A b \in {ThenAgents[a], ElseAgents[a]} :
                                            \A i \in 1..Len(b) : rank[b[i]] < rank[NextAgent[a]]

Frames(rank) ==
  [agent : Chain(rank), at : Retrieving!Ats, aware : BOOLEAN, extra : SUBSET Nat, missing : Nat,
   chosen : Seq(Chain(rank)), left : Nat]
\* A call has the contexts that agents before it found for its question.
FrameOK(rank, f, t, mem) ==
  /\ t \in Frames(rank)
  /\ t.missing > 0 => Fallback[t.agent] # NoAgent
  /\ t.left <= Len(t.chosen)
  /\ t.chosen # <<>> => Kind[t.agent] = "conditional" /\ t.chosen \in {ThenAgents[t.agent], ElseAgents[t.agent]}
  /\ t.at = "decide" => Kind[t.agent] = "conditional"
  /\ \A k \in t.extra :
       /\ k \in 1..Len(mem) /\ mem[k].flow = f
       /\ mem[k].agent \in DOMAIN rank /\ rank[mem[k].agent] < rank[t.agent]
StackOK(rank, f, s, mem) == s \in Seq(Frames(rank)) /\ \A i \in 1..Len(s) : FrameOK(rank, f, s[i], mem)
FlowsFit(rank, stacks, mem) ==
  /\ stacks = [f \in DOMAIN stacks |-> stacks[f]]
  /\ \A f \in DOMAIN stacks : StackOK(rank, f, stacks[f], mem)
StacksOK(rank) == FlowsFit(rank, flows, memory_contexts)

\* What is saved has its form, and a source's has content.
ContextOK(c) ==
  /\ c.cites \in {"unset", "empty", "some"} /\ c.chunks \in {"all", "cited", "none"} /\ c.summary \in BOOLEAN
  /\ Kind[c.agent] = "source" => HasContent(c)
SeenOK(s, n) == s.seen \in 0..n
MemoryOK ==
  /\ \E S : memory_contexts \in Seq(S)
  /\ \E S : answers \in Seq(S)
  /\ \A i \in 1..Len(memory_contexts) : ContextOK(memory_contexts[i])
  /\ \A i \in 1..Len(answers) : SeenOK(answers[i], Len(memory_contexts))
StageOK ==
  /\ stage \in Retrieving!Stages \cup {"context", "done", "failed"}
  /\ restart \in BOOLEAN /\ restarts \in 0..Retries /\ context_questions \in Nat
  /\ task \in [Retrieving!Staged -> {"idle", "running", "retrying", "ended"}]
  /\ final \in {Retrieving!NoAnswer, Retrieving!StageError} \cup (1..Len(answers))
  /\ Retrieving!ErrorStands
  /\ restart => restarts > 0

\* The first time, the generation has not begun before every flow has ended, and
\* after that no context is saved of a flow.
Answered(s) == s.by \in Generation => \A i \in 1..Len(memory_contexts) : memory_contexts[i].flow # <<>> => i <= s.seen
OnceThrough ==
  /\ restarts = 0 /\ stage \in {"preprocess", "context"} =>
       /\ \A i \in 1..Len(answers) : answers[i].by \notin Generation
       /\ \A a \in Generation : task[a] = "idle"
  /\ restarts = 0 /\ stage \in {"generation", "postprocess", "done"} =>
       /\ \A f \in DOMAIN flows : flows[f] = <<>>
       /\ \A i \in 1..Len(answers) : Answered(answers[i])
RetrievalInv(rank) == MemoryOK /\ StageOK /\ OnceThrough /\ StacksOK(rank)


\* Contexts are only added, at the end.
Grows(mem, more) == /\ Len(mem) \in Nat /\ Len(more) \in Nat /\ Len(mem) <= Len(more)
                    /\ \A k \in 1..Len(mem) : more[k] = mem[k]

LEMMA FrameStays ==
  ASSUME NEW rank, NEW f, NEW t, NEW mem, NEW more, FrameOK(rank, f, t, mem), Grows(mem, more)
  PROVE  FrameOK(rank, f, t, more)
<1>1. \A k \in t.extra : k \in 1..Len(mem) /\ k \in 1..Len(more) /\ more[k] = mem[k]
  BY DEF FrameOK, Grows
<1> QED
  BY <1>1 DEF FrameOK

LEMMA FlowsStay ==
  ASSUME NEW rank, NEW stacks, NEW mem, NEW more, FlowsFit(rank, stacks, mem), Grows(mem, more)
  PROVE  FlowsFit(rank, stacks, more)
BY FrameStays DEF FlowsFit, StackOK

\* A call is added to a stack, or the one at its top ends.
LEMMA StackAdds ==
  ASSUME NEW rank, NEW f, NEW s, NEW t, NEW mem, StackOK(rank, f, s, mem), FrameOK(rank, f, t, mem)
  PROVE  StackOK(rank, f, Append(s, t), mem)
<1>1. s \in Seq(Frames(rank)) /\ t \in Frames(rank)
  BY DEF StackOK, FrameOK
<1>2. /\ Append(s, t) \in Seq(Frames(rank)) /\ Len(Append(s, t)) = Len(s) + 1 /\ Len(s) \in Nat
      /\ Append(s, t)[Len(s) + 1] = t /\ \A i \in 1..Len(s) : Append(s, t)[i] = s[i]
  <2> HIDE DEF Frames
  <2> QED
    BY <1>1, AppendProperties, LenProperties
<1>3. ASSUME NEW i \in 1..Len(Append(s, t)) PROVE FrameOK(rank, f, Append(s, t)[i], mem)
  <2>1. i \in 1..Len(s) \/ i = Len(s) + 1
    BY <1>2
  <2> QED
    BY <1>2, <2>1 DEF StackOK
<1> QED
  BY <1>2, <1>3 DEF StackOK

LEMMA StackEnds ==
  ASSUME NEW rank, NEW f, NEW s, NEW mem, StackOK(rank, f, s, mem), s # <<>>
  PROVE  StackOK(rank, f, SubSeq(s, 1, Len(s) - 1), mem) /\ FrameOK(rank, f, s[Len(s)], mem)
<1>1. s \in Seq(Frames(rank))
  BY DEF StackOK
<1>2. Len(s) \in Nat /\ Len(s) # 0
  BY <1>1
<1>3. /\ SubSeq(s, 1, Len(s) - 1) \in Seq(Frames(rank)) /\ Len(SubSeq(s, 1, Len(s) - 1)) = Len(s) - 1
      /\ \A i \in 1..(Len(s) - 1) : SubSeq(s, 1, Len(s) - 1)[i] = s[i]
  <2> HIDE DEF Frames
  <2>1. \A i \in 1..(Len(s) - 1) : s[i] \in Frames(rank)
    BY <1>1, <1>2
  <2>2. 1 \in Int /\ Len(s) - 1 \in Int
    BY <1>2
  <2> DEFINE n == Len(s) - 1
             b == SubSeq(s, 1, n)
  <2>3. /\ b \in Seq(Frames(rank)) /\ Len(b) = IF 1 <= n THEN n - 1 + 1 ELSE 0
        /\ \A i \in 1..(n - 1 + 1) : b[i] = s[1 + i - 1]
    BY <2>1, <2>2, SubSeqProperties
  <2>4. n \in Nat
    BY <1>2
  <2> HIDE DEF b, n
  <2>5. Len(b) = n /\ \A i \in 1..n : b[i] = s[i]
    <3>1. n - 1 + 1 = n /\ \A i \in 1..n : 1 + i - 1 = i
      BY <2>4
    <3> QED
      BY <2>3, <2>4, <3>1
  <2> QED
    BY <2>3, <2>5 DEF b, n
<1> QED
  BY <1>2, <1>3 DEF StackOK

LEMMA FlowsMove ==
  ASSUME NEW rank, NEW stacks, NEW mem, NEW f \in DOMAIN stacks, NEW s, FlowsFit(rank, stacks, mem), StackOK(rank, f, s, mem)
  PROVE  FlowsFit(rank, [stacks EXCEPT ![f] = s], mem)
BY DEF FlowsFit
\* A call begins, with the contexts it is handed; its state changes.
LEMMA FrameBegins ==
  ASSUME NEW rank, NEW f, NEW mem, NEW a \in Chain(rank), NEW aware \in BOOLEAN, NEW extra \in SUBSET Nat,
         \A k \in extra : /\ k \in 1..Len(mem) /\ mem[k].flow = f
                          /\ mem[k].agent \in DOMAIN rank /\ rank[mem[k].agent] < rank[a]
  PROVE  FrameOK(rank, f, Retrieving!Frame(a, aware, extra), mem)
<1> DEFINE to == IF aware THEN "rephrase" ELSE IF Kind[a] = "conditional" THEN "decide" ELSE "retrieve"
<1>1. Retrieving!Frame(a, aware, extra) =
        [agent |-> a, at |-> to, aware |-> aware, extra |-> extra, missing |-> 0, chosen |-> <<>>, left |-> 0]
  BY DEF Retrieving!Frame
<1>2. to \in Retrieving!Ats /\ (to = "decide" => Kind[a] = "conditional")
  BY DEF Retrieving!Ats
<1> DEFINE t == [agent |-> a, at |-> to, aware |-> aware, extra |-> extra, missing |-> 0, chosen |-> <<>>, left |-> 0]
<1> HIDE DEF to
<1>3. t \in Frames(rank)
  <2>1. <<>> \in Seq(Chain(rank))
    OBVIOUS
  <2> QED
    BY <1>2, <2>1 DEF Frames
<1>4. t.agent = a /\ t.at = to /\ t.extra = extra /\ t.missing = 0 /\ t.chosen = <<>> /\ t.left = 0 /\ Len(<<>>) = 0
  OBVIOUS
<1> HIDE DEF t
<1>5. FrameOK(rank, f, t, mem)
  <2>1. ~(t.missing > 0) /\ t.left <= Len(t.chosen)
    BY <1>4
  <2>2. \A k \in t.extra : /\ k \in 1..Len(mem) /\ mem[k].flow = f
                          /\ mem[k].agent \in DOMAIN rank /\ rank[mem[k].agent] < rank[t.agent]
    BY <1>4
  <2> QED
    BY <1>2, <1>3, <1>4, <2>1, <2>2 DEF FrameOK
<1> QED
  BY <1>1, <1>5 DEF t

LEMMA FrameMoves ==
  ASSUME NEW rank, NEW f, NEW mem, NEW t, FrameOK(rank, f, t, mem),
         NEW to \in Retrieving!Ats, NEW lacking \in Nat, NEW taken \in Seq(Chain(rank)), NEW left \in 0..Len(taken),
         to = "decide" => Kind[t.agent] = "conditional",
         lacking > 0 => Fallback[t.agent] # NoAgent,
         taken # <<>> => Kind[t.agent] = "conditional" /\ taken \in {ThenAgents[t.agent], ElseAgents[t.agent]}
  PROVE  FrameOK(rank, f, [agent |-> t.agent, at |-> to, aware |-> t.aware, extra |-> t.extra, missing |-> lacking,
                           chosen |-> taken, left |-> left], mem)
<1> DEFINE u == [agent |-> t.agent, at |-> to, aware |-> t.aware, extra |-> t.extra, missing |-> lacking,
                 chosen |-> taken, left |-> left]
<1>1. Len(taken) \in Nat /\ left \in Nat /\ left <= Len(taken)
  OBVIOUS
<1>2. t.agent \in Chain(rank) /\ t.aware \in BOOLEAN /\ t.extra \in SUBSET Nat
  BY DEF FrameOK, Frames
<1>3. u \in Frames(rank)
  BY <1>1, <1>2 DEF Frames
<1>4. u.agent = t.agent /\ u.at = to /\ u.extra = t.extra /\ u.missing = lacking /\ u.chosen = taken /\ u.left = left
  OBVIOUS
<1> HIDE DEF u
<1>5. FrameOK(rank, f, u, mem)
  BY <1>1, <1>3, <1>4 DEF FrameOK
<1> QED
  BY <1>5 DEF u

\* The fields of a call.
LEMMA FrameFields ==
  ASSUME NEW rank, NEW f, NEW mem, NEW t, FrameOK(rank, f, t, mem)
  PROVE  /\ t = [agent |-> t.agent, at |-> t.at, aware |-> t.aware, extra |-> t.extra, missing |-> t.missing,
                 chosen |-> t.chosen, left |-> t.left]
         /\ t.agent \in Chain(rank) /\ t.at \in Retrieving!Ats /\ t.missing \in Nat /\ t.chosen \in Seq(Chain(rank))
         /\ t.left \in 0..Len(t.chosen) /\ t.extra \in SUBSET Nat
<1>1. t \in Frames(rank) /\ t.left <= Len(t.chosen)
  BY DEF FrameOK
<1> HIDE DEF Retrieving!Ats
<1>2. t.chosen \in Seq(Chain(rank)) /\ t.left \in Nat
  BY <1>1 DEF Frames
<1> QED
  BY <1>1, <1>2 DEF Frames

\* A step of a flow that saves nothing.
LEMMA FlowOnly ==
  ASSUME NEW rank, RetrievalInv(rank), NEW f \in DOMAIN flows, NEW s, flows[f] # <<>>,
         StackOK(rank, f, s, memory_contexts), flows' = [flows EXCEPT ![f] = s],
         UNCHANGED <<stage, restart, restarts, context_questions, task, memory_contexts, answers, final>>
  PROVE  RetrievalInv(rank)'
<1>1. StacksOK(rank)'
  BY FlowsMove DEF StacksOK, RetrievalInv
<1>2. MemoryOK'
  BY DEF RetrievalInv, MemoryOK, SeenOK
<1>3. StageOK'
  BY DEF RetrievalInv, StageOK, Retrieving!ErrorStands
<1>4. OnceThrough'
  <2>1. ~(restarts = 0 /\ stage \in {"generation", "postprocess", "done"})
    BY DEF RetrievalInv, OnceThrough
  <2> QED
    BY <2>1 DEF RetrievalInv, OnceThrough
<1> QED
  BY <1>1, <1>2, <1>3, <1>4 DEF RetrievalInv
\* The fields that a step of a call assigns.
Turned(t, to, lacking, taken, left) ==
  [agent |-> t.agent, at |-> to, aware |-> t.aware, extra |-> t.extra, missing |-> lacking, chosen |-> taken, left |-> left]
LEMMA FrameTurns ==
  ASSUME NEW t, t = Turned(t, t.at, t.missing, t.chosen, t.left)
  PROVE  /\ \A x : [t EXCEPT !.at = x] = Turned(t, x, t.missing, t.chosen, t.left)
         /\ \A x : [t EXCEPT !.left = x] = Turned(t, t.at, t.missing, t.chosen, x)
         /\ \A x : [t EXCEPT !.missing = x] = Turned(t, t.at, x, t.chosen, t.left)
         /\ \A x, y : [t EXCEPT !.missing = x, !.at = y] = Turned(t, y, x, t.chosen, t.left)
         /\ \A x, y, z : [t EXCEPT !.chosen = x, !.left = y, !.at = z] = Turned(t, z, t.missing, x, y)
<1>0. /\ t.agent = t.agent /\ DOMAIN t = {"agent", "at", "aware", "extra", "missing", "chosen", "left"}
      /\ t = [k \in DOMAIN t |-> t[k]]
  BY DEF Turned
<1>1. ASSUME NEW x PROVE [t EXCEPT !.at = x] = Turned(t, x, t.missing, t.chosen, t.left)
  BY <1>0 DEF Turned
<1>2. ASSUME NEW x PROVE [t EXCEPT !.left = x] = Turned(t, t.at, t.missing, t.chosen, x)
  BY <1>0 DEF Turned
<1>3. ASSUME NEW x PROVE [t EXCEPT !.missing = x] = Turned(t, t.at, x, t.chosen, t.left)
  BY <1>0 DEF Turned
<1>4. ASSUME NEW x, NEW y PROVE [t EXCEPT !.missing = x, !.at = y] = Turned(t, y, x, t.chosen, t.left)
  <2> DEFINE u == Turned(t, t.at, x, t.chosen, t.left)
  <2>1. [t EXCEPT !.missing = x, !.at = y] = [u EXCEPT !.at = y]
    BY <1>3
  <2>2. [u EXCEPT !.at = y] = Turned(t, y, x, t.chosen, t.left)
    BY DEF Turned
  <2> QED
    BY <2>1, <2>2
<1>5. ASSUME NEW x, NEW y, NEW z PROVE [t EXCEPT !.chosen = x, !.left = y, !.at = z] = Turned(t, z, t.missing, x, y)
  <2> DEFINE u == Turned(t, t.at, t.missing, x, t.left)
             w == Turned(t, t.at, t.missing, x, y)
  <2>1. [t EXCEPT !.chosen = x] = u
    BY <1>0 DEF Turned
  <2>2. [u EXCEPT !.left = y] = w
    BY DEF Turned
  <2>3. [w EXCEPT !.at = z] = Turned(t, z, t.missing, x, y)
    BY DEF Turned
  <2>4. [t EXCEPT !.chosen = x, !.left = y, !.at = z] = [[[t EXCEPT !.chosen = x] EXCEPT !.left = y] EXCEPT !.at = z]
    OBVIOUS
  <2> QED
    BY <2>1, <2>2, <2>3, <2>4
<1> QED
  BY <1>1, <1>2, <1>3, <1>4, <1>5

\* The call at the top of a stack, and those below it.
LEMMA TopFits ==
  ASSUME NEW rank, RetrievalInv(rank), NEW f \in DOMAIN flows, flows[f] # <<>>
  PROVE  /\ FrameOK(rank, f, Retrieving!Top(f), memory_contexts)
         /\ StackOK(rank, f, Retrieving!Below(f), memory_contexts)
         /\ LET t == Retrieving!Top(f) IN t = Turned(t, t.at, t.missing, t.chosen, t.left)
<1>1. StackOK(rank, f, flows[f], memory_contexts)
  BY DEF RetrievalInv, StacksOK, FlowsFit
<1>2. /\ FrameOK(rank, f, Retrieving!Top(f), memory_contexts)
      /\ StackOK(rank, f, Retrieving!Below(f), memory_contexts)
  BY <1>1, StackEnds DEF Retrieving!Top, Retrieving!Below
<1> DEFINE t == Retrieving!Top(f)
<1>3. t = Turned(t, t.at, t.missing, t.chosen, t.left)
  <2> HIDE DEF t
  <2>1. FrameOK(rank, f, t, memory_contexts)
    BY <1>2 DEF t
  <2> QED
    BY <2>1, FrameFields DEF Turned
<1> QED
  BY <1>2, <1>3

LEMMA FlowPuts ==
  ASSUME NEW rank, RetrievalInv(rank), NEW f \in DOMAIN flows, flows[f] # <<>>,
         NEW u, FrameOK(rank, f, u, memory_contexts), Retrieving!Put(f, u),
         UNCHANGED <<stage, restart, restarts, context_questions, task, memory_contexts, answers, final>>
  PROVE  RetrievalInv(rank)'
<1>1. StackOK(rank, f, Append(Retrieving!Below(f), u), memory_contexts)
  BY TopFits, StackAdds
<1> QED
  BY <1>1, FlowOnly DEF Retrieving!Put

LEMMA FlowCalls ==
  ASSUME NEW rank, RetrievalInv(rank), NEW f \in DOMAIN flows, flows[f] # <<>>,
         NEW u, FrameOK(rank, f, u, memory_contexts), NEW v, FrameOK(rank, f, v, memory_contexts), Retrieving!Call(f, u, v),
         UNCHANGED <<stage, restart, restarts, context_questions, task, memory_contexts, answers, final>>
  PROVE  RetrievalInv(rank)'
<1>1. StackOK(rank, f, Append(Retrieving!Below(f), u), memory_contexts)
  BY TopFits, StackAdds
<1>2. StackOK(rank, f, Append(Append(Retrieving!Below(f), u), v), memory_contexts)
  BY <1>1, StackAdds
<1> QED
  BY <1>2, FlowOnly DEF Retrieving!Call

\* The branch or the fallback that is called has nothing to ask with.
LEMMA PlainCall ==
  ASSUME NEW rank, NEW f, NEW a \in Chain(rank)
  PROVE  FrameOK(rank, f, Retrieving!Frame(a, FALSE, {}), memory_contexts)
BY FrameBegins

\* A call that has retrieved turns to its fallback.
LEMMA AfterRetrievalFits ==
  ASSUME NEW rank, NEW f, NEW mem, NEW t, FrameOK(rank, f, t, mem), NEW lacking \in Nat
  PROVE  FrameOK(rank, f, Retrieving!AfterRetrieval(t, lacking), mem)
<1>1. t = Turned(t, t.at, t.missing, t.chosen, t.left)
  BY FrameFields DEF Turned
<1> DEFINE m == IF Fallback[t.agent] = NoAgent THEN 0 ELSE lacking
<1>2. Retrieving!AfterRetrieval(t, lacking) = Turned(t, "fallback", m, t.chosen, t.left)
  <2>1. Retrieving!AfterRetrieval(t, lacking) = [t EXCEPT !.missing = m, !.at = "fallback"]
    BY DEF Retrieving!AfterRetrieval
  <2> HIDE DEF m
  <2>2. [t EXCEPT !.missing = m, !.at = "fallback"] = Turned(t, "fallback", m, t.chosen, t.left)
    <3>1. \A x, y : [t EXCEPT !.missing = x, !.at = y] = Turned(t, y, x, t.chosen, t.left)
      BY <1>1, FrameTurns
    <3> QED
      BY <3>1
  <2> QED
    BY <2>1, <2>2
<1>3. m \in Nat /\ (m > 0 => Fallback[t.agent] # NoAgent)
  OBVIOUS
<1>4. "fallback" \in Retrieving!Ats
  BY DEF Retrieving!Ats
<1> HIDE DEF m
<1>5. /\ t.chosen \in Seq(Chain(rank)) /\ t.left \in 0..Len(t.chosen)
      /\ t.chosen # <<>> => Kind[t.agent] = "conditional" /\ t.chosen \in {ThenAgents[t.agent], ElseAgents[t.agent]}
  BY FrameFields DEF FrameOK
<1>6. FrameOK(rank, f, Turned(t, "fallback", m, t.chosen, t.left), mem)
  BY <1>3, <1>4, <1>5, FrameMoves DEF Turned
<1> QED
  BY <1>2, <1>6
-----------------------------------------------------------------------------
LEMMA RephraseFits ==
  ASSUME NEW rank, RetrievalInv(rank), NEW f \in DOMAIN flows, Retrieving!Rephrase(f) PROVE RetrievalInv(rank)'
<1> DEFINE t == Retrieving!Top(f)
           to == IF Kind[t.agent] = "conditional" THEN "decide" ELSE "retrieve"
<1>1. flows[f] # <<>> /\ Retrieving!Put(f, [t EXCEPT !.at = to])
      /\ UNCHANGED <<stage, restart, restarts, context_questions, task, memory_contexts, answers, final>>
  BY DEF Retrieving!Rephrase, Retrieving!Active
<1>2. FrameOK(rank, f, t, memory_contexts) /\ t = Turned(t, t.at, t.missing, t.chosen, t.left)
  BY <1>1, TopFits
<1> HIDE DEF t
<1>3. to \in Retrieving!Ats /\ (to = "decide" => Kind[t.agent] = "conditional")
  BY DEF Retrieving!Ats
<1> HIDE DEF to
<1>4. [t EXCEPT !.at = to] = Turned(t, to, t.missing, t.chosen, t.left)
  BY <1>2, FrameTurns
<1>5. FrameOK(rank, f, Turned(t, to, t.missing, t.chosen, t.left), memory_contexts)
  <2>1. /\ t.missing \in Nat /\ t.chosen \in Seq(Chain(rank)) /\ t.left \in 0..Len(t.chosen)
        /\ t.missing > 0 => Fallback[t.agent] # NoAgent
        /\ t.chosen # <<>> => Kind[t.agent] = "conditional" /\ t.chosen \in {ThenAgents[t.agent], ElseAgents[t.agent]}
    BY <1>2, FrameFields DEF FrameOK
  <2> QED
    BY <1>2, <1>3, <2>1, FrameMoves DEF Turned
<1> QED
  BY <1>1, <1>4, <1>5, FlowPuts

LEMMA MakeDecisionFits ==
  ASSUME NEW rank, AgentsFormTree(rank), RetrievalInv(rank), NEW f \in DOMAIN flows, Retrieving!MakeDecision(f)
  PROVE  RetrievalInv(rank)'
<1> DEFINE t == Retrieving!Top(f)
<1>1. flows[f] # <<>> /\ t.at = "decide"
      /\ UNCHANGED <<stage, restart, restarts, context_questions, task, memory_contexts, answers, final>>
  BY DEF Retrieving!MakeDecision, Retrieving!Active
<1>2. PICK b \in {ThenAgents, ElseAgents} :
        Retrieving!Put(f, [t EXCEPT !.chosen = b[t.agent], !.left = Len(b[t.agent]), !.at = "branch"])
  BY DEF Retrieving!MakeDecision
<1>3. FrameOK(rank, f, t, memory_contexts) /\ t = Turned(t, t.at, t.missing, t.chosen, t.left)
  BY <1>1, TopFits
<1> DEFINE taken == b[t.agent]
<1> HIDE DEF t
<1>4. t.agent \in Chain(rank) /\ Kind[t.agent] = "conditional" /\ t.missing \in Nat
      /\ (t.missing > 0 => Fallback[t.agent] # NoAgent)
  BY <1>1, <1>3, FrameFields DEF FrameOK
<1>5. taken \in Seq(Chain(rank)) /\ taken \in {ThenAgents[t.agent], ElseAgents[t.agent]}
  BY <1>4 DEF AgentsFormTree
<1> HIDE DEF taken
<1>6. [t EXCEPT !.chosen = taken, !.left = Len(taken), !.at = "branch"] = Turned(t, "branch", t.missing, taken, Len(taken))
  <2>1. \A x, y, z : [t EXCEPT !.chosen = x, !.left = y, !.at = z] = Turned(t, z, t.missing, x, y)
    BY <1>3, FrameTurns
  <2> QED
    BY <2>1
<1>7. FrameOK(rank, f, Turned(t, "branch", t.missing, taken, Len(taken)), memory_contexts)
  <2>1. "branch" \in Retrieving!Ats /\ Len(taken) \in 0..Len(taken)
    BY <1>5 DEF Retrieving!Ats
  <2> QED
    BY <1>3, <1>4, <1>5, <2>1, FrameMoves DEF Turned
<1>8. Retrieving!Put(f, [t EXCEPT !.chosen = taken, !.left = Len(taken), !.at = "branch"])
  BY <1>2 DEF taken
<1> QED
  BY <1>1, <1>6, <1>7, <1>8, FlowPuts

LEMMA BranchFits ==
  ASSUME NEW rank, AgentsFormTree(rank), RetrievalInv(rank), NEW f \in DOMAIN flows, Retrieving!Branch(f)
  PROVE  RetrievalInv(rank)'
<1> DEFINE t == Retrieving!Top(f)
<1>1. flows[f] # <<>> /\ t.at = "branch"
      /\ UNCHANGED <<stage, restart, restarts, context_questions, task, memory_contexts, answers, final>>
  BY DEF Retrieving!Branch, Retrieving!Active
<1>2. IF t.left > 0
        THEN Retrieving!Call(f, [t EXCEPT !.left = t.left - 1], Retrieving!Frame(t.chosen[Len(t.chosen) - t.left + 1], FALSE, {}))
        ELSE Retrieving!Put(f, IF Fallback[t.agent] = NoAgent THEN Retrieving!AfterRetrieval(t, 0) ELSE [t EXCEPT !.at = "validate"])
  BY DEF Retrieving!Branch
<1>3. FrameOK(rank, f, t, memory_contexts) /\ t = Turned(t, t.at, t.missing, t.chosen, t.left)
  BY <1>1, TopFits
<1> HIDE DEF t
<1>4. /\ t.missing \in Nat /\ t.chosen \in Seq(Chain(rank)) /\ t.left \in 0..Len(t.chosen)
      /\ t.missing > 0 => Fallback[t.agent] # NoAgent
      /\ t.chosen # <<>> => Kind[t.agent] = "conditional" /\ t.chosen \in {ThenAgents[t.agent], ElseAgents[t.agent]}
  BY <1>3, FrameFields DEF FrameOK
<1>5. CASE t.left > 0
  <2>1. [t EXCEPT !.left = t.left - 1] = Turned(t, t.at, t.missing, t.chosen, t.left - 1)
    BY <1>3, FrameTurns
  <2>2. FrameOK(rank, f, Turned(t, t.at, t.missing, t.chosen, t.left - 1), memory_contexts)
    <3>1. t.left - 1 \in 0..Len(t.chosen) /\ t.at \in Retrieving!Ats /\ t.at # "decide"
      BY <1>1, <1>4, <1>5 DEF Retrieving!Ats
    <3> QED
      BY <1>3, <1>4, <3>1, FrameMoves DEF Turned
  <2>3. t.chosen[Len(t.chosen) - t.left + 1] \in Chain(rank)
    <3>1. Len(t.chosen) - t.left + 1 \in 1..Len(t.chosen)
      BY <1>4, <1>5
    <3> QED
      BY <1>4, <3>1
  <2> DEFINE called == Retrieving!Frame(t.chosen[Len(t.chosen) - t.left + 1], FALSE, {})
  <2>4. FrameOK(rank, f, called, memory_contexts)
    BY <2>3, PlainCall
  <2>5. Retrieving!Call(f, Turned(t, t.at, t.missing, t.chosen, t.left - 1), called)
    BY <1>2, <1>5, <2>1
  <2> HIDE DEF called
  <2> QED
    BY <1>1, <2>2, <2>4, <2>5, FlowCalls
<1>6. CASE ~(t.left > 0)
  <2>1. CASE Fallback[t.agent] = NoAgent
    BY <1>1, <1>2, <1>3, <1>6, <2>1, AfterRetrievalFits, FlowPuts
  <2>2. CASE Fallback[t.agent] # NoAgent
    <3>1. [t EXCEPT !.at = "validate"] = Turned(t, "validate", t.missing, t.chosen, t.left)
      BY <1>3, FrameTurns
    <3>2. FrameOK(rank, f, Turned(t, "validate", t.missing, t.chosen, t.left), memory_contexts)
      <4>1. "validate" \in Retrieving!Ats
        BY DEF Retrieving!Ats
      <4> QED
        BY <1>3, <1>4, <4>1, FrameMoves DEF Turned
    <3> QED
      BY <1>1, <1>2, <1>6, <2>2, <3>1, <3>2, FlowPuts
  <2> QED
    BY <2>1, <2>2
<1> QED
  BY <1>5, <1>6

LEMMA ValidateBranchFits ==
  ASSUME NEW rank, RetrievalInv(rank), NEW f \in DOMAIN flows, Retrieving!ValidateBranch(f)
  PROVE  RetrievalInv(rank)'
<1> DEFINE t == Retrieving!Top(f)
<1>1. flows[f] # <<>>
      /\ UNCHANGED <<stage, restart, restarts, context_questions, task, memory_contexts, answers, final>>
  BY DEF Retrieving!ValidateBranch, Retrieving!Active
<1>2. PICK v \in Retrieving!Validations(Retrieving!Raw(FALSE, "unset")) :
        Retrieving!Put(f, Retrieving!AfterRetrieval(t, v.missing))
  BY DEF Retrieving!ValidateBranch
<1>3. v.missing \in Nat
  <2>1. Retrieving!Raw(FALSE, "unset") \in Found
    BY DEF Found, Saved, Retrieving!Raw
  <2> QED
    BY <2>1, ValidatedIsSaved
<1>4. FrameOK(rank, f, t, memory_contexts)
  BY <1>1, TopFits
<1> HIDE DEF t
<1> QED
  BY <1>1, <1>2, <1>3, <1>4, AfterRetrievalFits, FlowPuts

LEMMA AskFallbackFits ==
  ASSUME NEW rank, AgentsFormTree(rank), RetrievalInv(rank), NEW f \in DOMAIN flows, Retrieving!AskFallback(f)
  PROVE  RetrievalInv(rank)'
<1> DEFINE t == Retrieving!Top(f)
<1>1. flows[f] # <<>> /\ t.at = "fallback"
      /\ UNCHANGED <<stage, restart, restarts, context_questions, task, memory_contexts, answers, final>>
  BY DEF Retrieving!AskFallback, Retrieving!Active
<1>2. IF t.missing > 0
        THEN Retrieving!Call(f, [t EXCEPT !.missing = t.missing - 1], Retrieving!Frame(Fallback[t.agent], FALSE, {}))
        ELSE Retrieving!Put(f, [t EXCEPT !.at = "next"])
  BY DEF Retrieving!AskFallback
<1>3. FrameOK(rank, f, t, memory_contexts) /\ t = Turned(t, t.at, t.missing, t.chosen, t.left)
  BY <1>1, TopFits
<1> HIDE DEF t
<1>4. /\ t.missing \in Nat /\ t.chosen \in Seq(Chain(rank)) /\ t.left \in 0..Len(t.chosen) /\ t.agent \in Chain(rank)
      /\ t.missing > 0 => Fallback[t.agent] # NoAgent
      /\ t.chosen # <<>> => Kind[t.agent] = "conditional" /\ t.chosen \in {ThenAgents[t.agent], ElseAgents[t.agent]}
  BY <1>3, FrameFields DEF FrameOK
<1>5. CASE t.missing > 0
  <2>1. [t EXCEPT !.missing = t.missing - 1] = Turned(t, t.at, t.missing - 1, t.chosen, t.left)
    BY <1>3, FrameTurns
  <2>2. FrameOK(rank, f, Turned(t, t.at, t.missing - 1, t.chosen, t.left), memory_contexts)
    <3>1. t.missing - 1 \in Nat /\ t.at \in Retrieving!Ats /\ t.at # "decide" /\ Fallback[t.agent] # NoAgent
      BY <1>1, <1>4, <1>5 DEF Retrieving!Ats
    <3> QED
      BY <1>3, <1>4, <3>1, FrameMoves DEF Turned
  <2>3. Fallback[t.agent] \in Chain(rank)
    BY <1>4, <1>5 DEF AgentsFormTree, Chain
  <2>4. FrameOK(rank, f, Retrieving!Frame(Fallback[t.agent], FALSE, {}), memory_contexts)
    BY <2>3, PlainCall
  <2> QED
    BY <1>1, <1>2, <1>5, <2>1, <2>2, <2>4, FlowCalls
<1>6. CASE ~(t.missing > 0)
  <2>1. [t EXCEPT !.at = "next"] = Turned(t, "next", t.missing, t.chosen, t.left)
    BY <1>3, FrameTurns
  <2>2. FrameOK(rank, f, Turned(t, "next", t.missing, t.chosen, t.left), memory_contexts)
    <3>1. "next" \in Retrieving!Ats
      BY DEF Retrieving!Ats
    <3> QED
      BY <1>3, <1>4, <3>1, FrameMoves DEF Turned
  <2> QED
    BY <1>1, <1>2, <1>6, <2>1, <2>2, FlowPuts
<1> QED
  BY <1>5, <1>6

LEMMA AskNextFits ==
  ASSUME NEW rank, AgentsFormTree(rank), RetrievalInv(rank), NEW f \in DOMAIN flows, Retrieving!AskNext(f)
  PROVE  RetrievalInv(rank)'
<1> DEFINE t == Retrieving!Top(f)
           taken == {t.chosen[i] : i \in DOMAIN t.chosen}
           sources == {Fallback[t.agent]} \cup IF Kind[t.agent] = "conditional" THEN taken ELSE {t.agent}
           extra == t.extra \cup Retrieving!AgentAnswerSummaries(f, sources)
           next == Retrieving!Frame(NextAgent[t.agent], TRUE, extra)
<1>1. flows[f] # <<>>
      /\ UNCHANGED <<stage, restart, restarts, context_questions, task, memory_contexts, answers, final>>
  BY DEF Retrieving!AskNext, Retrieving!Active
<1>2. flows' = [flows EXCEPT ![f] = IF NextAgent[t.agent] = NoAgent THEN Retrieving!Below(f)
                                    ELSE Append(Retrieving!Below(f), next)]
  BY DEF Retrieving!AskNext
<1>3. FrameOK(rank, f, t, memory_contexts) /\ StackOK(rank, f, Retrieving!Below(f), memory_contexts)
  BY <1>1, TopFits
<1> HIDE DEF t
<1>4. CASE NextAgent[t.agent] = NoAgent
  BY <1>1, <1>2, <1>3, <1>4, FlowOnly
<1>5. CASE NextAgent[t.agent] # NoAgent
  <2>1. t.agent \in Chain(rank) /\ NextAgent[t.agent] \in Chain(rank) /\ t.chosen \in Seq(Chain(rank))
    BY <1>3, <1>5, FrameFields DEF AgentsFormTree, Chain
  <2>2. \A a \in DOMAIN rank : rank[a] \in Nat
    BY DEF AgentsFormTree
  <2>3. /\ rank[t.agent] < rank[NextAgent[t.agent]] /\ rank[Fallback[t.agent]] < rank[NextAgent[t.agent]]
        /\ t.agent \in DOMAIN rank /\ Fallback[t.agent] \in DOMAIN rank /\ NextAgent[t.agent] \in DOMAIN rank
    BY <1>5, <2>1 DEF AgentsFormTree, Chain
  <2>4. ASSUME NEW i \in DOMAIN t.chosen
        PROVE  t.chosen[i] \in DOMAIN rank /\ rank[t.chosen[i]] < rank[NextAgent[t.agent]]
    <3>1. i \in 1..Len(t.chosen) /\ t.chosen[i] \in Chain(rank) /\ t.chosen # <<>>
      BY <2>1
    <3>2. Kind[t.agent] = "conditional" /\ t.chosen \in {ThenAgents[t.agent], ElseAgents[t.agent]}
      BY <1>3, <3>1 DEF FrameOK
    <3> QED
      BY <1>5, <2>1, <3>1, <3>2 DEF AgentsFormTree, Chain
  <2>5. \A a \in sources : a \in DOMAIN rank /\ rank[a] < rank[NextAgent[t.agent]]
    BY <2>3, <2>4
  <2> HIDE DEF sources
  <2>6. ASSUME NEW k \in extra
        PROVE  /\ k \in 1..Len(memory_contexts) /\ memory_contexts[k].flow = f
               /\ memory_contexts[k].agent \in DOMAIN rank
               /\ rank[memory_contexts[k].agent] < rank[NextAgent[t.agent]]
    <3>1. CASE k \in t.extra
      <4>1. /\ k \in 1..Len(memory_contexts) /\ memory_contexts[k].flow = f
            /\ memory_contexts[k].agent \in DOMAIN rank
            /\ rank[memory_contexts[k].agent] < rank[t.agent]
        BY <1>3, <3>1 DEF FrameOK
      <4> QED
        BY <2>2, <2>3, <4>1
    <3>2. CASE k \in Retrieving!AgentAnswerSummaries(f, sources)
      <4>1. k \in DOMAIN memory_contexts /\ memory_contexts[k].flow = f /\ memory_contexts[k].agent \in sources
        BY <3>2 DEF Retrieving!AgentAnswerSummaries
      <4>2. DOMAIN memory_contexts = 1..Len(memory_contexts)
        BY DEF RetrievalInv, MemoryOK
      <4> QED
        BY <2>5, <4>1, <4>2
    <3> QED
      BY <3>1, <3>2
  <2>7. extra \in SUBSET Nat
    <3>1. Len(memory_contexts) \in Nat
      BY DEF RetrievalInv, MemoryOK
    <3> QED
      BY <2>6, <3>1
  <2> HIDE DEF extra
  <2>8. FrameOK(rank, f, next, memory_contexts)
    BY <2>1, <2>6, <2>7, FrameBegins
  <2> HIDE DEF next
  <2> QED
    BY <1>1, <1>2, <1>3, <1>5, <2>8, StackAdds, FlowOnly
<1> QED
  BY <1>4, <1>5
\* What is saved is added at the end, in its form, for the flow it is saved for.
Entered(f, a, records) ==
  [i \in DOMAIN records |-> [flow |-> f, agent |-> a, summary |-> records[i].summary,
                           cites |-> records[i].cites, chunks |-> records[i].chunks]]
Extends(f) ==
  /\ Grows(memory_contexts, memory_contexts') /\ \E S : memory_contexts' \in Seq(S)
  /\ \A i \in 1..Len(memory_contexts') : ContextOK(memory_contexts'[i])
  /\ \A i \in 1..Len(memory_contexts') : i > Len(memory_contexts) => memory_contexts'[i].flow = f

LEMMA SameExtends ==
  ASSUME NEW f, MemoryOK, UNCHANGED memory_contexts PROVE Extends(f)
<1>1. Len(memory_contexts) \in Nat
  BY DEF MemoryOK
<1> QED
  BY <1>1 DEF MemoryOK, Extends, Grows

LEMMA SaveExtends ==
  ASSUME NEW f, NEW a, NEW records \in Seq(Saved), MemoryOK,
         Kind[a] = "source" => \A i \in 1..Len(records) : HasContent(records[i]),
         Retrieving!SaveContext(f, a, records)
  PROVE  Extends(f)
<1> DEFINE w == Entered(f, a, records)
<1>1. memory_contexts' = memory_contexts \o w
  BY DEF Retrieving!SaveContext, Entered
<1>2. Len(records) \in Nat /\ DOMAIN records = 1..Len(records) /\ \A i \in 1..Len(records) : records[i] \in Saved
  OBVIOUS
<1>3. ASSUME NEW i \in 1..Len(records)
      PROVE  w[i].flow = f /\ ContextOK(w[i])
  <2>1. records[i] \in Saved /\ (Kind[a] = "source" => HasContent(records[i]))
    BY <1>2
  <2> DEFINE x == [flow |-> f, agent |-> a, summary |-> records[i].summary, cites |-> records[i].cites, chunks |-> records[i].chunks]
  <2>2. w[i] = x
    BY <1>2 DEF Entered
  <2>3. x.agent = a /\ x.summary = records[i].summary /\ x.cites = records[i].cites /\ x.chunks = records[i].chunks /\ x.flow = f
    OBVIOUS
  <2>4. records[i].cites \in {"unset", "empty", "some"} /\ records[i].chunks \in {"all", "cited", "none"} /\ records[i].summary \in BOOLEAN
    BY <2>1 DEF Saved
  <2> HIDE DEF x
  <2> QED
    BY <2>1, <2>2, <2>3, <2>4 DEF ContextOK, HasContent
<1> DEFINE R == {w[i] : i \in 1..Len(records)}
<1>4. w \in Seq(R) /\ Len(w) = Len(records)
  <2>1. w \in [1..Len(records) -> R]
    BY <1>2 DEF Entered
  <2> HIDE DEF w, R
  <2> QED
    BY <1>2, <2>1
<1> HIDE DEF w, R
<1>5. PICK S : memory_contexts \in Seq(S)
  BY DEF MemoryOK
<1>6. memory_contexts \in Seq(S \cup R) /\ w \in Seq(S \cup R)
  <2>1. ASSUME NEW A, NEW B, NEW s \in Seq(A) PROVE s \in Seq(A \cup B) /\ s \in Seq(B \cup A)
    BY <2>1
  <2> QED
    BY <1>4, <1>5, <2>1
<1>7. /\ memory_contexts' \in Seq(S \cup R) /\ Len(memory_contexts') = Len(memory_contexts) + Len(w)
      /\ Len(memory_contexts) \in Nat /\ Len(w) \in Nat
      /\ \A i \in 1..(Len(memory_contexts) + Len(w)) :
           memory_contexts'[i] = IF i <= Len(memory_contexts) THEN memory_contexts[i] ELSE w[i - Len(memory_contexts)]
  BY <1>1, <1>6, ConcatProperties, LenProperties
<1>8. Grows(memory_contexts, memory_contexts')
  BY <1>7 DEF Grows
<1>9. ASSUME NEW i \in 1..Len(memory_contexts')
      PROVE  ContextOK(memory_contexts'[i]) /\ (i > Len(memory_contexts) => memory_contexts'[i].flow = f)
  <2>1. CASE i <= Len(memory_contexts)
    <3>1. i \in 1..Len(memory_contexts) /\ memory_contexts'[i] = memory_contexts[i] /\ ~(i > Len(memory_contexts))
      BY <1>7, <2>1
    <3> QED
      BY <3>1 DEF MemoryOK
  <2>2. CASE i > Len(memory_contexts)
    <3>1. i - Len(memory_contexts) \in 1..Len(records) /\ memory_contexts'[i] = w[i - Len(memory_contexts)]
      BY <1>4, <1>7, <2>2
    <3> QED
      BY <1>3, <3>1
  <2> QED
    BY <1>7, <2>1, <2>2
<1> QED
  BY <1>7, <1>8, <1>9 DEF Extends

\* An answer is added at the end, by an agent that has seen what there is.
Answers(by) ==
  \/ answers' = answers
  \/ answers' = Append(answers, [by |-> by, seen |-> Len(memory_contexts)])
LEMMA AnswersGrow ==
  ASSUME NEW b, NEW f, MemoryOK, Extends(f), Answers(b)
  PROVE  /\ MemoryOK' /\ Len(answers) \in Nat /\ Len(answers') \in Nat /\ Len(answers) <= Len(answers')
         /\ \A i \in 1..Len(answers') :
              \/ i \in 1..Len(answers) /\ answers'[i] = answers[i]
              \/ answers'[i].by = b /\ answers'[i].seen = Len(memory_contexts)
<1>1. PICK S : answers \in Seq(S)
  BY DEF MemoryOK
<1> DEFINE x == [by |-> b, seen |-> Len(memory_contexts)]
<1>2. x.by = b /\ x.seen = Len(memory_contexts)
  OBVIOUS
<1> HIDE DEF x
<1>3. /\ Append(answers, x) \in Seq(S \cup {x}) /\ Len(Append(answers, x)) = Len(answers) + 1 /\ Len(answers) \in Nat
      /\ Append(answers, x)[Len(answers) + 1] = x /\ \A i \in 1..Len(answers) : Append(answers, x)[i] = answers[i]
  <2>1. answers \in Seq(S \cup {x})
    BY <1>1
  <2> QED
    BY <2>1, AppendProperties, LenProperties
<1>4. answers' = answers \/ answers' = Append(answers, x)
  BY DEF Answers, x
<1>5. /\ Len(answers') \in Nat /\ Len(answers) <= Len(answers') /\ \E T : answers' \in Seq(T)
      /\ \A i \in 1..Len(answers') :
           \/ i \in 1..Len(answers) /\ answers'[i] = answers[i]
           \/ answers'[i].by = b /\ answers'[i].seen = Len(memory_contexts)
  <2>1. CASE answers' = answers
    BY <1>1, <1>3, <2>1
  <2>2. CASE answers' = Append(answers, x)
    <3>1. \A i \in 1..Len(answers') : i \in 1..Len(answers) \/ i = Len(answers) + 1
      BY <1>3, <2>2
    <3> QED
      BY <1>2, <1>3, <2>2, <3>1
  <2> QED
    BY <1>4, <2>1, <2>2
<1>6. Len(memory_contexts) \in Nat /\ Len(memory_contexts') \in Nat /\ Len(memory_contexts) <= Len(memory_contexts')
  BY DEF Extends, Grows
<1>7. \A i \in 1..Len(answers') : SeenOK(answers'[i], Len(memory_contexts'))
  <2> SUFFICES ASSUME NEW i \in 1..Len(answers') PROVE answers'[i].seen \in 0..Len(memory_contexts')
    BY DEF SeenOK
  <2>1. CASE i \in 1..Len(answers) /\ answers'[i] = answers[i]
    <3>1. answers[i].seen \in 0..Len(memory_contexts)
      BY <2>1 DEF MemoryOK, SeenOK
    <3> QED
      BY <1>6, <2>1, <3>1
  <2>2. CASE answers'[i].seen = Len(memory_contexts)
    BY <1>6, <2>2
  <2> QED
    BY <1>5, <2>1, <2>2
<1>8. MemoryOK'
  BY <1>5, <1>7 DEF MemoryOK, Extends
<1> QED
  BY <1>3, <1>5, <1>8

LEMMA RetrieveFits ==
  ASSUME MaxFound \in Nat, NEW rank, AgentsFormTree(rank), RetrievalInv(rank),
         NEW f \in DOMAIN flows, Retrieving!Retrieve(f)
  PROVE  RetrievalInv(rank)'
<1> DEFINE t == Retrieving!Top(f)
<1>1. flows[f] # <<>> /\ UNCHANGED <<stage, restart, restarts, context_questions, task, final>>
  BY DEF Retrieving!Retrieve, Retrieving!Active
<1>2. PICK r \in Retrieving!Retrievals(t.agent) :
        /\ Retrieving!SaveContext(f, t.agent, r.saved)
        /\ Retrieving!Put(f, Retrieving!AfterRetrieval(t, r.missing))
  BY DEF Retrieving!Retrieve
<1>3. Answers(t.agent)
  BY DEF Retrieving!Retrieve, Answers
<1>4. FrameOK(rank, f, t, memory_contexts) /\ StackOK(rank, f, Retrieving!Below(f), memory_contexts)
  BY <1>1, TopFits
<1> HIDE DEF t
<1>5. /\ r.saved \in Seq(Saved) /\ r.missing \in Nat
      /\ Kind[t.agent] = "source" => \A i \in 1..Len(r.saved) : HasContent(r.saved[i])
  BY RetrievedHasContent
<1>6. MemoryOK
  BY DEF RetrievalInv
<1>7. Extends(f)
  BY <1>2, <1>5, <1>6, SaveExtends
<1>8. StacksOK(rank)'
  <2>1. FrameOK(rank, f, Retrieving!AfterRetrieval(t, r.missing), memory_contexts)
    BY <1>4, <1>5, AfterRetrievalFits
  <2>2. FlowsFit(rank, flows', memory_contexts)
    BY <1>2, <1>4, <2>1, StackAdds, FlowsMove DEF RetrievalInv, StacksOK, Retrieving!Put
  <2> QED
    BY <1>7, <2>2, FlowsStay DEF StacksOK, Extends
<1>9. /\ MemoryOK' /\ Len(answers) \in Nat /\ Len(answers') \in Nat /\ Len(answers) <= Len(answers')
      /\ \A i \in 1..Len(answers') :
           (i \in 1..Len(answers) /\ answers'[i] = answers[i]) \/ answers'[i].by = t.agent
  BY <1>3, <1>6, <1>7, AnswersGrow
<1>10. StageOK'
  BY <1>1, <1>9 DEF RetrievalInv, StageOK, Retrieving!ErrorStands
<1>11. OnceThrough'
  <2>1. ~(restarts = 0 /\ stage \in {"generation", "postprocess", "done"})
    BY <1>1 DEF RetrievalInv, OnceThrough
  <2>2. t.agent \notin Generation
    BY <1>4, FrameFields DEF AgentsFormTree
  <2>3. ASSUME restarts = 0, stage \in {"preprocess", "context"}
        PROVE  \A i \in 1..Len(answers') : answers'[i].by \notin Generation
    BY <1>9, <2>2, <2>3 DEF RetrievalInv, OnceThrough
  <2>4. restarts = 0 /\ stage \in {"preprocess", "context"} => \A a \in Generation : task[a] = "idle"
    BY DEF RetrievalInv, OnceThrough
  <2> QED
    BY <1>1, <2>1, <2>3, <2>4 DEF OnceThrough
<1> QED
  BY <1>8, <1>9, <1>10, <1>11 DEF RetrievalInv

LEMMA FlowFailsFits ==
  ASSUME NEW rank, RetrievalInv(rank), NEW f \in DOMAIN flows, Retrieving!FlowFails(f)
  PROVE  RetrievalInv(rank)'
<1>1. /\ flows[f] # <<>> /\ flows' = [flows EXCEPT ![f] = <<>>]
      /\ UNCHANGED <<restart, restarts, context_questions, task, memory_contexts, answers>>
      /\ IF stage = "context" THEN stage' = "failed" /\ final' = Retrieving!StageError ELSE UNCHANGED <<stage, final>>
  BY DEF Retrieving!FlowFails, Retrieving!Active
<1>2. StackOK(rank, f, <<>>, memory_contexts)
  BY DEF StackOK
<1>3. CASE stage # "context"
  BY <1>1, <1>2, <1>3, FlowOnly
<1>4. CASE stage = "context"
  <2>1. StacksOK(rank)'
    BY <1>1, <1>2, FlowsMove DEF StacksOK, RetrievalInv
  <2>2. MemoryOK'
    BY <1>1 DEF RetrievalInv, MemoryOK, SeenOK
  <2>3. StageOK'
    BY <1>1, <1>4 DEF RetrievalInv, StageOK, Retrieving!ErrorStands
  <2>4. OnceThrough'
    BY <1>1, <1>4 DEF OnceThrough
  <2> QED
    BY <2>1, <2>2, <2>3, <2>4 DEF RetrievalInv
<1> QED
  BY <1>3, <1>4
-----------------------------------------------------------------------------
\* A step of an agent of a gathered stage, which ends or tries again.
LEMMA AgentMoves ==
  ASSUME NEW rank, RetrievalInv(rank), NEW a \in Retrieving!Staged, Retrieving!Running(a),
         NEW x \in {"retrying", "ended"}, task' = [task EXCEPT ![a] = x],
         UNCHANGED <<stage, flows, final>>, Extends(<<>>), Answers(a),
         restart' \in BOOLEAN, restarts' \in restarts..Retries, restart' => restarts' > 0, context_questions' \in Nat
  PROVE  RetrievalInv(rank)'
<1>1. MemoryOK /\ StageOK /\ OnceThrough /\ StacksOK(rank)
  BY DEF RetrievalInv
<1>2. /\ MemoryOK' /\ Len(answers) \in Nat /\ Len(answers') \in Nat /\ Len(answers) <= Len(answers')
      /\ \A i \in 1..Len(answers') :
           \/ i \in 1..Len(answers) /\ answers'[i] = answers[i]
           \/ answers'[i].by = a /\ answers'[i].seen = Len(memory_contexts)
  BY <1>1, AnswersGrow
<1>3. StacksOK(rank)'
  BY <1>1, FlowsStay DEF StacksOK, Extends
<1>4. restarts' \in 0..Retries /\ (restarts' = 0 => restarts = 0)
  BY <1>1 DEF StageOK
<1>5. StageOK'
  <2>1. task' \in [Retrieving!Staged -> {"idle", "running", "retrying", "ended"}]
    BY <1>1 DEF StageOK
  <2>2. final' \in {Retrieving!NoAnswer, Retrieving!StageError} \cup (1..Len(answers'))
    BY <1>1, <1>2 DEF StageOK
  <2> QED
    BY <1>1, <1>4, <2>1, <2>2 DEF StageOK, Retrieving!ErrorStands
<1>6. ASSUME restarts' = 0, stage \in {"preprocess", "context"}
      PROVE  /\ \A i \in 1..Len(answers') : answers'[i].by \notin Generation
             /\ \A b \in Generation : task'[b] = "idle"
  <2>1. /\ \A i \in 1..Len(answers) : answers[i].by \notin Generation
        /\ \A b \in Generation : task[b] = "idle"
    BY <1>1, <1>4, <1>6 DEF OnceThrough
  <2>2. a \notin Generation
    BY <2>1 DEF Retrieving!Running
  <2>3. \A b \in Generation : b \in Retrieving!Staged
    BY DEF Retrieving!Staged
  <2> QED
    BY <1>1, <1>2, <2>1, <2>2, <2>3 DEF StageOK
<1>7. ASSUME restarts' = 0, stage \in {"generation", "postprocess", "done"}
      PROVE  /\ \A f \in DOMAIN flows : flows[f] = <<>>
             /\ \A i \in 1..Len(answers') : Answered(answers[i])' 
  <2>1. /\ \A f \in DOMAIN flows : flows[f] = <<>>
        /\ \A i \in 1..Len(answers) : Answered(answers[i])
    BY <1>1, <1>4, <1>7 DEF OnceThrough
  <2>2. /\ Len(memory_contexts) \in Nat /\ Len(memory_contexts') \in Nat /\ Len(memory_contexts) <= Len(memory_contexts')
        /\ \A k \in 1..Len(memory_contexts) : memory_contexts'[k] = memory_contexts[k]
        /\ \A k \in 1..Len(memory_contexts') : k > Len(memory_contexts) => memory_contexts'[k].flow = <<>>
    BY DEF Extends, Grows
  <2>3. \A k \in 1..Len(memory_contexts') : memory_contexts'[k].flow # <<>> =>
          k \in 1..Len(memory_contexts) /\ memory_contexts[k].flow # <<>>
    BY <2>2
  <2>4. ASSUME NEW i \in 1..Len(answers'), answers'[i].by \in Generation,
               NEW k \in 1..Len(memory_contexts'), memory_contexts'[k].flow # <<>>
        PROVE  k <= answers'[i].seen
    <3>1. k \in 1..Len(memory_contexts) /\ memory_contexts[k].flow # <<>>
      BY <2>3, <2>4
    <3>2. CASE i \in 1..Len(answers) /\ answers'[i] = answers[i]
      BY <2>1, <2>4, <3>1, <3>2 DEF Answered
    <3>3. CASE answers'[i].seen = Len(memory_contexts)
      BY <2>2, <3>1, <3>3
    <3> QED
      BY <1>2, <3>2, <3>3
  <2> QED
    BY <2>1, <2>4 DEF Answered
<1>8. OnceThrough'
  BY <1>6, <1>7 DEF OnceThrough
<1> QED
  BY <1>2, <1>3, <1>5, <1>8 DEF RetrievalInv

LEMMA AgentStepFits ==
  ASSUME RetrievalBounds, NEW rank, RetrievalInv(rank), NEW a \in Retrieving!Staged, Retrieving!AgentStep(a)
  PROVE  RetrievalInv(rank)'
<1>1. MemoryOK /\ StageOK /\ OnceThrough /\ StacksOK(rank)
  BY DEF RetrievalInv
<1>2. restart \in BOOLEAN /\ restarts \in 0..Retries /\ Retries \in Nat /\ context_questions \in Nat
      /\ (restart => restarts > 0)
  BY <1>1 DEF StageOK, RetrievalBounds
<1>9. ASSUME UNCHANGED <<restart, restarts>>
      PROVE  restart' \in BOOLEAN /\ restarts' \in restarts..Retries /\ (restart' => restarts' > 0)
  BY <1>2, <1>9
<1>3. CASE Retrieving!AgentFails(a)
  <2>1. Retrieving!Running(a) /\ task' = [task EXCEPT ![a] = "ended"]
        /\ UNCHANGED <<restart, restarts, context_questions, flows, memory_contexts, answers>>
        /\ (UNCHANGED <<stage, final>> \/ (stage' = "failed" /\ final' = Retrieving!StageError))
    BY <1>3 DEF Retrieving!AgentFails, Retrieving!Ends
  <2>2. CASE UNCHANGED <<stage, final>>
    <3>1. Extends(<<>>) /\ Answers(a)
      BY <1>1, <2>1, SameExtends DEF Answers
    <3> QED
      BY <1>2, <1>9, <2>1, <2>2, <3>1, AgentMoves
  <2>3. CASE stage' = "failed" /\ final' = Retrieving!StageError
    <3>1. MemoryOK' /\ StacksOK(rank)'
      BY <1>1, <2>1 DEF MemoryOK, StacksOK
    <3>2. StageOK'
      BY <1>1, <2>1, <2>3 DEF StageOK, Retrieving!ErrorStands
    <3>3. OnceThrough'
      BY <2>3 DEF OnceThrough
    <3> QED
      BY <3>1, <3>2, <3>3 DEF RetrievalInv
  <2> QED
    BY <2>1, <2>2, <2>3
<1>4. CASE Retrieving!RephraseQuestion(a)
  <2>1. Retrieving!Running(a) /\ task' = [task EXCEPT ![a] = "ended"]
        /\ UNCHANGED <<stage, restart, restarts, flows, memory_contexts, answers, final>>
    BY <1>4 DEF Retrieving!RephraseQuestion, Retrieving!Ends
  <2>2. PICK n \in 1..MaxSplit : context_questions' = context_questions + n
    BY <1>4 DEF Retrieving!RephraseQuestion
  <2>3. Extends(<<>>) /\ Answers(a)
    BY <1>1, <2>1, SameExtends DEF Answers
  <2>4. context_questions' \in Nat
    BY <1>2, <2>2
  <2> QED
    BY <1>9, <2>1, <2>3, <2>4, AgentMoves
<1>5. CASE Retrieving!Historical(a) \/ Retrieving!Passthrough(a) \/ Retrieving!Generate(a)
           \/ Retrieving!Related(a) \/ Retrieving!ExternalCall(a)
  <2>1. Retrieving!Running(a) /\ task' = [task EXCEPT ![a] = "ended"] /\ Answers(a)
        /\ UNCHANGED <<stage, restart, restarts, context_questions, flows, memory_contexts, final>>
    BY <1>5 DEF Retrieving!Historical, Retrieving!Passthrough, Retrieving!Generate, Retrieving!Related,
                Retrieving!ExternalCall, Retrieving!Ends, Retrieving!AddAnswer, Answers
  <2>2. Extends(<<>>)
    BY <1>1, <2>1, SameExtends
  <2> QED
    BY <1>2, <1>9, <2>1, <2>2, AgentMoves
<1>6. CASE Retrieving!Summarize(a)
  <2>1. Retrieving!Running(a) /\ (\E x \in {"retrying", "ended"} : task' = [task EXCEPT ![a] = x]) /\ Answers(a)
        /\ UNCHANGED <<stage, restart, restarts, context_questions, flows, memory_contexts, final>>
    BY <1>6 DEF Retrieving!Summarize, Retrieving!Ends, Retrieving!AddAnswer, Answers, Retrieving!Running
  <2>2. Extends(<<>>)
    BY <1>1, <2>1, SameExtends
  <2> QED
    BY <1>2, <1>9, <2>1, <2>2, AgentMoves
<1>7. CASE Retrieving!Restart(a)
  <2>1. Retrieving!Running(a) /\ task' = [task EXCEPT ![a] = "ended"]
        /\ UNCHANGED <<stage, flows, memory_contexts, answers, final>>
        /\ \/ restart' = FALSE /\ UNCHANGED <<restarts, context_questions>>
           \/ restarts < Retries /\ restart' = TRUE /\ restarts' = restarts + 1 /\ context_questions' = context_questions + 1
    BY <1>7 DEF Retrieving!Restart, Retrieving!Ends
  <2>2. Extends(<<>>) /\ Answers(a)
    BY <1>1, <2>1, SameExtends DEF Answers
  <2>3. restart' \in BOOLEAN /\ restarts' \in restarts..Retries /\ (restart' => restarts' > 0) /\ context_questions' \in Nat
    <3>1. CASE restart' = FALSE /\ UNCHANGED <<restarts, context_questions>>
      <4>1. restarts' \in restarts..Retries /\ context_questions' \in Nat
        BY <1>2, <3>1
      <4>2. restart' \in BOOLEAN /\ (restart' => restarts' > 0)
        BY <3>1
      <4> QED
        BY <4>1, <4>2
    <3>2. CASE restarts < Retries /\ restart' = TRUE /\ restarts' = restarts + 1 /\ context_questions' = context_questions + 1
      BY <1>2, <3>2
    <3> QED
      BY <2>1, <3>1, <3>2
  <2> QED
    BY <2>1, <2>2, <2>3, AgentMoves
<1>8. CASE Retrieving!Remi(a)
  <2>1. Retrieving!Running(a) /\ task' = [task EXCEPT ![a] = "ended"] /\ Kind[a] = "remi" /\ Answers(a)
        /\ UNCHANGED <<stage, restart, restarts, context_questions, flows, final>>
        /\ (Retrieving!SaveContext(<<>>, a, <<Retrieving!Raw(TRUE, "unset")>>) \/ UNCHANGED memory_contexts)
    BY <1>8 DEF Retrieving!Remi, Retrieving!Ends, Answers
  <2>2. Extends(<<>>)
    <3>1. Retrieving!Raw(TRUE, "unset") \in Saved
      BY DEF Retrieving!Raw, Saved
    <3>2. <<Retrieving!Raw(TRUE, "unset")>> \in Seq(Saved)
      <4>1. \A x \in Saved : <<x>> \in Seq(Saved)
        OBVIOUS
      <4> QED
        BY <3>1, <4>1
    <3> QED
      BY <1>1, <2>1, <3>2, SameExtends, SaveExtends
  <2> QED
    BY <1>2, <1>9, <2>1, <2>2, AgentMoves
<1> QED
  BY <1>3, <1>4, <1>5, <1>6, <1>7, <1>8 DEF Retrieving!AgentStep

\* The steps of the pipeline.
LEMMA LaunchFits ==
  ASSUME NEW s, StageOK, Retrieving!Launch(s)
  PROVE  task' \in [Retrieving!Staged -> {"idle", "running", "retrying", "ended"}]
BY DEF StageOK, Retrieving!Launch

LEMMA RunContextFits ==
  ASSUME NEW rank, AgentsFormTree(rank), RetrievalInv(rank), Retrieving!RunContext PROVE RetrievalInv(rank)'
<1> DEFINE keys == {restarts} \X Retrieving!Questions \X Context
<1>1. /\ stage = "preprocess" /\ stage' = "context"
      /\ flows' = [f \in keys |-> <<Retrieving!Frame(f[3], FALSE, {})>>]
      /\ UNCHANGED <<restart, restarts, context_questions, task, memory_contexts, answers, final>>
  BY DEF Retrieving!RunContext
<1>2. \A f \in keys : f[3] \in Chain(rank)
  BY DEF AgentsFormTree
<1> HIDE DEF keys
<1>3. ASSUME NEW f \in keys PROVE StackOK(rank, f, <<Retrieving!Frame(f[3], FALSE, {})>>, memory_contexts)
  <2> DEFINE t == Retrieving!Frame(f[3], FALSE, {})
  <2>1. FrameOK(rank, f, t, memory_contexts)
    BY <1>2, PlainCall
  <2>2. t \in Frames(rank)
    BY <2>1 DEF FrameOK
  <2> HIDE DEF t
  <2>3. <<t>> \in Seq(Frames(rank)) /\ Len(<<t>>) = 1 /\ <<t>>[1] = t
    BY <2>2
  <2> QED
    <3>1. \A i \in 1..Len(<<t>>) : <<t>>[i] = t
      BY <2>3
    <3>2. StackOK(rank, f, <<t>>, memory_contexts)
      BY <2>1, <2>3, <3>1 DEF StackOK
    <3> QED
      BY <3>2 DEF t
<1>4. StacksOK(rank)'
  BY <1>1, <1>3 DEF StacksOK, FlowsFit
<1>5. MemoryOK'
  BY <1>1 DEF RetrievalInv, MemoryOK
<1>6. StageOK'
  BY <1>1 DEF RetrievalInv, StageOK, Retrieving!ErrorStands
<1>7. OnceThrough'
  BY <1>1 DEF RetrievalInv, OnceThrough
<1> QED
  BY <1>4, <1>5, <1>6, <1>7 DEF RetrievalInv

LEMMA RunGenerationFits ==
  ASSUME NEW rank, RetrievalInv(rank), Retrieving!RunGeneration PROVE RetrievalInv(rank)'
<1>1. /\ stage = "context" /\ stage' = "generation" /\ \A f \in DOMAIN flows : flows[f] = <<>>
      /\ UNCHANGED <<restart, restarts, context_questions, flows, memory_contexts, answers, final>>
      /\ (Retrieving!Launch("generation") \/ UNCHANGED task)
  BY DEF Retrieving!RunGeneration, Retrieving!ContextGathered
<1>2. MemoryOK' /\ StacksOK(rank)'
  BY <1>1 DEF RetrievalInv, MemoryOK, StacksOK
<1>3. StageOK'
  <2>1. task' \in [Retrieving!Staged -> {"idle", "running", "retrying", "ended"}]
    BY <1>1, LaunchFits DEF RetrievalInv, StageOK
  <2> QED
    BY <1>1, <2>1 DEF RetrievalInv, StageOK, Retrieving!Stages, Retrieving!ErrorStands
<1>4. OnceThrough'
  BY <1>1 DEF RetrievalInv, OnceThrough, Answered
<1> QED
  BY <1>2, <1>3, <1>4 DEF RetrievalInv

LEMMA RunPostprocessFits ==
  ASSUME NEW rank, RetrievalInv(rank), Retrieving!RunPostprocess PROVE RetrievalInv(rank)'
<1>1. /\ stage = "generation" /\ stage' = "postprocess" /\ Retrieving!Launch("postprocess") /\ Retrieving!AddFinalAnswer
      /\ UNCHANGED <<restart, restarts, context_questions, flows, memory_contexts, answers>>
  BY DEF Retrieving!RunPostprocess
<1>2. MemoryOK' /\ StacksOK(rank)'
  BY <1>1 DEF RetrievalInv, MemoryOK, StacksOK
<1>3. StageOK'
  <2>1. task' \in [Retrieving!Staged -> {"idle", "running", "retrying", "ended"}]
    BY <1>1, LaunchFits DEF RetrievalInv
  <2>2. final' \in {Retrieving!NoAnswer, Retrieving!StageError} \cup (1..Len(answers))
    <3>1. answers # <<>> => Len(answers) \in 1..Len(answers)
      BY DEF RetrievalInv, MemoryOK
    <3> QED
      BY <1>1, <3>1 DEF RetrievalInv, StageOK, Retrieving!AddFinalAnswer
  <2> QED
    BY <1>1, <2>1, <2>2 DEF RetrievalInv, StageOK, Retrieving!Stages, Retrieving!ErrorStands
<1>4. OnceThrough'
  BY <1>1 DEF RetrievalInv, OnceThrough, Answered
<1> QED
  BY <1>2, <1>3, <1>4 DEF RetrievalInv

LEMMA EndLoopFits ==
  ASSUME NEW rank, RetrievalInv(rank), Retrieving!EndLoop PROVE RetrievalInv(rank)'
<1>1. /\ stage = "postprocess" /\ restart' = FALSE
      /\ IF restart THEN stage' = "preprocess" /\ Retrieving!Launch("preprocess") ELSE stage' = "done" /\ UNCHANGED task
      /\ UNCHANGED <<restarts, context_questions, flows, memory_contexts, answers, final>>
  BY DEF Retrieving!EndLoop
<1>2. MemoryOK' /\ StacksOK(rank)'
  BY <1>1 DEF RetrievalInv, MemoryOK, StacksOK
<1>3. StageOK'
  <2>1. task' \in [Retrieving!Staged -> {"idle", "running", "retrying", "ended"}]
    BY <1>1, LaunchFits DEF RetrievalInv, StageOK
  <2> QED
    BY <1>1, <2>1 DEF RetrievalInv, StageOK, Retrieving!Stages, Retrieving!ErrorStands
<1>4. OnceThrough'
  <2>1. restart => restarts # 0
    BY DEF RetrievalInv, StageOK
  <2> QED
    BY <1>1, <2>1 DEF RetrievalInv, OnceThrough, Answered
<1> QED
  BY <1>2, <1>3, <1>4 DEF RetrievalInv

LEMMA RetrievalInvHolds ==
  ASSUME RetrievalBounds, NEW rank, AgentsFormTree(rank)
  PROVE  Retrieving!Spec => []RetrievalInv(rank)
<1>1. ASSUME Retrieving!Init PROVE RetrievalInv(rank)
  <2>1. stage = "preprocess" /\ restart = FALSE /\ restarts = 0 /\ context_questions = 0 /\ flows = <<>>
        /\ memory_contexts = <<>> /\ answers = <<>> /\ final = Retrieving!NoAnswer
    BY <1>1 DEF Retrieving!Init
  <2>2. task \in [Retrieving!Staged -> {"running", "idle"}] /\ \A a \in Generation : task[a] = "idle"
    <3>1. task = [a \in Retrieving!Staged |-> IF a \in Preprocess THEN "running" ELSE "idle"]
      BY <1>1 DEF Retrieving!Init
    <3>2. Generation \subseteq Retrieving!Staged /\ \A a \in Generation : a \notin Preprocess
      BY DEF AgentsFormTree, Retrieving!Staged
    <3> QED
      BY <3>1, <3>2
  <2>3. MemoryOK
    <3>1. <<>> \in Seq({}) /\ Len(<<>>) = 0
      OBVIOUS
    <3> QED
      BY <2>1, <3>1 DEF MemoryOK
  <2>4. StageOK
    <3>1. restart \in BOOLEAN /\ (restart => restarts > 0)
      BY <2>1
    <3>2. restarts \in 0..Retries /\ context_questions \in Nat
      BY <2>1 DEF RetrievalBounds
    <3>3. stage \in Retrieving!Stages /\ Retrieving!ErrorStands /\ final = Retrieving!NoAnswer
      BY <2>1 DEF Retrieving!Stages, Retrieving!ErrorStands
    <3>4. task \in [Retrieving!Staged -> {"idle", "running", "retrying", "ended"}]
      BY <2>2
    <3> QED
      BY <3>1, <3>2, <3>3, <3>4 DEF StageOK
  <2>5. OnceThrough
    BY <2>1, <2>2 DEF OnceThrough
  <2>6. StacksOK(rank)
    BY <2>1 DEF StacksOK, FlowsFit
  <2> QED
    BY <2>3, <2>4, <2>5, <2>6 DEF RetrievalInv
<1>2. ASSUME RetrievalInv(rank), [Retrieving!Next]_Retrieving!retrievalVars PROVE RetrievalInv(rank)'
  <2>1. CASE Retrieving!PipelineStep
    BY <1>2, <2>1, RunContextFits, RunGenerationFits, RunPostprocessFits, EndLoopFits DEF Retrieving!PipelineStep
  <2>2. ASSUME NEW f \in DOMAIN flows, Retrieving!FlowStep(f) PROVE RetrievalInv(rank)'
    BY <1>2, <2>2, RephraseFits, RetrieveFits, FlowFailsFits, MakeDecisionFits, BranchFits, ValidateBranchFits,
       AskFallbackFits, AskNextFits DEF Retrieving!FlowStep, RetrievalBounds
  <2>3. ASSUME NEW a \in Retrieving!Staged, Retrieving!AgentStep(a) PROVE RetrievalInv(rank)'
    BY <1>2, <2>3, AgentStepFits
  <2>4. CASE UNCHANGED Retrieving!retrievalVars
    BY <1>2, <2>4 DEF Retrieving!retrievalVars, RetrievalInv, MemoryOK, StageOK, Retrieving!ErrorStands, OnceThrough,
                      Answered, StacksOK
  <2> QED
    BY <1>2, <2>1, <2>2, <2>3, <2>4 DEF Retrieving!Next
<1> QED
  BY <1>1, <1>2, PTL DEF Retrieving!Spec

\* The agents are configured as a tree, whatever its order.
PipelineBounds == RetrievalBounds /\ \E rank : AgentsFormTree(rank)

\* Every context, answer and call of a question has its form, and every count its bound.
THEOREM RetrievalTypes == PipelineBounds => (Retrieving!Spec => []Retrieving!RetrievalTypeOK)
<1> SUFFICES ASSUME RetrievalBounds, NEW rank, AgentsFormTree(rank)
             PROVE  Retrieving!Spec => []Retrieving!RetrievalTypeOK
  BY DEF PipelineBounds
<1>1. RetrievalInv(rank) => Retrieving!RetrievalTypeOK
  <2> SUFFICES ASSUME RetrievalInv(rank) PROVE Retrieving!RetrievalTypeOK
    OBVIOUS
  <2>1. MemoryOK /\ StageOK /\ StacksOK(rank)
    BY DEF RetrievalInv
  <2>2. DOMAIN memory_contexts = 1..Len(memory_contexts) /\ DOMAIN answers = 1..Len(answers)
    BY <2>1 DEF MemoryOK
  <2>3. ASSUME NEW f \in DOMAIN flows, NEW i \in DOMAIN flows[f] PROVE flows[f][i].at \in Retrieving!Ats
    <3>1. StackOK(rank, f, flows[f], memory_contexts)
      BY <2>1 DEF StacksOK, FlowsFit
    <3>2. flows[f][i] \in Frames(rank)
      BY <3>1 DEF StackOK
    <3> QED
      BY <3>2 DEF Frames
  <2>4. \A i \in DOMAIN memory_contexts :
          /\ memory_contexts[i].cites \in {"unset", "empty", "some"}
          /\ memory_contexts[i].chunks \in {"all", "cited", "none"} /\ memory_contexts[i].summary \in BOOLEAN
    BY <2>1, <2>2 DEF MemoryOK, ContextOK
  <2>5. \A i \in DOMAIN answers : answers[i].seen \in 0..Len(memory_contexts)
    BY <2>1, <2>2 DEF MemoryOK, SeenOK
  <2> QED
    BY <2>1, <2>3, <2>4, <2>5 DEF StageOK, Retrieving!RetrievalTypeOK
<1> QED
  BY <1>1, RetrievalInvHolds, PTL

\* The contexts an agent is handed were found for its own question, by agents that
\* were called before it, however the flows of the questions interleave.
THEOREM NextSeesOwn == PipelineBounds => (Retrieving!Spec => []Retrieving!NextSeesOwnFlow)
<1> SUFFICES ASSUME RetrievalBounds, NEW rank, AgentsFormTree(rank)
             PROVE  Retrieving!Spec => []Retrieving!NextSeesOwnFlow
  BY DEF PipelineBounds
<1>1. RetrievalInv(rank) => Retrieving!NextSeesOwnFlow
  <2> SUFFICES ASSUME RetrievalInv(rank), NEW f \in DOMAIN flows, NEW i \in DOMAIN flows[f], NEW k \in flows[f][i].extra
               PROVE  memory_contexts[k].flow = f /\ memory_contexts[k].agent # flows[f][i].agent
    BY DEF Retrieving!NextSeesOwnFlow
  <2>1. StackOK(rank, f, flows[f], memory_contexts)
    BY DEF RetrievalInv, StacksOK, FlowsFit
  <2>2. FrameOK(rank, f, flows[f][i], memory_contexts)
    BY <2>1 DEF StackOK
  <2>3. memory_contexts[k].flow = f /\ rank[memory_contexts[k].agent] < rank[flows[f][i].agent]
        /\ flows[f][i].agent \in DOMAIN rank
    BY <2>2, FrameFields DEF FrameOK, Chain
  <2>4. rank[flows[f][i].agent] \in Nat
    BY <2>3 DEF AgentsFormTree
  <2> QED
    BY <2>3, <2>4
<1> QED
  BY <1>1, RetrievalInvHolds, PTL

\* What a source saves keeps chunks or an answer, whatever the validation of its
\* contexts says and the pruning to their citations removes.
THEOREM SavedHaveContent == PipelineBounds => (Retrieving!Spec => []Retrieving!SavedContextsHaveContent)
<1> SUFFICES ASSUME RetrievalBounds, NEW rank, AgentsFormTree(rank)
             PROVE  Retrieving!Spec => []Retrieving!SavedContextsHaveContent
  BY DEF PipelineBounds
<1>1. RetrievalInv(rank) => Retrieving!SavedContextsHaveContent
  BY DEF RetrievalInv, MemoryOK, ContextOK, HasContent, Retrieving!SavedContextsHaveContent
<1> QED
  BY <1>1, RetrievalInvHolds, PTL

\* A pipeline that was not restarted answers from everything its flows have saved:
\* the generation does not read the memory before the last of them has ended.
THEOREM AnswerSeesAll == PipelineBounds => (Retrieving!Spec => []Retrieving!AnswerSeesEveryContext)
<1> SUFFICES ASSUME RetrievalBounds, NEW rank, AgentsFormTree(rank)
             PROVE  Retrieving!Spec => []Retrieving!AnswerSeesEveryContext
  BY DEF PipelineBounds
<1>1. RetrievalInv(rank) => Retrieving!AnswerSeesEveryContext
  <2> SUFFICES ASSUME RetrievalInv(rank), stage = "done", restarts = 0, final \in DOMAIN answers,
                      answers[final].by \in Generation,
                      NEW i \in DOMAIN memory_contexts, memory_contexts[i].flow # <<>>
               PROVE  i <= answers[final].seen
    BY DEF Retrieving!AnswerSeesEveryContext
  <2>1. DOMAIN memory_contexts = 1..Len(memory_contexts) /\ DOMAIN answers = 1..Len(answers)
    BY DEF RetrievalInv, MemoryOK
  <2> QED
    BY <2>1 DEF RetrievalInv, OnceThrough, Answered
<1> QED
  BY <1>1, RetrievalInvHolds, PTL

\* The error of a stage stays the final answer, whatever its siblings still do.
THEOREM ErrorStays == PipelineBounds => (Retrieving!Spec => []Retrieving!ErrorStands)
<1> SUFFICES ASSUME RetrievalBounds, NEW rank, AgentsFormTree(rank)
             PROVE  Retrieving!Spec => []Retrieving!ErrorStands
  BY DEF PipelineBounds
<1>1. RetrievalInv(rank) => Retrieving!ErrorStands
  BY DEF RetrievalInv, StageOK
<1> QED
  BY <1>1, RetrievalInvHolds, PTL

-----------------------------------------------------------------------------
(* The store that the configuration of a question is loaded from.          *)

CONSTANTS
  Agents, Workflows, Kinds, DriverIds, DriverNames, Fields, Tasks, OneRequest, MaxRequests, MaxRows

VARIABLES
  config, workflow, rows, drivers, prompts, creds, file, todo, got, requests, ids

Storing == INSTANCE AgentStore WITH Sequential <- OneRequest

\* Its tables are finite, and the kinds of a step are those of the source.
StoreBounds ==
  /\ MaxRequests \in Nat \ {0} /\ MaxRows \in Nat
  /\ IsFiniteSet(Agents) /\ IsFiniteSet(Workflows)
  /\ Kinds \subseteq {"preprocess", "context", "generation", "postprocess"}

Vals == 0..MaxRequests
WorkflowEntry == [state : {"none", "active", "deleted", "expired"}, val : Vals]
StepOK(r) == /\ r = [id |-> r.id, a |-> r.a, w |-> r.w, k |-> r.k, val |-> r.val]
             /\ r.k \in Kinds /\ r.val \in Vals
StepsOK(set) == IsFiniteSet(set) /\ \A r \in set : StepOK(r)
DriverOK(d) == /\ d = [id |-> d.id, a |-> d.a, k |-> d.k, n |-> d.n, val |-> d.val]
               /\ d.k \in DriverIds /\ d.n \in DriverNames /\ d.val \in [Fields -> Vals]
DriversOK(set) == IsFiniteSet(set) /\ \A d \in set : DriverOK(d)
PromptOK(p) == p = [id |-> p.id, a |-> p.a, val |-> p.val]
PromptsOK(set) == IsFiniteSet(set) /\ \A p \in set : PromptOK(p)

\* What a request has read, and what an export has written.
QueryOK(q) == /\ q = [steps |-> q.steps, drivers |-> q.drivers, rules |-> q.rules]
              /\ StepsOK(q.steps) /\ DriversOK(q.drivers) /\ q.rules \in Vals
KeptWorkflowOK(wf) == StepsOK(wf.steps) /\ wf.val \in Vals /\ wf.rules \in Vals
FileOK(f) ==
  /\ f = [workflows |-> f.workflows, drivers |-> f.drivers, prompts |-> f.prompts]
  /\ IsFiniteSet(f.workflows) /\ \A wf \in f.workflows : KeptWorkflowOK(wf)
  /\ DriversOK(f.drivers) /\ PromptsOK(f.prompts)
GotOK(g) ==
  /\ g = [set |-> g.set, first |-> g.first, then |-> g.then, read |-> g.read, kept |-> g.kept]
  /\ QueryOK(g.first) /\ g.read \in WorkflowEntry /\ FileOK(g.kept)

\* The statements of a request: none deletes the default workflow.
StatementOK(s) ==
  /\ s.do = "delete_workflow" => s.w # "default"
  /\ s.do = "insert" => s.k \in Kinds /\ s.val \in Vals
  /\ s.do \in {"update", "add_workflow", "set_workflow", "add_agent", "set_rules"} => s.val \in Vals
  /\ s.do = "add_driver" => s.k \in DriverIds /\ s.n \in DriverNames /\ s.val \in [Fields -> Vals]
  /\ s.do = "patch_driver" => s.n \in DriverNames /\ s.val \in Vals
  /\ s.do \in {"get_rules", "select_config", "select_workflow", "workflows_list"} => s.a \in Agents
  /\ s.do = "select_workflow" => s.w \in Storing!AllWorkflows

\* A driver is patched only where it has been read.
Plain(s) == StatementOK(s) /\ s.do # "patch_driver"
PlainProgram(p) == (\E Z : p \in Seq(Z)) /\ \A i \in 1..Len(p) : Plain(p[i])
Patch(s) == StatementOK(s) /\ s.do = "patch_driver"
TaskOK(p, g) ==
  \/ PlainProgram(p)
  \/ \E s, r : p = <<r, s>> /\ r.do = "get_driver" /\ Patch(s)
  \/ \E s : p = <<s>> /\ Patch(s) /\ g.set # {} /\ DriversOK(g.set)

TablesOK ==
  /\ config \in [Agents -> Vals] /\ workflow \in [Agents -> [Storing!AllWorkflows -> WorkflowEntry]]
  /\ StepsOK(rows) /\ \A r \in rows : r.id \in 1..ids
  /\ DriversOK(drivers) /\ PromptsOK(prompts)
  /\ requests \in 1..MaxRequests /\ ids \in 0..MaxRows
ReadOK ==
  /\ got = [t \in Tasks |-> got[t]] /\ \A t \in Tasks : GotOK(got[t])
  /\ FileOK(file)
TodoOK ==
  /\ todo = [t \in Tasks |-> todo[t]]
  /\ \A t \in Tasks : TaskOK(todo[t], got[t])
StoreInv == TablesOK /\ ReadOK /\ TodoOK

\* A program goes on, and is made of others.
LEMMA NothingLeft == PlainProgram(<<>>)
<1>1. <<>> \in Seq({}) /\ Len(<<>>) = 0
  OBVIOUS
<1> QED
  BY <1>1 DEF PlainProgram

LEMMA OneStatement ==
  ASSUME NEW s, Plain(s)
  PROVE  PlainProgram(<<s>>)
<1>1. <<s>> \in Seq({s}) /\ Len(<<s>>) = 1 /\ <<s>>[1] = s
  OBVIOUS
<1>2. \A i \in 1..1 : i = 1
  OBVIOUS
<1> QED
  BY <1>1, <1>2 DEF PlainProgram

LEMMA TwoStatements ==
  ASSUME NEW s, NEW r, Plain(s), Plain(r)
  PROVE  PlainProgram(<<s, r>>)
<1>1. <<s, r>> \in Seq({s, r}) /\ Len(<<s, r>>) = 2 /\ <<s, r>>[1] = s /\ <<s, r>>[2] = r
  OBVIOUS
<1>2. \A i \in 1..2 : i = 1 \/ i = 2
  OBVIOUS
<1> QED
  BY <1>1, <1>2 DEF PlainProgram

LEMMA JoinedPrograms ==
  ASSUME NEW p, NEW q, PlainProgram(p), PlainProgram(q)
  PROVE  PlainProgram(p \o q)
<1>1. PICK P : p \in Seq(P)
  BY DEF PlainProgram
<1>2. PICK Q : q \in Seq(Q)
  BY DEF PlainProgram
<1>3. p \in Seq(P \cup Q) /\ q \in Seq(P \cup Q)
  BY <1>1, <1>2
<1>4. /\ p \o q \in Seq(P \cup Q) /\ Len(p \o q) = Len(p) + Len(q) /\ Len(p) \in Nat /\ Len(q) \in Nat
      /\ \A i \in 1..(Len(p) + Len(q)) : (p \o q)[i] = IF i <= Len(p) THEN p[i] ELSE q[i - Len(p)]
  BY <1>3, ConcatProperties, LenProperties
<1>5. ASSUME NEW i \in 1..Len(p \o q) PROVE Plain((p \o q)[i])
  <2>1. CASE i <= Len(p)
    BY <1>4, <2>1 DEF PlainProgram
  <2>2. CASE ~(i <= Len(p))
    <3>1. i - Len(p) \in 1..Len(q) /\ (p \o q)[i] = q[i - Len(p)]
      BY <1>4, <2>2
    <3> QED
      BY <3>1 DEF PlainProgram
  <2> QED
    BY <2>1, <2>2
<1> QED
  BY <1>4, <1>5 DEF PlainProgram

LEMMA PlainGoesOn ==
  ASSUME NEW p, PlainProgram(p), p # <<>>
  PROVE  /\ PlainProgram(Tail(p)) /\ Plain(Head(p)) /\ Tail(p) # p
<1>1. PICK Z : p \in Seq(Z)
  BY DEF PlainProgram
<1>2. /\ Tail(p) \in Seq(Z) /\ Len(Tail(p)) = Len(p) - 1 /\ Len(p) \in Nat /\ Len(p) # 0
      /\ \A i \in 1..Len(Tail(p)) : Tail(p)[i] = p[i + 1]
      /\ Head(p) = p[1]
  BY <1>1, HeadTailProperties, EmptySeq
<1>3. \A i \in 1..Len(Tail(p)) : i + 1 \in 1..Len(p) /\ Plain(Tail(p)[i])
  BY <1>2 DEF PlainProgram
<1>4. Plain(Head(p))
  BY <1>2 DEF PlainProgram
<1>5. Tail(p) # p
  <2>1. \A n \in Nat : n - 1 # n
    OBVIOUS
  <2> QED
    BY <1>2, <2>1, Zenon
<1> QED
  BY <1>2, <1>3, <1>4, <1>5 DEF PlainProgram

\* A finite set as a sequence.
LEMMA SetAsSequence ==
  ASSUME NEW X, IsFiniteSet(X)
  PROVE  /\ Storing!SetToSeq(X) \in [1..Cardinality(X) -> X] /\ Cardinality(X) \in Nat
         /\ Storing!SetToSeq(X) \in Seq(X) /\ Len(Storing!SetToSeq(X)) = Cardinality(X)
<1>1. Cardinality(X) \in Nat /\ ExistsBijection(1..Cardinality(X), X)
  BY FS_CardinalityType
<1>2. PICK f \in [1..Cardinality(X) -> X] : \A a, b \in DOMAIN f : f[a] = f[b] => a = b
  BY <1>1 DEF ExistsBijection, Bijection, Injection, IsInjective
<1>3. Storing!Cardinality(X) = Cardinality(X)
  BY Zenon DEF Storing!Cardinality, Cardinality
<1>4. Storing!SetToSeq(X) \in [1..Cardinality(X) -> X]
  BY <1>2, <1>3 DEF Storing!SetToSeq, Storing!IsInjective
<1> QED
  BY <1>1, <1>4

\* Programs that are put behind one another.
FlatBy(s, n, f) == f = [i \in 1..n |-> IF i = 1 THEN s[i] ELSE f[i - 1] \o s[i]]
LEMMA FlatExists ==
  ASSUME NEW s, NEW N \in Nat
  PROVE  \E f : FlatBy(s, N, f)
<1> DEFINE T == {n \in Nat : ~ \E f : FlatBy(s, n, f)}
<1> SUFFICES ASSUME T # {}
             PROVE  FALSE
  OBVIOUS
<1>1. PICK n \in T : \A m \in T : n <= m
  BY LeastExists
<1>2. n # 0
  <2> DEFINE f == [k \in 1..0 |-> {}]
  <2>1. f = [i \in 1..0 |-> IF i = 1 THEN s[i] ELSE f[i - 1] \o s[i]]
    OBVIOUS
  <2> QED
    BY <2>1 DEF FlatBy
<1>3. PICK f : FlatBy(s, n - 1, f)
  BY <1>1, <1>2
<1> DEFINE last == f[n - 1] \o s[n]
           h == [k \in 1..n |-> IF k = 1 THEN s[k] ELSE IF k = n THEN last ELSE f[k]]
<1>4. \A k \in 1..n : h[k] = IF k = 1 THEN s[k] ELSE h[k - 1] \o s[k]
  <2> SUFFICES ASSUME NEW k \in 1..n, k # 1
               PROVE  h[k] = h[k - 1] \o s[k]
    OBVIOUS
  <2>1. k - 1 \in 1..(n - 1) /\ h[k - 1] = f[k - 1]
    <3>1. k - 1 \in 1..(n - 1) /\ k - 1 # n
      OBVIOUS
    <3>2. k - 1 = 1 => f[k - 1] = s[k - 1]
      BY <1>3, <3>1 DEF FlatBy
    <3> QED
      BY <3>1, <3>2
  <2>2. CASE k = n
    BY <1>2, <2>1, <2>2
  <2>3. CASE k # n
    <3>1. k \in 1..(n - 1) /\ h[k] = f[k]
      BY <2>3
    <3>2. f[k] = f[k - 1] \o s[k]
      BY <1>3, <3>1 DEF FlatBy
    <3> QED
      BY <2>1, <3>1, <3>2
  <2> QED
    BY <2>2, <2>3
<1>5. FlatBy(s, n, h)
  <2> HIDE DEF last
  <2> QED
    BY <1>4 DEF FlatBy
<1> QED
  BY <1>5

LEMMA FlatProgram ==
  ASSUME NEW s, NEW Z, s \in Seq(Z), \A i \in 1..Len(s) : PlainProgram(s[i])
  PROVE  PlainProgram(Storing!FlattenSeq(s))
<1>1. CASE Len(s) = 0
  <2>1. s = <<>> /\ Storing!FlattenSeq(s) = s
    BY <1>1, EmptySeq DEF Storing!FlattenSeq
  <2> QED
    BY <2>1, NothingLeft
<1>2. CASE Len(s) # 0
  <2> DEFINE f == CHOOSE f : FlatBy(s, Len(s), f)
             Bad == {n \in 1..Len(s) : ~PlainProgram(f[n])}
  <2>1. Len(s) \in Nat /\ Len(s) \in 1..Len(s)
    BY <1>2, LenProperties
  <2>2. Storing!FlattenSeq(s) = f[Len(s)]
    BY <1>2 DEF Storing!FlattenSeq, FlatBy
  <2>3. FlatBy(s, Len(s), f)
    BY <2>1, FlatExists
  <2>4. \A n \in 1..Len(s) : f[n] = IF n = 1 THEN s[n] ELSE f[n - 1] \o s[n]
    BY <2>3 DEF FlatBy
  <2> HIDE DEF f
  <2>5. ASSUME Bad # {} PROVE FALSE
    <3>0. Bad \subseteq Nat
      BY <2>1
    <3>1. PICK n \in Bad : \A m \in Bad : n <= m
      BY <2>5, <3>0, LeastExists
    <3>2. n # 1 => n - 1 \in 1..Len(s) /\ PlainProgram(f[n - 1])
      BY <2>1, <3>1
    <3>3. PlainProgram(s[n])
      BY <3>1
    <3>4. PlainProgram(f[n])
      BY <2>4, <3>1, <3>2, <3>3, JoinedPrograms
    <3> QED
      BY <3>1, <3>4
  <2> QED
    BY <2>1, <2>2, <2>5
<1> QED
  BY <1>1, <1>2

\* What a request for a workflow, a step or an agent executes.
LEMMA EnsuredProgram ==
  ASSUME NEW s, Plain(s)
  PROVE  PlainProgram(Storing!Ensured(s))
<1>1. Plain(Storing!St("ensure", s.a, s.w))
  BY DEF Plain, StatementOK, Storing!St
<1> QED
  BY <1>1, TwoStatements, Zenon DEF Storing!Ensured

LEMMA LoadProgram ==
  ASSUME NEW a \in Agents, NEW w \in Storing!AllWorkflows
  PROVE  PlainProgram(Storing!Load(a, w))
<1>1. Plain(Storing!St("select_config", a, w)) /\ Plain(Storing!St("select_workflow", a, w))
  BY DEF Plain, StatementOK, Storing!St
<1> QED
  BY <1>1, TwoStatements, Zenon DEF Storing!Load

LEMMA NewAgentProgram ==
  ASSUME NEW a, NEW v \in Vals
  PROVE  PlainProgram(Storing!NewAgent(a, v))
<1>1. Plain(Storing!AgentSt("add_agent", a, "", 0, v)) /\ Plain(Storing!WorkflowSt("add_workflow", a, "default", v))
  BY DEF Plain, StatementOK, Storing!AgentSt, Storing!WorkflowSt
<1> QED
  BY <1>1, TwoStatements, Zenon DEF Storing!NewAgent

\* The steps of a workflow, in the order of their kinds, are all of them.
LEMMA DisjointUnion ==
  ASSUME NEW A, NEW B, IsFiniteSet(A), IsFiniteSet(B), A \cap B = {}
  PROVE  IsFiniteSet(A \cup B) /\ Cardinality(A \cup B) = Cardinality(A) + Cardinality(B)
<1>1. Cardinality(A) \in Nat /\ Cardinality(B) \in Nat
  BY FS_CardinalityType
<1>2. Cardinality(A \cup B) = Cardinality(A) + Cardinality(B) - Cardinality({}) /\ IsFiniteSet(A \cup B)
  BY FS_Union
<1> QED
  BY <1>1, <1>2, FS_EmptySet

LEMMA AllSteps ==
  ASSUME StoreBounds, NEW set, StepsOK(set)
  PROVE  /\ Storing!StepsInOrder(set) \in Seq(set) /\ Len(Storing!StepsInOrder(set)) = Cardinality(set)
         /\ \A i \in 1..Cardinality(set) : Storing!StepsInOrder(set)[i] \in set
<1> DEFINE Of(k) == {r \in set : r.k = k}
           s == [i \in DOMAIN Storing!StepKinds |-> Storing!SetToSeq(Of(Storing!StepKinds[i]))]
           f == CHOOSE f : FlatBy(s, 4, f)
           s1 == Storing!SetToSeq(Of("preprocess"))
           s2 == Storing!SetToSeq(Of("context"))
           s3 == Storing!SetToSeq(Of("generation"))
           s4 == Storing!SetToSeq(Of("postprocess"))
<1>1. \A k : IsFiniteSet(Of(k)) /\ Of(k) \subseteq set
  BY FS_Subset DEF StepsOK
<1>2. \A k : Storing!SetToSeq(Of(k)) \in Seq(set) /\ Len(Storing!SetToSeq(Of(k))) = Cardinality(Of(k)) /\ Cardinality(Of(k)) \in Nat
  <2> SUFFICES ASSUME NEW k
               PROVE  Storing!SetToSeq(Of(k)) \in Seq(set) /\ Len(Storing!SetToSeq(Of(k))) = Cardinality(Of(k)) /\ Cardinality(Of(k)) \in Nat
    OBVIOUS
  <2> HIDE DEF Of
  <2>1. Storing!SetToSeq(Of(k)) \in Seq(Of(k)) /\ Len(Storing!SetToSeq(Of(k))) = Cardinality(Of(k)) /\ Cardinality(Of(k)) \in Nat
    BY <1>1, SetAsSequence
  <2> QED
    BY <1>1, <2>1
<1>3. Len(s) = 4 /\ s[1] = s1 /\ s[2] = s2 /\ s[3] = s3 /\ s[4] = s4
  <2>1. DOMAIN Storing!StepKinds = 1..4 /\ Storing!StepKinds[1] = "preprocess" /\ Storing!StepKinds[2] = "context"
        /\ Storing!StepKinds[3] = "generation" /\ Storing!StepKinds[4] = "postprocess"
    BY DEF Storing!StepKinds
  <2>2. DOMAIN s = 1..4 /\ \A i \in 1..4 : s[i] = Storing!SetToSeq(Of(Storing!StepKinds[i]))
    BY <2>1
  <2> HIDE DEF Of, s
  <2>3. Len(s) = 4
    BY <2>2
  <2> QED
    BY <2>1, <2>2, <2>3
<1>4. Storing!StepsInOrder(set) = f[4]
  <2> HIDE DEF s
  <2>1. Storing!FlattenSeq(s) = f[4]
    BY <1>3 DEF Storing!FlattenSeq, FlatBy
  <2> QED
    BY <2>1, Zenon DEF Storing!StepsInOrder, s
<1>5. \A i \in 1..4 : f[i] = IF i = 1 THEN s[i] ELSE f[i - 1] \o s[i]
  <2> HIDE DEF s
  <2>1. FlatBy(s, 4, f)
    BY FlatExists
  <2> QED
    BY <2>1 DEF FlatBy
<1> HIDE DEF f, s
<1>6. f[4] = ((s1 \o s2) \o s3) \o s4
  <2> HIDE DEF Of, s1, s2, s3, s4
  <2>1. f[1] = s1
    BY <1>3, <1>5
  <2>2. f[2] = f[1] \o s2
    BY <1>3, <1>5
  <2>3. f[3] = f[2] \o s3
    BY <1>3, <1>5
  <2>4. f[4] = f[3] \o s4
    BY <1>3, <1>5
  <2> QED
    BY <2>1, <2>2, <2>3, <2>4, Zenon
<1>7. Storing!StepsInOrder(set) \in Seq(set)
      /\ Len(Storing!StepsInOrder(set)) = Cardinality(Of("preprocess")) + Cardinality(Of("context"))
                                         + Cardinality(Of("generation")) + Cardinality(Of("postprocess"))
  <2> HIDE DEF Of
  <2>1. s1 \in Seq(set) /\ s2 \in Seq(set) /\ s3 \in Seq(set) /\ s4 \in Seq(set)
    BY <1>2
  <2>2. Len(s1) = Cardinality(Of("preprocess")) /\ Len(s2) = Cardinality(Of("context"))
        /\ Len(s3) = Cardinality(Of("generation")) /\ Len(s4) = Cardinality(Of("postprocess"))
    BY <1>2
  <2> HIDE DEF s1, s2, s3, s4
  <2>3. s1 \o s2 \in Seq(set) /\ Len(s1 \o s2) = Len(s1) + Len(s2)
    BY <2>1
  <2>4. (s1 \o s2) \o s3 \in Seq(set) /\ Len((s1 \o s2) \o s3) = Len(s1) + Len(s2) + Len(s3)
    BY <2>1, <2>3
  <2>5. ((s1 \o s2) \o s3) \o s4 \in Seq(set) /\ Len(((s1 \o s2) \o s3) \o s4) = Len(s1) + Len(s2) + Len(s3) + Len(s4)
    BY <2>1, <2>4
  <2> QED
    BY <1>4, <1>6, <2>2, <2>5
<1>8. Cardinality(set) = Cardinality(Of("preprocess")) + Cardinality(Of("context"))
                         + Cardinality(Of("generation")) + Cardinality(Of("postprocess"))
  <2>1. set = ((Of("preprocess") \cup Of("context")) \cup Of("generation")) \cup Of("postprocess")
    BY DEF StepsOK, StepOK, StoreBounds
  <2>2. /\ Of("preprocess") \cap Of("context") = {}
        /\ (Of("preprocess") \cup Of("context")) \cap Of("generation") = {}
        /\ ((Of("preprocess") \cup Of("context")) \cup Of("generation")) \cap Of("postprocess") = {}
    OBVIOUS
  <2> HIDE DEF Of
  <2>3. IsFiniteSet(Of("preprocess") \cup Of("context"))
        /\ Cardinality(Of("preprocess") \cup Of("context")) = Cardinality(Of("preprocess")) + Cardinality(Of("context"))
    BY <1>1, <2>2, DisjointUnion
  <2>4. IsFiniteSet((Of("preprocess") \cup Of("context")) \cup Of("generation"))
        /\ Cardinality((Of("preprocess") \cup Of("context")) \cup Of("generation"))
             = Cardinality(Of("preprocess") \cup Of("context")) + Cardinality(Of("generation"))
    BY <1>1, <2>2, <2>3, DisjointUnion
  <2>5. Cardinality(((Of("preprocess") \cup Of("context")) \cup Of("generation")) \cup Of("postprocess"))
             = Cardinality((Of("preprocess") \cup Of("context")) \cup Of("generation")) + Cardinality(Of("postprocess"))
    BY <1>1, <2>2, <2>4, DisjointUnion
  <2> QED
    BY <2>1, <2>3, <2>4, <2>5, Zenon
<1>9. \A i \in 1..Cardinality(set) : Storing!StepsInOrder(set)[i] \in set
  BY <1>7, <1>8
<1> QED
  BY <1>7, <1>8, <1>9

\* What a task executes is done a statement after another, and is given up.
LEMMA TaskGoesOn ==
  ASSUME NEW p, NEW g, NEW h, TaskOK(p, g), p # <<>>,
         Head(p).do = "get_driver" => h.set # {} /\ DriversOK(h.set)
  PROVE  TaskOK(Tail(p), h) /\ StatementOK(Head(p)) /\ Tail(p) # p
<1>1. CASE PlainProgram(p)
  BY <1>1, PlainGoesOn DEF TaskOK, Plain
<1>2. ASSUME NEW s, NEW r, p = <<r, s>>, r.do = "get_driver", Patch(s)
      PROVE  TaskOK(Tail(p), h) /\ StatementOK(Head(p)) /\ Tail(p) # p
  <2>1. Tail(p) = <<s>> /\ Head(p) = r /\ Len(p) = 2 /\ Len(<<s>>) = 1
    BY <1>2
  <2> QED
    BY <1>2, <2>1 DEF TaskOK, StatementOK
<1>3. ASSUME NEW s, p = <<s>>, Patch(s)
      PROVE  TaskOK(Tail(p), h) /\ StatementOK(Head(p)) /\ Tail(p) # p
  <2>1. Tail(p) = <<>> /\ Head(p) = s
    BY <1>3
  <2> QED
    BY <1>3, <2>1, NothingLeft DEF TaskOK, Patch
<1> QED
  BY <1>1, <1>2, <1>3 DEF TaskOK

\* One that has read no driver is plain.
LEMMA TaskIsPlain ==
  ASSUME NEW p, NEW g, TaskOK(p, g), p # <<>>, Head(p).do \notin {"get_driver", "patch_driver"}
  PROVE  PlainProgram(p)
<1>1. ASSUME NEW s, NEW r, p = <<r, s>> PROVE Head(p) = r
  BY <1>1
<1>2. ASSUME NEW s, p = <<s>> PROVE Head(p) = s
  BY <1>2
<1> QED
  BY <1>1, <1>2 DEF TaskOK, Patch

\* An import writes what it has read of the file.
LEMMA ImportedWorkflow ==
  ASSUME StoreBounds, NEW a, NEW wf, KeptWorkflowOK(wf)
  PROVE  PlainProgram(Storing!ImportWorkflow(a, wf))
<1> DEFINE first == IF wf.w = "default" THEN Storing!Ensured(Storing!WorkflowSt("set_workflow", a, "default", wf.val))
                    ELSE <<Storing!WorkflowSt("add_workflow", a, wf.w, wf.val)>>
           rest == [i \in 1..Cardinality(wf.steps) |->
                      LET r == Storing!StepsInOrder(wf.steps)[i]
                      IN  Storing!Ensured(Storing!StepSt("insert", a, wf.w, r.k, 0, r.val))]
<1>1. PlainProgram(first)
  <2>1. \A do \in {"set_workflow", "add_workflow"} : \A w : Plain(Storing!WorkflowSt(do, a, w, wf.val))
    BY DEF Plain, StatementOK, Storing!WorkflowSt, KeptWorkflowOK
  <2> QED
    BY <2>1, EnsuredProgram, OneStatement
<1>2. IsFiniteSet(wf.steps) /\ StepsOK(wf.steps)
  BY DEF KeptWorkflowOK, StepsOK
<1>3. Cardinality(wf.steps) \in Nat
  BY <1>2, FS_CardinalityType
<1>4. ASSUME NEW i \in 1..Cardinality(wf.steps) PROVE PlainProgram(rest[i])
  <2> DEFINE r == Storing!StepsInOrder(wf.steps)[i]
  <2>1. r \in wf.steps
    BY <1>2, AllSteps
  <2>2. r.k \in Kinds /\ r.val \in Vals
    BY <1>2, <2>1 DEF StepsOK, StepOK
  <2> HIDE DEF r
  <2>3. Plain(Storing!StepSt("insert", a, wf.w, r.k, 0, r.val))
    BY <2>2 DEF Plain, StatementOK, Storing!StepSt
  <2>4. PlainProgram(Storing!Ensured(Storing!StepSt("insert", a, wf.w, r.k, 0, r.val)))
    BY <2>3, EnsuredProgram
  <2> QED
    BY <2>4 DEF r
<1>5. rest \in Seq({rest[i] : i \in 1..Cardinality(wf.steps)}) /\ Len(rest) = Cardinality(wf.steps)
  BY <1>3
<1>6. Storing!ImportWorkflow(a, wf) = first \o Storing!FlattenSeq(rest)
  <2>1. Storing!Cardinality(wf.steps) = Cardinality(wf.steps)
    BY Zenon DEF Storing!Cardinality, Cardinality
  <2> QED
    BY <2>1, Zenon DEF Storing!ImportWorkflow
<1> HIDE DEF first, rest
<1>7. PlainProgram(Storing!FlattenSeq(rest))
  BY <1>4, <1>5, FlatProgram
<1> QED
  BY <1>1, <1>6, <1>7, JoinedPrograms

\* A program that has a statement for each number, and one of programs.
LEMMA NumberedProgram ==
  ASSUME NEW n \in Nat, NEW p, p = [i \in 1..n |-> p[i]], \A i \in 1..n : Plain(p[i])
  PROVE  PlainProgram(p)
<1>1. p \in Seq({p[i] : i \in 1..n}) /\ Len(p) = n
  OBVIOUS
<1> QED
  BY <1>1 DEF PlainProgram

LEMMA NumberedPrograms ==
  ASSUME NEW n \in Nat, NEW p, p = [i \in 1..n |-> p[i]], \A i \in 1..n : PlainProgram(p[i])
  PROVE  PlainProgram(Storing!FlattenSeq(p))
<1>1. p \in Seq({p[i] : i \in 1..n}) /\ Len(p) = n
  OBVIOUS
<1> QED
  BY <1>1, FlatProgram

\* The drivers of an import are some of the file's.
LEMMA NamedDrivers ==
  ASSUME NEW set, DriversOK(set)
  PROVE  DriversOK(Storing!ByName(set))
<1>1. Storing!ByName(set) \subseteq set
  BY DEF Storing!ByName
<1> HIDE DEF Storing!ByName
<1> QED
  BY <1>1, FS_Subset DEF DriversOK

LEMMA ImportProgram ==
  ASSUME StoreBounds, FileOK(file), NEW a
  PROVE  PlainProgram(Storing!ImportAll(a))
<1> DEFINE wfs == Storing!SetToSeq(file.workflows)
           ds == Storing!SetToSeq(Storing!ByName(file.drivers))
           ps == Storing!SetToSeq(file.prompts)
           A == [i \in DOMAIN wfs |-> Storing!ImportWorkflow(a, wfs[i])]
           B == IF wfs = <<>> THEN <<>> ELSE <<Storing!AgentSt("set_rules", a, "", 0, wfs[Len(wfs)].rules)>>
           C == [i \in DOMAIN ds |-> [do |-> "add_driver", a |-> a, k |-> ds[i].k, n |-> ds[i].n, val |-> ds[i].val]]
           D == [i \in DOMAIN ps |-> Storing!AgentSt("add_prompt", a, "", 0, ps[i].val)]
           E == <<Storing!St("imported", a, "default")>>
<1>1. Storing!ImportAll(a) = (Storing!FlattenSeq(A) \o B) \o (C \o (D \o E))
  BY Zenon DEF Storing!ImportAll
<1>2. PlainProgram(Storing!FlattenSeq(A)) /\ PlainProgram(B)
  <2>1. /\ DOMAIN wfs = 1..Cardinality(file.workflows) /\ Len(wfs) = Cardinality(file.workflows)
        /\ Cardinality(file.workflows) \in Nat /\ wfs \in Seq(file.workflows)
        /\ \A i \in 1..Cardinality(file.workflows) : wfs[i] \in file.workflows
    BY SetAsSequence DEF FileOK
  <2> HIDE DEF wfs
  <2>2. \A i \in 1..Cardinality(file.workflows) : KeptWorkflowOK(wfs[i])
    BY <2>1 DEF FileOK
  <2>3. PlainProgram(Storing!FlattenSeq(A))
    <3>1. \A i \in 1..Cardinality(file.workflows) : A[i] = Storing!ImportWorkflow(a, wfs[i])
      BY <2>1
    <3>2. A = [i \in 1..Cardinality(file.workflows) |-> A[i]]
      BY <2>1
    <3> HIDE DEF A
    <3>3. \A i \in 1..Cardinality(file.workflows) : PlainProgram(A[i])
      BY <2>2, <3>1, ImportedWorkflow
    <3> QED
      BY <2>1, <3>2, <3>3, NumberedPrograms
  <2>4. PlainProgram(B)
    <3>1. CASE wfs = <<>>
      BY <3>1, NothingLeft
    <3>2. CASE wfs # <<>>
      <4>1. wfs[Len(wfs)].rules \in Vals
        BY <2>1, <2>2, <3>2, EmptySeq DEF KeptWorkflowOK
      <4>2. Plain(Storing!AgentSt("set_rules", a, "", 0, wfs[Len(wfs)].rules))
        BY <4>1 DEF Plain, StatementOK, Storing!AgentSt
      <4> QED
        BY <3>2, <4>2, OneStatement
    <3> QED
      BY <3>1, <3>2
  <2> QED
    BY <2>3, <2>4
<1>3. PlainProgram(C)
  <2> DEFINE n == Cardinality(Storing!ByName(file.drivers))
  <2>0. DriversOK(Storing!ByName(file.drivers))
    BY NamedDrivers DEF FileOK
  <2>1. DOMAIN ds = 1..n /\ n \in Nat /\ \A i \in 1..n : ds[i] \in Storing!ByName(file.drivers)
    BY <2>0, SetAsSequence DEF DriversOK
  <2> HIDE DEF ds, n
  <2>2. \A i \in 1..n : DriverOK(ds[i])
    BY <2>0, <2>1 DEF DriversOK
  <2>3. \A i \in 1..n : C[i] = [do |-> "add_driver", a |-> a, k |-> ds[i].k, n |-> ds[i].n, val |-> ds[i].val]
    BY <2>1
  <2>4. C = [i \in 1..n |-> C[i]]
    BY <2>1
  <2> HIDE DEF C
  <2>5. \A k \in DriverIds : \A m \in DriverNames : \A v \in [Fields -> Vals] :
          Plain([do |-> "add_driver", a |-> a, k |-> k, n |-> m, val |-> v])
    BY DEF Plain, StatementOK
  <2>6. \A i \in 1..n : Plain(C[i])
    BY <2>2, <2>3, <2>5 DEF DriverOK
  <2> QED
    BY <2>1, <2>4, <2>6, NumberedProgram
<1>4. PlainProgram(D)
  <2> DEFINE n == Cardinality(file.prompts)
  <2>1. DOMAIN ps = 1..n /\ n \in Nat
    BY SetAsSequence DEF FileOK, PromptsOK
  <2> HIDE DEF ps, n
  <2>2. \A i \in 1..n : D[i] = Storing!AgentSt("add_prompt", a, "", 0, ps[i].val)
    BY <2>1
  <2>3. D = [i \in 1..n |-> D[i]]
    BY <2>1
  <2> HIDE DEF D
  <2>4. \A v : Plain(Storing!AgentSt("add_prompt", a, "", 0, v))
    BY DEF Plain, StatementOK, Storing!AgentSt
  <2>5. \A i \in 1..n : Plain(D[i])
    BY <2>2, <2>4
  <2> QED
    BY <2>1, <2>3, <2>5, NumberedProgram
<1>5. PlainProgram(E)
  <2>1. Plain(Storing!St("imported", a, "default"))
    BY DEF Plain, StatementOK, Storing!St
  <2> QED
    BY <2>1, OneStatement
<1> HIDE DEF A, B, C, D, E
<1> QED
  BY <1>1, <1>2, <1>3, <1>4, <1>5, JoinedPrograms

\* One task goes on, with what it has read.
LEMMA TaskMoves ==
  ASSUME TodoOK, NEW t \in Tasks, NEW p, todo' = [todo EXCEPT ![t] = p],
         \A u \in Tasks \ {t} : got'[u] = got[u], TaskOK(p, got'[t])
  PROVE  TodoOK' /\ todo'[t] = p
<1>1. todo' = [u \in Tasks |-> IF u = t THEN p ELSE todo[u]]
  BY DEF TodoOK
<1>2. \A u \in Tasks : todo'[u] = IF u = t THEN p ELSE todo[u]
  BY <1>1
<1>3. \A u \in Tasks : TaskOK(todo'[u], got'[u])
  BY <1>2 DEF TodoOK
<1>4. todo' = [u \in Tasks |-> todo'[u]]
  BY <1>1
<1> QED
  BY <1>2, <1>3, <1>4 DEF TodoOK

LEMMA TaskSteps ==
  ASSUME TodoOK, NEW t \in Tasks, todo[t] # <<>>, \A u \in Tasks \ {t} : got'[u] = got[u],
         \/ Storing!Abort(t)
         \/ Storing!Done(t) /\ (Head(todo[t]).do = "get_driver" => got'[t].set # {} /\ DriversOK(got'[t].set))
  PROVE  TodoOK' /\ todo'[t] # todo[t]
<1>1. CASE Storing!Abort(t)
  BY <1>1, TaskMoves, NothingLeft DEF Storing!Abort, TaskOK
<1>2. CASE Storing!Done(t) /\ (Head(todo[t]).do = "get_driver" => got'[t].set # {} /\ DriversOK(got'[t].set))
  <2>1. todo' = [todo EXCEPT ![t] = Tail(todo[t])]
    BY <1>2 DEF Storing!Done
  <2>2. TaskOK(Tail(todo[t]), got'[t]) /\ Tail(todo[t]) # todo[t]
    BY <1>2, TaskGoesOn DEF TodoOK
  <2> QED
    BY <2>1, <2>2, TaskMoves
<1> QED
  BY <1>1, <1>2

\* What one task has read changes.
LEMMA ReadMoves ==
  ASSUME ReadOK, NEW t \in Tasks, NEW g, got' = [got EXCEPT ![t] = g], GotOK(g), file' = file
  PROVE  ReadOK' /\ got'[t] = g /\ \A u \in Tasks \ {t} : got'[u] = got[u]
<1>1. got' = [u \in Tasks |-> IF u = t THEN g ELSE got[u]]
  BY DEF ReadOK
<1>2. \A u \in Tasks : got'[u] = IF u = t THEN g ELSE got[u]
  BY <1>1
<1>3. got' = [u \in Tasks |-> got'[u]]
  BY <1>1
<1> QED
  BY <1>2, <1>3 DEF ReadOK

LEMMA ReadsSet ==
  ASSUME ReadOK, NEW t \in Tasks, NEW set, got' = [got EXCEPT ![t].set = set], file' = file
  PROVE  ReadOK' /\ got'[t].set = set /\ \A u \in Tasks \ {t} : got'[u] = got[u]
<1> DEFINE g == [got[t] EXCEPT !.set = set]
<1>1. got' = [got EXCEPT ![t] = g]
  BY DEF ReadOK
<1>2. GotOK(got[t])
  BY DEF ReadOK
<1>3. g = [set |-> set, first |-> got[t].first, then |-> got[t].then, read |-> got[t].read, kept |-> got[t].kept]
  BY <1>2 DEF GotOK
<1> HIDE DEF g
<1>4. GotOK(g) /\ g.set = set
  BY <1>2, <1>3 DEF GotOK
<1> QED
  BY <1>1, <1>4, ReadMoves

\* The default workflow of an agent that stays, stays.
DefaultKept ==
  \A a \in Agents :
    workflow[a]["default"].state = "active" /\ config'[a] # Storing!Nothing => workflow'[a]["default"].state = "active"

LEMMA FiniteImage ==
  ASSUME NEW X, IsFiniteSet(X), NEW f
  PROVE  IsFiniteSet({f[x] : x \in X})
<1> DEFINE g == [x \in X |-> f[x]]
<1>1. g \in Surjection(X, {f[x] : x \in X})
  BY DEF Surjection
<1> QED
  BY <1>1, FS_Surjection

LEMMA TablesStay ==
  ASSUME TablesOK, UNCHANGED <<config, workflow, rows, drivers, prompts, ids, requests>>
  PROVE  TablesOK' /\ DefaultKept
BY DEF TablesOK, DefaultKept

LEMMA RowsMove ==
  ASSUME TablesOK, NEW set, StepsOK(set), rows' = set, NEW n \in 0..MaxRows, ids' = n, \A r \in set : r.id \in 1..n,
         UNCHANGED <<config, workflow, drivers, prompts, requests>>
  PROVE  TablesOK' /\ DefaultKept
BY DEF TablesOK, DefaultKept

\* A statement about the steps of a workflow.
LEMMA StepInserted ==
  ASSUME StoreBounds, TablesOK, NEW t \in Tasks, StatementOK(Head(todo[t])), Storing!InsertStep(t)
  PROVE  TablesOK' /\ DefaultKept
<1> DEFINE s == Head(todo[t])
           r == [id |-> ids + 1, a |-> s.a, w |-> s.w, k |-> s.k, val |-> s.val]
<1>1. s.do = "insert" /\ ids < MaxRows /\ ids \in 0..MaxRows /\ MaxRows \in Nat
  BY DEF Storing!InsertStep, Storing!Run, TablesOK, StoreBounds
<1>2. StepsOK(rows) /\ \A q \in rows : q.id \in 1..ids
  BY DEF TablesOK
<1>3. UNCHANGED <<config, workflow, drivers, prompts, requests>>
  BY DEF Storing!InsertStep, Storing!Keep
<1>4. (rows' = rows /\ ids' = ids) \/ (rows' = rows \cup {r} /\ ids' = ids + 1)
  BY DEF Storing!InsertStep, Storing!S
<1>5. StepOK(r)
  <2>1. s.k \in Kinds /\ s.val \in Vals
    BY <1>1 DEF StatementOK
  <2> HIDE DEF s
  <2> QED
    BY <2>1 DEF StepOK
<1>6. r.id = ids + 1
  OBVIOUS
<1> HIDE DEF r
<1>7. StepsOK(rows \cup {r}) /\ \A q \in rows \cup {r} : q.id \in 1..(ids + 1)
  <2>1. IsFiniteSet(rows \cup {r})
    BY <1>2, FS_AddElement DEF StepsOK
  <2>2. \A q \in rows : q.id \in 1..(ids + 1)
    BY <1>1, <1>2
  <2>3. r.id \in 1..(ids + 1)
    BY <1>1, <1>6
  <2> QED
    BY <1>2, <1>5, <2>1, <2>2, <2>3 DEF StepsOK
<1>8. ids + 1 \in 0..MaxRows
  BY <1>1
<1>9. CASE rows' = rows /\ ids' = ids
  BY <1>3, <1>9, TablesStay
<1>10. CASE rows' = rows \cup {r} /\ ids' = ids + 1
  BY <1>3, <1>7, <1>8, <1>10, RowsMove
<1> QED
  BY <1>4, <1>9, <1>10

LEMMA StepUpdated ==
  ASSUME StoreBounds, TablesOK, NEW t \in Tasks, StatementOK(Head(todo[t])), Storing!UpdateStep(t)
  PROVE  TablesOK' /\ DefaultKept
<1> DEFINE s == Head(todo[t])
           M == Storing!Matches(s)
           f == [r \in M |-> [r EXCEPT !.val = s.val]]
<1>1. s.do = "update" /\ ids \in 0..MaxRows
  BY DEF Storing!UpdateStep, Storing!Run, TablesOK
<1>2. StepsOK(rows) /\ \A q \in rows : q.id \in 1..ids
  BY DEF TablesOK
<1>3. UNCHANGED <<config, workflow, drivers, prompts, ids, requests>>
  BY DEF Storing!UpdateStep, Storing!Keep
<1>4. rows' = (rows \ M) \cup {f[r] : r \in M}
  BY DEF Storing!UpdateStep, Storing!S
<1>5. M \subseteq rows
  BY DEF Storing!Matches
<1>6. s.val \in Vals
  BY <1>1 DEF StatementOK
<1> HIDE DEF M, s
<1>7. ASSUME NEW r \in M PROVE StepOK(f[r]) /\ f[r].id \in 1..ids
  <2>1. StepOK(r) /\ r.id \in 1..ids
    BY <1>2, <1>5 DEF StepsOK
  <2>2. f[r] = [id |-> r.id, a |-> r.a, w |-> r.w, k |-> r.k, val |-> s.val]
    BY <2>1 DEF StepOK
  <2> HIDE DEF f
  <2> QED
    BY <1>6, <2>1, <2>2 DEF StepOK
<1>8. IsFiniteSet((rows \ M) \cup {f[r] : r \in M})
  <2>1. IsFiniteSet(rows \ M) /\ IsFiniteSet(M)
    BY <1>2, <1>5, FS_Subset DEF StepsOK
  <2> HIDE DEF f
  <2>2. IsFiniteSet({f[r] : r \in M})
    BY <2>1, FiniteImage
  <2> QED
    BY <2>1, <2>2, FS_Union
<1> HIDE DEF f
<1>9. StepsOK((rows \ M) \cup {f[r] : r \in M}) /\ \A q \in (rows \ M) \cup {f[r] : r \in M} : q.id \in 1..ids
  BY <1>2, <1>7, <1>8 DEF StepsOK
<1> QED
  BY <1>1, <1>3, <1>4, <1>9, RowsMove

LEMMA StepDeleted ==
  ASSUME StoreBounds, TablesOK, NEW t \in Tasks, Storing!DeleteStep(t)
  PROVE  TablesOK' /\ DefaultKept
<1> DEFINE M == Storing!Matches(Head(todo[t]))
<1>1. rows' = rows \ M /\ UNCHANGED <<config, workflow, drivers, prompts, ids, requests>>
  BY DEF Storing!DeleteStep, Storing!Keep, Storing!S
<1> HIDE DEF M
<1>2. StepsOK(rows \ M) /\ (\A q \in rows \ M : q.id \in 1..ids) /\ ids \in 0..MaxRows
  BY FS_Subset DEF StepsOK, TablesOK
<1> QED
  BY <1>1, <1>2, RowsMove

\* A statement about a workflow.
LEMMA WorkflowMoves ==
  ASSUME TablesOK, NEW a, NEW w, NEW e, workflow' = [workflow EXCEPT ![a][w] = e],
         a \in Agents /\ w \in Storing!AllWorkflows => e \in WorkflowEntry,
         a \in Agents /\ w = "default" /\ workflow[a][w].state = "active" => e.state = "active",
         UNCHANGED <<config, rows, drivers, prompts, ids, requests>>
  PROVE  TablesOK' /\ DefaultKept
<1>1. workflow \in [Agents -> [Storing!AllWorkflows -> WorkflowEntry]] /\ "default" \in Storing!AllWorkflows
  BY DEF TablesOK, Storing!AllWorkflows
<1>2. ASSUME NEW b \in Agents
      PROVE  /\ workflow'[b] \in [Storing!AllWorkflows -> WorkflowEntry]
             /\ workflow[b]["default"].state = "active" => workflow'[b]["default"].state = "active"
  <2>1. CASE b # a
    <3>1. workflow'[b] = workflow[b]
      BY <1>1, <2>1
    <3> QED
      BY <1>1, <3>1
  <2>2. CASE b = a
    <3>1. workflow'[b] = [workflow[b] EXCEPT ![w] = e] /\ workflow[b] \in [Storing!AllWorkflows -> WorkflowEntry]
      BY <1>1, <2>2
    <3>2. \A v \in Storing!AllWorkflows : workflow'[b][v] = IF v = w THEN e ELSE workflow[b][v]
      BY <3>1
    <3>3. workflow'[b] \in [Storing!AllWorkflows -> WorkflowEntry]
      BY <2>2, <3>1, ZenonT(60)
    <3> QED
      BY <1>1, <2>2, <3>2, <3>3
  <2> QED
    BY <2>1, <2>2
<1>3. workflow' = [b \in Agents |-> workflow'[b]]
  BY <1>1
<1>4. workflow' \in [Agents -> [Storing!AllWorkflows -> WorkflowEntry]]
  BY <1>2, <1>3
<1> QED
  BY <1>2, <1>4 DEF TablesOK, DefaultKept

LEMMA EntryFields ==
  ASSUME NEW e \in WorkflowEntry
  PROVE  /\ e.state \in {"none", "active", "deleted", "expired"} /\ e.val \in Vals
         /\ \A v \in Vals : [e EXCEPT !.val = v] \in WorkflowEntry /\ [e EXCEPT !.val = v].state = e.state
         /\ \A s \in {"none", "active", "deleted", "expired"} : [e EXCEPT !.state = s] \in WorkflowEntry /\ [e EXCEPT !.state = s].state = s
BY DEF WorkflowEntry

LEMMA WorkflowAdded ==
  ASSUME StoreBounds, TablesOK, NEW t \in Tasks, StatementOK(Head(todo[t])), Storing!AddWorkflow(t)
  PROVE  TablesOK' /\ DefaultKept
<1> DEFINE s == Head(todo[t])
           e == [state |-> "active", val |-> s.val]
<1>1. s.do = "add_workflow" /\ UNCHANGED <<config, rows, drivers, prompts, ids, requests>>
      /\ (UNCHANGED workflow \/ workflow' = [workflow EXCEPT ![s.a][s.w] = e])
  BY DEF Storing!AddWorkflow, Storing!Run, Storing!Keep, Storing!S
<1>2. s.val \in Vals
  BY <1>1 DEF StatementOK
<1> HIDE DEF s
<1>3. e \in WorkflowEntry /\ e.state = "active"
  BY <1>2 DEF WorkflowEntry
<1> HIDE DEF e
<1>4. CASE UNCHANGED workflow
  BY <1>1, <1>4, TablesStay
<1>5. CASE workflow' = [workflow EXCEPT ![s.a][s.w] = e]
  BY <1>1, <1>3, <1>5, WorkflowMoves
<1> QED
  BY <1>1, <1>4, <1>5

LEMMA WorkflowUpdated ==
  ASSUME StoreBounds, TablesOK, NEW t \in Tasks, StatementOK(Head(todo[t])), Storing!UpdateWorkflow(t)
  PROVE  TablesOK' /\ DefaultKept
<1> DEFINE s == Head(todo[t])
           o == workflow[s.a][s.w]
           e == IF o.state = "active" THEN [o EXCEPT !.val = s.val] ELSE o
<1>1. s.do = "set_workflow" /\ UNCHANGED <<config, rows, drivers, prompts, ids, requests>>
      /\ workflow' = [workflow EXCEPT ![s.a][s.w] = e]
  BY DEF Storing!UpdateWorkflow, Storing!Run, Storing!Keep, Storing!S
<1>2. s.val \in Vals
  BY <1>1 DEF StatementOK
<1> HIDE DEF s
<1>3. ASSUME s.a \in Agents, s.w \in Storing!AllWorkflows PROVE e \in WorkflowEntry /\ e.state = o.state
  <2>1. o \in WorkflowEntry
    BY <1>3 DEF TablesOK
  <2> HIDE DEF o
  <2> QED
    <3>1. [o EXCEPT !.val = s.val] \in WorkflowEntry /\ [o EXCEPT !.val = s.val].state = o.state
      BY <1>2, <2>1, EntryFields
    <3> QED
      BY <2>1, <3>1, Zenon
<1>4. "default" \in Storing!AllWorkflows
  BY DEF Storing!AllWorkflows
<1> HIDE DEF e
<1> QED
  BY <1>1, <1>3, <1>4, WorkflowMoves

LEMMA WorkflowDeleted ==
  ASSUME StoreBounds, TablesOK, NEW t \in Tasks, StatementOK(Head(todo[t])), Storing!SoftDelete(t)
  PROVE  TablesOK' /\ DefaultKept
<1> DEFINE s == Head(todo[t])
           o == workflow[s.a][s.w]
           e == [o EXCEPT !.state = IF o.state = "active" THEN "deleted" ELSE o.state]
<1>1. s.do = "delete_workflow" /\ UNCHANGED <<config, rows, drivers, prompts, ids, requests>>
      /\ workflow' = [workflow EXCEPT ![s.a][s.w] = e]
  BY DEF Storing!SoftDelete, Storing!Run, Storing!Keep, Storing!S
<1>2. s.w # "default"
  BY <1>1 DEF StatementOK
<1> HIDE DEF s
<1>3. ASSUME s.a \in Agents, s.w \in Storing!AllWorkflows PROVE e \in WorkflowEntry
  <2>1. o \in WorkflowEntry
    BY <1>3 DEF TablesOK
  <2> HIDE DEF o
  <2> QED
    BY <2>1, EntryFields
<1> HIDE DEF e
<1> QED
  BY <1>1, <1>2, <1>3, WorkflowMoves

LEMMA WorkflowPurged ==
  ASSUME StoreBounds, TablesOK, NEW t \in Tasks, Storing!PurgeDeletedWorkflow(t)
  PROVE  TablesOK' /\ DefaultKept
<1> DEFINE s == Head(todo[t])
           gone == workflow[s.a][s.w].state \in {"deleted", "expired"}
<1>1. /\ UNCHANGED <<config, drivers, prompts, ids, requests>>
      /\ workflow' = IF gone THEN [workflow EXCEPT ![s.a][s.w] = Storing!NoWorkflow] ELSE workflow
      /\ rows' = IF gone THEN rows \ Storing!StepsOf(s.a, s.w) ELSE rows
  BY DEF Storing!PurgeDeletedWorkflow, Storing!Keep, Storing!S
<1> HIDE DEF s
<1>2. CASE ~gone
  BY <1>1, <1>2, TablesStay
<1>3. CASE gone
  <2>1. workflow' = [workflow EXCEPT ![s.a][s.w] = Storing!NoWorkflow] /\ rows' = rows \ Storing!StepsOf(s.a, s.w)
    BY <1>1, <1>3
  <2>2. StepsOK(rows \ Storing!StepsOf(s.a, s.w)) /\ (\A q \in rows \ Storing!StepsOf(s.a, s.w) : q.id \in 1..ids)
    BY FS_Subset DEF StepsOK, TablesOK
  <2>3. Storing!NoWorkflow \in WorkflowEntry
    BY DEF Storing!NoWorkflow, WorkflowEntry, Vals, StoreBounds, Storing!Nothing
  <2>4. ASSUME NEW b \in Agents
        PROVE  /\ workflow'[b] \in [Storing!AllWorkflows -> WorkflowEntry]
               /\ workflow[b]["default"].state = "active" => workflow'[b]["default"].state = "active"
    <3>1. workflow \in [Agents -> [Storing!AllWorkflows -> WorkflowEntry]] /\ "default" \in Storing!AllWorkflows
      BY DEF TablesOK, Storing!AllWorkflows
    <3>2. CASE b # s.a
      <4>1. workflow'[b] = workflow[b]
        BY <2>1, <3>1, <3>2
      <4> QED
        BY <3>1, <4>1
    <3>3. CASE b = s.a
      <4>1. workflow'[b] = [workflow[b] EXCEPT ![s.w] = Storing!NoWorkflow] /\ workflow[b] \in [Storing!AllWorkflows -> WorkflowEntry]
        BY <2>1, <3>1, <3>3
      <4>2. workflow'[b] \in [Storing!AllWorkflows -> WorkflowEntry]
        BY <2>3, <4>1
      <4>3. s.w # "default" => workflow'[b]["default"] = workflow[b]["default"]
        BY <3>1, <4>1
      <4> QED
        BY <1>3, <3>3, <4>2, <4>3
    <3> QED
      BY <3>2, <3>3
  <2>5. workflow' = [b \in Agents |-> workflow'[b]]
    BY <2>1 DEF TablesOK
  <2>6. workflow' \in [Agents -> [Storing!AllWorkflows -> WorkflowEntry]]
    BY <2>4, <2>5
  <2> QED
    BY <1>1, <2>1, <2>2, <2>4, <2>6 DEF TablesOK, DefaultKept
<1> QED
  BY <1>2, <1>3

\* A statement about an agent.
LEMMA RulesMove ==
  ASSUME TablesOK, NEW a, NEW v, config' = [config EXCEPT ![a] = v], a \in Agents => v \in Vals,
         UNCHANGED <<workflow, rows, drivers, prompts, ids, requests>>
  PROVE  TablesOK' /\ DefaultKept
<1>1. config' \in [Agents -> Vals]
  BY DEF TablesOK
<1> QED
  BY <1>1 DEF TablesOK, DefaultKept

LEMMA AgentAdded ==
  ASSUME StoreBounds, TablesOK, NEW t \in Tasks, StatementOK(Head(todo[t])), Storing!AddAgent(t)
  PROVE  TablesOK' /\ DefaultKept
<1> DEFINE s == Head(todo[t])
<1>1. s.do = "add_agent" /\ UNCHANGED <<workflow, rows, drivers, prompts, ids, requests>>
      /\ (UNCHANGED config \/ config' = [config EXCEPT ![s.a] = s.val])
  BY DEF Storing!AddAgent, Storing!Run, Storing!Keep, Storing!S
<1>2. s.val \in Vals
  BY <1>1 DEF StatementOK
<1> HIDE DEF s
<1> QED
  BY <1>1, <1>2, TablesStay, RulesMove

LEMMA RulesSet ==
  ASSUME StoreBounds, TablesOK, NEW t \in Tasks, StatementOK(Head(todo[t])), Storing!SetRules(t)
  PROVE  TablesOK' /\ DefaultKept
<1> DEFINE s == Head(todo[t])
           v == IF config[s.a] = Storing!Nothing THEN config[s.a] ELSE s.val
<1>1. s.do = "set_rules" /\ UNCHANGED <<workflow, rows, drivers, prompts, ids, requests>>
      /\ config' = [config EXCEPT ![s.a] = v]
  BY DEF Storing!SetRules, Storing!Run, Storing!Keep, Storing!S
<1>2. s.val \in Vals
  BY <1>1 DEF StatementOK
<1> HIDE DEF s
<1>3. s.a \in Agents => v \in Vals
  BY <1>2 DEF TablesOK
<1> HIDE DEF v
<1> QED
  BY <1>1, <1>3, RulesMove

LEMMA AgentDeleted ==
  ASSUME StoreBounds, TablesOK, NEW t \in Tasks, Storing!DeleteAgent(t)
  PROVE  TablesOK' /\ DefaultKept
<1> DEFINE a == Head(todo[t]).a
           none == [w \in Storing!AllWorkflows |-> Storing!NoWorkflow]
           Others(set) == {r \in set : r.a # a}
<1>1. /\ config' = [config EXCEPT ![a] = Storing!Nothing] /\ workflow' = [workflow EXCEPT ![a] = none]
      /\ rows' = Others(rows) /\ drivers' = Others(drivers) /\ prompts' = Others(prompts)
      /\ UNCHANGED <<ids, requests>>
  BY DEF Storing!DeleteAgent, Storing!Keep, Storing!S
<1> HIDE DEF a
<1>2. StepsOK(Others(rows)) /\ (\A q \in Others(rows) : q.id \in 1..ids) /\ DriversOK(Others(drivers)) /\ PromptsOK(Others(prompts))
  BY FS_Subset DEF StepsOK, DriversOK, PromptsOK, TablesOK
<1>3. Storing!NoWorkflow \in WorkflowEntry /\ 0 \in Vals /\ Storing!Nothing = 0
  BY DEF Storing!NoWorkflow, WorkflowEntry, Vals, StoreBounds, Storing!Nothing
<1>4. none \in [Storing!AllWorkflows -> WorkflowEntry]
  BY <1>3
<1> HIDE DEF none, Others
<1>5. config' \in [Agents -> Vals] /\ workflow' \in [Agents -> [Storing!AllWorkflows -> WorkflowEntry]]
  BY <1>1, <1>3, <1>4 DEF TablesOK
<1>6. DefaultKept
  <2>1. \A b \in Agents : config'[b] # Storing!Nothing => workflow'[b] = workflow[b]
    BY <1>1 DEF TablesOK
  <2> QED
    BY <2>1 DEF DefaultKept
<1> QED
  BY <1>1, <1>2, <1>5, <1>6 DEF TablesOK

\* A statement about drivers, or about prompts.
LEMMA DriversMove ==
  ASSUME TablesOK, NEW set, DriversOK(set), drivers' = set, ids' \in 0..MaxRows, ids' = ids \/ ids' = ids + 1,
         UNCHANGED <<config, workflow, rows, prompts, requests>>
  PROVE  TablesOK' /\ DefaultKept
<1>1. \A r \in rows : r.id \in 1..ids'
  BY DEF TablesOK
<1> QED
  BY <1>1 DEF TablesOK, DefaultKept

LEMMA PromptsMove ==
  ASSUME TablesOK, NEW set, PromptsOK(set), prompts' = set, ids' \in 0..MaxRows, ids' = ids \/ ids' = ids + 1,
         UNCHANGED <<config, workflow, rows, drivers, requests>>
  PROVE  TablesOK' /\ DefaultKept
<1>1. \A r \in rows : r.id \in 1..ids'
  BY DEF TablesOK
<1> QED
  BY <1>1 DEF TablesOK, DefaultKept

LEMMA DriverInserted ==
  ASSUME StoreBounds, TablesOK, NEW t \in Tasks, StatementOK(Head(todo[t])), Storing!InsertDriver(t)
  PROVE  TablesOK' /\ DefaultKept
<1> DEFINE s == Head(todo[t])
           d == [id |-> ids + 1, a |-> s.a, k |-> s.k, n |-> s.n, val |-> s.val]
<1>1. s.do = "add_driver" /\ ids < MaxRows /\ ids \in 0..MaxRows /\ MaxRows \in Nat
  BY DEF Storing!InsertDriver, Storing!Run, TablesOK, StoreBounds
<1>2. UNCHANGED <<config, workflow, rows, prompts, requests>>
      /\ ((drivers' = drivers /\ ids' = ids) \/ (drivers' = drivers \cup {d} /\ ids' = ids + 1))
  BY DEF Storing!InsertDriver, Storing!Keep, Storing!S
<1>3. DriverOK(d)
  <2>1. s.k \in DriverIds /\ s.n \in DriverNames /\ s.val \in [Fields -> Vals]
    BY <1>1 DEF StatementOK
  <2> HIDE DEF s
  <2> QED
    BY <2>1 DEF DriverOK
<1> HIDE DEF d, s
<1>4. DriversOK(drivers) /\ DriversOK(drivers \cup {d})
  BY <1>3, FS_AddElement DEF DriversOK, TablesOK
<1>5. ids + 1 \in 0..MaxRows
  BY <1>1
<1> QED
  BY <1>1, <1>2, <1>4, <1>5, DriversMove

LEMMA DriverUpdated ==
  ASSUME StoreBounds, TablesOK, NEW t \in Tasks, StatementOK(Head(todo[t])), got[t].set # {}, DriversOK(got[t].set),
         Storing!UpdateDriver(t)
  PROVE  TablesOK' /\ DefaultKept
<1> DEFINE s == Head(todo[t])
           own == CHOOSE d \in got[t].set : TRUE
           merged == Storing!DeepUpdate(own.val, s.set, s.val)
           M == Storing!OneDriver(s)
           f == [d \in M |-> [d EXCEPT !.n = s.n, !.val = merged]]
<1>1. s.do = "patch_driver" /\ ids' = ids /\ ids \in 0..MaxRows /\ UNCHANGED <<config, workflow, rows, prompts, requests>>
  BY DEF Storing!UpdateDriver, Storing!Run, Storing!Keep, TablesOK
<1>2. drivers' = (drivers \ M) \cup {f[d] : d \in M}
  BY DEF Storing!UpdateDriver, Storing!S
<1>3. M \subseteq drivers
  BY DEF Storing!OneDriver, Storing!DriversOf
<1>4. s.n \in DriverNames /\ s.val \in Vals
  BY <1>1 DEF StatementOK
<1>5. own.val \in [Fields -> Vals]
  BY DEF DriversOK, DriverOK
<1> HIDE DEF own, M, s
<1>6. merged \in [Fields -> Vals]
  BY <1>4, <1>5 DEF Storing!DeepUpdate
<1> HIDE DEF merged
<1>7. ASSUME NEW d \in M PROVE DriverOK(f[d])
  <2>1. DriverOK(d)
    BY <1>3 DEF DriversOK, TablesOK
  <2>2. f[d] = [id |-> d.id, a |-> d.a, k |-> d.k, n |-> s.n, val |-> merged]
    BY <2>1 DEF DriverOK
  <2> HIDE DEF f
  <2> QED
    BY <1>4, <1>6, <2>1, <2>2 DEF DriverOK
<1> HIDE DEF f
<1>8. DriversOK((drivers \ M) \cup {f[d] : d \in M})
  <2>1. IsFiniteSet(drivers \ M) /\ IsFiniteSet(M)
    BY <1>3, FS_Subset DEF DriversOK, TablesOK
  <2>2. IsFiniteSet({f[d] : d \in M})
    BY <2>1, FiniteImage
  <2>3. IsFiniteSet((drivers \ M) \cup {f[d] : d \in M})
    BY <2>1, <2>2, FS_Union
  <2> QED
    BY <1>7, <2>3 DEF DriversOK, TablesOK
<1> QED
  BY <1>1, <1>2, <1>8, DriversMove

LEMMA DriverDeleted ==
  ASSUME StoreBounds, TablesOK, NEW t \in Tasks, Storing!DeleteDriver(t)
  PROVE  TablesOK' /\ DefaultKept
<1> DEFINE M == Storing!OneDriver(Head(todo[t]))
<1>1. drivers' = drivers \ M /\ ids' = ids /\ UNCHANGED <<config, workflow, rows, prompts, requests>>
  BY DEF Storing!DeleteDriver, Storing!Keep, Storing!S
<1> HIDE DEF M
<1>2. DriversOK(drivers \ M) /\ ids \in 0..MaxRows
  BY FS_Subset DEF DriversOK, TablesOK
<1> QED
  BY <1>1, <1>2, DriversMove

LEMMA PromptInserted ==
  ASSUME StoreBounds, TablesOK, NEW t \in Tasks, Storing!InsertPrompt(t)
  PROVE  TablesOK' /\ DefaultKept
<1> DEFINE s == Head(todo[t])
           p == [id |-> ids + 1, a |-> s.a, val |-> s.val]
<1>1. ids < MaxRows /\ ids \in 0..MaxRows /\ MaxRows \in Nat
  BY DEF Storing!InsertPrompt, TablesOK, StoreBounds
<1>2. UNCHANGED <<config, workflow, rows, drivers, requests>>
      /\ ((prompts' = prompts /\ ids' = ids) \/ (prompts' = prompts \cup {p} /\ ids' = ids + 1))
  BY DEF Storing!InsertPrompt, Storing!Keep, Storing!S
<1> HIDE DEF s
<1>3. PromptOK(p)
  BY DEF PromptOK
<1> HIDE DEF p
<1>4. PromptsOK(prompts) /\ PromptsOK(prompts \cup {p})
  BY <1>3, FS_AddElement DEF PromptsOK, TablesOK
<1>5. ids + 1 \in 0..MaxRows
  BY <1>1
<1> QED
  BY <1>1, <1>2, <1>4, <1>5, PromptsMove

LEMMA PromptSet ==
  ASSUME StoreBounds, TablesOK, NEW t \in Tasks, Storing!SetPrompt(t)
  PROVE  TablesOK' /\ DefaultKept
<1> DEFINE s == Head(todo[t])
           M == Storing!OnePrompt(s)
           f == [p \in M |-> [p EXCEPT !.val = s.val]]
<1>1. ids' = ids /\ ids \in 0..MaxRows /\ UNCHANGED <<config, workflow, rows, drivers, requests>>
  BY DEF Storing!SetPrompt, Storing!Keep, TablesOK
<1>2. prompts' = (prompts \ M) \cup {f[p] : p \in M}
  BY DEF Storing!SetPrompt, Storing!S
<1>3. M \subseteq prompts
  BY DEF Storing!OnePrompt
<1> HIDE DEF M, s
<1>4. ASSUME NEW p \in M PROVE PromptOK(f[p])
  <2>1. PromptOK(p)
    BY <1>3 DEF PromptsOK, TablesOK
  <2>2. f[p] = [id |-> p.id, a |-> p.a, val |-> s.val]
    BY <2>1 DEF PromptOK
  <2> HIDE DEF f
  <2> QED
    BY <2>2 DEF PromptOK
<1> HIDE DEF f
<1>5. PromptsOK((prompts \ M) \cup {f[p] : p \in M})
  <2>1. IsFiniteSet(prompts \ M) /\ IsFiniteSet(M)
    BY <1>3, FS_Subset DEF PromptsOK, TablesOK
  <2>2. IsFiniteSet({f[p] : p \in M})
    BY <2>1, FiniteImage
  <2>3. IsFiniteSet((prompts \ M) \cup {f[p] : p \in M})
    BY <2>1, <2>2, FS_Union
  <2> QED
    BY <1>4, <2>3 DEF PromptsOK, TablesOK
<1> QED
  BY <1>1, <1>2, <1>5, PromptsMove

LEMMA PromptDeleted ==
  ASSUME StoreBounds, TablesOK, NEW t \in Tasks, Storing!DeletePrompt(t)
  PROVE  TablesOK' /\ DefaultKept
<1> DEFINE M == Storing!OnePrompt(Head(todo[t]))
<1>1. prompts' = prompts \ M /\ ids' = ids /\ UNCHANGED <<config, workflow, rows, drivers, requests>>
  BY DEF Storing!DeletePrompt, Storing!Keep, Storing!S
<1> HIDE DEF M
<1>2. PromptsOK(prompts \ M) /\ ids \in 0..MaxRows
  BY FS_Subset DEF PromptsOK, TablesOK
<1> QED
  BY <1>1, <1>2, PromptsMove

\* The statements that write, and those that only read.
Writes(t) ==
  \/ Storing!InsertStep(t) \/ Storing!UpdateStep(t) \/ Storing!DeleteStep(t)
  \/ Storing!AddWorkflow(t) \/ Storing!UpdateWorkflow(t) \/ Storing!SoftDelete(t) \/ Storing!PurgeDeletedWorkflow(t)
  \/ Storing!AddAgent(t) \/ Storing!DeleteAgent(t) \/ Storing!SetRules(t)
  \/ Storing!InsertDriver(t) \/ Storing!UpdateDriver(t) \/ Storing!DeleteDriver(t)
  \/ Storing!InsertPrompt(t) \/ Storing!SetPrompt(t) \/ Storing!DeletePrompt(t)
Reads(t) ==
  \/ Storing!SelectSteps(t) \/ Storing!GetRules(t) \/ Storing!GetDriver(t) \/ Storing!GetDrivers(t)
  \/ Storing!GetPrompt(t) \/ Storing!GetPrompts(t) \/ Storing!GetCredentials(t)
  \/ Storing!SelectConfig(t) \/ Storing!SelectWorkflow(t) \/ Storing!KeepLoaded(t) \/ Storing!Exported(t)
GivesTodo(t) ==
  Storing!CheckTarget(t) \/ Storing!ReadFile(t) \/ Storing!WorkflowsList(t) \/ Storing!ListExpired(t)
Rest(t) == Storing!EnsureWorkflowActive(t) \/ Storing!UpsertCredentials(t) \/ Storing!Imported(t)

LEMMA StatementIs ==
  ASSUME NEW t, Storing!Statement(t)
  PROVE  Writes(t) \/ Reads(t) \/ GivesTodo(t) \/ Rest(t)
BY Zenon DEF Storing!Statement, Writes, Reads, GivesTodo, Rest

\* A driver is patched when it has been read.
LEMMA PatchHasRead ==
  ASSUME NEW p, NEW g, TaskOK(p, g), p # <<>>, Head(p).do = "patch_driver"
  PROVE  g.set # {} /\ DriversOK(g.set)
<1>1. ASSUME NEW s, NEW r, p = <<r, s>> PROVE Head(p) = r
  BY <1>1
<1>2. PlainProgram(p) => Head(p).do # "patch_driver"
  BY PlainGoesOn DEF Plain
<1> QED
  BY <1>1, <1>2 DEF TaskOK

LEMMA TablesMove ==
  ASSUME StoreBounds, StoreInv, NEW t \in Tasks, Writes(t)
  PROVE  TablesOK' /\ DefaultKept
<1>1. TablesOK /\ TaskOK(todo[t], got[t])
  BY DEF StoreInv, TodoOK
<1>2. todo[t] # <<>>
  BY Zenon DEF Writes, Storing!Run, Storing!InsertStep, Storing!UpdateStep, Storing!DeleteStep, Storing!AddWorkflow,
     Storing!UpdateWorkflow, Storing!SoftDelete, Storing!PurgeDeletedWorkflow, Storing!AddAgent, Storing!DeleteAgent,
     Storing!SetRules, Storing!InsertDriver, Storing!UpdateDriver, Storing!DeleteDriver, Storing!InsertPrompt,
     Storing!SetPrompt, Storing!DeletePrompt
<1>3. StatementOK(Head(todo[t]))
  <2>2. CASE Head(todo[t]).do = "get_driver"
    BY <2>2 DEF StatementOK
  <2>3. CASE Head(todo[t]).do # "get_driver"
    BY <1>1, <1>2, <2>3, TaskGoesOn
  <2> QED
    BY <2>2, <2>3
<1>4. CASE Storing!UpdateDriver(t)
  <2>1. Head(todo[t]).do = "patch_driver"
    BY <1>4 DEF Storing!UpdateDriver, Storing!Run
  <2>2. got[t].set # {} /\ DriversOK(got[t].set)
    BY <1>1, <1>2, <2>1, PatchHasRead
  <2> QED
    BY <1>1, <1>3, <1>4, <2>2, DriverUpdated
<1> QED
  BY <1>1, <1>3, <1>4, StepInserted, StepUpdated, StepDeleted, WorkflowAdded, WorkflowUpdated, WorkflowDeleted, WorkflowPurged,
     AgentAdded, AgentDeleted, RulesSet, DriverInserted, DriverDeleted, PromptInserted, PromptSet, PromptDeleted DEF Writes

\* A statement that writes reads nothing, and goes on or gives up.
LEMMA WritesMove ==
  ASSUME StoreInv, NEW t \in Tasks, Writes(t) \/ Rest(t)
  PROVE  ReadOK' /\ TodoOK'
<1>1. todo[t] # <<>> /\ UNCHANGED <<got, file>> /\ (Storing!Done(t) \/ Storing!Abort(t))
      /\ Head(todo[t]).do # "get_driver"
  <2>1. Storing!InsertStep(t) \/ Storing!UpdateStep(t) \/ Storing!DeleteStep(t) => <1>1!:
    BY DEF Storing!InsertStep, Storing!UpdateStep, Storing!DeleteStep, Storing!Run, Storing!Keep
  <2>2. Storing!AddWorkflow(t) \/ Storing!UpdateWorkflow(t) \/ Storing!SoftDelete(t) \/ Storing!PurgeDeletedWorkflow(t) => <1>1!:
    BY DEF Storing!AddWorkflow, Storing!UpdateWorkflow, Storing!SoftDelete, Storing!PurgeDeletedWorkflow, Storing!Run, Storing!Keep
  <2>3. Storing!AddAgent(t) \/ Storing!DeleteAgent(t) \/ Storing!SetRules(t) => <1>1!:
    BY DEF Storing!AddAgent, Storing!DeleteAgent, Storing!SetRules, Storing!Run, Storing!Keep
  <2>4. Storing!InsertDriver(t) \/ Storing!UpdateDriver(t) \/ Storing!DeleteDriver(t) => <1>1!:
    BY DEF Storing!InsertDriver, Storing!UpdateDriver, Storing!DeleteDriver, Storing!Run, Storing!Keep
  <2>5. Storing!InsertPrompt(t) \/ Storing!SetPrompt(t) \/ Storing!DeletePrompt(t) => <1>1!:
    BY DEF Storing!InsertPrompt, Storing!SetPrompt, Storing!DeletePrompt, Storing!Run, Storing!Keep
  <2>6. Rest(t) => <1>1!:
    BY DEF Rest, Storing!EnsureWorkflowActive, Storing!UpsertCredentials, Storing!Imported, Storing!Run, Storing!Keep
  <2> QED
    BY <2>1, <2>2, <2>3, <2>4, <2>5, <2>6 DEF Writes
<1>2. ReadOK'
  BY <1>1 DEF StoreInv, ReadOK
<1>3. TodoOK'
  BY <1>1, TaskSteps DEF StoreInv
<1> QED
  BY <1>2, <1>3

LEMMA GotFields ==
  ASSUME NEW g, GotOK(g)
  PROVE  /\ QueryOK(g.first) /\ g.read \in WorkflowEntry /\ FileOK(g.kept)
         /\ \A q : QueryOK(q) => GotOK([g EXCEPT !.first = q])
         /\ \A e : GotOK([g EXCEPT !.then = e])
         /\ \A e \in WorkflowEntry : GotOK([g EXCEPT !.read = e])
         /\ \A f : FileOK(f) => GotOK([g EXCEPT !.kept = f])
         /\ \A s : GotOK([g EXCEPT !.set = s])
<1>1. g = [set |-> g.set, first |-> g.first, then |-> g.then, read |-> g.read, kept |-> g.kept]
      /\ QueryOK(g.first) /\ g.read \in WorkflowEntry /\ FileOK(g.kept)
  BY DEF GotOK
<1>2. ASSUME NEW q, QueryOK(q) PROVE GotOK([g EXCEPT !.first = q])
  <2>1. [g EXCEPT !.first = q] = [set |-> g.set, first |-> q, then |-> g.then, read |-> g.read, kept |-> g.kept]
    BY <1>1
  <2> QED
    BY <1>1, <1>2, <2>1 DEF GotOK
<1>3. ASSUME NEW e PROVE GotOK([g EXCEPT !.then = e])
  <2>1. [g EXCEPT !.then = e] = [set |-> g.set, first |-> g.first, then |-> e, read |-> g.read, kept |-> g.kept]
    BY <1>1
  <2> QED
    BY <1>1, <2>1 DEF GotOK
<1>4. ASSUME NEW e \in WorkflowEntry PROVE GotOK([g EXCEPT !.read = e])
  <2>1. [g EXCEPT !.read = e] = [set |-> g.set, first |-> g.first, then |-> g.then, read |-> e, kept |-> g.kept]
    BY <1>1
  <2> QED
    BY <1>1, <1>4, <2>1 DEF GotOK
<1>5. ASSUME NEW f, FileOK(f) PROVE GotOK([g EXCEPT !.kept = f])
  <2>1. [g EXCEPT !.kept = f] = [set |-> g.set, first |-> g.first, then |-> g.then, read |-> g.read, kept |-> f]
    BY <1>1
  <2> QED
    BY <1>1, <1>5, <2>1 DEF GotOK
<1>6. ASSUME NEW s PROVE GotOK([g EXCEPT !.set = s])
  <2>1. [g EXCEPT !.set = s] = [set |-> s, first |-> g.first, then |-> g.then, read |-> g.read, kept |-> g.kept]
    BY <1>1
  <2> QED
    BY <1>1, <2>1 DEF GotOK
<1> QED
  BY <1>1, <1>2, <1>3, <1>4, <1>5, <1>6

\* The statements that read.
Settles(t) == ReadOK' /\ TodoOK'

LEMMA SetRead ==
  ASSUME StoreInv, NEW t \in Tasks,
         Storing!SelectSteps(t) \/ Storing!GetDriver(t) \/ Storing!GetDrivers(t) \/ Storing!GetPrompt(t) \/ Storing!GetCredentials(t)
  PROVE  Settles(t)
<1>1. PICK set : got' = [got EXCEPT ![t].set = set] /\ file' = file /\ todo[t] # <<>>
        /\ \/ Storing!Abort(t)
           \/ Storing!Done(t) /\ (Head(todo[t]).do = "get_driver" => set = Storing!OneDriver(Head(todo[t])) /\ set # {})
  <2>1. CASE Storing!SelectSteps(t)
    BY <2>1 DEF Storing!SelectSteps, Storing!Run, Storing!Keep
  <2>2. CASE Storing!GetDriver(t)
    BY <2>2 DEF Storing!GetDriver, Storing!Run, Storing!Keep, Storing!S
  <2>3. CASE Storing!GetDrivers(t)
    BY <2>3 DEF Storing!GetDrivers, Storing!Run, Storing!Keep
  <2>4. CASE Storing!GetPrompt(t)
    BY <2>4 DEF Storing!GetPrompt, Storing!Run, Storing!Keep
  <2>5. CASE Storing!GetCredentials(t)
    BY <2>5 DEF Storing!GetCredentials, Storing!Run, Storing!Keep
  <2> QED
    BY <2>1, <2>2, <2>3, <2>4, <2>5
<1>2. ReadOK' /\ got'[t].set = set /\ \A u \in Tasks \ {t} : got'[u] = got[u]
  BY <1>1, ReadsSet DEF StoreInv
<1>3. DriversOK(Storing!OneDriver(Head(todo[t])))
  <2>1. Storing!OneDriver(Head(todo[t])) \subseteq drivers
    BY DEF Storing!OneDriver, Storing!DriversOf
  <2> QED
    BY <2>1, FS_Subset DEF DriversOK, StoreInv, TablesOK
<1>4. TodoOK'
  BY <1>1, <1>2, <1>3, TaskSteps DEF StoreInv
<1> QED
  BY <1>2, <1>4 DEF Settles

LEMMA ReadAndDone ==
  ASSUME StoreInv, NEW t \in Tasks, NEW g, GotOK(g), got' = [got EXCEPT ![t] = g], file' = file,
         todo[t] # <<>>, Storing!Done(t), Head(todo[t]).do # "get_driver"
  PROVE  Settles(t)
<1>1. ReadOK' /\ \A u \in Tasks \ {t} : got'[u] = got[u]
  BY ReadMoves DEF StoreInv
<1> QED
  BY <1>1, TaskSteps DEF StoreInv, Settles

\* What is read of the configuration is one of its rows.
LEMMA QueryRead ==
  ASSUME TablesOK, NEW a \in Agents, NEW w
  PROVE  QueryOK(Storing!FirstQuery(a, w))
<1>1. Storing!StepsOf(a, w) \subseteq rows /\ Storing!DriversOf(a) \subseteq drivers /\ config[a] \in Vals
  BY DEF Storing!StepsOf, Storing!DriversOf, TablesOK
<1>2. StepsOK(Storing!StepsOf(a, w)) /\ DriversOK(Storing!DriversOf(a))
  BY <1>1, FS_Subset DEF StepsOK, DriversOK, TablesOK
<1> HIDE DEF Storing!StepsOf, Storing!DriversOf
<1> QED
  BY <1>1, <1>2 DEF Storing!FirstQuery, QueryOK

LEMMA HeadIsOK ==
  ASSUME StoreInv, NEW t \in Tasks, todo[t] # <<>>, Head(todo[t]).do # "get_driver"
  PROVE  StatementOK(Head(todo[t]))
<1>1. TaskOK(todo[t], got[t])
  BY DEF StoreInv, TodoOK
<1> QED
  BY <1>1, TaskGoesOn

LEMMA RulesRead ==
  ASSUME StoreInv, NEW t \in Tasks, Storing!GetRules(t)
  PROVE  Settles(t)
<1> DEFINE v == config[Head(todo[t]).a]
           q == [got[t].first EXCEPT !.rules = v]
<1>1. Head(todo[t]).do = "get_rules" /\ todo[t] # <<>> /\ Storing!Done(t) /\ file' = file
      /\ got' = [got EXCEPT ![t].first.rules = v]
  BY DEF Storing!GetRules, Storing!Run, Storing!Keep, Storing!S
<1>2. Head(todo[t]).a \in Agents
  BY <1>1, HeadIsOK DEF StatementOK
<1>3. v \in Vals
  BY <1>2 DEF StoreInv, TablesOK
<1> HIDE DEF v
<1>4. GotOK(got[t])
  BY DEF StoreInv, ReadOK
<1>5. QueryOK(q)
  <2>1. QueryOK(got[t].first)
    BY <1>4, GotFields
  <2>2. q = [steps |-> got[t].first.steps, drivers |-> got[t].first.drivers, rules |-> v]
    BY <2>1 DEF QueryOK
  <2> HIDE DEF q
  <2> QED
    BY <1>3, <2>1, <2>2 DEF QueryOK
<1>6. got' = [got EXCEPT ![t] = [got[t] EXCEPT !.first = q]]
  BY <1>1
<1> HIDE DEF q
<1>7. GotOK([got[t] EXCEPT !.first = q])
  BY <1>4, <1>5, GotFields
<1> QED
  BY <1>1, <1>6, <1>7, ReadAndDone

LEMMA ConfigRead ==
  ASSUME StoreBounds, StoreInv, NEW t \in Tasks, Storing!SelectConfig(t)
  PROVE  Settles(t)
<1> DEFINE s == Head(todo[t])
           q == Storing!FirstQuery(s.a, s.w)
           e == workflow[s.a][s.w]
           g1 == [got[t] EXCEPT !.first = q]
           g2 == [g1 EXCEPT !.then = e]
           g3 == [g2 EXCEPT !.read = Storing!NoWorkflow]
<1>1. s.do = "select_config" /\ todo[t] # <<>> /\ Storing!Done(t) /\ file' = file
      /\ got' = [got EXCEPT ![t].first = q, ![t].then = e, ![t].read = Storing!NoWorkflow]
  BY DEF Storing!SelectConfig, Storing!Run, Storing!Keep, Storing!S
<1>2. s.a \in Agents
  BY <1>1, HeadIsOK DEF StatementOK
<1>3. QueryOK(q)
  BY <1>2, QueryRead DEF StoreInv
<1>4. Storing!NoWorkflow \in WorkflowEntry
  BY DEF Storing!NoWorkflow, WorkflowEntry, Vals, StoreBounds, Storing!Nothing
<1>5. GotOK(got[t]) /\ got = [u \in Tasks |-> got[u]]
  BY DEF StoreInv, ReadOK
<1> HIDE DEF q, e
<1>6. got' = [got EXCEPT ![t] = g3]
  BY <1>1, <1>5
<1> HIDE DEF g1, g2, g3
<1>7. GotOK(g1)
  BY <1>3, <1>5, GotFields DEF g1
<1>8. GotOK(g2)
  BY <1>7, GotFields DEF g2
<1>9. GotOK(g3)
  BY <1>4, <1>8, GotFields DEF g3
<1> QED
  BY <1>1, <1>6, <1>9, ReadAndDone

LEMMA WorkflowRead ==
  ASSUME StoreInv, NEW t \in Tasks, Storing!SelectWorkflow(t)
  PROVE  Settles(t)
<1> DEFINE s == Head(todo[t])
           e == workflow[s.a][s.w]
<1>1. s.do = "select_workflow" /\ todo[t] # <<>> /\ file' = file
      /\ ((Storing!Done(t) /\ got' = [got EXCEPT ![t].read = e]) \/ (Storing!Abort(t) /\ UNCHANGED got))
  BY DEF Storing!SelectWorkflow, Storing!Run, Storing!Keep, Storing!S
<1>2. s.a \in Agents /\ s.w \in Storing!AllWorkflows
  BY <1>1, HeadIsOK DEF StatementOK
<1>3. e \in WorkflowEntry
  BY <1>2 DEF StoreInv, TablesOK
<1>4. GotOK(got[t]) /\ got = [u \in Tasks |-> got[u]]
  BY DEF StoreInv, ReadOK
<1> HIDE DEF e
<1>5. CASE Storing!Done(t) /\ got' = [got EXCEPT ![t].read = e]
  <2>1. got' = [got EXCEPT ![t] = [got[t] EXCEPT !.read = e]]
    BY <1>5
  <2>2. GotOK([got[t] EXCEPT !.read = e])
    BY <1>3, <1>4, GotFields
  <2> QED
    BY <1>1, <1>5, <2>1, <2>2, ReadAndDone
<1>6. CASE Storing!Abort(t) /\ UNCHANGED got
  <2>1. ReadOK'
    BY <1>1, <1>6 DEF StoreInv, ReadOK
  <2>2. TodoOK'
    BY <1>1, <1>6, TaskSteps DEF StoreInv
  <2> QED
    BY <2>1, <2>2 DEF Settles
<1> QED
  BY <1>1, <1>5, <1>6

\* What an export keeps.
LEMMA FileFields ==
  ASSUME NEW f, FileOK(f)
  PROVE  /\ IsFiniteSet(f.workflows) /\ \A wf \in f.workflows : KeptWorkflowOK(wf)
         /\ \A ws : IsFiniteSet(ws) /\ (\A wf \in ws : KeptWorkflowOK(wf)) => FileOK([f EXCEPT !.workflows = ws])
         /\ \A ds : DriversOK(ds) => FileOK([f EXCEPT !.drivers = ds])
         /\ \A ps : PromptsOK(ps) => FileOK([f EXCEPT !.prompts = ps])
<1>1. f = [workflows |-> f.workflows, drivers |-> f.drivers, prompts |-> f.prompts]
      /\ IsFiniteSet(f.workflows) /\ (\A wf \in f.workflows : KeptWorkflowOK(wf))
      /\ DriversOK(f.drivers) /\ PromptsOK(f.prompts)
  BY DEF FileOK
<1>2. ASSUME NEW ws, IsFiniteSet(ws), \A wf \in ws : KeptWorkflowOK(wf) PROVE FileOK([f EXCEPT !.workflows = ws])
  <2>1. [f EXCEPT !.workflows = ws] = [workflows |-> ws, drivers |-> f.drivers, prompts |-> f.prompts]
    BY <1>1
  <2> QED
    BY <1>1, <1>2, <2>1 DEF FileOK
<1>3. ASSUME NEW ds, DriversOK(ds) PROVE FileOK([f EXCEPT !.drivers = ds])
  <2>1. [f EXCEPT !.drivers = ds] = [workflows |-> f.workflows, drivers |-> ds, prompts |-> f.prompts]
    BY <1>1
  <2> QED
    BY <1>1, <1>3, <2>1 DEF FileOK
<1>4. ASSUME NEW ps, PromptsOK(ps) PROVE FileOK([f EXCEPT !.prompts = ps])
  <2>1. [f EXCEPT !.prompts = ps] = [workflows |-> f.workflows, drivers |-> f.drivers, prompts |-> ps]
    BY <1>1
  <2> QED
    BY <1>1, <1>4, <2>1 DEF FileOK
<1> QED
  BY <1>1, <1>2, <1>3, <1>4

LEMMA PromptsRead ==
  ASSUME StoreInv, NEW t \in Tasks, Storing!GetPrompts(t)
  PROVE  Settles(t)
<1> DEFINE ps == Storing!SelectedPrompts(Head(todo[t]).a)
           k == [got[t].kept EXCEPT !.prompts = ps]
           g1 == [got[t] EXCEPT !.set = ps]
           g2 == [g1 EXCEPT !.kept = k]
<1>1. Head(todo[t]).do = "get_prompts" /\ todo[t] # <<>> /\ Storing!Done(t) /\ file' = file
      /\ got' = [got EXCEPT ![t].set = ps, ![t].kept.prompts = ps]
  BY DEF Storing!GetPrompts, Storing!Run, Storing!Keep, Storing!S
<1>2. PromptsOK(ps)
  <2>1. ps \subseteq prompts
    BY DEF Storing!SelectedPrompts
  <2> HIDE DEF ps
  <2> QED
    BY <2>1, FS_Subset DEF PromptsOK, StoreInv, TablesOK
<1>3. GotOK(got[t]) /\ got = [u \in Tasks |-> got[u]]
  BY DEF StoreInv, ReadOK
<1>4. got[t] = [set |-> got[t].set, first |-> got[t].first, then |-> got[t].then, read |-> got[t].read, kept |-> got[t].kept]
  BY <1>3 DEF GotOK
<1> HIDE DEF ps
<1>5. g1.kept = got[t].kept
  BY <1>4
<1>6. got' = [got EXCEPT ![t] = g2]
  <2>1. got' = [[got EXCEPT ![t].set = ps] EXCEPT ![t].kept.prompts = ps]
    BY <1>1
  <2>2. [got EXCEPT ![t].set = ps] = [got EXCEPT ![t] = g1]
    BY <1>3
  <2> HIDE DEF g1
  <2>3. [got EXCEPT ![t] = g1][t] = g1
    BY <1>3
  <2>4. [[got EXCEPT ![t] = g1] EXCEPT ![t].kept.prompts = ps] = [[got EXCEPT ![t] = g1] EXCEPT ![t] = g2]
    BY <1>5, <2>3
  <2> HIDE DEF g2
  <2>5. [[got EXCEPT ![t] = g1] EXCEPT ![t] = g2] = [got EXCEPT ![t] = g2]
    BY <1>3
  <2> QED
    BY <2>1, <2>2, <2>4, <2>5
<1>7. FileOK(k)
  <2>1. FileOK(got[t].kept)
    BY <1>3, GotFields
  <2> QED
    BY <1>2, <2>1, FileFields
<1> HIDE DEF k, g1, g2
<1>8. GotOK(g1)
  BY <1>3, GotFields DEF g1
<1>9. GotOK(g2)
  BY <1>7, <1>8, GotFields DEF g2
<1> QED
  BY <1>1, <1>6, <1>9, ReadAndDone

LEMMA WorkflowKept ==
  ASSUME StoreInv, NEW t \in Tasks, Storing!KeepLoaded(t)
  PROVE  Settles(t)
<1> DEFINE g == got[t]
           wf == [w |-> Head(todo[t]).w, steps |-> g.first.steps, val |-> g.read.val, rules |-> g.first.rules]
           ws == g.kept.workflows \cup {wf}
           k1 == [g.kept EXCEPT !.workflows = ws]
           k2 == [k1 EXCEPT !.drivers = g.first.drivers]
           h == [g EXCEPT !.kept = k2]
<1>1. Head(todo[t]).do = "keep" /\ todo[t] # <<>> /\ Storing!Done(t) /\ file' = file
      /\ got' = [got EXCEPT ![t].kept.workflows = ws, ![t].kept.drivers = g.first.drivers]
  BY DEF Storing!KeepLoaded, Storing!Run, Storing!Keep, Storing!S
<1>2. GotOK(got[t]) /\ got = [u \in Tasks |-> got[u]]
  BY DEF StoreInv, ReadOK
<1>3. QueryOK(g.first) /\ g.read \in WorkflowEntry /\ FileOK(g.kept)
  BY <1>2, GotFields
<1>4. StepsOK(g.first.steps) /\ g.first.rules \in Vals /\ DriversOK(g.first.drivers) /\ g.read.val \in Vals
  BY <1>3, EntryFields DEF QueryOK
<1>5. KeptWorkflowOK(wf)
  BY <1>4 DEF KeptWorkflowOK
<1> HIDE DEF wf
<1>6. IsFiniteSet(ws) /\ \A w \in ws : KeptWorkflowOK(w)
  BY <1>3, <1>5, FileFields, FS_AddElement
<1> HIDE DEF ws
<1>7. FileOK(k1)
  BY <1>3, <1>6, FileFields
<1>8. FileOK(k2)
  <2> HIDE DEF k1
  <2> QED
    BY <1>4, <1>7, FileFields
<1>9. GotOK(h)
  <2> HIDE DEF k2
  <2> QED
    BY <1>2, <1>8, GotFields
<1>10. got' = [got EXCEPT ![t] = h]
  <2> DEFINE d == g.first.drivers
             h1 == [g EXCEPT !.kept = k1]
  <2>1. got' = [[got EXCEPT ![t].kept.workflows = ws] EXCEPT ![t].kept.drivers = d]
    BY <1>1
  <2>2. [got EXCEPT ![t].kept.workflows = ws] = [got EXCEPT ![t] = h1]
    BY <1>2
  <2>3. g = [set |-> g.set, first |-> g.first, then |-> g.then, read |-> g.read, kept |-> g.kept]
    BY <1>2 DEF GotOK
  <2>4. h1.kept = k1
    BY <2>3
  <2>5. [h1 EXCEPT !.kept = k2] = h
    BY <2>3
  <2> HIDE DEF h1, d, k1
  <2>6. [got EXCEPT ![t] = h1][t] = h1
    BY <1>2
  <2>7. [[got EXCEPT ![t] = h1] EXCEPT ![t].kept.drivers = d] = [[got EXCEPT ![t] = h1] EXCEPT ![t] = [h1 EXCEPT !.kept = [k1 EXCEPT !.drivers = d]]]
    BY <2>4, <2>6
  <2>8. [k1 EXCEPT !.drivers = d] = k2
    BY DEF d
  <2> HIDE DEF k2, h
  <2>9. [[got EXCEPT ![t] = h1] EXCEPT ![t] = h] = [got EXCEPT ![t] = h]
    BY <1>2
  <2> QED
    BY <2>1, <2>2, <2>5, <2>7, <2>8, <2>9
<1> HIDE DEF h
<1> QED
  BY <1>1, <1>9, <1>10, ReadAndDone

LEMMA NothingGot == StoreBounds => GotOK(Storing!NoGot) /\ FileOK(Storing!NoFile)
<1> SUFFICES ASSUME StoreBounds
             PROVE  GotOK(Storing!NoGot) /\ FileOK(Storing!NoFile)
  OBVIOUS
<1>1. StepsOK({}) /\ DriversOK({}) /\ PromptsOK({}) /\ IsFiniteSet({}) /\ 0 \in Vals
  BY FS_EmptySet DEF StepsOK, DriversOK, PromptsOK, Vals, StoreBounds
<1>2. FileOK(Storing!NoFile)
  BY <1>1 DEF FileOK, Storing!NoFile
<1>3. QueryOK(Storing!NoQuery)
  BY <1>1 DEF QueryOK, Storing!NoQuery, Storing!Nothing
<1>4. Storing!NoWorkflow \in WorkflowEntry
  BY <1>1 DEF Storing!NoWorkflow, WorkflowEntry, Storing!Nothing
<1> QED
  BY <1>2, <1>3, <1>4 DEF GotOK, Storing!NoGot

LEMMA FileWritten ==
  ASSUME StoreBounds, StoreInv, NEW t \in Tasks, Storing!Exported(t)
  PROVE  Settles(t)
<1>1. Head(todo[t]).do = "exported" /\ todo[t] # <<>> /\ Storing!Done(t) /\ file' = got[t].kept
      /\ got' = [got EXCEPT ![t] = Storing!NoGot]
  BY DEF Storing!Exported, Storing!Run
<1>2. GotOK(Storing!NoGot) /\ FileOK(got[t].kept) /\ got = [u \in Tasks |-> got[u]]
  BY NothingGot, GotFields DEF StoreInv, ReadOK
<1>3. \A u \in Tasks : got'[u] = IF u = t THEN Storing!NoGot ELSE got[u]
  BY <1>1, <1>2
<1>4. got' = [u \in Tasks |-> got'[u]]
  BY <1>1, <1>2
<1>5. ReadOK'
  BY <1>1, <1>2, <1>3, <1>4 DEF StoreInv, ReadOK
<1>6. TodoOK'
  BY <1>1, <1>3, TaskSteps DEF StoreInv
<1> QED
  BY <1>5, <1>6 DEF Settles

\* A task that is given statements of its own.
LEMMA TaskIsGiven ==
  ASSUME StoreInv, NEW t \in Tasks, NEW p, todo' = [todo EXCEPT ![t] = p], PlainProgram(p), UNCHANGED <<got, file>>
  PROVE  Settles(t)
<1>1. ReadOK'
  BY DEF StoreInv, ReadOK
<1>2. TodoOK'
  BY TaskMoves DEF StoreInv, TaskOK
<1> QED
  BY <1>1, <1>2 DEF Settles

LEMMA TargetChecked ==
  ASSUME StoreBounds, StoreInv, NEW t \in Tasks, Storing!CheckTarget(t)
  PROVE  Settles(t)
<1> DEFINE a == Head(todo[t]).a
           own == <<Storing!St("read_file", a, "default")>>
           del == <<Storing!St("delete_agent", a, "default")>>
           new == Storing!NewAgent(a, 1)
           p == IF Storing!IsEmpty(got[t].first) THEN own
                ELSE IF ~Head(todo[t]).overwrite THEN <<>> ELSE del \o new \o own
<1>1. todo' = [todo EXCEPT ![t] = p] /\ UNCHANGED <<got, file>>
  BY DEF Storing!CheckTarget, Storing!S, Storing!Keep
<1>2. PlainProgram(own) /\ PlainProgram(del)
  <2>1. \A do \in {"read_file", "delete_agent"} : Plain(Storing!St(do, a, "default"))
    BY DEF Plain, StatementOK, Storing!St
  <2> QED
    BY <2>1, OneStatement
<1>3. PlainProgram(new)
  <2>1. 1 \in Vals
    BY DEF Vals, StoreBounds
  <2> QED
    BY <2>1, NewAgentProgram
<1> HIDE DEF own, del, new
<1>4. PlainProgram(p)
  BY <1>2, <1>3, JoinedPrograms, NothingLeft
<1> HIDE DEF p
<1> QED
  BY <1>1, <1>4, TaskIsGiven

LEMMA FileRead ==
  ASSUME StoreBounds, StoreInv, NEW t \in Tasks, Storing!ReadFile(t)
  PROVE  Settles(t)
<1>1. UNCHANGED <<got, file>>
      /\ (todo' = [todo EXCEPT ![t] = <<>>] \/ todo' = [todo EXCEPT ![t] = Storing!ImportAll(Head(todo[t]).a)])
  BY DEF Storing!ReadFile, Storing!Abort, Storing!S, Storing!Keep
<1>2. PlainProgram(Storing!ImportAll(Head(todo[t]).a))
  BY ImportProgram DEF StoreInv, ReadOK
<1> QED
  BY <1>1, <1>2, NothingLeft, TaskIsGiven

LEMMA FiniteWorkflows == StoreBounds => IsFiniteSet(Storing!AllWorkflows)
<1>1. IsFiniteSet({"default"})
  BY FS_Singleton
<1> QED
  BY <1>1, FS_Union DEF StoreBounds, Storing!AllWorkflows

LEMMA WorkflowsListed ==
  ASSUME StoreBounds, StoreInv, NEW t \in Tasks, Storing!WorkflowsList(t)
  PROVE  Settles(t)
<1> DEFINE a == Head(todo[t]).a
           act == {w \in Storing!AllWorkflows : workflow[a][w].state = "active"}
           wfs == Storing!SetToSeq(act)
           n == Cardinality(act)
           loads == [i \in DOMAIN wfs |-> Storing!Load(a, wfs[i]) \o <<Storing!St("keep", a, wfs[i])>>]
           first == IF Len(todo[t]) = 1 THEN <<>> ELSE Storing!FlattenSeq(loads)
<1>1. Head(todo[t]).do = "workflows_list" /\ todo[t] # <<>> /\ UNCHANGED <<got, file>>
      /\ todo' = [todo EXCEPT ![t] = first \o Tail(todo[t])]
  BY DEF Storing!WorkflowsList, Storing!Run, Storing!S, Storing!Keep
<1>2. a \in Agents
  BY <1>1, HeadIsOK DEF StatementOK
<1>3. PlainProgram(Tail(todo[t]))
  BY <1>1, TaskIsPlain, PlainGoesOn DEF StoreInv, TodoOK
<1>4. act \subseteq Storing!AllWorkflows /\ IsFiniteSet(act)
  BY FiniteWorkflows, FS_Subset
<1> HIDE DEF act, a
<1>5. DOMAIN wfs = 1..n /\ n \in Nat /\ \A i \in 1..n : wfs[i] \in act
  BY <1>4, SetAsSequence
<1> HIDE DEF wfs, n
<1>6. \A i \in 1..n : PlainProgram(loads[i])
  <2> SUFFICES ASSUME NEW i \in 1..n
               PROVE  PlainProgram(loads[i])
    OBVIOUS
  <2>1. loads[i] = Storing!Load(a, wfs[i]) \o <<Storing!St("keep", a, wfs[i])>> /\ wfs[i] \in Storing!AllWorkflows
    BY <1>4, <1>5
  <2>2. PlainProgram(Storing!Load(a, wfs[i]))
    BY <1>2, <2>1, LoadProgram
  <2>3. \A w : Plain(Storing!St("keep", a, w))
    BY DEF Plain, StatementOK, Storing!St
  <2> HIDE DEF loads
  <2> QED
    BY <2>1, <2>2, <2>3, OneStatement, JoinedPrograms
<1>7. loads = [i \in 1..n |-> loads[i]]
  BY <1>5
<1> HIDE DEF loads
<1>8. PlainProgram(first)
  BY <1>5, <1>6, <1>7, NumberedPrograms, NothingLeft
<1> HIDE DEF first
<1>9. PlainProgram(first \o Tail(todo[t]))
  BY <1>3, <1>8, JoinedPrograms
<1> QED
  BY <1>1, <1>9, TaskIsGiven

LEMMA ExpiredListed ==
  ASSUME StoreBounds, StoreInv, NEW t \in Tasks, Storing!ListExpired(t)
  PROVE  Settles(t)
<1> DEFINE exp == {aw \in Agents \X Storing!AllWorkflows : workflow[aw[1]][aw[2]].state = "expired"}
           gone == Storing!SetToSeq(exp)
           n == Cardinality(exp)
           p == [i \in DOMAIN gone |-> Storing!St("purge", gone[i][1], gone[i][2])]
<1>1. UNCHANGED <<got, file>> /\ todo' = [todo EXCEPT ![t] = p]
  BY DEF Storing!ListExpired, Storing!Keep
<1>2. IsFiniteSet(exp)
  <2>1. IsFiniteSet(Agents \X Storing!AllWorkflows)
    BY FiniteWorkflows, FS_Product DEF StoreBounds
  <2> QED
    BY <2>1, FS_Subset
<1> HIDE DEF exp
<1>3. DOMAIN gone = 1..n /\ n \in Nat
  BY <1>2, SetAsSequence
<1> HIDE DEF gone, n
<1>4. \A a, w : Plain(Storing!St("purge", a, w))
  BY DEF Plain, StatementOK, Storing!St
<1>5. \A i \in 1..n : p[i] = Storing!St("purge", gone[i][1], gone[i][2])
  BY <1>3
<1>6. p = [i \in 1..n |-> p[i]]
  BY <1>3
<1> HIDE DEF p
<1>7. PlainProgram(p)
  BY <1>3, <1>4, <1>5, <1>6, NumberedProgram
<1> QED
  BY <1>1, <1>7, TaskIsGiven

\* A request begins.
StoreStep == TablesOK' /\ ReadOK' /\ TodoOK' /\ DefaultKept

LEMMA Begins ==
  ASSUME StoreBounds, StoreInv, NEW t \in Tasks, NEW p, Storing!Start(t, p), TaskOK(p, Storing!NoGot)
  PROVE  StoreStep
<1>1. /\ todo' = [todo EXCEPT ![t] = p] /\ got' = [got EXCEPT ![t] = Storing!NoGot] /\ requests < MaxRequests
      /\ requests' = requests + 1 /\ UNCHANGED <<config, workflow, rows, drivers, prompts, file, ids>>
  BY DEF Storing!Start, Storing!db
<1>2. TablesOK' /\ DefaultKept
  <2>1. requests' \in 1..MaxRequests
    BY <1>1 DEF StoreInv, TablesOK, StoreBounds
  <2> QED
    BY <1>1, <2>1 DEF StoreInv, TablesOK, DefaultKept
<1>3. ReadOK' /\ got'[t] = Storing!NoGot /\ \A u \in Tasks \ {t} : got'[u] = got[u]
  BY <1>1, NothingGot, ReadMoves DEF StoreInv
<1>4. TodoOK'
  BY <1>1, <1>3, TaskMoves DEF StoreInv
<1> QED
  BY <1>2, <1>3, <1>4 DEF StoreStep

LEMMA BeginsPlain ==
  ASSUME StoreBounds, StoreInv, NEW t \in Tasks, NEW p, Storing!Start(t, p), PlainProgram(p)
  PROVE  StoreStep
BY Begins DEF TaskOK

LEMMA VersionWritten ==
  ASSUME StoreBounds, StoreInv, NEW t, NEW p, Storing!Start(t, p)
  PROVE  Storing!V \in Vals
<1>1. requests < MaxRequests
  BY DEF Storing!Start
<1> QED
  BY <1>1 DEF Storing!V, Vals, StoreInv, TablesOK, StoreBounds

LEMMA PlainAgentStatements ==
  ASSUME NEW v \in Vals, NEW a, NEW k, NEW id
  PROVE  /\ \A do \in {"set_rules", "delete_driver", "get_drivers", "get_driver", "add_prompt", "get_prompts", "set_prompt",
                       "delete_prompt", "get_prompt", "get_credentials"} :
              Plain(Storing!AgentSt(do, a, k, id, v))
         /\ \A do \in {"add_workflow", "set_workflow"} : \A w : Plain(Storing!WorkflowSt(do, a, w, v))
         /\ \A do \in {"delete_agent", "exported"} : \A w : Plain(Storing!St(do, a, w))
         /\ a \in Agents => \A do \in {"get_rules", "workflows_list"} : \A w : Plain(Storing!St(do, a, w))
         /\ \A w : w # "default" => Plain(Storing!St("delete_workflow", a, w))
BY DEF Plain, StatementOK, Storing!AgentSt, Storing!WorkflowSt, Storing!St

LEMMA StepRequested ==
  ASSUME StoreBounds, StoreInv, NEW t \in Tasks, NEW k, NEW wfs, Storing!StepRequest(t, k, wfs)
  PROVE  StoreStep
<1>1. k \in Kinds
  BY DEF Storing!StepRequest
<1>2. PICK a \in Agents, w \in wfs : \E made \in Storing!StepCalls(a, w, k) : Storing!Start(t, made)
  BY DEF Storing!StepRequest
<1>3. PICK made \in Storing!StepCalls(a, w, k) : Storing!Start(t, made)
  BY <1>2
<1>4. Storing!V \in Vals
  BY <1>3, VersionWritten
<1>5. \A do \in {"update", "delete", "insert", "select"} : \A id : Plain(Storing!StepSt(do, a, w, k, id, Storing!V))
  BY <1>1, <1>4 DEF Plain, StatementOK, Storing!StepSt
<1>6. PICK do \in {"update", "delete", "insert", "select"}, id \in Nat : made = Storing!Ensured(Storing!StepSt(do, a, w, k, id, Storing!V))
  <2>1. 1..ids \subseteq Nat /\ 0 \in Nat
    BY DEF StoreInv, TablesOK
  <2> QED
    BY <1>3, <2>1 DEF Storing!StepCalls
<1>7. PlainProgram(made)
  BY <1>5, <1>6, EnsuredProgram
<1> QED
  BY <1>3, <1>7, BeginsPlain

LEMMA WorkflowRequested ==
  ASSUME StoreBounds, StoreInv, NEW t \in Tasks, Storing!WorkflowRequest(t) \/ Storing!SetWorkflowRules(t)
  PROVE  StoreStep
<1>1. PICK a \in Agents, w \in Storing!AllWorkflows :
        \/ Storing!Start(t, <<Storing!WorkflowSt("add_workflow", a, w, Storing!V)>>)
        \/ Storing!Start(t, Storing!Ensured(Storing!WorkflowSt("set_workflow", a, w, Storing!V)))
        \/ Storing!DeleteWorkflow(a, w) # <<>> /\ Storing!Start(t, Storing!DeleteWorkflow(a, w))
        \/ Storing!Start(t, <<Storing!St("workflows_list", a, w)>>)
  BY DEF Storing!WorkflowRequest, Storing!SetWorkflowRules
<1>2. Storing!V \in Vals
  BY <1>1, VersionWritten
<1>3. PlainProgram(<<Storing!WorkflowSt("add_workflow", a, w, Storing!V)>>)
      /\ PlainProgram(Storing!Ensured(Storing!WorkflowSt("set_workflow", a, w, Storing!V)))
      /\ PlainProgram(<<Storing!St("workflows_list", a, w)>>)
  BY <1>2, PlainAgentStatements, OneStatement, EnsuredProgram
<1>4. PlainProgram(Storing!DeleteWorkflow(a, w))
  <2>1. CASE w = "default"
    BY <2>1, NothingLeft DEF Storing!DeleteWorkflow
  <2>2. CASE w # "default"
    <3>1. Storing!DeleteWorkflow(a, w) = Storing!Ensured(Storing!St("delete_workflow", a, w))
      BY <2>2, Zenon DEF Storing!DeleteWorkflow
    <3> QED
      BY <1>2, <2>2, <3>1, PlainAgentStatements, EnsuredProgram
  <2> QED
    BY <2>1, <2>2
<1> QED
  BY <1>1, <1>3, <1>4, BeginsPlain

LEMMA AgentRequested ==
  ASSUME StoreBounds, StoreInv, NEW t \in Tasks,
         Storing!AgentRules(t) \/ Storing!PromptRequest(t) \/ Storing!AddAgentRequest(t) \/ Storing!DeleteAgentRequest(t)
  PROVE  StoreStep
<1>1. PICK a, id : a \in Agents /\
        \/ Storing!Start(t, <<Storing!AgentSt("set_rules", a, "", 0, Storing!V)>>)
        \/ Storing!Start(t, <<Storing!St("get_rules", a, "default")>>)
        \/ \E do \in {"add_prompt", "get_prompts"} : Storing!Start(t, <<Storing!AgentSt(do, a, "", 0, Storing!V)>>)
        \/ \E do \in {"set_prompt", "delete_prompt", "get_prompt"} : Storing!Start(t, <<Storing!AgentSt(do, a, "", id, Storing!V)>>)
        \/ Storing!Start(t, Storing!NewAgent(a, Storing!V))
        \/ Storing!Start(t, <<Storing!St("delete_agent", a, "default")>>)
  BY DEF Storing!AgentRules, Storing!PromptRequest, Storing!AddAgentRequest, Storing!DeleteAgentRequest
<1>2. Storing!V \in Vals
  BY <1>1, VersionWritten
<1>3. PlainProgram(<<Storing!AgentSt("set_rules", a, "", 0, Storing!V)>>)
      /\ PlainProgram(<<Storing!St("get_rules", a, "default")>>)
      /\ PlainProgram(<<Storing!St("delete_agent", a, "default")>>)
      /\ PlainProgram(Storing!NewAgent(a, Storing!V))
  BY <1>1, <1>2, PlainAgentStatements, OneStatement, NewAgentProgram
<1>4. \A do \in {"add_prompt", "get_prompts", "set_prompt", "delete_prompt", "get_prompt"} : \A i :
        PlainProgram(<<Storing!AgentSt(do, a, "", i, Storing!V)>>)
  BY <1>2, PlainAgentStatements, OneStatement
<1> QED
  BY <1>1, <1>3, <1>4, BeginsPlain

LEMMA DriverRequested ==
  ASSUME StoreBounds, StoreInv, NEW t \in Tasks, Storing!DriverRequest(t)
  PROVE  StoreStep
<1> DEFINE Add(a, k, n) == [do |-> "add_driver", a |-> a, k |-> k, n |-> n, val |-> [f \in Fields |-> Storing!V]]
           Get(a, id) == Storing!AgentSt("get_driver", a, "", id, Storing!V)
           Pat(a, id, n, set) == [do |-> "patch_driver", a |-> a, id |-> id, n |-> n, set |-> set, val |-> Storing!V]
<1>1. PICK a, id, k, n, set :
        \/ k \in DriverIds /\ n \in DriverNames /\ Storing!Start(t, <<Add(a, k, n)>>)
        \/ n \in DriverNames /\ Storing!Start(t, <<Get(a, id), Pat(a, id, n, set)>>)
        \/ Storing!Start(t, <<Storing!AgentSt("delete_driver", a, "", id, Storing!V)>>)
        \/ Storing!Start(t, <<Storing!AgentSt("get_drivers", a, "", 0, Storing!V)>>)
  BY DEF Storing!DriverRequest
<1>2. Storing!V \in Vals
  BY <1>1, VersionWritten
<1>3. PlainProgram(<<Storing!AgentSt("delete_driver", a, "", id, Storing!V)>>)
      /\ PlainProgram(<<Storing!AgentSt("get_drivers", a, "", 0, Storing!V)>>)
  BY <1>2, PlainAgentStatements, OneStatement
<1>4. ASSUME k \in DriverIds, n \in DriverNames PROVE PlainProgram(<<Add(a, k, n)>>)
  <2>1. Plain(Add(a, k, n))
    BY <1>2, <1>4 DEF Plain, StatementOK
  <2> QED
    BY <2>1, OneStatement
<1>5. ASSUME n \in DriverNames PROVE TaskOK(<<Get(a, id), Pat(a, id, n, set)>>, Storing!NoGot)
  <2>1. Get(a, id).do = "get_driver"
    BY DEF Storing!AgentSt
  <2>2. Patch(Pat(a, id, n, set))
    BY <1>2, <1>5 DEF Patch, StatementOK
  <2> HIDE DEF Get, Pat
  <2> QED
    BY <2>1, <2>2 DEF TaskOK
<1> HIDE DEF Add, Get, Pat
<1> QED
  BY <1>1, <1>3, <1>4, <1>5, Begins, BeginsPlain

LEMMA ThreeStatements ==
  ASSUME NEW s, NEW r, NEW q, Plain(s), Plain(r), Plain(q)
  PROVE  PlainProgram(<<s, r, q>>)
<1>1. <<s, r, q>> \in Seq({s, r, q}) /\ Len(<<s, r, q>>) = 3
      /\ <<s, r, q>>[1] = s /\ <<s, r, q>>[2] = r /\ <<s, r, q>>[3] = q
  OBVIOUS
<1>2. \A i \in 1..3 : i = 1 \/ i = 2 \/ i = 3
  OBVIOUS
<1> QED
  BY <1>1, <1>2 DEF PlainProgram

LEMMA OtherRequested ==
  ASSUME StoreBounds, StoreInv, NEW t \in Tasks,
         \/ Storing!CredentialsRequest(t) \/ Storing!LoadRequest(t) \/ Storing!ExportRequest(t) \/ Storing!ImportRequest(t)
         \/ Storing!CleanupDeletedWorkflows(t)
  PROVE  StoreStep
<1>1. CASE Storing!CredentialsRequest(t)
  <2>1. PICK a, k, ks :
          \/ Storing!Start(t, <<[do |-> "upsert", a |-> a, ks |-> ks, val |-> Storing!V]>>)
          \/ Storing!Start(t, <<Storing!AgentSt("get_credentials", a, k, 0, Storing!V)>>)
    BY <1>1 DEF Storing!CredentialsRequest
  <2>2. Storing!V \in Vals
    BY <2>1, VersionWritten
  <2>3. Plain([do |-> "upsert", a |-> a, ks |-> ks, val |-> Storing!V])
    BY DEF Plain, StatementOK
  <2> QED
    BY <2>1, <2>2, <2>3, PlainAgentStatements, OneStatement, BeginsPlain
<1>2. CASE Storing!LoadRequest(t)
  BY <1>2, LoadProgram, BeginsPlain DEF Storing!LoadRequest
<1>3. CASE Storing!ExportRequest(t)
  <2> DEFINE list(a) == Storing!St("workflows_list", a, "default")
             get(a) == Storing!AgentSt("get_prompts", a, "", 0, Storing!V)
             end(a) == Storing!St("exported", a, "default")
  <2>1. PICK a \in Agents : Storing!Start(t, <<list(a), get(a), end(a)>>)
    BY <1>3 DEF Storing!ExportRequest
  <2>2. Storing!V \in Vals
    BY <2>1, VersionWritten
  <2>3. Plain(list(a)) /\ Plain(get(a)) /\ Plain(end(a))
    BY <2>2, PlainAgentStatements
  <2> HIDE DEF list, get, end
  <2> QED
    BY <2>1, <2>3, ThreeStatements, BeginsPlain
<1>4. CASE Storing!ImportRequest(t)
  <2>1. PICK a \in Agents, o \in BOOLEAN :
          Storing!Start(t, Storing!Load(a, "default") \o <<[do |-> "check_target", a |-> a, overwrite |-> o]>>)
    BY <1>4 DEF Storing!ImportRequest
  <2>2. Plain([do |-> "check_target", a |-> a, overwrite |-> o])
    BY DEF Plain, StatementOK
  <2>3. "default" \in Storing!AllWorkflows
    BY DEF Storing!AllWorkflows
  <2> QED
    BY <2>1, <2>2, <2>3, LoadProgram, OneStatement, JoinedPrograms, BeginsPlain
<1>5. CASE Storing!CleanupDeletedWorkflows(t)
  <2>1. Plain([do |-> "get_expired"])
    BY DEF Plain, StatementOK
  <2> QED
    BY <1>5, <2>1, OneStatement, BeginsPlain DEF Storing!CleanupDeletedWorkflows
<1> QED
  BY <1>1, <1>2, <1>3, <1>4, <1>5

LEMMA StatementStep ==
  ASSUME StoreBounds, StoreInv, NEW t \in Tasks, Storing!Statement(t)
  PROVE  StoreStep
<1>1. CASE Writes(t)
  BY <1>1, TablesMove, WritesMove DEF StoreStep
<1>2. CASE Rest(t)
  <2>1. UNCHANGED <<config, workflow, rows, drivers, prompts, ids, requests>>
    BY <1>2 DEF Rest, Storing!EnsureWorkflowActive, Storing!UpsertCredentials, Storing!Imported, Storing!db, Storing!Keep
  <2> QED
    BY <1>2, <2>1, TablesStay, WritesMove DEF StoreStep, StoreInv
<1>3. CASE Reads(t)
  <2>1. UNCHANGED <<config, workflow, rows, drivers, prompts, ids, requests>>
    <3>1. Storing!SelectSteps(t) \/ Storing!GetRules(t) \/ Storing!GetDriver(t) \/ Storing!GetDrivers(t) \/ Storing!GetPrompt(t)
            \/ Storing!GetPrompts(t) => <2>1!:
      BY DEF Storing!SelectSteps, Storing!GetRules, Storing!GetDriver, Storing!GetDrivers, Storing!GetPrompt, Storing!GetPrompts,
         Storing!db, Storing!Keep
    <3>2. Storing!GetCredentials(t) \/ Storing!SelectConfig(t) \/ Storing!SelectWorkflow(t) \/ Storing!KeepLoaded(t)
            \/ Storing!Exported(t) => <2>1!:
      BY DEF Storing!GetCredentials, Storing!SelectConfig, Storing!SelectWorkflow, Storing!KeepLoaded, Storing!Exported,
         Storing!db, Storing!Keep
    <3> QED
      BY <1>3, <3>1, <3>2 DEF Reads
  <2>2. TablesOK' /\ DefaultKept
    BY <2>1, TablesStay DEF StoreInv
  <2>3. Settles(t)
    BY <1>3, SetRead, RulesRead, PromptsRead, ConfigRead, WorkflowRead, WorkflowKept, FileWritten DEF Reads
  <2> QED
    BY <2>2, <2>3 DEF StoreStep, Settles
<1>4. CASE GivesTodo(t)
  <2>1. UNCHANGED <<config, workflow, rows, drivers, prompts, ids, requests>>
    BY <1>4 DEF GivesTodo, Storing!CheckTarget, Storing!ReadFile, Storing!WorkflowsList, Storing!ListExpired, Storing!db, Storing!Keep
  <2>2. TablesOK' /\ DefaultKept
    BY <2>1, TablesStay DEF StoreInv
  <2>3. Settles(t)
    BY <1>4, TargetChecked, FileRead, WorkflowsListed, ExpiredListed DEF GivesTodo
  <2> QED
    BY <2>2, <2>3 DEF StoreStep, Settles
<1> QED
  BY <1>1, <1>2, <1>3, <1>4, StatementIs

LEMMA RequestStep ==
  ASSUME StoreBounds, StoreInv, NEW t \in Tasks, Storing!Request(t)
  PROVE  StoreStep
<1>1. ASSUME \/ Storing!WorkflowPreprocess(t) \/ Storing!WorkflowGeneration(t) \/ Storing!WorkflowPostprocess(t)
             \/ Storing!WorkflowContext(t) \/ Storing!AgentPreprocess(t) \/ Storing!AgentGeneration(t)
             \/ Storing!AgentPostprocess(t) \/ Storing!AgentContext(t)
      PROVE StoreStep
  <2>1. \E k, wfs : Storing!StepRequest(t, k, wfs)
    BY <1>1, Zenon DEF Storing!WorkflowPreprocess, Storing!WorkflowGeneration, Storing!WorkflowPostprocess,
       Storing!WorkflowContext, Storing!AgentPreprocess, Storing!AgentGeneration, Storing!AgentPostprocess, Storing!AgentContext
  <2> QED
    BY <2>1, StepRequested
<1>2. ASSUME \/ Storing!WorkflowRequest(t) \/ Storing!SetWorkflowRules(t) \/ Storing!AgentRules(t) \/ Storing!DriverRequest(t)
             \/ Storing!PromptRequest(t) \/ Storing!CredentialsRequest(t) \/ Storing!LoadRequest(t) \/ Storing!ExportRequest(t)
             \/ Storing!ImportRequest(t) \/ Storing!AddAgentRequest(t) \/ Storing!DeleteAgentRequest(t)
             \/ Storing!CleanupDeletedWorkflows(t)
      PROVE StoreStep
  BY <1>2, WorkflowRequested, AgentRequested, DriverRequested, OtherRequested
<1> QED
  BY <1>1, <1>2, Zenon DEF Storing!Request

LEMMA Expires ==
  ASSUME StoreInv, NEW a \in Agents, NEW w \in Storing!AllWorkflows, Storing!Expire(a, w)
  PROVE  StoreStep
<1> DEFINE e == [workflow[a][w] EXCEPT !.state = "expired"]
<1>1. workflow[a][w].state = "deleted" /\ workflow' = [workflow EXCEPT ![a][w] = e]
      /\ UNCHANGED <<config, rows, drivers, prompts, file, todo, got, requests, ids>>
  BY DEF Storing!Expire
<1>2. e \in WorkflowEntry
  <2>1. workflow[a][w] \in WorkflowEntry
    BY DEF StoreInv, TablesOK
  <2> QED
    BY <2>1, EntryFields
<1> HIDE DEF e
<1>3. TablesOK' /\ DefaultKept
  BY <1>1, <1>2, WorkflowMoves DEF StoreInv
<1>4. ReadOK' /\ TodoOK'
  BY <1>1 DEF StoreInv, ReadOK, TodoOK
<1> QED
  BY <1>3, <1>4 DEF StoreStep

LEMMA StoreInit == StoreBounds /\ Storing!Init => StoreInv
<1> SUFFICES ASSUME StoreBounds, Storing!Init
             PROVE  StoreInv
  OBVIOUS
<1>1. 0 \in Vals /\ 1 \in Vals /\ 1 \in 1..MaxRequests /\ 0 \in 0..MaxRows
  BY DEF StoreBounds, Vals
<1>2. TablesOK
  <2>1. StepsOK({}) /\ DriversOK({}) /\ PromptsOK({})
    BY FS_EmptySet DEF StepsOK, DriversOK, PromptsOK
  <2>2. PICK states \in [Agents \X Workflows -> {"none", "active", "deleted", "expired"}] :
          workflow = [a \in Agents |-> [w \in Storing!AllWorkflows |->
            IF w = "default" THEN [state |-> "active", val |-> 1]
            ELSE IF states[<<a, w>>] = "none" THEN Storing!NoWorkflow ELSE [state |-> states[<<a, w>>], val |-> 1]]]
    BY DEF Storing!Init
  <2>3. Storing!NoWorkflow \in WorkflowEntry /\ \A s \in {"none", "active", "deleted", "expired"} : [state |-> s, val |-> 1] \in WorkflowEntry
    BY <1>1 DEF Storing!NoWorkflow, WorkflowEntry, Storing!Nothing
  <2>4. \A a \in Agents : \A w \in Storing!AllWorkflows : w # "default" => states[<<a, w>>] \in {"none", "active", "deleted", "expired"}
    BY DEF Storing!AllWorkflows
  <2>5. workflow \in [Agents -> [Storing!AllWorkflows -> WorkflowEntry]]
    BY <2>2, <2>3, <2>4
  <2> QED
    BY <1>1, <2>1, <2>5 DEF TablesOK, Storing!Init
<1>3. ReadOK
  BY NothingGot DEF ReadOK, Storing!Init
<1>4. TodoOK
  BY NothingLeft DEF TodoOK, TaskOK, Storing!Init
<1> QED
  BY <1>2, <1>3, <1>4 DEF StoreInv

LEMMA StoreNext ==
  ASSUME StoreBounds, StoreInv, [Storing!Next]_Storing!storeVars
  PROVE  StoreInv' /\ DefaultKept
<1>1. CASE UNCHANGED Storing!storeVars
  <2>1. UNCHANGED <<config, workflow, rows, drivers, prompts, file, todo, got, requests, ids>>
    BY <1>1 DEF Storing!storeVars
  <2>2. TablesOK' /\ DefaultKept
    BY <2>1, TablesStay DEF StoreInv
  <2>3. ReadOK' /\ TodoOK'
    BY <2>1 DEF StoreInv, ReadOK, TodoOK
  <2> QED
    BY <2>2, <2>3 DEF StoreInv
<1>2. CASE Storing!Next
  <2>1. StoreStep
    BY <1>2, StatementStep, RequestStep, Expires DEF Storing!Next
  <2> QED
    BY <2>1 DEF StoreStep, StoreInv
<1> QED
  BY <1>1, <1>2

LEMMA StoreInvariance == StoreBounds => (Storing!Spec => []StoreInv)
<1> SUFFICES ASSUME StoreBounds
             PROVE  Storing!Spec => []StoreInv
  OBVIOUS
<1>1. Storing!Init => StoreInv
  BY StoreInit
<1>2. StoreInv /\ [Storing!Next]_Storing!storeVars => StoreInv'
  BY StoreNext
<1> QED
  BY <1>1, <1>2, PTL DEF Storing!Spec

\* The tables of the store keep their types, whatever requests are made of it and
\* however their statements are interleaved.
THEOREM StoreTypes == StoreBounds => (Storing!Spec => []Storing!AgentStoreTypeOK)
<1> SUFFICES ASSUME StoreBounds
             PROVE  Storing!Spec => []Storing!AgentStoreTypeOK
  OBVIOUS
<1>1. StoreInv => Storing!AgentStoreTypeOK
  <2> SUFFICES ASSUME StoreInv
               PROVE  Storing!AgentStoreTypeOK
    OBVIOUS
  <2>1. ASSUME NEW a \in Agents, NEW w \in Storing!AllWorkflows
        PROVE  workflow[a][w].state \in {"none", "active", "deleted", "expired"} /\ workflow[a][w].val \in Vals
    <3>1. workflow[a][w] \in WorkflowEntry
      BY DEF StoreInv, TablesOK
    <3> QED
      BY <3>1, EntryFields
  <2> QED
    BY <2>1 DEF StoreInv, TablesOK, StepsOK, StepOK, DriversOK, DriverOK, Vals, Storing!AgentStoreTypeOK
<1> QED
  BY <1>1, StoreInvariance, PTL

\* The default workflow of an agent leaves only with the agent (delete_workflow
\* refuses it, and the purge is of deleted ones).
THEOREM DefaultWorkflowStays == StoreBounds => (Storing!Spec => Storing!DefaultStays)
<1> SUFFICES ASSUME StoreBounds
             PROVE  Storing!Spec => Storing!DefaultStays
  OBVIOUS
<1>1. StoreInv /\ [Storing!Next]_Storing!storeVars =>
        [\A a \in Agents :
           workflow[a]["default"].state = "active" /\ config'[a] # Storing!Nothing => workflow'[a]["default"].state = "active"]_Storing!storeVars
  BY StoreNext DEF DefaultKept
<1> QED
  BY <1>1, StoreInvariance, PTL DEF Storing!Spec, Storing!DefaultStays

\* The requests, and the statements but five, leave the workflows alone.
LEMMA WorkflowsStay ==
  ASSUME NEW t, Storing!Statement(t) \/ Storing!Request(t)
  PROVE  \/ workflow' = workflow
         \/ Storing!AddWorkflow(t) \/ Storing!UpdateWorkflow(t) \/ Storing!SoftDelete(t)
         \/ Storing!PurgeDeletedWorkflow(t) \/ Storing!DeleteAgent(t)
<1>1. CASE Storing!Request(t)
  <2>1. \E p : Storing!Start(t, p)
    <3>1. Storing!WorkflowPreprocess(t) \/ Storing!WorkflowGeneration(t) \/ Storing!WorkflowPostprocess(t)
            \/ Storing!WorkflowContext(t) \/ Storing!AgentPreprocess(t) \/ Storing!AgentGeneration(t)
            \/ Storing!AgentPostprocess(t) \/ Storing!AgentContext(t) => <2>1!:
      BY Zenon DEF Storing!WorkflowPreprocess, Storing!WorkflowGeneration, Storing!WorkflowPostprocess, Storing!WorkflowContext,
         Storing!AgentPreprocess, Storing!AgentGeneration, Storing!AgentPostprocess, Storing!AgentContext, Storing!StepRequest
    <3>2. Storing!WorkflowRequest(t) \/ Storing!SetWorkflowRules(t) \/ Storing!AgentRules(t) \/ Storing!DriverRequest(t)
            \/ Storing!PromptRequest(t) => <2>1!:
      BY Zenon DEF Storing!WorkflowRequest, Storing!SetWorkflowRules, Storing!AgentRules, Storing!DriverRequest, Storing!PromptRequest
    <3>3. Storing!CredentialsRequest(t) \/ Storing!LoadRequest(t) \/ Storing!ExportRequest(t) \/ Storing!ImportRequest(t)
            \/ Storing!AddAgentRequest(t) \/ Storing!DeleteAgentRequest(t) \/ Storing!CleanupDeletedWorkflows(t) => <2>1!:
      BY Zenon DEF Storing!CredentialsRequest, Storing!LoadRequest, Storing!ExportRequest, Storing!ImportRequest,
         Storing!AddAgentRequest, Storing!DeleteAgentRequest, Storing!CleanupDeletedWorkflows
    <3> QED
      BY <1>1, <3>1, <3>2, <3>3 DEF Storing!Request
  <2> QED
    BY <2>1 DEF Storing!Start, Storing!db
<1>2. CASE Writes(t)
  BY <1>2 DEF Writes, Storing!InsertStep, Storing!UpdateStep, Storing!DeleteStep, Storing!AddAgent, Storing!SetRules,
     Storing!InsertDriver, Storing!UpdateDriver, Storing!DeleteDriver, Storing!InsertPrompt, Storing!SetPrompt, Storing!DeletePrompt
<1>3. CASE Reads(t)
  BY <1>3 DEF Reads, Storing!SelectSteps, Storing!GetRules, Storing!GetDriver, Storing!GetDrivers, Storing!GetPrompt,
     Storing!GetPrompts, Storing!GetCredentials, Storing!SelectConfig, Storing!SelectWorkflow, Storing!KeepLoaded,
     Storing!Exported, Storing!db
<1>4. CASE GivesTodo(t) \/ Rest(t)
  BY <1>4 DEF GivesTodo, Rest, Storing!CheckTarget, Storing!ReadFile, Storing!WorkflowsList, Storing!ListExpired,
     Storing!EnsureWorkflowActive, Storing!UpsertCredentials, Storing!Imported, Storing!db
<1> QED
  BY <1>1, <1>2, <1>3, <1>4, StatementIs

\* The cron job takes away only workflows that are deleted, though the list it
\* works through may be old (purge_deleted_workflow).
THEOREM OnlyDeletedPurged == StoreBounds => (Storing!Spec => Storing!PurgeOnlyDeleted)
<1> SUFFICES ASSUME StoreBounds
             PROVE  Storing!Spec => Storing!PurgeOnlyDeleted
  OBVIOUS
<1> DEFINE Purges(t) == Storing!Run(t, "purge") /\ todo'[t] = Tail(todo[t])
           Same == \A a \in Agents, w \in Storing!AllWorkflows :
                     workflow[a][w].state = "active" => workflow'[a][w] = workflow[a][w]
<1>1. ASSUME StoreInv, Storing!Next, NEW t \in Tasks, Purges(t)
      PROVE  Same
  <2>1. todo[t] # <<>> /\ Head(todo[t]).do = "purge" /\ Tail(todo[t]) # todo[t]
    <3>1. todo[t] # <<>> /\ Head(todo[t]).do = "purge" /\ TaskOK(todo[t], got[t])
      BY <1>1 DEF Storing!Run, StoreInv, TodoOK
    <3> QED
      BY <3>1, TaskIsPlain, PlainGoesOn
  <2>2. ASSUME NEW u, Storing!Statement(u) \/ Storing!Request(u)
        PROVE  Same
    <3>1. CASE workflow' = workflow
      BY <3>1
    <3>2. CASE \/ Storing!AddWorkflow(u) \/ Storing!UpdateWorkflow(u) \/ Storing!SoftDelete(u)
               \/ Storing!PurgeDeletedWorkflow(u) \/ Storing!DeleteAgent(u)
      <4>1. PICK p : todo' = [todo EXCEPT ![u] = p]
        BY <3>2 DEF Storing!AddWorkflow, Storing!UpdateWorkflow, Storing!SoftDelete, Storing!PurgeDeletedWorkflow,
           Storing!DeleteAgent, Storing!Done, Storing!Abort
      <4>2. u = t
        <5>1. todo = [v \in Tasks |-> todo[v]]
          BY <1>1 DEF StoreInv, TodoOK
        <5>2. u # t => todo'[t] = todo[t]
          BY <4>1, <5>1
        <5> QED
          BY <1>1, <2>1, <5>2
      <4>3. Storing!PurgeDeletedWorkflow(t)
        BY <2>1, <3>2, <4>2 DEF Storing!AddWorkflow, Storing!UpdateWorkflow, Storing!SoftDelete, Storing!DeleteAgent, Storing!Run
      <4>4. PICK b, v : workflow' = workflow \/ (workflow[b][v].state \in {"deleted", "expired"}
                                              /\ workflow' = [workflow EXCEPT ![b][v] = Storing!NoWorkflow])
        BY <4>3 DEF Storing!PurgeDeletedWorkflow
      <4>5. workflow \in [Agents -> [Storing!AllWorkflows -> WorkflowEntry]]
        BY <1>1 DEF StoreInv, TablesOK
      <4>6. ASSUME NEW a \in Agents, NEW w \in Storing!AllWorkflows, workflow[a][w].state = "active"
            PROVE  workflow'[a][w] = workflow[a][w]
        <5>1. CASE workflow' = workflow
          BY <5>1
        <5>2. CASE workflow[b][v].state \in {"deleted", "expired"} /\ workflow' = [workflow EXCEPT ![b][v] = Storing!NoWorkflow]
          <6>1. a # b \/ w # v
            BY <4>6, <5>2
          <6>2. CASE a # b
            BY <4>5, <5>2, <6>2
          <6>3. CASE a = b /\ w # v
            <7>1. workflow'[a] = [workflow[a] EXCEPT ![v] = Storing!NoWorkflow]
              BY <4>5, <5>2, <6>3
            <7> QED
              BY <4>5, <6>3, <7>1
          <6> QED
            BY <6>1, <6>2, <6>3
        <5> QED
          BY <4>4, <5>1, <5>2
      <4> QED
        BY <4>6
    <3> QED
      BY <2>2, <3>1, <3>2, WorkflowsStay
  <2>3. ASSUME NEW a, NEW w, Storing!Expire(a, w)
        PROVE  FALSE
    BY <1>1, <2>1, <2>3 DEF Storing!Expire
  <2> QED
    BY <1>1, <2>2, <2>3 DEF Storing!Next
<1>2. StoreInv /\ [Storing!Next]_Storing!storeVars => [\A t \in Tasks : Purges(t) => Same]_Storing!storeVars
  BY <1>1
<1> QED
  BY <1>2, StoreInvariance, PTL DEF Storing!Spec, Storing!PurgeOnlyDeleted
=============================================================================
