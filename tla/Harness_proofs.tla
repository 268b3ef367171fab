-------------------------- MODULE Harness_proofs ---------------------------
(***************************************************************************)
(* Proofs about the harness: the agent limit, the children a turn leaves   *)
(* behind and what a single interrupt() does, for every set of children,   *)
(* tool calls and bounds.                                                  *)
(***************************************************************************)
EXTENDS Harness, FiniteSetTheorems, SequenceTheorems, TLAPS

KidStates == {"free", "spawned", "working", "ended"}

\* Where the turn has not spawned anything since its children were last told
\* to stop.
Settled == cancelDue \/ pc \in {"idle", "over", "start", "prompt", "flagged", "handled"}

KidsTyped ==
  /\ kid \in [Kids -> KidStates]
  /\ active \subseteq Kids /\ children \subseteq Kids /\ stopping \subseteq Kids

\* A child that is alive counts for the limit, is known to stop() and
\* interrupt(), and has been told to stop wherever the turn is settled.
KidsInv ==
  /\ KidsTyped
  /\ AliveKids \subseteq active
  /\ AliveKids \subseteq children
  /\ Cardinality(active) < MaxAgents
  /\ Settled => AliveKids \subseteq stopping

-----------------------------------------------------------------------------
\* The children counted as active are finitely many, so that taking one away
\* or adding one moves the count by at most one.
LEMMA ActiveCount ==
  ASSUME NEW S \in SUBSET Kids
  PROVE  /\ IsFiniteSet(S) /\ Cardinality(S) \in Nat
         /\ \A k \in Kids : Cardinality(S \ {k}) <= Cardinality(S)
         /\ \A k \in Kids : Cardinality(S \cup {k}) <= Cardinality(S) + 1
<1>1. IsFiniteSet(S)
  BY HarnessBounds, FS_Subset
<1>2. Cardinality(S) \in Nat
  BY <1>1, FS_CardinalityType
<1>3. ASSUME NEW k \in Kids PROVE Cardinality(S \ {k}) <= Cardinality(S)
  <2>1. CASE k \in S
    <3>1. Cardinality(S \ {k}) = Cardinality(S) - 1
      BY <2>1, <1>1, FS_RemoveElement
    <3> QED BY <3>1, <1>2
  <2>2. CASE k \notin S
    <3>1. S \ {k} = S
      BY <2>2
    <3> QED BY <3>1, <1>2
  <2> QED BY <2>1, <2>2
<1>4. ASSUME NEW k \in Kids PROVE Cardinality(S \cup {k}) <= Cardinality(S) + 1
  BY <1>1, <1>2, FS_AddElement
<1> QED BY <1>1, <1>2, <1>3, <1>4

LEMMA KidsInvInit == Init => KidsInv
<1> SUFFICES ASSUME Init PROVE KidsInv
  OBVIOUS
<1>1. AliveKids = {}
  BY DEF Init, AliveKids, Alive
<1>2. Cardinality(active) < MaxAgents
  BY FS_EmptySet, HarnessBounds DEF Init
<1> QED BY <1>1, <1>2 DEF Init, KidsInv, KidsTyped, KidStates

\* A step that leaves the children alone keeps the invariant if it reaches a
\* settled place only from one.
LEMMA TurnAlone ==
  ASSUME KidsInv, UNCHANGED kidVars, Settled' => Settled
  PROVE  KidsInv'
<1>1. AliveKids' = AliveKids
  BY DEF kidVars, AliveKids, Alive
<1> QED BY <1>1 DEF KidsInv, KidsTyped, kidVars

\* A step that only tells children to stop keeps it too, wherever it leads if
\* it tells all of them.
LEMMA ToldToStop ==
  ASSUME KidsInv, UNCHANGED <<kid, children, active>>,
         stopping \subseteq stopping', stopping' \subseteq stopping \cup AliveKids,
         \/ InterruptChildren
         \/ Settled' => Settled
  PROVE  KidsInv'
<1>1. AliveKids' = AliveKids /\ AliveKids \subseteq Kids
  BY DEF AliveKids, Alive
<1>2. CASE InterruptChildren
  <2>1. AliveKids \subseteq stopping'
    BY <1>1, <1>2 DEF KidsInv, InterruptChildren, AliveKids
  <2> QED BY <1>1, <2>1 DEF KidsInv, KidsTyped
<1>3. CASE Settled' => Settled
  BY <1>1, <1>3 DEF KidsInv, KidsTyped
<1> QED BY <1>2, <1>3

\* A step by which children end or are forgotten keeps it, if those forgotten
\* have ended.
LEMMA KidGone ==
  ASSUME KidsInv, KidsTyped',
         AliveKids' \subseteq AliveKids,
         AliveKids' \subseteq active', AliveKids' \subseteq children',
         Cardinality(active') <= Cardinality(active),
         Settled' => (AliveKids' \subseteq stopping' \/ (Settled /\ stopping \cap AliveKids' \subseteq stopping'))
  PROVE  KidsInv'
<1>1. Cardinality(active) \in Nat /\ Cardinality(active') \in Nat
  BY ActiveCount DEF KidsInv, KidsTyped
<1>2. Cardinality(active') < MaxAgents
  BY <1>1, HarnessBounds DEF KidsInv
<1>3. Settled' => AliveKids' \subseteq stopping'
  BY DEF KidsInv
<1> QED BY <1>2, <1>3 DEF KidsInv

-----------------------------------------------------------------------------
LEMMA KidsInvTurn == KidsInv /\ TurnStep => KidsInv'
<1> SUFFICES ASSUME KidsInv, TurnStep PROVE KidsInv'
  OBVIOUS
<1> USE DEF turnVars, cancelVars, historyVars, steerVars
<1>1. CASE TurnStarted
  BY <1>1, TurnAlone DEF TurnStarted, Settled
<1>2. CASE PromptSaved
  <2>1. UNCHANGED kidVars /\ UNCHANGED cancelDue /\ pc = "prompt"
    BY <1>2 DEF PromptSaved
  <2> QED BY <2>1, TurnAlone DEF Settled
<1>3. CASE InboxSaved
  <2>1. UNCHANGED kidVars /\ UNCHANGED cancelDue /\ pc' \in {"model", "failed"}
    BY <1>3 DEF InboxSaved, CallModel
  <2> QED BY <2>1, TurnAlone DEF Settled
<1>4. CASE ToolsEnd
  BY <1>4, TurnAlone DEF ToolsEnd, Settled
<1>5. CASE ExchangeSaved \/ RetrySaved \/ AnswerSaved
  <2>1. UNCHANGED kidVars /\ UNCHANGED cancelDue
        /\ pc' \in {"model", "failed", "inbox", "completed"}
    BY <1>5 DEF ExchangeSaved, RetrySaved, AnswerSaved, NextRound, CallModel
  <2> QED BY <2>1, TurnAlone DEF Settled
<1>6. CASE Drained
  BY <1>6, TurnAlone DEF Drained, Settled
<1>7. CASE TerminalSaved
  <2>1. InterruptChildren /\ UNCHANGED <<kid, children, active>>
    BY <1>7 DEF TerminalSaved, StopChildren
  <2>2. stopping \subseteq stopping' /\ stopping' \subseteq stopping \cup AliveKids
    BY <2>1 DEF InterruptChildren, AliveKids, KidsInv, KidsTyped
  <2> QED BY <2>1, <2>2, ToldToStop
<1>8. CASE InterruptionSaved
  BY <1>8, TurnAlone DEF InterruptionSaved, Settled
<1>9. CASE ChildrenStopped
  <2>1. UNCHANGED <<kid, stopping, active>> /\ children' = {}
    BY <1>9 DEF ChildrenStopped
  <2>2. AliveKids = {}
    BY <1>9 DEF ChildrenStopped, KidsInv, AliveKids
  <2>3. AliveKids' = {}
    BY <2>1, <2>2 DEF AliveKids, Alive
  <2>4. KidsTyped'
    BY <2>1 DEF KidsInv, KidsTyped
  <2>5. Cardinality(active') < MaxAgents
    BY <2>1 DEF KidsInv
  <2> QED BY <2>3, <2>4, <2>5 DEF KidsInv
<1>10. CASE CancelDelivered
  <2>1. UNCHANGED <<kid, children, active>> /\ Settled
    BY <1>10 DEF CancelDelivered, Settled
  <2>2. InterruptChildren \/ UNCHANGED stopping
    BY <1>10 DEF CancelDelivered, StopChildren
  <2>3. stopping \subseteq stopping' /\ stopping' \subseteq stopping \cup AliveKids
    BY <2>2 DEF InterruptChildren, AliveKids, KidsInv, KidsTyped
  <2> QED BY <2>1, <2>3, ToldToStop
<1>11. CASE RunReturns
  BY <1>11, TurnAlone DEF RunReturns, Settled
<1> QED
  BY <1>1, <1>2, <1>3, <1>4, <1>5, <1>6, <1>7, <1>8, <1>9, <1>10, <1>11 DEF TurnStep

LEMMA KidsInvModel == KidsInv /\ (ModelStep \/ RunStarts) => KidsInv'
<1> SUFFICES ASSUME KidsInv, ModelStep \/ RunStarts PROVE KidsInv'
  OBVIOUS
<1> USE DEF turnVars, cancelVars, historyVars, steerVars
<1>1. CASE ModelAsksTools
  BY <1>1, TurnAlone DEF ModelAsksTools, Settled
<1>2. CASE ModelAnswersEmpty
  <2>1. UNCHANGED kidVars /\ UNCHANGED cancelDue /\ pc' \in {"retry", "answer"}
    BY <1>2 DEF ModelAnswersEmpty
  <2> QED BY <2>1, TurnAlone DEF Settled
<1>3. CASE ModelAnswers
  BY <1>3, TurnAlone DEF ModelAnswers, Settled
<1>4. CASE Fails
  <2>1. UNCHANGED <<kid, children, active>> /\ (Settled' => Settled)
    BY <1>4 DEF Fails, Settled
  <2>2. stopping' = stopping \cup {k \in Waited : Alive(k)}
    BY <1>4 DEF Fails
  <2>3. stopping' \subseteq stopping \cup AliveKids
    BY <2>2 DEF AliveKids, Waited
  <2> QED BY <2>1, <2>2, <2>3, ToldToStop
<1>5. CASE RunStarts
  BY <1>5, TurnAlone DEF RunStarts, Settled
<1> QED BY <1>1, <1>2, <1>3, <1>4, <1>5 DEF ModelStep
LEMMA KidsInvTool == ASSUME NEW s \in Slots PROVE KidsInv /\ ToolStep(s) => KidsInv'
<1> SUFFICES ASSUME KidsInv, ToolStep(s) PROVE KidsInv'
  OBVIOUS
<1> USE DEF cancelVars
<1>1. CASE PlainTool(s) \/ SpawnedTool(s)
  BY <1>1, TurnAlone DEF PlainTool, SpawnedTool, Settled
<1>2. CASE SpawnTool(s)
  <2>1. ~Settled' /\ stopping' = stopping
    BY <1>2 DEF SpawnTool, Running, Settled
  <2>2. CASE UNCHANGED <<kid, children, active>>
    BY <2>1, <2>2, TurnAlone DEF kidVars
  <2>3. CASE \E k \in Kids : /\ Cardinality(active) < MaxAgents - 1
                             /\ kid' = [kid EXCEPT ![k] = "spawned"]
                             /\ children' = children \cup {k} /\ active' = active \cup {k}
    <3>1. PICK k \in Kids : /\ Cardinality(active) < MaxAgents - 1
                            /\ kid' = [kid EXCEPT ![k] = "spawned"]
                            /\ children' = children \cup {k} /\ active' = active \cup {k}
      BY <2>3
    <3>2. KidsTyped'
      BY <3>1, <2>1 DEF KidsInv, KidsTyped, KidStates
    <3>3. AliveKids' \subseteq AliveKids \cup {k}
      BY <3>1 DEF AliveKids, Alive, KidsInv, KidsTyped
    <3>4. active \in SUBSET Kids /\ active' \in SUBSET Kids
      BY <3>2 DEF KidsInv, KidsTyped
    <3>5. Cardinality(active \cup {k}) <= Cardinality(active) + 1
          /\ Cardinality(active) \in Nat /\ Cardinality(active \cup {k}) \in Nat
      BY <3>1, <3>4, ActiveCount
    <3>6. Cardinality(active') < MaxAgents
      BY <3>1, <3>5, HarnessBounds
    <3> QED BY <3>1, <3>2, <3>3, <3>6, <2>1 DEF KidsInv
  <2> QED BY <1>2, <2>2, <2>3 DEF SpawnTool
<1>3. CASE WaitTool(s)
  <2> DEFINE k == tools[s].kid
  <2>1. /\ kid[k] = "ended" /\ active' = active \ {k} /\ children' = children \ {k}
        /\ UNCHANGED <<kid, stopping, cancelDue, pc>>
    BY <1>3 DEF WaitTool
  <2>2. AliveKids' = AliveKids /\ k \notin AliveKids
    BY <2>1 DEF AliveKids, Alive
  <2>3. Cardinality(active') <= Cardinality(active)
    <3>1. CASE k \in Kids
      BY <3>1, <2>1, ActiveCount DEF KidsInv, KidsTyped
    <3>2. CASE k \notin Kids
      <4>1. active' = active
        BY <3>2, <2>1 DEF KidsInv, KidsTyped
      <4>2. Cardinality(active) \in Nat
        BY ActiveCount DEF KidsInv, KidsTyped
      <4> QED BY <4>1, <4>2
    <3> QED BY <3>1, <3>2
  <2>4. KidsTyped' /\ AliveKids' \subseteq active' /\ AliveKids' \subseteq children'
    BY <2>1, <2>2 DEF KidsInv, KidsTyped
  <2>5. Settled' => Settled /\ stopping \subseteq stopping'
    BY <2>1 DEF Settled
  <2> QED BY <2>2, <2>3, <2>4, <2>5, KidGone
<1> QED BY <1>1, <1>2, <1>3 DEF ToolStep

LEMMA KidsInvKid == ASSUME NEW k \in Kids PROVE KidsInv /\ KidStep(k) => KidsInv'
<1> SUFFICES ASSUME KidsInv, KidStep(k) PROVE KidsInv'
  OBVIOUS
<1> USE DEF turnVars, cancelVars
<1>1. Cardinality(active) \in Nat
  BY ActiveCount DEF KidsInv, KidsTyped
<1>2. CASE KidStarts(k)
  <2>1. AliveKids' = AliveKids
    BY <1>2 DEF KidStarts, AliveKids, Alive, KidsInv, KidsTyped
  <2>2. KidsTyped' /\ UNCHANGED <<active, children, stopping>> /\ (Settled' <=> Settled)
    BY <1>2 DEF KidStarts, KidsInv, KidsTyped, KidStates, Settled
  <2> QED BY <2>1, <2>2 DEF KidsInv
<1>3. CASE KidEnds(k)
  <2>1. AliveKids' = AliveKids \ {k}
    BY <1>3 DEF KidEnds, AliveKids, Alive, KidsInv, KidsTyped
  <2>2. /\ KidsTyped' /\ UNCHANGED <<active, children>> /\ stopping' = stopping \ {k}
        /\ (Settled' <=> Settled)
    BY <1>3 DEF KidEnds, KidsInv, KidsTyped, KidStates, Settled
  <2> QED BY <2>1, <2>2 DEF KidsInv
<1>4. CASE KidReaped(k)
  <2>1. /\ kid[k] = "ended" /\ active' = active \ {k}
        /\ UNCHANGED <<kid, children, stopping, pc, cancelDue>>
    BY <1>4 DEF KidReaped
  <2>2. AliveKids' = AliveKids /\ k \notin AliveKids
    BY <2>1 DEF AliveKids, Alive
  <2>3. Cardinality(active') <= Cardinality(active)
    BY <2>1, ActiveCount DEF KidsInv, KidsTyped
  <2>4. KidsTyped' /\ AliveKids' \subseteq active' /\ AliveKids' \subseteq children'
    BY <2>1, <2>2 DEF KidsInv, KidsTyped
  <2>5. Settled' => Settled /\ stopping \subseteq stopping'
    BY <2>1 DEF Settled
  <2> QED BY <2>2, <2>3, <2>4, <2>5, KidGone
<1> QED BY <1>2, <1>3, <1>4 DEF KidStep

LEMMA KidsInvOutside ==
  ASSUME KidsInv,
         \/ Interrupt \/ Abandon \/ Reload
         \/ \E i \in Steers : SteerPut(i) \/ SteerSaved(i)
  PROVE  KidsInv'
<1> USE DEF turnVars, cancelVars, historyVars
<1>1. CASE Interrupt \/ Abandon
  <2>1. InterruptChildren /\ UNCHANGED <<kid, children, active>>
    BY <1>1 DEF Interrupt, Abandon
  <2>2. stopping \subseteq stopping' /\ stopping' \subseteq stopping \cup AliveKids
    BY <2>1 DEF InterruptChildren, AliveKids, KidsInv, KidsTyped
  <2> QED BY <2>1, <2>2, ToldToStop
<1>2. CASE Reload
  <2>1. AliveKids' = {}
    BY <1>2 DEF Reload, AliveKids, Alive
  <2>2. KidsTyped'
    BY <1>2 DEF Reload, KidsInv, KidsTyped, KidStates
  <2>3. Cardinality(active') < MaxAgents
    BY <1>2, FS_EmptySet, HarnessBounds DEF Reload
  <2> QED BY <2>1, <2>2, <2>3 DEF KidsInv
<1>3. CASE \E i \in Steers : SteerPut(i) \/ SteerSaved(i)
  BY <1>3, TurnAlone DEF SteerPut, SteerSaved, Settled
<1> QED BY <1>1, <1>2, <1>3

\* The invariant of the children holds in every reachable state.
THEOREM KidsInvariant == Spec => []KidsInv
<1>1. KidsInv /\ [Next]_vars => KidsInv'
  <2> SUFFICES ASSUME KidsInv, [Next]_vars PROVE KidsInv'
    OBVIOUS
  <2>1. CASE UNCHANGED vars
    BY <2>1, TurnAlone DEF vars, turnVars, cancelVars, Settled
  <2>2. CASE RunStarts \/ ModelStep
    BY <2>2, KidsInvModel
  <2>3. CASE TurnStep
    BY <2>3, KidsInvTurn
  <2>4. CASE \E s \in Slots : ToolStep(s)
    BY <2>4, KidsInvTool
  <2>5. CASE \E k \in Kids : KidStep(k)
    BY <2>5, KidsInvKid
  <2>6. CASE Interrupt \/ Abandon \/ Reload \/ \E i \in Steers : SteerPut(i) \/ SteerSaved(i)
    BY <2>6, KidsInvOutside
  <2> QED BY <2>1, <2>2, <2>3, <2>4, <2>5, <2>6 DEF Next
<1> QED BY KidsInvInit, <1>1, PTL DEF Spec

\* spawn_agent never lets more than max_concurrent_agents run, the root
\* included, in whatever order tools spawn, wait, fail and are cancelled.
THEOREM AgentLimit == Spec => []ConcurrencyKept
<1>1. KidsInv => ConcurrencyKept
  <2> SUFFICES ASSUME KidsInv PROVE ConcurrencyKept
    OBVIOUS
  <2>1. active \in SUBSET Kids /\ IsFiniteSet(active) /\ Cardinality(active) \in Nat
    BY ActiveCount DEF KidsInv, KidsTyped
  <2>2. IsFiniteSet(AliveKids) /\ Cardinality(AliveKids) \in Nat
        /\ Cardinality(AliveKids) <= Cardinality(active)
    BY <2>1, FS_Subset, FS_CardinalityType DEF KidsInv
  <2> QED BY <2>1, <2>2, HarnessBounds DEF KidsInv, ConcurrencyKept
<1> QED BY <1>1, KidsInvariant, PTL

\* Every child that outlives its turn has been interrupted or cancelled.
THEOREM ChildrenAreStopped == Spec => []NoStrayAgents
<1>1. KidsInv => NoStrayAgents
  BY DEF KidsInv, NoStrayAgents, TaskRuns, Settled
<1> QED BY <1>1, KidsInvariant, PTL

-----------------------------------------------------------------------------
(* A single interrupt().                                                   *)

\* Until the consumer goes away, the turn's task has been cancelled at most as
\* often as it has been interrupted, and never while it handles that.
CancelInv ==
  /\ cancelling \in 0..2 /\ interrupts \in Nat
  /\ cancelDue => interrupted /\ cancelling >= 1
  /\ ~abandoned =>
       /\ cancelling <= interrupts
       /\ InHandler => cancelling >= 1 /\ ~cancelDue
       /\ outcome # "cancelled"
  /\ interrupts <= MaxInterrupts
  /\ pc = "idle" => cancelling = 0
  /\ after \in {"completed", "failed", "handled"}

\* interrupt() called at most once for a turn is reported as an interruption.
THEOREM OneInterrupt ==
  ASSUME MaxInterrupts <= 1
  PROVE  Spec => []InterruptIsRecorded
<1>1. Init => CancelInv
  BY HarnessBounds DEF Init, CancelInv, InHandler
<1>2. CancelInv /\ [Next]_vars => CancelInv'
  <2> SUFFICES ASSUME CancelInv, [Next]_vars PROVE CancelInv'
    OBVIOUS
  <2> USE DEF turnVars, cancelVars
  \* steps that neither enter nor leave the handler of the cancellation
  <2>1. ASSUME UNCHANGED cancelVars, InHandler' => InHandler, pc' = "idle" => pc = "idle",
               outcome' # "cancelled" \/ outcome' = outcome,
               after' = after \/ after' \in {"completed", "failed"}
        PROVE  CancelInv'
    BY <2>1 DEF CancelInv
  <2>2. CASE UNCHANGED vars
    BY <2>1, <2>2 DEF vars, InHandler
  <2>3. CASE RunStarts
    BY <2>3 DEF RunStarts, CancelInv, InHandler
  <2>4. CASE TurnStep
    <3>1. CASE TurnStarted \/ InboxSaved \/ ToolsEnd \/ Drained
      BY <3>1, <2>1 DEF TurnStarted, InboxSaved, CallModel, ToolsEnd, Drained, InHandler
    <3>2. CASE PromptSaved
      BY <3>2, <2>1 DEF PromptSaved, NextRound, CallModel, InHandler
    <3>3. CASE ExchangeSaved \/ RetrySaved \/ AnswerSaved
      BY <3>3, <2>1 DEF ExchangeSaved, RetrySaved, AnswerSaved, NextRound, CallModel, InHandler
    <3>4. CASE TerminalSaved
      BY <3>4, <2>1 DEF TerminalSaved, StopChildren, InHandler
    <3>5. CASE InterruptionSaved
      BY <3>5, <2>1 DEF InterruptionSaved, InHandler
    <3>6. CASE ChildrenStopped
      BY <3>6, <2>1 DEF ChildrenStopped, InHandler, CancelInv
    <3>7. CASE CancelDelivered
      <4>1. CASE abandoned
        BY <4>1, <3>7 DEF CancelDelivered, StopChildren, CancelInv
      <4>2. CASE ~abandoned
        <5>1. interrupted /\ cancelling = 1 /\ ~InHandler
          BY <4>2, <3>7, HarnessBounds DEF CancelDelivered, CancelInv
        <5> QED BY <5>1, <4>2, <3>7 DEF CancelDelivered, StopChildren, CancelInv, InHandler
      <4> QED BY <4>1, <4>2
    <3>8. CASE RunReturns
      BY <3>8, HarnessBounds DEF RunReturns, CancelInv, InHandler
    <3> QED BY <2>4, <3>1, <3>2, <3>3, <3>4, <3>5, <3>6, <3>7, <3>8 DEF TurnStep
  <2>5. CASE ModelStep
    BY <2>5, <2>1 DEF ModelStep, ModelAsksTools, ModelAnswersEmpty, ModelAnswers, Fails, InHandler
  <2>6. CASE \E s \in Slots : ToolStep(s)
    BY <2>6, <2>1 DEF ToolStep, PlainTool, SpawnTool, SpawnedTool, WaitTool, InHandler
  <2>7. CASE \E k \in Kids : KidStep(k)
    BY <2>7, <2>1 DEF KidStep, KidStarts, KidEnds, KidReaped, InHandler
  <2>8. CASE Interrupt
    BY <2>8, HarnessBounds DEF Interrupt, CancelInv, InHandler, TaskRuns
  <2>9. CASE Abandon
    BY <2>9 DEF Abandon, CancelInv, TaskRuns
  <2>10. CASE \E i \in Steers : SteerPut(i) \/ SteerSaved(i)
    BY <2>10, <2>1 DEF SteerPut, SteerSaved, InHandler
  <2>11. CASE Reload
    BY <2>11, HarnessBounds DEF Reload, CancelInv, InHandler
  <2> QED
    BY <2>2, <2>3, <2>4, <2>5, <2>6, <2>7, <2>8, <2>9, <2>10, <2>11 DEF Next
<1>3. CancelInv => InterruptIsRecorded
  BY DEF CancelInv, InterruptIsRecorded
<1> QED BY <1>1, <1>2, <1>3, PTL DEF Spec

-----------------------------------------------------------------------------
(* Type correctness.                                                       *)

\* What the turn and its tools are at.  The model is called within its limit,
\* or once more, which ends the turn.
PlacesTyped ==
  /\ pc \in PCs /\ after \in {"completed", "failed", "handled"} /\ outcome \in Outcomes
  /\ tools \in [Slots -> {Over} \cup [does : {"plain", "spawn"}, kid : {NoKid}]
                                \cup [does : {"starting", "wait"}, kid : Kids]]
LimitsTyped ==
  /\ loop \in [pending : BOOLEAN, post : 0..MaxEmptyRetries, empty : 0..MaxEmptyRetries]
  /\ calls \in 0..(MaxModelCalls + 1) /\ turns \in 0..MaxTurns /\ reloads \in 0..MaxReloads
  /\ pc \in Saving \cup {"idle", "start", "model", "tools"} => calls <= MaxModelCalls
CancelsTyped ==
  /\ interrupted \in BOOLEAN /\ cancelling \in 0..2 /\ cancelDue \in BOOLEAN
  /\ abandoned \in BOOLEAN /\ interrupts \in 0..MaxInterrupts
  /\ pc = "idle" => cancelling = 0 /\ ~cancelDue

\* The top of the loop calls the model or saves what was steered.
LEMMA NextRoundGoes ==
  ASSUME NextRound
  PROVE  /\ pc' \in {"inbox", "model", "failed"}
         /\ \/ pc' = "inbox" /\ calls' = calls
            \/ pc' = "model" /\ calls' = calls + 1 /\ calls < MaxModelCalls
            \/ pc' = "failed" /\ calls' = calls + 1
BY DEF NextRound, CallModel

\* Every step keeps the turn where its code can be.
LEMMA PlacesStep ==
  ASSUME PlacesTyped, [Next]_vars PROVE PlacesTyped'
<1> USE DEF PlacesTyped, PCs, Saving, Outcomes, turnVars
<1>1. CASE RunStarts \/ Interrupt \/ Abandon \/ UNCHANGED vars
  BY <1>1 DEF RunStarts, Interrupt, Abandon, vars
<1>2. CASE TurnStep
  <2>1. CASE ExchangeSaved \/ RetrySaved \/ AnswerSaved \/ PromptSaved \/ InboxSaved
    <3>1. pc' \in {"inbox", "model", "failed", "completed", "flagged"}
          /\ UNCHANGED <<after, outcome, tools>>
      BY <2>1, NextRoundGoes
      DEF ExchangeSaved, RetrySaved, AnswerSaved, PromptSaved, InboxSaved, CallModel
    <3> QED BY <3>1
  <2>2. CASE Drained \/ CancelDelivered
    <3>1. NoTools \in [Slots -> {Over} \cup [does : {"plain", "spawn"}, kid : {NoKid}]
                                \cup [does : {"starting", "wait"}, kid : Kids]]
      BY DEF NoTools
    <3> QED BY <2>2, <3>1 DEF Drained, CancelDelivered, StopChildren
  <2>3. CASE TurnStarted \/ ToolsEnd \/ InterruptionSaved \/ RunReturns
    BY <2>3 DEF TurnStarted, ToolsEnd, InterruptionSaved, RunReturns
  <2>4. CASE TerminalSaved \/ ChildrenStopped
    BY <2>4 DEF TerminalSaved, StopChildren, ChildrenStopped
  <2> QED BY <1>2, <2>1, <2>2, <2>3, <2>4 DEF TurnStep
<1>3. CASE ModelStep
  <2>1. CASE ModelAsksTools
    BY <2>1 DEF ModelAsksTools
  <2>2. CASE ModelAnswersEmpty \/ ModelAnswers \/ Fails
    BY <2>2 DEF ModelAnswersEmpty, ModelAnswers, Fails
  <2> QED BY <1>3, <2>1, <2>2 DEF ModelStep
<1>4. ASSUME NEW s \in Slots, ToolStep(s) PROVE PlacesTyped'
  <2>1. UNCHANGED <<pc, after, outcome>>
    BY <1>4 DEF ToolStep, PlainTool, SpawnTool, SpawnedTool, WaitTool
  <2>2. Becomes(s, Over) \/ \E k \in Kids : Becomes(s, [does |-> "starting", kid |-> k])
    BY <1>4 DEF ToolStep, PlainTool, SpawnTool, SpawnedTool, WaitTool
  <2> QED BY <2>1, <2>2 DEF Becomes
<1>5. ASSUME NEW k \in Kids, KidStep(k) PROVE PlacesTyped'
  BY <1>5 DEF KidStep, KidStarts, KidEnds, KidReaped
<1>6. ASSUME NEW i \in Steers, SteerPut(i) \/ SteerSaved(i) PROVE PlacesTyped'
  BY <1>6 DEF SteerPut, SteerSaved
<1>7. CASE Reload
  BY <1>7 DEF Reload, NoTools
<1> QED BY <1>1, <1>2, <1>3, <1>4, <1>5, <1>6, <1>7 DEF Next

\* Every step keeps within the limits of the turn: empty answers, model calls.
LEMMA LimitsStep ==
  ASSUME PlacesTyped, LimitsTyped, [Next]_vars PROVE LimitsTyped'
<1> USE HarnessBounds DEF LimitsTyped, Saving, historyVars
<1>1. ASSUME UNCHANGED <<loop, calls, turns, reloads>>,
             pc' \in Saving \cup {"idle", "start", "model", "tools"} =>
                pc \in Saving \cup {"idle", "start", "model", "tools"}
      PROVE  LimitsTyped'
  BY <1>1
<1>2. CASE RunStarts
  BY <1>2 DEF RunStarts
<1>3. CASE TurnStep
  <2>1. CASE ExchangeSaved
    <3>1. loop' = [loop EXCEPT !.pending = TRUE, !.post = 0] /\ calls <= MaxModelCalls
          /\ UNCHANGED <<turns, reloads>>
      BY <2>1 DEF ExchangeSaved
    <3>2. loop' \in [pending : BOOLEAN, post : 0..MaxEmptyRetries, empty : 0..MaxEmptyRetries]
      <4>1. loop' = [pending |-> TRUE, post |-> 0, empty |-> loop.empty]
        BY <3>1
      <4>2. loop.empty \in 0..MaxEmptyRetries /\ 0 \in 0..MaxEmptyRetries
        OBVIOUS
      <4> QED BY <4>1, <4>2
    <3>3. /\ calls' \in 0..(MaxModelCalls + 1)
          /\ pc' \in Saving \cup {"idle", "start", "model", "tools"} => calls' <= MaxModelCalls
      BY <2>1, <3>1, NextRoundGoes DEF ExchangeSaved
    <3> QED BY <3>1, <3>2, <3>3
  <2>2. CASE RetrySaved \/ AnswerSaved \/ PromptSaved
    <3>1. UNCHANGED <<loop, turns, reloads>> /\ calls <= MaxModelCalls
      BY <2>2 DEF RetrySaved, AnswerSaved, PromptSaved
    <3>2. \/ pc' \in {"inbox", "completed", "flagged"} /\ calls' = calls
          \/ pc' = "model" /\ calls' = calls + 1 /\ calls < MaxModelCalls
          \/ pc' = "failed" /\ calls' = calls + 1
      BY <2>2, NextRoundGoes DEF RetrySaved, AnswerSaved, PromptSaved
    <3> QED BY <3>1, <3>2
  <2>3. CASE InboxSaved
    BY <2>3 DEF InboxSaved, CallModel
  <2>4. CASE TurnStarted \/ ToolsEnd \/ Drained \/ InterruptionSaved \/ CancelDelivered
    BY <2>4, <1>1 DEF TurnStarted, ToolsEnd, Drained, InterruptionSaved, CancelDelivered,
       StopChildren
  <2>5. CASE TerminalSaved \/ ChildrenStopped
    BY <2>5, <1>1 DEF TerminalSaved, StopChildren, ChildrenStopped, PlacesTyped
  <2>6. CASE RunReturns
    BY <2>6 DEF RunReturns, FreshLoop
  <2> QED BY <1>3, <2>1, <2>2, <2>3, <2>4, <2>5, <2>6 DEF TurnStep
<1>4. CASE ModelStep
  <2>1. CASE ModelAsksTools \/ Fails
    BY <2>1, <1>1 DEF ModelAsksTools, Fails
  <2>2. CASE ModelAnswersEmpty
    BY <2>2 DEF ModelAnswersEmpty
  <2>3. CASE ModelAnswers
    BY <2>3 DEF ModelAnswers
  <2> QED BY <1>4, <2>1, <2>2, <2>3 DEF ModelStep
<1>5. ASSUME NEW s \in Slots, ToolStep(s) PROVE LimitsTyped'
  BY <1>1, <1>5 DEF ToolStep, PlainTool, SpawnTool, SpawnedTool, WaitTool
<1>6. ASSUME NEW k \in Kids, KidStep(k) PROVE LimitsTyped'
  BY <1>1, <1>6 DEF KidStep, KidStarts, KidEnds, KidReaped, turnVars
<1>7. CASE Reload
  BY <1>7 DEF Reload, FreshLoop
<1>8. CASE Interrupt \/ Abandon \/ UNCHANGED vars
  BY <1>1, <1>8 DEF Interrupt, Abandon, vars, turnVars
<1>9. ASSUME NEW i \in Steers, SteerPut(i) \/ SteerSaved(i) PROVE LimitsTyped'
  BY <1>1, <1>9 DEF SteerPut, SteerSaved, turnVars
<1> QED BY <1>2, <1>3, <1>4, <1>5, <1>6, <1>7, <1>8, <1>9 DEF Next

\* No cancel() of a turn is left for the next one.
LEMMA CancelsStep ==
  ASSUME PlacesTyped, CancelsTyped, [Next]_vars PROVE CancelsTyped'
<1> USE DEF CancelsTyped
<1>0. 0 \in 0..2 /\ 1 \in 0..2 /\ 2 \in 0..2 /\ 0 \in 0..MaxInterrupts
  BY HarnessBounds
<1>1. ASSUME UNCHANGED cancelVars, pc' = "idle" => pc = "idle" PROVE CancelsTyped'
  BY <1>1 DEF cancelVars
<1>2. CASE RunStarts
  BY <1>2 DEF RunStarts
<1>3. CASE TurnStep
  <2>1. CASE ExchangeSaved \/ RetrySaved \/ AnswerSaved \/ PromptSaved \/ InboxSaved
    BY <2>1, <1>1, NextRoundGoes
    DEF ExchangeSaved, RetrySaved, AnswerSaved, PromptSaved, InboxSaved, CallModel
  <2>2. CASE TurnStarted \/ ToolsEnd \/ Drained \/ InterruptionSaved \/ TerminalSaved
    BY <2>2, <1>1 DEF TurnStarted, ToolsEnd, Drained, InterruptionSaved, TerminalSaved, StopChildren
  <2>3. CASE ChildrenStopped
    BY <2>3, <1>1 DEF ChildrenStopped, PlacesTyped
  <2>4. CASE CancelDelivered
    BY <2>4 DEF CancelDelivered, StopChildren
  <2>5. CASE RunReturns
    BY <1>0, <2>5, Zenon DEF RunReturns
  <2> QED BY <1>3, <2>1, <2>2, <2>3, <2>4, <2>5 DEF TurnStep
<1>4. CASE ModelStep
  BY <1>4, <1>1 DEF ModelStep, ModelAsksTools, ModelAnswersEmpty, ModelAnswers, Fails
<1>5. ASSUME NEW s \in Slots, ToolStep(s) PROVE CancelsTyped'
  BY <1>1, <1>5 DEF ToolStep, PlainTool, SpawnTool, SpawnedTool, WaitTool
<1>6. ASSUME NEW k \in Kids, KidStep(k) PROVE CancelsTyped'
  BY <1>1, <1>6 DEF KidStep, KidStarts, KidEnds, KidReaped, turnVars
<1>7. CASE Reload \/ Interrupt \/ Abandon
  <2>1. CASE Reload
    BY <1>0, <2>1, Zenon DEF Reload
  <2>2. CASE Interrupt
    <3>1. interrupts' \in 0..MaxInterrupts
      BY <2>2, HarnessBounds DEF Interrupt
    <3> QED BY <1>0, <2>2, <3>1, Zenon DEF Interrupt, TaskRuns, turnVars
  <2>3. CASE Abandon
    BY <1>0, <2>3, Zenon DEF Abandon, TaskRuns, turnVars
  <2> QED BY <1>7, <2>1, <2>2, <2>3
<1>8. CASE UNCHANGED vars
  BY <1>1, <1>8 DEF vars, turnVars
<1>9. ASSUME NEW i \in Steers, SteerPut(i) \/ SteerSaved(i) PROVE CancelsTyped'
  BY <1>1, <1>9 DEF SteerPut, SteerSaved, turnVars
<1> QED BY <1>2, <1>3, <1>4, <1>5, <1>6, <1>7, <1>8, <1>9 DEF Next

-----------------------------------------------------------------------------
(* Histories: sequences of messages.                                       *)

Increasing(s) == \A a, b \in 1..Len(s) : a < b => s[a].id < s[b].id
Within(s, t) == \A a \in 1..Len(s) : \E b \in 1..Len(t) : t[b] = s[a]

LEMMA Joined ==
  ASSUME NEW s \in Seq(Message), NEW t \in Seq(Message)
  PROVE  /\ s \o t \in Seq(Message) /\ Len(s \o t) = Len(s) + Len(t)
         /\ \A a \in 1..Len(s) : a \in 1..Len(s \o t) /\ (s \o t)[a] = s[a]
         /\ \A a \in 1..Len(t) :
              Len(s) + a \in 1..Len(s \o t) /\ (s \o t)[Len(s) + a] = t[a]
         /\ \A a \in 1..Len(s \o t) : a \in 1..Len(s) \/ a - Len(s) \in 1..Len(t)
<1> HIDE DEF Message
<1> QED OBVIOUS

\* A history followed by a later one is a history: in order, each call with
\* its outputs.
LEMMA JoinedHistory ==
  ASSUME NEW s \in Seq(Message), NEW t \in Seq(Message),
         Increasing(s), Increasing(t), Unanswered(s) = {}, Unanswered(t) = {},
         \A a \in 1..Len(s), b \in 1..Len(t) : s[a].id < t[b].id
  PROVE  /\ Increasing(s \o t) /\ Unanswered(s \o t) = {}
         /\ Within(s, s \o t) /\ Within(t, s \o t)
<1> DEFINE u == s \o t
<1>1. /\ \A a \in 1..Len(s) : a \in 1..Len(u) /\ u[a] = s[a]
      /\ \A a \in 1..Len(t) : Len(s) + a \in 1..Len(u) /\ u[Len(s) + a] = t[a]
      /\ \A a \in 1..Len(u) : a \in 1..Len(s) \/ a - Len(s) \in 1..Len(t)
      /\ Len(s) \in Nat /\ Len(t) \in Nat /\ Len(u) \in Nat
  BY Joined
<1> HIDE DEF u
<1>2. \A a \in 1..Len(u) :
        \/ a \in 1..Len(s) /\ u[a] = s[a]
        \/ \E b \in 1..Len(t) : a = Len(s) + b /\ u[a] = t[b]
  <2> SUFFICES ASSUME NEW a \in 1..Len(u), a \notin 1..Len(s)
               PROVE  \E b \in 1..Len(t) : a = Len(s) + b /\ u[a] = t[b]
    BY <1>1
  <2>1. a - Len(s) \in 1..Len(t) /\ a = Len(s) + (a - Len(s))
    BY <1>1
  <2>2. u[Len(s) + (a - Len(s))] = t[a - Len(s)]
    BY <1>1, <2>1
  <2> QED BY <2>1, <2>2
<1>3. Within(s, u) /\ Within(t, u)
  BY <1>1 DEF Within
<1>4. Increasing(u)
  <2> SUFFICES ASSUME NEW a \in 1..Len(u), NEW b \in 1..Len(u), a < b
               PROVE  u[a].id < u[b].id
    BY DEF Increasing
  <2>1. CASE a \in 1..Len(s) /\ b \in 1..Len(s)
    BY <1>1, <2>1 DEF Increasing
  <2>2. CASE a \in 1..Len(s) /\ b \notin 1..Len(s)
    BY <1>1, <1>2, <2>2
  <2>3. CASE a \notin 1..Len(s)
    <3>1. PICK c \in 1..Len(t) : a = Len(s) + c /\ u[a] = t[c]
      BY <1>2, <2>3
    <3>2. b \notin 1..Len(s)
      BY <3>1, <1>1
    <3>3. PICK d \in 1..Len(t) : b = Len(s) + d /\ u[b] = t[d]
      BY <1>2, <3>2
    <3> QED BY <3>1, <3>3, <1>1 DEF Increasing
  <2> QED BY <2>1, <2>2, <2>3
<1>5. Unanswered(u) = {}
  <2> SUFFICES ASSUME NEW a \in 1..Len(u), u[a].kind = "calls"
               PROVE  \E b \in 1..Len(u) : u[b].kind = "outputs" /\ u[b].id = u[a].id + 1
    BY DEF Unanswered
  <2>1. CASE a \in 1..Len(s)
    <3>1. PICK b \in 1..Len(s) : s[b].kind = "outputs" /\ s[b].id = s[a].id + 1
      BY <1>1, <2>1 DEF Unanswered
    <3> QED BY <3>1, <2>1, <1>1
  <2>2. CASE a \notin 1..Len(s)
    <3>1. PICK c \in 1..Len(t) : u[a] = t[c]
      BY <1>2, <2>2
    <3>2. PICK b \in 1..Len(t) : t[b].kind = "outputs" /\ t[b].id = t[c].id + 1
      BY <3>1 DEF Unanswered
    <3> QED BY <3>1, <3>2, <1>1
  <2> QED BY <2>1, <2>2
<1> QED BY <1>3, <1>4, <1>5 DEF u

\* The end of a history.
LEMMA Ending ==
  ASSUME NEW s \in Seq(Message), NEW n \in 1..Len(s)
  PROVE  /\ SubSeq(s, n, Len(s)) \in Seq(Message)
         /\ Len(SubSeq(s, n, Len(s))) = Len(s) - n + 1
         /\ \A a \in 1..(Len(s) - n + 1) :
              n + a - 1 \in 1..Len(s) /\ SubSeq(s, n, Len(s))[a] = s[n + a - 1]
<1> HIDE DEF Message
<1> QED OBVIOUS

\* The log with later messages of memory is a history of messages of memory.
LEMMA JoinedWithin ==
  ASSUME NEW s \in Seq(Message), NEW t \in Seq(Message), NEW w \in Seq(Message),
         Increasing(s), Increasing(t), Unanswered(s) = {}, Unanswered(t) = {},
         Within(s, w), Within(t, w), log' = s \o t,
         \A a \in 1..Len(s), b \in 1..Len(t) : s[a].id < t[b].id
  PROVE  /\ log' \in Seq(Message) /\ Increasing(log)' /\ Unanswered(log)' = {}
         /\ Within(log', w)
<1>1. Increasing(log') /\ Unanswered(log') = {}
  BY JoinedHistory
<1>2. /\ log' \in Seq(Message)
      /\ \A a \in 1..Len(log') : a \in 1..Len(s) \/ a - Len(s) \in 1..Len(t)
      /\ \A a \in 1..Len(s) : log'[a] = s[a]
      /\ \A a \in 1..Len(t) : log'[Len(s) + a] = t[a]
      /\ Len(s) \in Nat /\ Len(log') \in Nat
  BY Joined
<1>3. Within(log', w)
  <2> SUFFICES ASSUME NEW a \in 1..Len(log') PROVE \E b \in 1..Len(w) : w[b] = log'[a]
    BY DEF Within
  <2>1. CASE a \in 1..Len(s)
    BY <1>2, <2>1 DEF Within
  <2>2. CASE a - Len(s) \in 1..Len(t)
    <3>1. log'[Len(s) + (a - Len(s))] = t[a - Len(s)] /\ Len(s) + (a - Len(s)) = a
      BY <1>2, <2>2
    <3> QED BY <3>1, <2>2 DEF Within
  <2> QED BY <1>2, <2>1, <2>2
<1>4. Increasing(log)' /\ Unanswered(log)' = {}
  BY <1>1 DEF Increasing, Unanswered
<1> QED BY <1>2, <1>3, <1>4

-----------------------------------------------------------------------------
(* The history of the harness.                                             *)

HistoryTyped == memory \in Seq(Message) /\ log \in Seq(Message)

\* A message that is being saved is the last of memory, later than all of the
\* log; a tool call comes there with its outputs.
SavingOK ==
  /\ pc \in Saving \ {"exchange"} =>
       /\ memory # <<>> /\ memory[Len(memory)].kind # "calls"
       /\ \A a \in 1..Len(log) : log[a].id < memory[Len(memory)].id
  /\ pc = "exchange" =>
       /\ Len(memory) >= 2
       /\ memory[Len(memory) - 1].kind = "calls" /\ memory[Len(memory)].kind = "outputs"
       /\ memory[Len(memory)].id = memory[Len(memory) - 1].id + 1
       /\ \A a \in 1..Len(log) : log[a].id < memory[Len(memory) - 1].id

\* Memory and the log are complete histories, and the log is part of memory.
HistoryOK ==
  /\ HistoryTyped
  /\ Increasing(memory) /\ Increasing(log) /\ Within(log, memory)
  /\ Unanswered(memory) = {} /\ Unanswered(log) = {}
  /\ SavingOK

\* The messages that _append_message and _append_messages add for place p.
Adds(new, p) ==
  \/ /\ p \in Saving \ {"exchange"}
     /\ \E items \in SUBSET Steers : new = <<[kind |-> p, id |-> NextId, items |-> items]>>
  \/ /\ p = "exchange"
     /\ new = <<[kind |-> "calls", id |-> NextId, items |-> {}],
                [kind |-> "outputs", id |-> NextId + 1, items |-> {}]>>

LEMMA NextIdIsNew ==
  ASSUME memory \in Seq(Message), Increasing(memory)
  PROVE  NextId \in Nat /\ \A a \in 1..Len(memory) : memory[a].id < NextId
<1>1. CASE memory = <<>>
  BY <1>1 DEF NextId
<1>2. CASE memory # <<>>
  <2>1. Len(memory) \in 1..Len(memory) /\ NextId = memory[Len(memory)].id + 1
    BY <1>2 DEF NextId
  <2>2. \A a \in 1..Len(memory) : memory[a] \in Message
    OBVIOUS
  <2>3. \A a \in 1..Len(memory) : memory[a].id \in Nat
    BY <2>2 DEF Message
  <2> QED BY <2>1, <2>3 DEF Increasing
<1> QED BY <1>1, <1>2

\* What is added is a history of its own, later than memory.
LEMMA AddsHistory ==
  ASSUME memory \in Seq(Message), Increasing(memory), NEW new, NEW p, Adds(new, p)
  PROVE  /\ new \in Seq(Message) /\ Increasing(new) /\ Unanswered(new) = {}
         /\ \A a \in 1..Len(memory), b \in 1..Len(new) : memory[a].id < new[b].id
         /\ \A a \in 1..Len(memory) : memory[a].id < NextId
         /\ p \in Saving \ {"exchange"} =>
              Len(new) = 1 /\ new[1].kind = p /\ new[1].id = NextId
         /\ p = "exchange" =>
              /\ Len(new) = 2 /\ new[1].kind = "calls" /\ new[2].kind = "outputs"
              /\ new[1].id = NextId /\ new[2].id = NextId + 1
<1>1. NextId \in Nat /\ \A a \in 1..Len(memory) : memory[a].id < NextId
  BY NextIdIsNew
<1>2. \A a \in 1..Len(memory) : memory[a].id \in Nat
  <2>1. \A a \in 1..Len(memory) : memory[a] \in Message
    OBVIOUS
  <2> QED BY <2>1 DEF Message
<1>3. CASE p \in Saving \ {"exchange"}
  <2>1. PICK items \in SUBSET Steers : new = <<[kind |-> p, id |-> NextId, items |-> items]>>
    BY <1>3 DEF Adds
  <2> DEFINE m == [kind |-> p, id |-> NextId, items |-> items]
  <2>2. m \in Message
    BY <1>1, <1>3 DEF Message
  <2>3. m.kind = p /\ m.id = NextId /\ p # "calls"
    BY <1>3 DEF Saving
  <2> HIDE DEF m
  <2>4. new = <<m>>
    BY <2>1 DEF m
  <2>5. Len(new) = 1 /\ new[1] = m /\ new \in Seq(Message)
    BY <2>2, <2>4
  <2>6. Increasing(new) /\ Unanswered(new) = {}
    BY <2>3, <2>5 DEF Increasing, Unanswered
  <2> QED BY <1>1, <1>3, <2>3, <2>5, <2>6
<1>4. CASE p = "exchange"
  <2> DEFINE c == [kind |-> "calls", id |-> NextId, items |-> {}]
             d == [kind |-> "outputs", id |-> NextId + 1, items |-> {}]
  <2>1. new = <<c, d>>
    BY <1>4 DEF Adds
  <2>2. c \in Message /\ d \in Message
    BY <1>1 DEF Message
  <2>3. c.kind = "calls" /\ d.kind = "outputs" /\ c.id = NextId /\ d.id = NextId + 1
    OBVIOUS
  <2> HIDE DEF c, d
  <2>4. Len(new) = 2 /\ new[1] = c /\ new[2] = d /\ new \in Seq(Message)
    BY <2>1, <2>2
  <2>5. \A a \in 1..2 : a = 1 \/ a = 2
    OBVIOUS
  <2>6. Increasing(new)
    BY <1>1, <2>3, <2>4, <2>5 DEF Increasing
  <2>7. Unanswered(new) = {}
    BY <2>3, <2>4, <2>5 DEF Unanswered
  <2>8. \A a \in 1..Len(memory), b \in 1..Len(new) : memory[a].id < new[b].id
    BY <1>1, <1>2, <2>3, <2>4, <2>5
  <2> QED BY <1>1, <1>4, <2>3, <2>4, <2>6, <2>7, <2>8
<1> QED BY <1>3, <1>4 DEF Adds

\* A message that is added to memory comes after what memory and the log hold.
LEMMA Adding ==
  ASSUME memory \in Seq(Message), Increasing(memory), Unanswered(memory) = {},
         log' \in Seq(Message), Increasing(log)', Unanswered(log)' = {}, Within(log', memory),
         NEW new, Adds(new, pc'), memory' = memory \o new
  PROVE  HistoryOK' /\ Within(memory, memory')
<1>1. /\ new \in Seq(Message) /\ Increasing(new) /\ Unanswered(new) = {}
      /\ \A a \in 1..Len(memory), b \in 1..Len(new) : memory[a].id < new[b].id
      /\ \A a \in 1..Len(memory) : memory[a].id < NextId
      /\ pc' \in Saving \ {"exchange"} =>
           Len(new) = 1 /\ new[1].kind = pc' /\ new[1].id = NextId
      /\ pc' = "exchange" =>
           /\ Len(new) = 2 /\ new[1].kind = "calls" /\ new[2].kind = "outputs"
           /\ new[1].id = NextId /\ new[2].id = NextId + 1
  BY AddsHistory
<1>2. Increasing(memory') /\ Unanswered(memory') = {} /\ Within(memory, memory')
  BY <1>1, JoinedHistory
<1>3. /\ memory' \in Seq(Message) /\ Len(memory') = Len(memory) + Len(new)
      /\ \A a \in 1..Len(new) : memory'[Len(memory) + a] = new[a]
      /\ Len(memory) \in Nat
  BY <1>1, Joined
<1>4. Within(log', memory')
  BY <1>2 DEF Within
<1>5. \A a \in 1..Len(log') : log'[a].id < NextId
  BY <1>1 DEF Within
<1>6. SavingOK'
  <2>1. CASE pc' \in Saving \ {"exchange"}
    <3>1. Len(memory') = Len(memory) + 1 /\ memory'[Len(memory')] = new[1] /\ pc' # "calls"
      BY <1>1, <1>3, <2>1 DEF Saving
    <3>2. memory' # <<>>
      BY <1>3, <3>1
    <3> QED BY <1>1, <1>5, <2>1, <3>1, <3>2 DEF SavingOK
  <2>2. CASE pc' = "exchange"
    <3>1. /\ Len(memory') = Len(memory) + 2 /\ memory'[Len(memory')] = new[2]
          /\ memory'[Len(memory') - 1] = new[1]
      <4>0. Len(new) = 2
        BY <1>1, <2>2
      <4>1. Len(memory') = Len(memory) + 2 /\ 1 \in 1..Len(new) /\ 2 \in 1..Len(new)
        BY <1>3, <4>0
      <4>2. Len(memory') - 1 = Len(memory) + 1
        BY <1>3, <4>1
      <4> QED BY <1>3, <4>1, <4>2
    <3> QED BY <1>1, <1>3, <1>5, <2>2, <3>1 DEF SavingOK
  <2> QED BY <2>1, <2>2 DEF SavingOK
<1>7. Increasing(memory)' /\ Unanswered(memory)' = {} /\ Within(log, memory)'
  BY <1>2, <1>4 DEF Increasing, Unanswered, Within
<1> QED BY <1>2, <1>3, <1>6, <1>7 DEF HistoryOK, HistoryTyped

\* An append that happens puts what was being saved after all that the log
\* holds; it stays part of memory.
LEMMA Persisted ==
  ASSUME HistoryOK, Persist
  PROVE  /\ log' \in Seq(Message) /\ Increasing(log)' /\ Unanswered(log)' = {}
         /\ Within(log', memory)
<1> DEFINE n == Len(memory)
<1>0. n \in Nat /\ HistoryTyped
  BY DEF HistoryOK, HistoryTyped
<1>1. CASE pc \in Saving \ {"exchange"}
  <2>1. n \in 1..n /\ memory[n].kind # "calls" /\ Unsaved = <<memory[n]>>
        /\ \A a \in 1..Len(log) : log[a].id < memory[n].id
    BY <1>0, <1>1 DEF HistoryOK, HistoryTyped, SavingOK, Unsaved
  <2>2. Unsaved \in Seq(Message) /\ Len(Unsaved) = 1 /\ Unsaved[1] = memory[n]
    BY <1>0, <2>1 DEF HistoryTyped
  <2>3. Increasing(Unsaved) /\ Unanswered(Unsaved) = {} /\ Within(Unsaved, memory)
    BY <2>1, <2>2 DEF Increasing, Unanswered, Within
  <2>4. \A a \in 1..Len(log), b \in 1..Len(Unsaved) : log[a].id < Unsaved[b].id
    <3>1. \A b \in 1..1 : b = 1
      OBVIOUS
    <3> QED BY <2>1, <2>2, <3>1
  <2> QED
    BY <1>0, <2>2, <2>3, <2>4, JoinedWithin DEF HistoryOK, HistoryTyped, Persist
<1>2. CASE pc = "exchange"
  <2>1. /\ n - 1 \in 1..n /\ n \in 1..n /\ Unsaved = SubSeq(memory, n - 1, n)
        /\ memory[n - 1].kind = "calls" /\ memory[n].kind = "outputs"
        /\ memory[n].id = memory[n - 1].id + 1
        /\ \A a \in 1..Len(log) : log[a].id < memory[n - 1].id
    BY <1>0, <1>2 DEF HistoryOK, SavingOK, Unsaved, Saving
  <2>2. /\ Unsaved \in Seq(Message) /\ Len(Unsaved) = 2
        /\ Unsaved[1] = memory[n - 1] /\ Unsaved[2] = memory[n]
    <3>1. \A a \in 1..2 : Unsaved[a] = memory[n - 1 + a - 1]
      BY <1>0, <2>1, Ending DEF HistoryTyped
    <3>2. Unsaved \in Seq(Message) /\ Len(Unsaved) = 2
      BY <1>0, <2>1, Ending DEF HistoryTyped
    <3>3. n - 1 + 1 - 1 = n - 1 /\ n - 1 + 2 - 1 = n /\ 1 \in 1..2 /\ 2 \in 1..2
      BY <1>0
    <3> QED BY <3>1, <3>2, <3>3
  <2>3. memory[n - 1].id \in Nat /\ memory[n].id \in Nat
        /\ \A a \in 1..Len(log) : log[a].id \in Nat
    <3>1. memory[n - 1] \in Message /\ memory[n] \in Message
          /\ \A a \in 1..Len(log) : log[a] \in Message
      BY <1>0, <2>1 DEF HistoryTyped
    <3> QED BY <3>1 DEF Message
  <2> DEFINE u == Unsaved
             m == memory[n - 1]
             o == memory[n]
             i == m.id
  <2>4. /\ 1..Len(u) = {1, 2} /\ u[1] = m /\ u[2] = o /\ m.kind = "calls" /\ o.kind = "outputs"
        /\ i \in Nat /\ o.id = i + 1 /\ m.id = i
    BY <2>1, <2>2, <2>3
  <2>a. \A a \in 1..Len(log) : log[a].id < i /\ log[a].id \in Nat
    BY <2>1, <2>3
  <2>b. n - 1 \in 1..Len(memory) /\ n \in 1..Len(memory) /\ m = memory[n - 1] /\ o = memory[n]
    BY <2>1
  <2> HIDE DEF u, m, o, i
  <2>5. Increasing(u) /\ Unanswered(u) = {} /\ Within(u, memory)
    BY SMTT(30), <2>4, <2>b DEF Increasing, Unanswered, Within
  <2>6. \A a \in 1..Len(log), b \in 1..Len(u) : log[a].id < u[b].id
    BY <2>4, <2>a
  <2> USE DEF u
  <2> QED BY <1>0, <2>2, <2>5, <2>6, JoinedWithin DEF HistoryOK, HistoryTyped, Persist
<1>3. CASE pc \notin Saving
  <2>1. Unsaved = <<>> /\ log' = log
    BY <1>0, <1>3 DEF Unsaved, Saving, Persist, HistoryTyped
  <2> QED BY <2>1, <1>0 DEF HistoryOK, HistoryTyped, Increasing, Unanswered, Within
<1> QED BY <1>1, <1>2, <1>3 DEF Saving

LEMMA SayAdds ==
  ASSUME memory \in Seq(Message), Increasing(memory),
         NEW kind \in Saving \ {"exchange"}, NEW items \in SUBSET Steers,
         pc' = kind, memory' = Append(memory, NewMessage(kind, items))
  PROVE  \E new : Adds(new, pc') /\ memory' = memory \o new
<1> DEFINE m == [kind |-> kind, id |-> NextId, items |-> items]
<1>1. NewMessage(kind, items) = m /\ m \in Message
  BY NextIdIsNew DEF NewMessage, Message
<1>2. Adds(<<m>>, pc')
  BY DEF Adds
<1> HIDE DEF m
<1>3. Append(memory, m) = memory \o <<m>>
  BY <1>1
<1> QED BY <1>1, <1>2, <1>3

\* A step that adds nothing to memory and saves nothing, a step that saves, one
\* that adds, and one that does both.
LEMMA QuietHistory ==
  ASSUME HistoryOK, UNCHANGED <<memory, log>>, pc' = pc \/ pc' \notin Saving
  PROVE  HistoryOK' /\ Within(memory, memory')
<1>1. Within(memory, memory)
  BY DEF Within
<1> QED
  BY <1>1 DEF HistoryOK, HistoryTyped, SavingOK, Increasing, Unanswered, Within, Saving

LEMMA SavedHistory ==
  ASSUME HistoryOK, Persist, memory' = memory, pc' \notin Saving
  PROVE  HistoryOK' /\ Within(memory, memory')
<1>1. /\ log' \in Seq(Message) /\ Increasing(log)' /\ Unanswered(log)' = {}
      /\ Within(log', memory)
  BY Persisted
<1>2. SavingOK'
  BY DEF SavingOK, Saving
<1>3. Within(memory, memory) /\ Within(log, memory)'
  BY <1>1 DEF Within
<1>4. Increasing(memory)' /\ Unanswered(memory)' = {} /\ memory' \in Seq(Message)
  BY DEF HistoryOK, HistoryTyped, Increasing, Unanswered
<1> QED BY <1>1, <1>2, <1>3, <1>4 DEF HistoryOK, HistoryTyped

LEMMA AddedHistory ==
  ASSUME HistoryOK, Persist \/ log' = log,
         \E new : Adds(new, pc') /\ memory' = memory \o new
  PROVE  HistoryOK' /\ Within(memory, memory')
<1>1. /\ log' \in Seq(Message) /\ Increasing(log)' /\ Unanswered(log)' = {}
      /\ Within(log', memory)
  <2>1. CASE Persist
    BY <2>1, Persisted
  <2>2. CASE log' = log
    BY <2>2 DEF HistoryOK, HistoryTyped, Increasing, Unanswered, Within
  <2> QED BY <2>1, <2>2
<1> QED BY <1>1, Adding DEF HistoryOK, HistoryTyped

\* The same for the top of the loop.
LEMMA NextRoundHistory ==
  ASSUME HistoryOK, inbox \in Seq(Steers), Persist, NextRound
  PROVE  HistoryOK' /\ Within(memory, memory')
<1>1. CASE inbox # <<>>
  <2>1. {inbox[j] : j \in 1..Len(inbox)} \in SUBSET Steers
    OBVIOUS
  <2>2. \E new : Adds(new, pc') /\ memory' = memory \o new
    BY <1>1, <2>1, SayAdds DEF NextRound, HistoryOK, HistoryTyped, Saving
  <2> QED BY <2>2, AddedHistory
<1>2. CASE inbox = <<>>
  BY <1>2, SavedHistory DEF NextRound, CallModel, Saving
<1> QED BY <1>1, <1>2

\* Every step keeps memory and the log complete and in agreement, and only the
\* loss of the process takes anything from memory.
LEMMA HistoryStep ==
  ASSUME HistoryOK, PlacesTyped, inbox \in Seq(Steers), [Next]_vars
  PROVE  HistoryOK' /\ (Within(memory, memory') \/ Reload)
<1> USE DEF historyVars, turnVars
<1>0. memory \in Seq(Message) /\ Increasing(memory) /\ {} \in SUBSET Steers
  BY DEF HistoryOK, HistoryTyped
<1>1. CASE RunStarts \/ Interrupt \/ Abandon \/ UNCHANGED vars
  BY <1>1, QuietHistory DEF RunStarts, Interrupt, Abandon, vars, Saving
<1>2. CASE TurnStep
  <2>1. CASE TurnStarted
    BY <1>0, <2>1, SayAdds, AddedHistory DEF TurnStarted, Say, Saving
  <2>2. CASE PromptSaved
    BY <2>2, NextRoundHistory, SavedHistory DEF PromptSaved, Saving
  <2>3. CASE InboxSaved
    BY <2>3, SavedHistory DEF InboxSaved, CallModel, Saving
  <2>4. CASE ToolsEnd
    <3>1. Adds(<<NewMessage("calls", {}),
                 [kind |-> "outputs", id |-> NextId + 1, items |-> {}]>>, pc')
      BY <2>4 DEF ToolsEnd, Adds, NewMessage
    <3> QED BY <2>4, <3>1, AddedHistory DEF ToolsEnd
  <2>5. CASE ExchangeSaved \/ RetrySaved
    BY <2>5, NextRoundHistory DEF ExchangeSaved, RetrySaved
  <2>6. CASE AnswerSaved
    BY <2>6, NextRoundHistory, SavedHistory DEF AnswerSaved, Saving
  <2>7. CASE Drained \/ TerminalSaved \/ InterruptionSaved \/ RunReturns
    BY <2>7, QuietHistory
    DEF Drained, TerminalSaved, StopChildren, InterruptionSaved, RunReturns, Saving
  <2>8. CASE ChildrenStopped
    <3>1. pc' \notin Saving
      BY <2>8 DEF ChildrenStopped, PlacesTyped, Saving
    <3> QED BY <2>8, <3>1, QuietHistory DEF ChildrenStopped, Saving
  <2>9. CASE CancelDelivered
    BY <2>9, QuietHistory, SavedHistory DEF CancelDelivered, StopChildren, Saving
  <2> QED BY <1>2, <2>1, <2>2, <2>3, <2>4, <2>5, <2>6, <2>7, <2>8, <2>9 DEF TurnStep
<1>3. CASE ModelStep
  <2>1. CASE ModelAsksTools \/ Fails
    BY <2>1, QuietHistory DEF ModelAsksTools, Fails, Saving
  <2>2. CASE ModelAnswersEmpty \/ ModelAnswers
    <3>1. log' = log /\ \E kind \in {"retry", "answer"} : pc' = kind /\ Say(kind)
      BY <2>2 DEF ModelAnswersEmpty, ModelAnswers
    <3> QED BY <1>0, <3>1, SayAdds, AddedHistory DEF Say, Saving
  <2> QED BY <1>3, <2>1, <2>2 DEF ModelStep
<1>4. ASSUME NEW s \in Slots, ToolStep(s) PROVE HistoryOK' /\ Within(memory, memory')
  BY <1>4, QuietHistory DEF ToolStep, PlainTool, SpawnTool, SpawnedTool, WaitTool
<1>5. ASSUME NEW k \in Kids, KidStep(k) PROVE HistoryOK' /\ Within(memory, memory')
  BY <1>5, QuietHistory DEF KidStep, KidStarts, KidEnds, KidReaped
<1>6. ASSUME NEW i \in Steers, SteerPut(i) \/ SteerSaved(i)
      PROVE  HistoryOK' /\ Within(memory, memory')
  BY <1>6, QuietHistory DEF SteerPut, SteerSaved
<1>7. CASE Reload
  <2>1. memory' = log /\ log' = log /\ pc' \notin Saving
    BY <1>7 DEF Reload, Replay, Complete, HistoryOK, Saving
  <2>2. SavingOK'
    BY <2>1 DEF SavingOK, Saving
  <2>3. Within(log, log)
    BY DEF Within
  <2>4. HistoryOK'
    BY <2>1, <2>2, <2>3 DEF HistoryOK, HistoryTyped, Increasing, Unanswered, Within
  <2> QED BY <1>7, <2>4
<1> QED BY <1>1, <1>2, <1>3, <1>4, <1>5, <1>6, <1>7 DEF Next

-----------------------------------------------------------------------------
(* Steering.                                                               *)

SteersTyped ==
  /\ inbox \in Seq(Steers) /\ steer \in [Steers -> {"none", "put", "saved", "lost"}]
  /\ noted \in [Steers -> Nat]

Queued(i) == \E a \in 1..Len(inbox) : inbox[a] = i
Told(i) == \E a \in 1..Len(memory) : i \in memory[a].items

\* What steer() has put in the inbox stays there until it is put to the model.
SteersOK ==
  SteersTyped /\ \A i \in Steers : steer[i] \in {"put", "saved"} => Queued(i) \/ Told(i)

\* A step that leaves the inbox alone.
LEMMA SteersAlone ==
  ASSUME SteersOK, SteeredBeforeAnswer, UNCHANGED steerVars, Within(memory, memory'),
         pc' = "completed" => pc = "completed" /\ log' = log
  PROVE  SteersOK' /\ SteeredBeforeAnswer'
<1>1. \A i \in Steers : Told(i) => Told(i)'
  BY DEF Told, Within
<1>2. \A i \in Steers : Queued(i) <=> Queued(i)'
  BY DEF Queued, steerVars
<1>3. SteersOK'
  BY <1>1, <1>2 DEF SteersOK, SteersTyped, steerVars
<1>4. SteeredBeforeAnswer'
  BY <1>1 DEF SteeredBeforeAnswer, Told, steerVars
<1> QED BY <1>3, <1>4

\* The top of the loop puts the whole inbox to the model.
LEMMA SteersNextRound ==
  ASSUME SteersOK, SteeredBeforeAnswer, HistoryTyped, Within(memory, memory'), NextRound,
         UNCHANGED <<steer, noted>>
  PROVE  SteersOK' /\ SteeredBeforeAnswer'
<1>1. CASE inbox # <<>>
  <2> DEFINE given == {inbox[j] : j \in 1..Len(inbox)}
             m == NewMessage("inbox", given)
  <2>1. memory' = Append(memory, m) /\ inbox' = <<>> /\ pc' = "inbox"
    BY <1>1 DEF NextRound
  <2>2. m.items = given
    BY DEF NewMessage
  <2> HIDE DEF m
  <2>3. Len(memory') = Len(memory) + 1 /\ memory'[Len(memory) + 1] = m
        /\ Len(memory) + 1 \in 1..Len(memory')
    BY <2>1 DEF HistoryTyped
  <2>4. ASSUME NEW i \in Steers, Queued(i) PROVE Told(i)'
    <3>1. i \in m.items
      BY <2>2, <2>4 DEF Queued
    <3> QED BY <2>3, <3>1 DEF Told
  <2>5. \A i \in Steers : Told(i) => Told(i)'
    BY DEF Told, Within
  <2>6. SteersTyped'
    BY <2>1 DEF SteersOK, SteersTyped
  <2>7. SteersOK'
    BY <2>4, <2>5, <2>6 DEF SteersOK
  <2> QED BY <2>1, <2>7 DEF SteeredBeforeAnswer
<1>2. CASE inbox = <<>>
  BY <1>2, SteersAlone DEF NextRound, CallModel, steerVars
<1> QED BY <1>1, <1>2

\* Every step keeps what was steered until the model has been given it.
LEMMA SteersStep ==
  ASSUME SteersOK, SteeredBeforeAnswer, HistoryTyped, [Next]_vars,
         PlacesTyped, Within(memory, memory') \/ Reload
  PROVE  SteersOK' /\ SteeredBeforeAnswer'
<1> USE DEF historyVars, turnVars
<1>0. CASE Reload
  <2>1. SteersTyped'
    BY <1>0 DEF Reload, SteersOK, SteersTyped
  <2>2. \A i \in Steers : steer'[i] \notin {"put", "saved"}
    BY <1>0 DEF Reload
  <2>3. pc' # "completed"
    BY <1>0 DEF Reload
  <2> QED BY <2>1, <2>2, <2>3 DEF SteersOK, SteeredBeforeAnswer
<1> SUFFICES ASSUME ~Reload, Within(memory, memory') PROVE SteersOK' /\ SteeredBeforeAnswer'
  BY <1>0
<1>1. CASE RunStarts \/ Interrupt \/ Abandon \/ UNCHANGED vars
  BY <1>1, SteersAlone DEF RunStarts, Interrupt, Abandon, vars
<1>2. CASE TurnStep
  <2>1. CASE TurnStarted \/ ToolsEnd \/ InboxSaved \/ Drained \/ TerminalSaved
             \/ InterruptionSaved \/ RunReturns
    BY <2>1, SteersAlone DEF TurnStarted, ToolsEnd, InboxSaved, CallModel, Drained,
       TerminalSaved, StopChildren, InterruptionSaved, RunReturns
  <2>2. CASE ChildrenStopped
    BY <2>2, SteersAlone DEF ChildrenStopped
  <2>3. CASE CancelDelivered
    BY <2>3, SteersAlone DEF CancelDelivered, StopChildren
  <2>4. CASE PromptSaved
    BY <2>4, SteersAlone, SteersNextRound DEF PromptSaved, steerVars
  <2>5. CASE ExchangeSaved \/ RetrySaved
    BY <2>5, SteersNextRound DEF ExchangeSaved, RetrySaved
  <2>6. CASE AnswerSaved
    <3>1. CASE inbox # <<>>
      BY <2>6, <3>1, SteersNextRound DEF AnswerSaved
    <3>2. CASE inbox = <<>>
      <4>1. memory' = memory /\ UNCHANGED steerVars
        BY <2>6, <3>2 DEF AnswerSaved, steerVars
      <4>2. \A i \in Steers : ~Queued(i)
        BY <3>2 DEF Queued
      <4>3. \A i \in Steers : steer[i] = "saved" => Told(i)
        BY <4>2 DEF SteersOK
      <4>4. SteeredBeforeAnswer'
        BY <4>1, <4>3 DEF SteeredBeforeAnswer, Told, steerVars
      <4>5. SteersOK'
        BY <4>1 DEF SteersOK, SteersTyped, Queued, Told, steerVars
      <4> QED BY <4>4, <4>5
    <3> QED BY <3>1, <3>2
  <2> QED BY <1>2, <2>1, <2>2, <2>3, <2>4, <2>5, <2>6 DEF TurnStep
<1>3. CASE ModelStep
  BY <1>3, SteersAlone DEF ModelStep, ModelAsksTools, ModelAnswersEmpty, ModelAnswers, Fails
<1>4. ASSUME NEW s \in Slots, ToolStep(s) PROVE SteersOK' /\ SteeredBeforeAnswer'
  BY <1>4, SteersAlone DEF ToolStep, PlainTool, SpawnTool, SpawnedTool, WaitTool
<1>5. ASSUME NEW k \in Kids, KidStep(k) PROVE SteersOK' /\ SteeredBeforeAnswer'
  BY <1>5, SteersAlone DEF KidStep, KidStarts, KidEnds, KidReaped
<1>6. ASSUME NEW i \in Steers, SteerPut(i) PROVE SteersOK' /\ SteeredBeforeAnswer'
  <2>1. /\ inbox' = Append(inbox, i) /\ steer' = [steer EXCEPT ![i] = "put"]
        /\ UNCHANGED <<memory, log, pc, noted>>
    BY <1>6 DEF SteerPut
  <2>2. SteersTyped'
    BY <2>1 DEF SteersOK, SteersTyped
  <2>3. /\ Len(inbox') = Len(inbox) + 1 /\ inbox'[Len(inbox) + 1] = i /\ Len(inbox) \in Nat
        /\ \A a \in 1..Len(inbox) : inbox'[a] = inbox[a]
    BY <2>1 DEF SteersOK, SteersTyped
  <2>4. Queued(i)' /\ \A j \in Steers : Queued(j) => Queued(j)'
    BY <2>3 DEF Queued
  <2>5. \A j \in Steers : Told(j) => Told(j)'
    BY <2>1 DEF Told
  <2>6. \A j \in Steers : steer'[j] = (IF j = i THEN "put" ELSE steer[j])
    BY <2>1 DEF SteersOK, SteersTyped
  <2>7. SteersOK'
    BY <2>2, <2>4, <2>5, <2>6 DEF SteersOK
  <2>8. SteeredBeforeAnswer'
    BY <2>1, <2>6 DEF SteeredBeforeAnswer
  <2> QED BY <2>7, <2>8
<1>7. ASSUME NEW i \in Steers, SteerSaved(i) PROVE SteersOK' /\ SteeredBeforeAnswer'
  <2>1. /\ steer[i] = "put" /\ steer' = [steer EXCEPT ![i] = "saved"]
        /\ noted' = [noted EXCEPT ![i] = Len(log)] /\ UNCHANGED <<memory, log, pc, inbox>>
    BY <1>7 DEF SteerSaved
  <2>2. Len(log) \in Nat
    BY DEF HistoryTyped
  <2>3. SteersTyped'
    BY <2>1, <2>2 DEF SteersOK, SteersTyped
  <2>4. \A j \in Steers : /\ steer'[j] = (IF j = i THEN "saved" ELSE steer[j])
                          /\ noted'[j] = (IF j = i THEN Len(log) ELSE noted[j])
    BY <2>1 DEF SteersOK, SteersTyped
  <2>5. \A j \in Steers : (Queued(j) => Queued(j)') /\ (Told(j) => Told(j)')
    BY <2>1 DEF Queued, Told
  <2>6. SteersOK'
    BY <2>1, <2>3, <2>4, <2>5 DEF SteersOK
  <2>7. SteeredBeforeAnswer'
    BY <2>1, <2>2, <2>4 DEF SteeredBeforeAnswer
  <2> QED BY <2>6, <2>7
<1> QED BY <1>1, <1>2, <1>3, <1>4, <1>5, <1>6, <1>7 DEF Next

-----------------------------------------------------------------------------
HarnessInv ==
  /\ PlacesTyped /\ LimitsTyped /\ CancelsTyped
  /\ HistoryOK /\ SteersOK /\ SteeredBeforeAnswer

LEMMA HarnessInit == Init => HarnessInv
<1> SUFFICES ASSUME Init PROVE HarnessInv
  OBVIOUS
<1> USE HarnessBounds
<1>1. PlacesTyped
  BY DEF Init, PlacesTyped, PCs, Outcomes, NoTools
<1>2. LimitsTyped
  BY DEF Init, LimitsTyped, FreshLoop
<1>3. CancelsTyped
  <2>1. 0 \in 0..2 /\ 0 \in 0..MaxInterrupts
    OBVIOUS
  <2> QED BY <2>1, Zenon DEF Init, CancelsTyped
<1>4. HistoryOK
  BY DEF Init, HistoryOK, HistoryTyped, Increasing, Within, Unanswered, SavingOK, Saving
<1>5. SteersOK /\ SteeredBeforeAnswer
  BY DEF Init, SteersOK, SteersTyped, SteeredBeforeAnswer
<1> QED BY <1>1, <1>2, <1>3, <1>4, <1>5 DEF HarnessInv

\* The invariant of the turn, its history and its inbox holds in every
\* reachable state.
THEOREM HarnessInvariant == Spec => []HarnessInv
<1>1. HarnessInv /\ [Next]_vars => HarnessInv'
  <2> SUFFICES ASSUME HarnessInv, [Next]_vars PROVE HarnessInv'
    OBVIOUS
  <2>1. PlacesTyped' /\ LimitsTyped' /\ CancelsTyped'
    BY PlacesStep, LimitsStep, CancelsStep DEF HarnessInv
  <2>2. HistoryOK' /\ (Within(memory, memory') \/ Reload)
    BY HistoryStep DEF HarnessInv, SteersOK, SteersTyped
  <2>3. SteersOK' /\ SteeredBeforeAnswer'
    BY <2>2, SteersStep DEF HarnessInv, HistoryOK
  <2> QED BY <2>1, <2>2, <2>3 DEF HarnessInv
<1> QED BY HarnessInit, <1>1, PTL DEF Spec

\* Every variable keeps its type: no turn calls the model or retries more often
\* than its limits say, and none inherits a cancel() of another one.
THEOREM TypeCorrect == Spec => []TypeOK
<1>1. HarnessInv /\ KidsInv => TypeOK
  BY DEF HarnessInv, PlacesTyped, LimitsTyped, CancelsTyped, HistoryOK, HistoryTyped,
     SteersOK, SteersTyped, KidsInv, KidsTyped, KidStates, TypeOK
<1> QED BY HarnessInvariant, KidsInvariant, <1>1, PTL

\* What load() rebuilds is in memory, in order and complete, wherever a
\* cancellation has cut an append; memory never holds a tool call without its
\* outputs; and the model has been given what was steered before its answer.
THEOREM HistoryComplete == Spec => []HistoryIsComplete
<1>1. HarnessInv => HistoryIsComplete
  <2> SUFFICES ASSUME HarnessInv PROVE HistoryIsComplete
    OBVIOUS
  <2>1. Complete(memory) = memory /\ Replay = log
    BY DEF HarnessInv, HistoryOK, Complete, Replay
  <2>2. MemoryCoversLog
    BY <2>1 DEF HarnessInv, HistoryOK, MemoryCoversLog, Increasing, Within
  <2> QED
    BY <2>1, <2>2 DEF HarnessInv, HistoryIsComplete, ToolHistoryComplete
<1> QED BY HarnessInvariant, <1>1, PTL
=============================================================================
