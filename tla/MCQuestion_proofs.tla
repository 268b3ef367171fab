-------------------------- MODULE MCQuestion_proofs --------------------------
(***************************************************************************)
(* The parts of MCQuestion are instances of the components that            *)
(* Question_proofs proves about for every value of their constants; only   *)
(* the citations are no part of it.  A behavior of MCQuestion is one of a  *)
(* single part, and the variables of the others keep their initial values, *)
(* so that the theorems hold of MCQuestion, whatever parts it is given.    *)
(*                                                                         *)
(* Four instances have the constants that the parts use between them.  An  *)
(* instance, the parts that have its constants and what is so proved of    *)
(* MCQuestion come before the next instance.                               *)
(***************************************************************************)
EXTENDS MCQuestion, FiniteSetTheorems, TLAPS

-----------------------------------------------------------------------------
(* What the parts share.                                                   *)

\* A step of MCQuestion is a step of its part, or leaves it as it is.
LEMMA StepOfPart ==
  ASSUME [Next]_vars
  PROVE  /\ part' = part
         /\ part # "restricted" => UNCHANGED restrictedVars
         /\ ~InEvolution => UNCHANGED evolutionVars
         /\ ~InStore => UNCHANGED storeVars
         /\ part = "session" => [Session!SessionStoreNext]_sessVars
         /\ part = "history" => [History!QANext]_qaVars
         /\ part = "reactive" => [Reactive!SmartStep]_smartVars
         /\ part = "http" => [Http!MCPNext]_mcpVars
         /\ part = "nucliadb" => [NucliaDB!NdbStep]_ndbVars
         /\ part = "remote" => [Remote!A2ANext]_remoteVars
         /\ part = "restricted" => [Restricted!Next]_restrictedVars
         /\ part = "rounds" => [Evolving!Next]_evolutionVars
         /\ part = "pipeline" => [Pipeline!Next]_retrievalVars
         /\ part = "store" => [Store!Next]_storeVars
         /\ part = "planning" => [Planning!SmartStep]_smartVars
         /\ part = "planned" => [Planned!MCPNext]_mcpVars
         /\ part = "graphs" => [Graphs!Next]_evolutionVars
         /\ part = "restarts" => [Restarting!Next]_retrievalVars
         /\ part = "shared store" => [SharedStore!Next]_storeVars
         /\ part = "stdio" => [Stdio!MCPNext]_mcpVars
         /\ part = "multi" => [Multi!MCPNext]_mcpVars
<1>1. CASE Next
  BY <1>1, ZenonT(60) DEF Next, SessionNext, HistoryNext, PipelineNext, RestartingNext, StoreNext,
       SharedStoreNext, HttpNext,
       PlannedNext, StdioNext, MultiNext, ReactiveNext, PlanningNext, RestrictedNext, NucliaDBNext, RemoteNext,
       EvolvingNext, GraphsNext, Elsewhere, InEvolution, InStore
<1>2. CASE UNCHANGED vars
  BY <1>2, ZenonT(60) DEF vars
<1> QED
  BY <1>1, <1>2, ZenonT(60)

-----------------------------------------------------------------------------
(* The parts whose agents react, over HTTP.                                *)

OverHttp == INSTANCE Question_proofs WITH
  Uuids <- {"u1", "u2"}, Slugs <- {"s1", "s2"}, UuidSlugs <- {"s2"}, Callers <- {"c1", "c2"},
  NoResource <- "none", MaxOperations <- 4,
  Questions <- 1..4, Ephemeral <- FALSE, Sequential <- TRUE, PageSize <- 9, Limit <- 3, MaxEvictions <- 2,
  Sources <- {"s1", "s2"}, Resources <- Some, HasFallback <- FALSE, NoLabelset <- "none",
  Operations <- {"question", "advanced", "ask_agent", "ask_by_title", "search_images_by_title", "search_images",
                 "all_images_by_title", "facets_search", "facets_count", "catalog_search"},
  asked <- filters, contexts <- found,
  Artifacts <- {"a", "b", "step"}, MaxChunks <- 3, MaxQuestions <- 1,
  AgentQuestions <- {"q1"}, Codes <- 2, AgentRetries <- 2, MaxCallbacks <- 4,
  NodeIds <- {"Start", "A"}, Procedures <- {"t", "u"}, AvailableTools <- {"t"},
  InitialGraphs <- {[nodes |-> Nodes({"Start"}), edges |-> {}, acyclic |-> FALSE]},
  Rounds <- 3, MaxScore <- 1, MaxEdits <- 2, MemoryLimit <- 2, MaxChars <- 2, Sizes <- 1..2,
  Preprocess <- {"p"}, Context <- {"c1"}, Generation <- {"g"}, Postprocess <- {"e"},
  Fallback <- To("c1", "c3"), NextAgent <- To("c1", "c5"), ThenAgents <- Branch(<<>>), ElseAgents <- Branch(<<>>),
  Pruning <- {"c1"}, Retries <- 0, MaxFound <- 1, MaxSplit <- 2, NoAgent <- "no",
  context_questions <- asked, memory_contexts <- contexts,
  Agents <- {"a"}, Workflows <- {"w"}, Kinds <- {"preprocess"}, DriverIds <- {"d1"}, DriverNames <- {"n"},
  Fields <- {"url"}, Tasks <- {"t1", "t2"}, OneRequest <- TRUE, MaxRequests <- 5, MaxRows <- 3,
  Calls <- {"a", "b"}, Parameterless <- {"a"}, Decisions <- {"d"}, MaxIterations <- 2, MaxChosen <- 2,
  MaxRetries <- 2, NoSession <- "none",
  Mode <- "reactive", Parallel <- TRUE,
  Transport <- "http", Pages <- 1, Prompts <- FALSE, Interactive <- TRUE, WorkChain <- TRUE,
  MaxTurns <- 1, MaxAtOnce <- 1

\* The constants of the parts over HTTP are within the bounds of the proofs: the
\* agents of the pipeline form a tree, and one question is asked at a time.
LEMMA HttpBounds ==
  /\ OverHttp!SessionBounds /\ OverHttp!HistoryBounds /\ OverHttp!OneAfterAnother /\ OverHttp!NdbBounds
  /\ OverHttp!SmartBounds /\ OverHttp!MCPBounds /\ OverHttp!RestrictedBounds /\ OverHttp!EvolutionBounds
  /\ OverHttp!PipelineBounds /\ OverHttp!StoreBounds
<1>1. /\ OverHttp!SessionBounds /\ OverHttp!SmartBounds /\ OverHttp!HistoryBounds /\ OverHttp!RestrictedBounds
      /\ OverHttp!EvolutionBounds
  BY DEF OverHttp!SessionBounds, OverHttp!SmartBounds, OverHttp!HistoryBounds, OverHttp!RestrictedBounds,
         OverHttp!EvolutionBounds
<1>2. OverHttp!OneAfterAnother
  <2>1. 4 \in Nat
    OBVIOUS
  <2>2. IsFiniteSet(1..4) /\ Cardinality(1..4) = 4
    <3>1. \A n \in Nat : IsFiniteSet(1..n) /\ Cardinality(1..n) = n
      BY FS_Interval
    <3> QED
      BY <2>1, <3>1, ZenonT(60)
  <2>3. OverHttp!IsFiniteSet(1..4) /\ OverHttp!Cardinality(1..4) = 4
    BY <2>2, ZenonT(60) DEF OverHttp!IsFiniteSet, IsFiniteSet, OverHttp!Cardinality, Cardinality
  <2> QED
    BY <1>1, <2>3, SMTT(90) DEF OverHttp!OneAfterAnother
<1>3. OverHttp!NdbBounds /\ OverHttp!MCPBounds
  BY DEF OverHttp!NdbBounds, OverHttp!IsConfig, Configs, Some, LabelCalls, Label, Topic, NoTopic, Invalid,
         OverHttp!MCPBounds, Flows, Planners
<1>4. OverHttp!PipelineBounds
  <2> DEFINE rank == [x \in {"no", "c1", "c3", "c5"} |-> IF x = "c1" THEN 0 ELSE IF x = "c5" THEN 2 ELSE 1]
  <2>1. OverHttp!Chain(rank) = {"c1", "c3", "c5"}
    BY DEF OverHttp!Chain
  <2>2. OverHttp!AgentsFormTree(rank)
    BY <2>1 DEF OverHttp!AgentsFormTree, To, Branch, Kind
  <2> QED
    BY <2>2, ZenonT(60) DEF OverHttp!PipelineBounds, OverHttp!RetrievalBounds
<1>5. OverHttp!StoreBounds
  <2>1. IsFiniteSet({"a"}) /\ IsFiniteSet({"w"})
    BY FS_Singleton
  <2>2. OverHttp!IsFiniteSet({"a"}) /\ OverHttp!IsFiniteSet({"w"})
    BY <2>1, ZenonT(60) DEF OverHttp!IsFiniteSet, IsFiniteSet
  <2> QED
    BY <2>2, SMT DEF OverHttp!StoreBounds
<1> QED
  BY <1>1, <1>2, <1>3, <1>4, <1>5

\* A step of the sessions is the same step of the component.
LEMMA SessionSteps == Session!SessionStoreNext => OverHttp!SessionStoreNext
BY ZenonT(120) DEF
       Session!Names, Session!Idle, Session!Ids, Session!BySlug, Session!Proceed, Session!LookUpSlug,
       Session!CreateSessionResource, Session!EnsureSessionExists, Session!ResolveById,
       Session!ResolveBySlug, Session!CreateMissing, Session!CreateSession, Session!PatchSession,
       Session!DeleteSession, Session!SessionStoreNext, OverHttp!Names, OverHttp!Idle, OverHttp!Ids,
       OverHttp!BySlug, OverHttp!Proceed, OverHttp!LookUpSlug, OverHttp!CreateSessionResource,
       OverHttp!EnsureSessionExists, OverHttp!ResolveById, OverHttp!ResolveBySlug, OverHttp!CreateMissing,
       OverHttp!CreateSession, OverHttp!PatchSession, OverHttp!DeleteSession, OverHttp!SessionStoreNext

\* In its part, MCQuestion behaves as the component: the sessions.
LEMMA SessionBehaves ==
  Spec => []~(part = "session") \/ ([](part = "session") /\ OverHttp!SessionStoreSpec)
<1>1. Init /\ part = "session" => OverHttp!SessionStoreInit
  BY ZenonT(60) DEF Init,
       Session!Idle, Session!SessionStoreInit, OverHttp!Idle, OverHttp!SessionStoreInit
<1>2. [Next]_vars => /\ (part = "session")' <=> part = "session"
                     /\ part = "session" => [OverHttp!SessionStoreNext]_(OverHttp!sessVars)
  BY StepOfPart, SessionSteps, ZenonT(60) DEF sessVars, OverHttp!sessVars
<1> QED
  BY <1>1, <1>2, PTL DEF Spec, OverHttp!SessionStoreSpec

\* And so the theorems about the component hold of its part.
LEMMA SessionHolds ==
  Spec => [](part = "session" =>
           /\ Session!EffectiveIsNamed
           /\ Session!OneSessionPerName
           /\ Session!SessionStoreTypeOK)
<1>1. /\ OverHttp!EffectiveIsNamed => Session!EffectiveIsNamed
      /\ OverHttp!OneSessionPerName => Session!OneSessionPerName
      /\ OverHttp!SessionStoreTypeOK => Session!SessionStoreTypeOK
  BY ZenonT(60) DEF
       Session!EffectiveIsNamed, OverHttp!EffectiveIsNamed, Session!Ids, Session!OneSessionPerName,
       OverHttp!Ids, OverHttp!OneSessionPerName, Session!Names, Session!SessionStoreTypeOK, OverHttp!Names,
       OverHttp!SessionStoreTypeOK
<1> QED
  BY <1>1, SessionBehaves, HttpBounds,
     OverHttp!NamedSession, OverHttp!OneSession, OverHttp!SessionTypes, PTL

\* A step of the history is the same step of the component.
LEMMA HistorySteps == History!QANext => OverHttp!QANext
BY ZenonT(120) DEF
       History!Goes, History!Last, History!PageCount, History!Page, History!AppendAll, History!QaHistory,
       History!ReadPage, History!Save, History!AddConversationMessage, History!Evict, History!QANext,
       OverHttp!Goes, OverHttp!Last, OverHttp!PageCount, OverHttp!Page, OverHttp!AppendAll,
       OverHttp!QaHistory, OverHttp!ReadPage, OverHttp!Save, OverHttp!AddConversationMessage,
       OverHttp!Evict, OverHttp!QANext

\* In its part, MCQuestion behaves as the component: the history.
LEMMA HistoryBehaves ==
  Spec => []~(part = "history") \/ ([](part = "history") /\ OverHttp!QASpec)
<1>1. Init /\ part = "history" => OverHttp!QAInit
  BY ZenonT(60) DEF Init,
       History!QAInit, OverHttp!QAInit
<1>2. [Next]_vars => /\ (part = "history")' <=> part = "history"
                     /\ part = "history" => [OverHttp!QANext]_(OverHttp!qaVars)
  BY StepOfPart, HistorySteps, ZenonT(60) DEF qaVars, OverHttp!qaVars
<1> QED
  BY <1>1, <1>2, PTL DEF Spec, OverHttp!QASpec

\* And so the theorems about the component hold of its part.
LEMMA HistoryHolds ==
  Spec => [](part = "history" =>
           /\ History!HistoryIsASuffix
           /\ History!QATypeOK)
<1>1. /\ OverHttp!HistoryIsASuffix => History!HistoryIsASuffix
      /\ OverHttp!QATypeOK => History!QATypeOK
  BY ZenonT(60) DEF
       History!IsSuffix, History!HistoryIsASuffix, OverHttp!IsSuffix, OverHttp!HistoryIsASuffix,
       History!QATypeOK, OverHttp!QATypeOK
<1> QED
  BY <1>1, HistoryBehaves, HttpBounds,
     OverHttp!HistorySuffix, OverHttp!HistoryTypes, PTL

\* A step of the smart agent that reacts is the same step of the component.
LEMMA ReactiveSteps == Reactive!SmartStep => OverHttp!SmartStep
BY ZenonT(120) DEF
       Reactive!turnVars, Reactive!Items, Reactive!Outcomes, Reactive!Unattempted, Reactive!Indexes,
       Reactive!Unresolved, Reactive!HasUnresolvedFeedback, Reactive!First, Reactive!ReactiveTools,
       Reactive!PlannerSays, Reactive!CallPlanner, Reactive!Turns, Reactive!Over, Reactive!ChooseTools,
       Reactive!ModelFails, Reactive!SendFeedback, Reactive!FeedbackResolved, Reactive!Skipped,
       Reactive!CallsToExecute, Reactive!Sorted, Reactive!ExecuteToolCalls, Reactive!NextCall,
       Reactive!ExecuteToolCall, Reactive!Recorded, Reactive!ProcessResults, Reactive!EndTurn,
       Reactive!SmartStep, Reactive!Cardinality, OverHttp!turnVars, OverHttp!Items, OverHttp!Outcomes,
       OverHttp!Unattempted, OverHttp!Indexes, OverHttp!Unresolved, OverHttp!HasUnresolvedFeedback,
       OverHttp!First, OverHttp!ReactiveTools, OverHttp!PlannerSays, OverHttp!CallPlanner, OverHttp!Turns,
       OverHttp!Over, OverHttp!ChooseTools, OverHttp!ModelFails, OverHttp!SendFeedback,
       OverHttp!FeedbackResolved, OverHttp!Skipped, OverHttp!CallsToExecute, OverHttp!Sorted,
       OverHttp!ExecuteToolCalls, OverHttp!NextCall, OverHttp!ExecuteToolCall, OverHttp!Recorded,
       OverHttp!ProcessResults, OverHttp!EndTurn, OverHttp!SmartStep, OverHttp!Cardinality

\* In its part, MCQuestion behaves as the component: the smart agent that reacts.
LEMMA ReactiveBehaves ==
  Spec => []~(part = "reactive") \/ ([](part = "reactive") /\ OverHttp!SmartSpec)
<1>1. Init /\ part = "reactive" => OverHttp!SmartInit
  BY ZenonT(60) DEF Init,
       Reactive!Unattempted, Reactive!SmartInit, OverHttp!Unattempted, OverHttp!SmartInit
<1>2. [Next]_vars => /\ (part = "reactive")' <=> part = "reactive"
                     /\ part = "reactive" => [OverHttp!SmartStep]_(OverHttp!smartVars)
  BY StepOfPart, ReactiveSteps, ZenonT(60) DEF smartVars, OverHttp!smartVars
<1> QED
  BY <1>1, <1>2, PTL DEF Spec, OverHttp!SmartSpec

\* And so the theorems about the component hold of its part.
LEMMA ReactiveHolds ==
  Spec => [](part = "reactive" =>
           /\ Reactive!DecisionAskedOnce
           /\ Reactive!EveryCallAnswered
           /\ Reactive!FeedbackIsUsed
           /\ Reactive!SmartTypeOK)
<1>1. /\ OverHttp!DecisionAskedOnce => Reactive!DecisionAskedOnce
      /\ OverHttp!EveryCallAnswered => Reactive!EveryCallAnswered
      /\ OverHttp!FeedbackIsUsed => Reactive!FeedbackIsUsed
      /\ OverHttp!SmartTypeOK => Reactive!SmartTypeOK
  BY ZenonT(60) DEF
       Reactive!DecisionAskedOnce, OverHttp!DecisionAskedOnce, Reactive!Indexes, Reactive!EveryCallAnswered,
       OverHttp!Indexes, OverHttp!EveryCallAnswered, Reactive!Turns, Reactive!FeedbackIsUsed,
       OverHttp!Turns, OverHttp!FeedbackIsUsed, Reactive!Items, Reactive!Outcomes, Reactive!SmartTypeOK,
       OverHttp!Items, OverHttp!Outcomes, OverHttp!SmartTypeOK
<1> QED
  BY <1>1, ReactiveBehaves, HttpBounds,
     OverHttp!AskedOnce, OverHttp!CallsAnswered, OverHttp!FeedbackUsed, OverHttp!SmartTypes, PTL

\* A step of the MCP agent over HTTP is the same step of the component.
LEMMA HttpSteps == Http!MCPNext => OverHttp!MCPNext
BY ZenonT(120) DEF
       Http!agentVars, Http!Closed, Http!Set, Http!Raised, Http!Initialize, Http!Connect, Http!ConnectFails,
       Http!PreloadTools, Http!PreloadFails, Http!PreloadPrompts, Http!GetToolSelectionPrompt,
       Http!InteractionCompleted, Http!ChooseTool, Http!Called, Http!ProcessTool, Http!ToolError,
       Http!RejectOverflow, Http!ToolResult, Http!CallTool, Http!ServerAsks, Http!ElicitationCallback,
       Http!SamplingCallback, Http!CloseSession, Http!AfterAttempt, Http!AfterStdio, Http!SaveContext,
       Http!MultiQuestion, Http!Become, Http!Refreshed, Http!PreloadRegisteredAgents, Http!OpenSession,
       Http!PublishNone, Http!OpenFails, Http!Listed, Http!PromptsListed, Http!Publish, Http!TeardownFails,
       Http!CallPublished, Http!PublishedReturns, Http!FlowStep, Http!PlannerStep, Http!MCPNext,
       OverHttp!agentVars, OverHttp!Closed, OverHttp!Set, OverHttp!Raised, OverHttp!Initialize,
       OverHttp!Connect, OverHttp!ConnectFails, OverHttp!PreloadTools, OverHttp!PreloadFails,
       OverHttp!PreloadPrompts, OverHttp!GetToolSelectionPrompt, OverHttp!InteractionCompleted,
       OverHttp!ChooseTool, OverHttp!Called, OverHttp!ProcessTool, OverHttp!ToolError,
       OverHttp!RejectOverflow, OverHttp!ToolResult, OverHttp!CallTool, OverHttp!ServerAsks,
       OverHttp!ElicitationCallback, OverHttp!SamplingCallback, OverHttp!CloseSession,
       OverHttp!AfterAttempt, OverHttp!AfterStdio, OverHttp!SaveContext, OverHttp!MultiQuestion,
       OverHttp!Become, OverHttp!Refreshed, OverHttp!PreloadRegisteredAgents, OverHttp!OpenSession,
       OverHttp!PublishNone, OverHttp!OpenFails, OverHttp!Listed, OverHttp!PromptsListed, OverHttp!Publish,
       OverHttp!TeardownFails, OverHttp!CallPublished, OverHttp!PublishedReturns, OverHttp!FlowStep,
       OverHttp!PlannerStep, OverHttp!MCPNext

\* In its part, MCQuestion behaves as the component: the MCP agent over HTTP.
LEMMA HttpBehaves ==
  Spec => []~(part = "http") \/ ([](part = "http") /\ OverHttp!MCPSpec)
<1>1. Init /\ part = "http" => OverHttp!MCPInit
  BY ZenonT(60) DEF Init,
       Http!NewFlow, Http!NewPlanner, Http!MCPInit, OverHttp!NewFlow, OverHttp!NewPlanner, OverHttp!MCPInit
<1>2. [Next]_vars => /\ (part = "http")' <=> part = "http"
                     /\ part = "http" => [OverHttp!MCPNext]_(OverHttp!mcpVars)
  BY StepOfPart, HttpSteps, ZenonT(60) DEF mcpVars, OverHttp!mcpVars
<1> QED
  BY <1>1, <1>2, PTL DEF Spec, OverHttp!MCPSpec

\* And so the theorems about the component hold of its part.
LEMMA HttpHolds ==
  Spec => [](part = "http" =>
           /\ Http!CompletedOnce
           /\ Http!ToldOfEveryCall
           /\ Http!PublishedCallsIsolated
           /\ Http!MCPTypeOK)
<1>1. /\ OverHttp!CompletedOnce => Http!CompletedOnce
      /\ OverHttp!ToldOfEveryCall => Http!ToldOfEveryCall
      /\ OverHttp!PublishedCallsIsolated => Http!PublishedCallsIsolated
      /\ OverHttp!MCPTypeOK => Http!MCPTypeOK
  BY ZenonT(60) DEF
       Http!CompletedOnce, OverHttp!CompletedOnce, Http!ToldOfEveryCall, OverHttp!ToldOfEveryCall,
       Http!PublishedCallsIsolated, OverHttp!PublishedCallsIsolated, Http!Owners, Http!AllPages,
       Http!MCPTypeOK, OverHttp!Owners, OverHttp!AllPages, OverHttp!MCPTypeOK
<1>2. OverHttp!MCPSpec => []OverHttp!CompletedOnce
  BY HttpBounds, OverHttp!InteractionOnce
<1> QED
  BY <1>1, <1>2, HttpBehaves, HttpBounds,
     OverHttp!ModelIsTold, OverHttp!PublishedIsolated, OverHttp!MCPTypes, PTL

\* A step of the NucliaDB agents is the same step of the component.
LEMMA NucliaDBSteps == NucliaDB!NdbStep => OverHttp!NdbStep
BY ZenonT(120) DEF
       NucliaDB!ConvertLabels, NucliaDB!ValidLabel, NucliaDB!Added, NucliaDB!LabelsDict,
       NucliaDB!LabelValues, NucliaDB!Several, NucliaDB!OrFilters, NucliaDB!LabelFilter,
       OverHttp!ConvertLabels, OverHttp!ValidLabel, OverHttp!Added, OverHttp!LabelsDict,
       OverHttp!LabelValues, OverHttp!Several, OverHttp!OrFilters, OverHttp!LabelFilter,
       NucliaDB!ByTitle, NucliaDB!QuestionOperations, NucliaDB!Goto, NucliaDB!At, NucliaDB!Give,
       NucliaDB!Fail, NucliaDB!LoadSourceInformation, NucliaDB!ChooseSource,
       NucliaDB!ToFieldFilterExpression, NucliaDB!CanCombine, NucliaDB!BuildFilterExpression,
       NucliaDB!BuildCatalogFilterExpression, NucliaDB!ParseFilterExpression, NucliaDB!BuildAskRequest,
       NucliaDB!InnerRag, NucliaDB!Rag, NucliaDB!DoNucliadbQuery, NucliaDB!SearchImages,
       NucliaDB!InnerFacetsSearch, NucliaDB!InnerFacets, NucliaDB!InnerCatalogSearch, NucliaDB!Scope,
       NucliaDB!Combines, NucliaDB!SearchByTitle, NucliaDB!AskByTitle, NucliaDB!CreateContext,
       NucliaDB!NoLabels, NucliaDB!Retrieved, NucliaDB!InTurn, NucliaDB!Ask, NucliaDB!AskFails,
       NucliaDB!SaveAnswer, NucliaDB!GetQuestionContext, NucliaDB!Gathered, NucliaDB!NdbStep,
       NucliaDB!Cardinality, OverHttp!ByTitle, OverHttp!QuestionOperations, OverHttp!Goto, OverHttp!At,
       OverHttp!Give, OverHttp!Fail, OverHttp!LoadSourceInformation, OverHttp!ChooseSource,
       OverHttp!ToFieldFilterExpression, OverHttp!CanCombine, OverHttp!BuildFilterExpression,
       OverHttp!BuildCatalogFilterExpression, OverHttp!ParseFilterExpression, OverHttp!BuildAskRequest,
       OverHttp!InnerRag, OverHttp!Rag, OverHttp!DoNucliadbQuery, OverHttp!SearchImages,
       OverHttp!InnerFacetsSearch, OverHttp!InnerFacets, OverHttp!InnerCatalogSearch, OverHttp!Scope,
       OverHttp!Combines, OverHttp!SearchByTitle, OverHttp!AskByTitle, OverHttp!CreateContext,
       OverHttp!NoLabels, OverHttp!Retrieved, OverHttp!InTurn, OverHttp!Ask, OverHttp!AskFails,
       OverHttp!SaveAnswer, OverHttp!GetQuestionContext, OverHttp!Gathered, OverHttp!NdbStep,
       OverHttp!Cardinality

\* In its part, MCQuestion behaves as the component: the NucliaDB agents.
LEMMA NucliaDBBehaves ==
  Spec => []~(part = "nucliadb") \/ ([](part = "nucliadb") /\ OverHttp!NdbSpec)
<1>1. Init /\ part = "nucliadb" => OverHttp!NdbInit
  BY ZenonT(60) DEF Init,
       NucliaDB!ByTitle, NucliaDB!NdbInit, OverHttp!ByTitle, OverHttp!NdbInit
<1>2. [Next]_vars => /\ (part = "nucliadb")' <=> part = "nucliadb"
                     /\ part = "nucliadb" => [OverHttp!NdbStep]_(OverHttp!ndbVars)
  BY StepOfPart, NucliaDBSteps, ZenonT(60) DEF ndbVars, OverHttp!ndbVars
<1> QED
  BY <1>1, <1>2, PTL DEF Spec, OverHttp!NdbSpec

\* And so the theorems about the component hold of its part.
LEMMA NucliaDBHolds ==
  Spec => [](part = "nucliadb" =>
           /\ NucliaDB!MergedFilters
           /\ NucliaDB!FallbackIfAllFailed
           /\ NucliaDB!NdbTypeOK)
<1>1. /\ OverHttp!MergedFilters => NucliaDB!MergedFilters
      /\ OverHttp!FallbackIfAllFailed => NucliaDB!FallbackIfAllFailed
      /\ OverHttp!NdbTypeOK => NucliaDB!NdbTypeOK
  BY ZenonT(60) DEF
       NucliaDB!LabelFilter, NucliaDB!AllLabels, NucliaDB!ValidLabels, NucliaDB!ValidLabel, NucliaDB!Added,
       NucliaDB!LabelsDict, NucliaDB!LabelValues, NucliaDB!Several, NucliaDB!OrFilters, NucliaDB!Cardinality,
       OverHttp!LabelFilter, OverHttp!AllLabels, OverHttp!ValidLabels, OverHttp!ValidLabel, OverHttp!Added,
       OverHttp!LabelsDict, OverHttp!LabelValues, OverHttp!Several, OverHttp!OrFilters, OverHttp!Cardinality,
       NucliaDB!ToFieldFilterExpression, NucliaDB!MergedFilters, OverHttp!ToFieldFilterExpression,
       OverHttp!MergedFilters, NucliaDB!FallbackIfAllFailed, OverHttp!FallbackIfAllFailed,
       NucliaDB!IsConfig, NucliaDB!NdbTypeOK, OverHttp!IsConfig, OverHttp!NdbTypeOK
<1> QED
  BY <1>1, NucliaDBBehaves, HttpBounds,
     OverHttp!FiltersMerge, OverHttp!FallbackIsLast, OverHttp!NdbTypesKept, PTL

\* A step of the client of a remote agent is the same step of the component.
LEMMA RemoteSteps == Remote!A2ANext => OverHttp!A2ANext
BY ZenonT(120) DEF
       Remote!Terminal, Remote!UpdateArtifact, Remote!AddTask, Remote!ArtifactUpdate, Remote!Task,
       Remote!InputRequired, Remote!Feedback, Remote!Ends, Remote!Returns, Remote!TimesOut, Remote!A2ANext,
       OverHttp!Terminal, OverHttp!UpdateArtifact, OverHttp!AddTask, OverHttp!ArtifactUpdate, OverHttp!Task,
       OverHttp!InputRequired, OverHttp!Feedback, OverHttp!Ends, OverHttp!Returns, OverHttp!TimesOut,
       OverHttp!A2ANext

\* In its part, MCQuestion behaves as the component: the client of a remote agent.
LEMMA RemoteBehaves ==
  Spec => []~(part = "remote") \/ ([](part = "remote") /\ OverHttp!A2ASpec)
<1>1. Init /\ part = "remote" => OverHttp!A2AInit
  BY ZenonT(60) DEF Init,
       Remote!Nothing, Remote!A2AInit, OverHttp!Nothing, OverHttp!A2AInit
<1>2. [Next]_vars => /\ (part = "remote")' <=> part = "remote"
                     /\ part = "remote" => [OverHttp!A2ANext]_(OverHttp!a2aVars)
  BY StepOfPart, RemoteSteps, ZenonT(60) DEF remoteVars, OverHttp!a2aVars
<1> QED
  BY <1>1, <1>2, PTL DEF Spec, OverHttp!A2ASpec

\* And so the theorems about the component hold of its part.
LEMMA RemoteHolds ==
  Spec => [](part = "remote" =>
           /\ Remote!AnswerIsTheTasks)
<1>1. /\ OverHttp!AnswerIsTheTasks => Remote!AnswerIsTheTasks
  BY ZenonT(60) DEF
       Remote!AnswerIsTheTasks, OverHttp!AnswerIsTheTasks
<1> QED
  BY <1>1, RemoteBehaves, HttpBounds,
     OverHttp!RemoteAnswer, PTL

\* A step of the restricted agent is the same step of the component.
LEMMA RestrictedSteps == Restricted!Next => OverHttp!Restricted!Next
BY ZenonT(120) DEF
       Restricted!NoCode, Restricted!NewOutput, Restricted!Goto, Restricted!GetQuestionContext,
       Restricted!PreloadChildAgents, Restricted!RunMissing, Restricted!Gathered, Restricted!CodeFails,
       Restricted!CodeEnds, Restricted!SaveOutput, Restricted!Functions, Restricted!Authorized,
       Restricted!Callback, Restricted!Answer, Restricted!Transform, Restricted!Rephrase,
       Restricted!Extract, Restricted!RemiValidation, Restricted!Validate, Restricted!ChildFunction,
       Restricted!UserValidation, Restricted!AddStep, Restricted!Reply, Restricted!HandleCall,
       Restricted!Choose, Restricted!Chosen, Restricted!Save, Restricted!CodeStep, Restricted!Next,
       OverHttp!Restricted!NoCode, OverHttp!Restricted!NewOutput, OverHttp!Restricted!Goto,
       OverHttp!Restricted!GetQuestionContext, OverHttp!Restricted!PreloadChildAgents,
       OverHttp!Restricted!RunMissing, OverHttp!Restricted!Gathered, OverHttp!Restricted!CodeFails,
       OverHttp!Restricted!CodeEnds, OverHttp!Restricted!SaveOutput, OverHttp!Restricted!Functions,
       OverHttp!Restricted!Authorized, OverHttp!Restricted!Callback, OverHttp!Restricted!Answer,
       OverHttp!Restricted!Transform, OverHttp!Restricted!Rephrase, OverHttp!Restricted!Extract,
       OverHttp!Restricted!RemiValidation, OverHttp!Restricted!Validate, OverHttp!Restricted!ChildFunction,
       OverHttp!Restricted!UserValidation, OverHttp!Restricted!AddStep, OverHttp!Restricted!Reply,
       OverHttp!Restricted!HandleCall, OverHttp!Restricted!Choose, OverHttp!Restricted!Chosen,
       OverHttp!Restricted!Save, OverHttp!Restricted!CodeStep, OverHttp!Restricted!Next

\* In its part, MCQuestion behaves as the component: the restricted agent.
LEMMA RestrictedBehaves ==
  Spec => []~(part = "restricted") \/ ([](part = "restricted") /\ OverHttp!Restricted!Spec)
<1>1. Init /\ part = "restricted" => OverHttp!Restricted!Init
  BY ZenonT(60) DEF Init,
       Restricted!NoQuestion, Restricted!NoCode, Restricted!NewOutput, Restricted!Init,
       OverHttp!Restricted!NoQuestion, OverHttp!Restricted!NoCode, OverHttp!Restricted!NewOutput,
       OverHttp!Restricted!Init
<1>2. [Next]_vars => /\ (part = "restricted")' <=> part = "restricted"
                     /\ part = "restricted" => [OverHttp!Restricted!Next]_(OverHttp!Restricted!restrictedVars)
  BY StepOfPart, RestrictedSteps, ZenonT(60) DEF restrictedVars, OverHttp!Restricted!restrictedVars
<1> QED
  BY <1>1, <1>2, PTL DEF Spec, OverHttp!Restricted!Spec

\* And so the theorems about the component hold of its part.
LEMMA RestrictedHolds ==
  Spec => [](part = "restricted" =>
           /\ Restricted!RestrictedTypeOK)
<1>1. /\ OverHttp!Restricted!RestrictedTypeOK => Restricted!RestrictedTypeOK
  BY ZenonT(60) DEF
       Restricted!Replies, Restricted!NoQuestion, Restricted!RestrictedTypeOK, OverHttp!Restricted!Replies,
       OverHttp!Restricted!NoQuestion, OverHttp!Restricted!RestrictedTypeOK
<1> QED
  BY <1>1, RestrictedBehaves, HttpBounds,
     OverHttp!RestrictedTypes, PTL

\* A step of the rounds of an evolution is the same step of the component.
LEMMA RoundsSteps == Evolving!Next => OverHttp!Evolving!Next
<1>1. Evolving!Summaries = OverHttp!Evolving!Summaries
  BY SMTT(90) DEF
       Evolving!Length, Evolving!Summaries, Evolving!FoldLeft, Evolving!MapThenFoldSet, Evolving!Reverse,
       Evolving!Max, OverHttp!Evolving!Length, OverHttp!Evolving!Summaries, OverHttp!Evolving!FoldLeft,
       OverHttp!Evolving!MapThenFoldSet, OverHttp!Evolving!Reverse, OverHttp!Evolving!Max
<1>2. \A g, edits : Evolving!PrepareCandidate(g, edits) = OverHttp!Evolving!PrepareCandidate(g, edits)
  BY SMTT(90) DEF
       Evolving!NoTool, Evolving!NoGraph, Evolving!Nodes, Evolving!Targets, Evolving!Bound,
       Evolving!ReachTerminal, Evolving!Unsorted, Evolving!EachReachesTerminal, Evolving!ValidGraph,
       Evolving!CheckTools, Evolving!The, Evolving!Pairs, Evolving!PrepareCandidate, Evolving!Cardinality,
       OverHttp!Evolving!NoTool, OverHttp!Evolving!NoGraph, OverHttp!Evolving!Nodes,
       OverHttp!Evolving!Targets, OverHttp!Evolving!Bound, OverHttp!Evolving!ReachTerminal,
       OverHttp!Evolving!Unsorted, OverHttp!Evolving!EachReachesTerminal, OverHttp!Evolving!ValidGraph,
       OverHttp!Evolving!CheckTools, OverHttp!Evolving!The, OverHttp!Evolving!Pairs,
       OverHttp!Evolving!PrepareCandidate, OverHttp!Evolving!Cardinality
<1>3. Evolving!Edits = OverHttp!Evolving!Edits
  BY SMTT(90) DEF
       Evolving!NoTool, Evolving!Edit, Evolving!OneMore, Evolving!Edits, OverHttp!Evolving!NoTool,
       OverHttp!Evolving!Edit, OverHttp!Evolving!OneMore, OverHttp!Evolving!Edits
<1> QED
  BY <1>1, <1>2, <1>3, ZenonT(120) DEF
       Evolving!files, Evolving!NoGraph, Evolving!Unscored, Evolving!Scores, Evolving!Then,
       Evolving!SaveGraph, Evolving!Retain, Evolving!Claimed, Evolving!Baseline, Evolving!Propose,
       Evolving!SaveCandidate, Evolving!NotWorse, Evolving!Validate, Evolving!Record, Evolving!Accept,
       Evolving!Reject, Evolving!Ends, Evolving!Next, OverHttp!Evolving!files, OverHttp!Evolving!NoGraph,
       OverHttp!Evolving!Unscored, OverHttp!Evolving!Scores, OverHttp!Evolving!Then,
       OverHttp!Evolving!SaveGraph, OverHttp!Evolving!Retain, OverHttp!Evolving!Claimed,
       OverHttp!Evolving!Baseline, OverHttp!Evolving!Propose, OverHttp!Evolving!SaveCandidate,
       OverHttp!Evolving!NotWorse, OverHttp!Evolving!Validate, OverHttp!Evolving!Record,
       OverHttp!Evolving!Accept, OverHttp!Evolving!Reject, OverHttp!Evolving!Ends, OverHttp!Evolving!Next

\* In its part, MCQuestion behaves as the component: the rounds of an evolution.
LEMMA RoundsBehaves ==
  Spec => []~(part = "rounds") \/ ([](part = "rounds") /\ OverHttp!Evolving!Spec)
<1>1. Init /\ part = "rounds" => OverHttp!Evolving!Init
  BY ZenonT(60) DEF Init,
       Evolving!NoTool, Evolving!NoGraph, Evolving!Unscored, Evolving!Nodes, Evolving!Targets,
       Evolving!Bound, Evolving!ReachTerminal, Evolving!Unsorted, Evolving!EachReachesTerminal,
       Evolving!ValidGraph, Evolving!CheckTools, Evolving!Init, Evolving!Cardinality,
       OverHttp!Evolving!NoTool, OverHttp!Evolving!NoGraph, OverHttp!Evolving!Unscored,
       OverHttp!Evolving!Nodes, OverHttp!Evolving!Targets, OverHttp!Evolving!Bound,
       OverHttp!Evolving!ReachTerminal, OverHttp!Evolving!Unsorted, OverHttp!Evolving!EachReachesTerminal,
       OverHttp!Evolving!ValidGraph, OverHttp!Evolving!CheckTools, OverHttp!Evolving!Init,
       OverHttp!Evolving!Cardinality
<1>2. [Next]_vars => /\ (part = "rounds")' <=> part = "rounds"
                     /\ part = "rounds" => [OverHttp!Evolving!Next]_(OverHttp!Evolving!vars)
  BY StepOfPart, RoundsSteps, ZenonT(60) DEF evolutionVars, OverHttp!Evolving!vars, OverHttp!Evolving!files
<1> QED
  BY <1>1, <1>2, PTL DEF Spec, OverHttp!Evolving!Spec

\* And so the theorems about the component hold of its part.
LEMMA RoundsHolds ==
  Spec => [](part = "rounds" =>
           /\ Evolving!RetainedIsRecorded
           /\ Evolving!EvolutionTypeOK)
<1>1. /\ OverHttp!Evolving!RetainedIsRecorded => Evolving!RetainedIsRecorded
      /\ OverHttp!Evolving!EvolutionTypeOK => Evolving!EvolutionTypeOK
  BY ZenonT(60) DEF
       Evolving!NoGraph, Evolving!Unscored, Evolving!RetainedIsRecorded, OverHttp!Evolving!NoGraph,
       OverHttp!Evolving!Unscored, OverHttp!Evolving!RetainedIsRecorded, Evolving!EvolutionTypeOK,
       OverHttp!Evolving!EvolutionTypeOK
<1> QED
  BY <1>1, RoundsBehaves, HttpBounds,
     OverHttp!RetainedOnRecord, OverHttp!EvolutionTypesKept, PTL

\* A step of the pipeline is the same step of the component.
LEMMA PipelineSteps == Pipeline!Next => OverHttp!Retrieving!Next
<1>1. \A c : Pipeline!Validations(c) = OverHttp!Retrieving!Validations(c)
  BY SMTT(90) DEF
       Pipeline!Validated, Pipeline!Validations, OverHttp!Retrieving!Validated,
       OverHttp!Retrieving!Validations
<1>2. \A a : Pipeline!Retrievals(a) = OverHttp!Retrieving!Retrievals(a)
  BY SMTT(90) DEF
       Pipeline!Raw, Pipeline!StaticContext, Pipeline!HttpContext, Pipeline!GoogleContext,
       Pipeline!PerplexityContext, Pipeline!PerplexitySearchContext, Pipeline!SourceContexts,
       Pipeline!RawContext, Pipeline!ShouldValidate, Pipeline!PruneToCitations, Pipeline!Validated,
       Pipeline!Validations, Pipeline!SaveCtxAndReturnMissing, Pipeline!Select, Pipeline!Keep,
       Pipeline!KeepAll, Pipeline!Responses, Pipeline!SaveContextsAndReturnMissing, Pipeline!Retrievals,
       OverHttp!Retrieving!Raw, OverHttp!Retrieving!StaticContext, OverHttp!Retrieving!HttpContext,
       OverHttp!Retrieving!GoogleContext, OverHttp!Retrieving!PerplexityContext,
       OverHttp!Retrieving!PerplexitySearchContext, OverHttp!Retrieving!SourceContexts,
       OverHttp!Retrieving!RawContext, OverHttp!Retrieving!ShouldValidate,
       OverHttp!Retrieving!PruneToCitations, OverHttp!Retrieving!Validated, OverHttp!Retrieving!Validations,
       OverHttp!Retrieving!SaveCtxAndReturnMissing, OverHttp!Retrieving!Select, OverHttp!Retrieving!Keep,
       OverHttp!Retrieving!KeepAll, OverHttp!Retrieving!Responses,
       OverHttp!Retrieving!SaveContextsAndReturnMissing, OverHttp!Retrieving!Retrievals
<1> QED
  BY <1>1, <1>2, ZenonT(120) DEF
       Pipeline!Stages, Pipeline!Agents, Pipeline!Staged, Pipeline!Running, Pipeline!Frame, Pipeline!Top,
       Pipeline!Below, Pipeline!NoAnswer, Pipeline!StageError, Pipeline!Raw, Pipeline!AgentAnswerSummaries,
       Pipeline!Put, Pipeline!Call, Pipeline!SaveContext, Pipeline!Active, Pipeline!AfterRetrieval,
       Pipeline!Rephrase, Pipeline!Retrieve, Pipeline!FlowFails, Pipeline!MakeDecision, Pipeline!Branch,
       Pipeline!ValidateBranch, Pipeline!AskFallback, Pipeline!AskNext, Pipeline!Ends, Pipeline!AddAnswer,
       Pipeline!AgentFails, Pipeline!RephraseQuestion, Pipeline!Historical, Pipeline!Summarize,
       Pipeline!Passthrough, Pipeline!Generate, Pipeline!Restart, Pipeline!Remi, Pipeline!Related,
       Pipeline!ExternalCall, Pipeline!Gathered, Pipeline!Launch, Pipeline!Questions, Pipeline!RunContext,
       Pipeline!ContextGathered, Pipeline!RunGeneration, Pipeline!AddFinalAnswer, Pipeline!RunPostprocess,
       Pipeline!EndLoop, Pipeline!FlowStep, Pipeline!AgentStep, Pipeline!PipelineStep, Pipeline!Next,
       OverHttp!Retrieving!Stages, OverHttp!Retrieving!Agents, OverHttp!Retrieving!Staged,
       OverHttp!Retrieving!Running, OverHttp!Retrieving!Frame, OverHttp!Retrieving!Top,
       OverHttp!Retrieving!Below, OverHttp!Retrieving!NoAnswer, OverHttp!Retrieving!StageError,
       OverHttp!Retrieving!Raw, OverHttp!Retrieving!AgentAnswerSummaries, OverHttp!Retrieving!Put,
       OverHttp!Retrieving!Call, OverHttp!Retrieving!SaveContext, OverHttp!Retrieving!Active,
       OverHttp!Retrieving!AfterRetrieval, OverHttp!Retrieving!Rephrase, OverHttp!Retrieving!Retrieve,
       OverHttp!Retrieving!FlowFails, OverHttp!Retrieving!MakeDecision, OverHttp!Retrieving!Branch,
       OverHttp!Retrieving!ValidateBranch, OverHttp!Retrieving!AskFallback, OverHttp!Retrieving!AskNext,
       OverHttp!Retrieving!Ends, OverHttp!Retrieving!AddAnswer, OverHttp!Retrieving!AgentFails,
       OverHttp!Retrieving!RephraseQuestion, OverHttp!Retrieving!Historical, OverHttp!Retrieving!Summarize,
       OverHttp!Retrieving!Passthrough, OverHttp!Retrieving!Generate, OverHttp!Retrieving!Restart,
       OverHttp!Retrieving!Remi, OverHttp!Retrieving!Related, OverHttp!Retrieving!ExternalCall,
       OverHttp!Retrieving!Gathered, OverHttp!Retrieving!Launch, OverHttp!Retrieving!Questions,
       OverHttp!Retrieving!RunContext, OverHttp!Retrieving!ContextGathered,
       OverHttp!Retrieving!RunGeneration, OverHttp!Retrieving!AddFinalAnswer,
       OverHttp!Retrieving!RunPostprocess, OverHttp!Retrieving!EndLoop, OverHttp!Retrieving!FlowStep,
       OverHttp!Retrieving!AgentStep, OverHttp!Retrieving!PipelineStep, OverHttp!Retrieving!Next

\* In its part, MCQuestion behaves as the component: the pipeline.
LEMMA PipelineBehaves ==
  Spec => []~(part = "pipeline") \/ ([](part = "pipeline") /\ OverHttp!Retrieving!Spec)
<1>1. Init /\ part = "pipeline" => OverHttp!Retrieving!Init
  BY ZenonT(60) DEF Init,
       Pipeline!Staged, Pipeline!NoAnswer, Pipeline!Init, OverHttp!Retrieving!Staged,
       OverHttp!Retrieving!NoAnswer, OverHttp!Retrieving!Init
<1>2. [Next]_vars => /\ (part = "pipeline")' <=> part = "pipeline"
                     /\ part = "pipeline" => [OverHttp!Retrieving!Next]_(OverHttp!Retrieving!retrievalVars)
  BY StepOfPart, PipelineSteps, ZenonT(60) DEF retrievalVars, OverHttp!Retrieving!retrievalVars
<1> QED
  BY <1>1, <1>2, PTL DEF Spec, OverHttp!Retrieving!Spec

\* And so the theorems about the component hold of its part.
LEMMA PipelineHolds ==
  Spec => [](part = "pipeline" =>
           /\ Pipeline!NextSeesOwnFlow
           /\ Pipeline!SavedContextsHaveContent
           /\ Pipeline!AnswerSeesEveryContext
           /\ Pipeline!ErrorStands
           /\ Pipeline!RetrievalTypeOK)
<1>1. /\ OverHttp!Retrieving!NextSeesOwnFlow => Pipeline!NextSeesOwnFlow
      /\ OverHttp!Retrieving!SavedContextsHaveContent => Pipeline!SavedContextsHaveContent
      /\ OverHttp!Retrieving!AnswerSeesEveryContext => Pipeline!AnswerSeesEveryContext
      /\ OverHttp!Retrieving!ErrorStands => Pipeline!ErrorStands
      /\ OverHttp!Retrieving!RetrievalTypeOK => Pipeline!RetrievalTypeOK
  BY ZenonT(60) DEF
       Pipeline!NextSeesOwnFlow, OverHttp!Retrieving!NextSeesOwnFlow, Pipeline!SavedContextsHaveContent,
       OverHttp!Retrieving!SavedContextsHaveContent, Pipeline!AnswerSeesEveryContext,
       OverHttp!Retrieving!AnswerSeesEveryContext, Pipeline!StageError, Pipeline!ErrorStands,
       OverHttp!Retrieving!StageError, OverHttp!Retrieving!ErrorStands, Pipeline!Stages, Pipeline!Staged,
       Pipeline!Ats, Pipeline!NoAnswer, Pipeline!RetrievalTypeOK, OverHttp!Retrieving!Stages,
       OverHttp!Retrieving!Staged, OverHttp!Retrieving!Ats, OverHttp!Retrieving!NoAnswer,
       OverHttp!Retrieving!RetrievalTypeOK
<1> QED
  BY <1>1, PipelineBehaves, HttpBounds,
     OverHttp!NextSeesOwn, OverHttp!SavedHaveContent, OverHttp!AnswerSeesAll, OverHttp!ErrorStays,
     OverHttp!RetrievalTypes, PTL

\* SequencesExt is that of the component.
LEMMA StoreSequences ==
  /\ \A set : Store!SetToSeq(set) = OverHttp!Storing!SetToSeq(set)
  /\ \A seqs : Store!FlattenSeq(seqs) = OverHttp!Storing!FlattenSeq(seqs)
  /\ \A set : Store!Cardinality(set) = OverHttp!Storing!Cardinality(set)
<1>1. \A set : Store!Cardinality(set) = OverHttp!Storing!Cardinality(set)
  BY ZenonT(60) DEF Store!Cardinality, OverHttp!Storing!Cardinality
<1>2. \A set : Store!SetToSeq(set) = OverHttp!Storing!SetToSeq(set)
  BY ZenonT(60) DEF Store!SetToSeq, OverHttp!Storing!SetToSeq, Store!IsInjective, OverHttp!Storing!IsInjective,
       Store!Cardinality, OverHttp!Storing!Cardinality
<1>3. \A seqs : Store!FlattenSeq(seqs) = OverHttp!Storing!FlattenSeq(seqs)
  BY ZenonT(60) DEF Store!FlattenSeq, OverHttp!Storing!FlattenSeq
<1> QED
  BY <1>1, <1>2, <1>3

\* What an import writes is what the component's writes.
LEMMA StoreImports == \A a : Store!ImportAll(a) = OverHttp!Storing!ImportAll(a)
<1>1. \A set : Store!ByName(set) = OverHttp!Storing!ByName(set)
  BY ZenonT(60) DEF Store!ByName, OverHttp!Storing!ByName
<1>2. \A set : Store!StepsInOrder(set) = OverHttp!Storing!StepsInOrder(set)
  BY StoreSequences, SMT DEF Store!StepsInOrder, OverHttp!Storing!StepsInOrder, Store!StepKinds,
       OverHttp!Storing!StepKinds
<1>3. \A a, wf : Store!ImportWorkflow(a, wf) = OverHttp!Storing!ImportWorkflow(a, wf)
  <2> TAKE a, wf
  <2> DEFINE n == Store!Cardinality(wf.steps)
             q == Store!StepsInOrder(wf.steps)
             f == [i \in 1..n |-> LET r == q[i] IN
                     Store!Ensured(Store!StepSt("insert", a, wf.w, r.k, 0, r.val))]
             g == [i \in 1..n |-> LET r == q[i] IN
                     OverHttp!Storing!Ensured(OverHttp!Storing!StepSt("insert", a, wf.w, r.k, 0, r.val))]
             e == IF wf.w = "default" THEN Store!Ensured(Store!WorkflowSt("set_workflow", a, "default", wf.val))
                  ELSE <<Store!WorkflowSt("add_workflow", a, wf.w, wf.val)>>
  <2>1. f = g
    BY ZenonT(60) DEF
       Store!Ensured, OverHttp!Storing!Ensured, Store!StepSt, OverHttp!Storing!StepSt, Store!St,
       OverHttp!Storing!St
  <2>2. OverHttp!Storing!StepsInOrder(wf.steps) = q /\ OverHttp!Storing!Cardinality(wf.steps) = n
    BY <1>2, StoreSequences
  <2>3. Store!FlattenSeq(f) = OverHttp!Storing!FlattenSeq(g)
    BY <2>1, StoreSequences, ZenonT(60)
  <2>4. Store!ImportWorkflow(a, wf) = e \o Store!FlattenSeq(f)
    BY ZenonT(60) DEF Store!ImportWorkflow
  <2>5. OverHttp!Storing!ImportWorkflow(a, wf) = e \o OverHttp!Storing!FlattenSeq(g)
    <3>1. OverHttp!Storing!FlattenSeq([i \in 1..OverHttp!Storing!Cardinality(wf.steps) |->
            LET r == OverHttp!Storing!StepsInOrder(wf.steps)[i] IN
            OverHttp!Storing!Ensured(OverHttp!Storing!StepSt("insert", a, wf.w, r.k, 0, r.val))]) = OverHttp!Storing!FlattenSeq(g)
      BY <2>2, SMT
    <3> QED
      BY <3>1, ZenonT(60) DEF OverHttp!Storing!ImportWorkflow,
       Store!Ensured, OverHttp!Storing!Ensured, Store!WorkflowSt, OverHttp!Storing!WorkflowSt, Store!St,
       OverHttp!Storing!St
  <2> HIDE DEF f, g
  <2> QED
    BY <2>3, <2>4, <2>5, ZenonT(60)
<1> TAKE a
<1>4. PICK wfs : wfs = Store!SetToSeq(file.workflows)
  BY ZenonT(60)
<1>5. PICK ds : ds = Store!SetToSeq(Store!ByName(file.drivers))
  BY ZenonT(60)
<1>6. PICK ps : ps = Store!SetToSeq(file.prompts)
  BY ZenonT(60)
<1>7. /\ OverHttp!Storing!SetToSeq(file.workflows) = wfs /\ OverHttp!Storing!SetToSeq(file.prompts) = ps
      /\ OverHttp!Storing!SetToSeq(OverHttp!Storing!ByName(file.drivers)) = ds
  BY <1>1, <1>4, <1>5, <1>6, StoreSequences
<1>8. [i \in DOMAIN wfs |-> Store!ImportWorkflow(a, wfs[i])] = [i \in DOMAIN wfs |-> OverHttp!Storing!ImportWorkflow(a, wfs[i])]
  BY <1>3
<1>9. Store!FlattenSeq([i \in DOMAIN wfs |-> Store!ImportWorkflow(a, wfs[i])])
        = OverHttp!Storing!FlattenSeq([i \in DOMAIN wfs |-> OverHttp!Storing!ImportWorkflow(a, wfs[i])])
  BY <1>8, StoreSequences, ZenonT(60)
<1> QED
  BY <1>4, <1>5, <1>6, <1>7, <1>9, ZenonT(60) DEF Store!ImportAll, OverHttp!Storing!ImportAll,
       Store!AgentSt, OverHttp!Storing!AgentSt, Store!St, OverHttp!Storing!St

\* And so are the statements of an export and of the cron job.
LEMMA StoreLists ==
  \A t : /\ Store!WorkflowsList(t) => OverHttp!Storing!WorkflowsList(t)
         /\ Store!ListExpired(t) => OverHttp!Storing!ListExpired(t)
<1> TAKE t
<1>1. ASSUME Store!WorkflowsList(t)
      PROVE  OverHttp!Storing!WorkflowsList(t)
  <2>1. PICK wfs : wfs = Store!SetToSeq({w \in Store!AllWorkflows : workflow[Store!S(t).a][w].state = "active"})
    BY ZenonT(60)
  <2>2. OverHttp!Storing!SetToSeq({w \in OverHttp!Storing!AllWorkflows : workflow[OverHttp!Storing!S(t).a][w].state = "active"}) = wfs
    BY <2>1, StoreSequences, ZenonT(60) DEF Store!AllWorkflows, OverHttp!Storing!AllWorkflows, Store!S,
         OverHttp!Storing!S
  <2>3. PICK p : p = Store!FlattenSeq([i \in DOMAIN wfs |->
                       Store!Load(Store!S(t).a, wfs[i]) \o <<Store!St("keep", Store!S(t).a, wfs[i])>>])
    BY ZenonT(60)
  <2>4. OverHttp!Storing!FlattenSeq([i \in DOMAIN wfs |->
          OverHttp!Storing!Load(OverHttp!Storing!S(t).a, wfs[i]) \o <<OverHttp!Storing!St("keep", OverHttp!Storing!S(t).a, wfs[i])>>]) = p
    BY <2>3, StoreSequences, ZenonT(60) DEF
       Store!Load, OverHttp!Storing!Load, Store!St, OverHttp!Storing!St, Store!S, OverHttp!Storing!S
  <2> QED
    BY <1>1, <2>1, <2>2, <2>3, <2>4, ZenonT(60) DEF
       Store!WorkflowsList, OverHttp!Storing!WorkflowsList, Store!Run, OverHttp!Storing!Run, Store!Keep,
       OverHttp!Storing!Keep, Store!db, OverHttp!Storing!db
<1>2. ASSUME Store!ListExpired(t)
      PROVE  OverHttp!Storing!ListExpired(t)
  <2>1. PICK gone : gone = Store!SetToSeq({aw \in {"a"} \X Store!AllWorkflows : workflow[aw[1]][aw[2]].state = "expired"})
    BY ZenonT(60)
  <2>2. OverHttp!Storing!SetToSeq({aw \in {"a"} \X OverHttp!Storing!AllWorkflows : workflow[aw[1]][aw[2]].state = "expired"}) = gone
    BY <2>1, StoreSequences, ZenonT(60) DEF Store!AllWorkflows, OverHttp!Storing!AllWorkflows
  <2> QED
    BY <1>2, <2>1, <2>2, ZenonT(60) DEF
       Store!ListExpired, OverHttp!Storing!ListExpired, Store!Run, OverHttp!Storing!Run, Store!Keep,
       OverHttp!Storing!Keep, Store!db, OverHttp!Storing!db, Store!St, OverHttp!Storing!St
<1> QED
  BY <1>1, <1>2

\* A statement of the store of one request at a time is the same statement of the component.
LEMMA StoreStatements == \A t : Store!Statement(t) => OverHttp!Storing!Statement(t)
<1> TAKE t
<1>1. Store!EnsureWorkflowActive(t) \/ Store!InsertStep(t) \/ Store!UpdateStep(t) \/ Store!DeleteStep(t)
      \/ Store!SelectSteps(t) \/ Store!AddWorkflow(t) \/ Store!UpdateWorkflow(t) \/ Store!SoftDelete(t)
      \/ Store!PurgeDeletedWorkflow(t)
        => OverHttp!Storing!Statement(t)
  BY ZenonT(120) DEF OverHttp!Storing!Statement,
       Store!db, Store!Nothing, Store!NoWorkflow, Store!StepsOf, Store!Run, Store!Done, Store!Abort,
       Store!S, Store!Keep, Store!EnsureWorkflowActive, Store!InsertStep, Store!Matches, Store!UpdateStep,
       Store!DeleteStep, Store!SelectSteps, Store!AddWorkflow, Store!UpdateWorkflow, Store!SoftDelete,
       Store!PurgeDeletedWorkflow, OverHttp!Storing!db, OverHttp!Storing!Nothing,
       OverHttp!Storing!NoWorkflow, OverHttp!Storing!StepsOf, OverHttp!Storing!Run, OverHttp!Storing!Done,
       OverHttp!Storing!Abort, OverHttp!Storing!S, OverHttp!Storing!Keep,
       OverHttp!Storing!EnsureWorkflowActive, OverHttp!Storing!InsertStep, OverHttp!Storing!Matches,
       OverHttp!Storing!UpdateStep, OverHttp!Storing!DeleteStep, OverHttp!Storing!SelectSteps,
       OverHttp!Storing!AddWorkflow, OverHttp!Storing!UpdateWorkflow, OverHttp!Storing!SoftDelete,
       OverHttp!Storing!PurgeDeletedWorkflow
<1>2. Store!AddAgent(t) \/ Store!DeleteAgent(t) \/ Store!SetRules(t) \/ Store!GetRules(t) \/
      Store!InsertDriver(t) \/ Store!GetDriver(t) \/ Store!UpdateDriver(t) \/ Store!DeleteDriver(t) \/
      Store!GetDrivers(t)
        => OverHttp!Storing!Statement(t)
  BY ZenonT(120) DEF OverHttp!Storing!Statement,
       Store!db, Store!AllWorkflows, Store!Nothing, Store!NoWorkflow, Store!DriversOf, Store!Run,
       Store!Done, Store!Abort, Store!S, Store!Keep, Store!AddAgent, Store!DeleteAgent, Store!SetRules,
       Store!InsertDriver, Store!OneDriver, Store!GetDriver, Store!DeepUpdate, Store!UpdateDriver,
       Store!DeleteDriver, Store!GetDrivers, Store!GetRules, OverHttp!Storing!db,
       OverHttp!Storing!AllWorkflows, OverHttp!Storing!Nothing, OverHttp!Storing!NoWorkflow,
       OverHttp!Storing!DriversOf, OverHttp!Storing!Run, OverHttp!Storing!Done, OverHttp!Storing!Abort,
       OverHttp!Storing!S, OverHttp!Storing!Keep, OverHttp!Storing!AddAgent, OverHttp!Storing!DeleteAgent,
       OverHttp!Storing!SetRules, OverHttp!Storing!InsertDriver, OverHttp!Storing!OneDriver,
       OverHttp!Storing!GetDriver, OverHttp!Storing!DeepUpdate, OverHttp!Storing!UpdateDriver,
       OverHttp!Storing!DeleteDriver, OverHttp!Storing!GetDrivers, OverHttp!Storing!GetRules
<1>3. Store!InsertPrompt(t) \/ Store!SetPrompt(t) \/ Store!DeletePrompt(t) \/ Store!GetPrompt(t) \/
      Store!GetPrompts(t) \/ Store!UpsertCredentials(t) \/ Store!GetCredentials(t)
        => OverHttp!Storing!Statement(t)
  BY ZenonT(120) DEF OverHttp!Storing!Statement,
       Store!db, Store!Nothing, Store!Run, Store!Done, Store!Abort, Store!S, Store!Keep, Store!InsertPrompt,
       Store!OnePrompt, Store!SetPrompt, Store!DeletePrompt, Store!GetPrompt, Store!SelectedPrompts,
       Store!GetPrompts, Store!UpsertCredentials, Store!GetCredentials, OverHttp!Storing!db,
       OverHttp!Storing!Nothing, OverHttp!Storing!Run, OverHttp!Storing!Done, OverHttp!Storing!Abort,
       OverHttp!Storing!S, OverHttp!Storing!Keep, OverHttp!Storing!InsertPrompt, OverHttp!Storing!OnePrompt,
       OverHttp!Storing!SetPrompt, OverHttp!Storing!DeletePrompt, OverHttp!Storing!GetPrompt,
       OverHttp!Storing!SelectedPrompts, OverHttp!Storing!GetPrompts, OverHttp!Storing!UpsertCredentials,
       OverHttp!Storing!GetCredentials
<1>4. Store!SelectConfig(t) \/ Store!SelectWorkflow(t) \/ Store!CheckTarget(t) \/ Store!Imported(t) \/
      Store!KeepLoaded(t) \/ Store!Exported(t)
        => OverHttp!Storing!Statement(t)
  BY ZenonT(120) DEF OverHttp!Storing!Statement,
       Store!db, Store!Nothing, Store!NoWorkflow, Store!NoFile, Store!NoQuery, Store!NoGot, Store!StepsOf,
       Store!DriversOf, Store!FirstQuery, Store!Run, Store!Done, Store!Abort, Store!S, Store!Keep,
       Store!SelectConfig, Store!SelectWorkflow, Store!St, Store!AgentSt, Store!WorkflowSt, Store!NewAgent,
       Store!IsEmpty, Store!CheckTarget, Store!Imported, Store!KeepLoaded, Store!Exported,
       OverHttp!Storing!db, OverHttp!Storing!Nothing, OverHttp!Storing!NoWorkflow, OverHttp!Storing!NoFile,
       OverHttp!Storing!NoQuery, OverHttp!Storing!NoGot, OverHttp!Storing!StepsOf,
       OverHttp!Storing!DriversOf, OverHttp!Storing!FirstQuery, OverHttp!Storing!Run, OverHttp!Storing!Done,
       OverHttp!Storing!Abort, OverHttp!Storing!S, OverHttp!Storing!Keep, OverHttp!Storing!SelectConfig,
       OverHttp!Storing!SelectWorkflow, OverHttp!Storing!St, OverHttp!Storing!AgentSt,
       OverHttp!Storing!WorkflowSt, OverHttp!Storing!NewAgent, OverHttp!Storing!IsEmpty,
       OverHttp!Storing!CheckTarget, OverHttp!Storing!Imported, OverHttp!Storing!KeepLoaded,
       OverHttp!Storing!Exported
<1>5. Store!ReadFile(t) => OverHttp!Storing!ReadFile(t)
  BY StoreImports, SMT DEF
       Store!db, Store!NoFile, Store!Run, Store!Abort, Store!S, Store!Keep, Store!ReadFile,
       OverHttp!Storing!db, OverHttp!Storing!NoFile, OverHttp!Storing!Run, OverHttp!Storing!Abort,
       OverHttp!Storing!S, OverHttp!Storing!Keep, OverHttp!Storing!ReadFile
<1>6. Store!ReadFile(t) \/ Store!WorkflowsList(t) \/ Store!ListExpired(t) => OverHttp!Storing!Statement(t)
  BY <1>5, StoreLists DEF OverHttp!Storing!Statement
<1> QED
  BY <1>1, <1>2, <1>3, <1>4, <1>6, ZenonT(60) DEF Store!Statement

\* And so is a request.
LEMMA StoreRequests == \A t : Store!Request(t) => OverHttp!Storing!Request(t)
<1>1. \A x, w, k : Store!StepCalls(x, w, k) = OverHttp!Storing!StepCalls(x, w, k)
  BY SMT DEF
       Store!St, Store!StepSt, Store!Ensured, Store!V, Store!StepCalls, OverHttp!Storing!St,
       OverHttp!Storing!StepSt, OverHttp!Storing!Ensured, OverHttp!Storing!V, OverHttp!Storing!StepCalls
<1>2. \A t, k, wfs : Store!StepRequest(t, k, wfs) => OverHttp!Storing!StepRequest(t, k, wfs)
  BY <1>1, ZenonT(60) DEF
       Store!db, Store!Nothing, Store!NoWorkflow, Store!NoFile, Store!NoQuery, Store!NoGot, Store!Start,
       Store!StepRequest, OverHttp!Storing!db, OverHttp!Storing!Nothing, OverHttp!Storing!NoWorkflow,
       OverHttp!Storing!NoFile, OverHttp!Storing!NoQuery, OverHttp!Storing!NoGot, OverHttp!Storing!Start,
       OverHttp!Storing!StepRequest
<1> QED
  BY <1>2, ZenonT(120) DEF
       Store!db, Store!AllWorkflows, Store!Nothing, Store!NoWorkflow, Store!NoFile, Store!NoQuery,
       Store!NoGot, Store!St, Store!AgentSt, Store!Ensured, Store!Load, Store!WorkflowSt, Store!NewAgent,
       Store!DeleteWorkflow, Store!Start, Store!V, Store!WorkflowPreprocess, Store!WorkflowGeneration,
       Store!WorkflowPostprocess, Store!WorkflowContext, Store!AgentPreprocess, Store!AgentGeneration,
       Store!AgentPostprocess, Store!AgentContext, Store!WorkflowRequest, Store!SetWorkflowRules,
       Store!AgentRules, Store!DriverRequest, Store!PromptRequest, Store!CredentialsRequest,
       Store!LoadRequest, Store!ExportRequest, Store!ImportRequest, Store!AddAgentRequest,
       Store!DeleteAgentRequest, Store!CleanupDeletedWorkflows, Store!Request, OverHttp!Storing!db,
       OverHttp!Storing!AllWorkflows, OverHttp!Storing!Nothing, OverHttp!Storing!NoWorkflow,
       OverHttp!Storing!NoFile, OverHttp!Storing!NoQuery, OverHttp!Storing!NoGot, OverHttp!Storing!St,
       OverHttp!Storing!AgentSt, OverHttp!Storing!Ensured, OverHttp!Storing!Load,
       OverHttp!Storing!WorkflowSt, OverHttp!Storing!NewAgent, OverHttp!Storing!DeleteWorkflow,
       OverHttp!Storing!Start, OverHttp!Storing!V, OverHttp!Storing!WorkflowPreprocess,
       OverHttp!Storing!WorkflowGeneration, OverHttp!Storing!WorkflowPostprocess,
       OverHttp!Storing!WorkflowContext, OverHttp!Storing!AgentPreprocess, OverHttp!Storing!AgentGeneration,
       OverHttp!Storing!AgentPostprocess, OverHttp!Storing!AgentContext, OverHttp!Storing!WorkflowRequest,
       OverHttp!Storing!SetWorkflowRules, OverHttp!Storing!AgentRules, OverHttp!Storing!DriverRequest,
       OverHttp!Storing!PromptRequest, OverHttp!Storing!CredentialsRequest, OverHttp!Storing!LoadRequest,
       OverHttp!Storing!ExportRequest, OverHttp!Storing!ImportRequest, OverHttp!Storing!AddAgentRequest,
       OverHttp!Storing!DeleteAgentRequest, OverHttp!Storing!CleanupDeletedWorkflows,
       OverHttp!Storing!Request

\* A step of the store of one request at a time is the same step of the component.
LEMMA StoreSteps == Store!Next => OverHttp!Storing!Next
<1>1. \A x, w : Store!Expire(x, w) => OverHttp!Storing!Expire(x, w)
  BY ZenonT(60) DEF Store!Expire, OverHttp!Storing!Expire
<1> QED
  BY <1>1, StoreStatements, StoreRequests, ZenonT(60) DEF Store!Next, OverHttp!Storing!Next, Store!AllWorkflows,
       OverHttp!Storing!AllWorkflows

\* In its part, MCQuestion behaves as the component: the store of one request at a time.
LEMMA StoreBehaves ==
  Spec => []~(part = "store") \/ ([](part = "store") /\ OverHttp!Storing!Spec)
<1>1. Init /\ part = "store" => OverHttp!Storing!Init
  BY ZenonT(60) DEF Init, InStore,
       Store!AllWorkflows, Store!Nothing, Store!NoWorkflow, Store!NoFile, Store!NoQuery, Store!NoGot,
       Store!Init, OverHttp!Storing!AllWorkflows, OverHttp!Storing!Nothing, OverHttp!Storing!NoWorkflow,
       OverHttp!Storing!NoFile, OverHttp!Storing!NoQuery, OverHttp!Storing!NoGot, OverHttp!Storing!Init
<1>2. [Next]_vars => /\ (part = "store")' <=> part = "store"
                     /\ part = "store" => [OverHttp!Storing!Next]_(OverHttp!Storing!storeVars)
  BY StepOfPart, StoreSteps, ZenonT(60) DEF storeVars, OverHttp!Storing!storeVars, Store!db, OverHttp!Storing!db
<1> QED
  BY <1>1, <1>2, PTL DEF Spec, OverHttp!Storing!Spec

\* And so the theorems about the component hold of its part.
LEMMA StoreHolds ==
  Spec => [](part = "store" =>
           /\ Store!AgentStoreTypeOK)
<1>1. /\ OverHttp!Storing!AgentStoreTypeOK => Store!AgentStoreTypeOK
  BY ZenonT(60) DEF
       Store!AllWorkflows, Store!AgentStoreTypeOK, OverHttp!Storing!AllWorkflows,
       OverHttp!Storing!AgentStoreTypeOK
<1> QED
  BY <1>1, StoreBehaves, HttpBounds,
     OverHttp!StoreTypes, PTL

\* What the restricted agent has resolved stays resolved; it is at rest elsewhere.
LEMMA RestrictedSticks == Spec => Restricted!ResolvedSticks
<1>1. [\A q \in {"q1"} : question[q].at = "gather" /\ output.resolved => output'.resolved]_(OverHttp!Restricted!restrictedVars)
        => [\A q \in {"q1"} : question[q].at = "gather" /\ output.resolved => output'.resolved]_(Restricted!restrictedVars)
  BY ZenonT(60) DEF Restricted!restrictedVars, OverHttp!Restricted!restrictedVars
<1>2. ~(part = "restricted") /\ [Next]_vars =>
        [\A q \in {"q1"} : question[q].at = "gather" /\ output.resolved => output'.resolved]_(Restricted!restrictedVars)
  BY StepOfPart, ZenonT(60) DEF restrictedVars, Restricted!restrictedVars
<1>3. OverHttp!Restricted!Spec => OverHttp!Restricted!ResolvedSticks
  BY HttpBounds, OverHttp!ResolutionSticks
<1> QED
  BY <1>1, <1>2, <1>3, RestrictedBehaves, PTL DEF Spec, Restricted!ResolvedSticks,
       OverHttp!Restricted!ResolvedSticks

\* In the rounds of an evolution, the score that retained.json gives never gets worse.
LEMMA RoundsNeverWorse ==
  Spec => []~(part = "rounds") \/ Evolving!NeverWorse
<1>1. [current.score # OverHttp!Evolving!Unscored => current'.score >= current.score /\ current'.score # OverHttp!Evolving!Unscored]_current
        => [current.score # Evolving!Unscored => current'.score >= current.score /\ current'.score # Evolving!Unscored]_current
  BY ZenonT(60) DEF OverHttp!Evolving!Unscored, Evolving!Unscored
<1> QED
  BY <1>1, RoundsBehaves, HttpBounds, OverHttp!ScoreNeverWorse, PTL DEF Evolving!NeverWorse,
       OverHttp!Evolving!NeverWorse

\* In the store of one request at a time, workflows leave only as they should.
LEMMA StoreKeepsWorkflows ==
  Spec => []~(part = "store") \/ (Store!PurgeOnlyDeleted /\ Store!DefaultStays)
<1>1. [\A t \in {"t1", "t2"} : OverHttp!Storing!Run(t, "purge") /\ todo'[t] = Tail(todo[t]) =>
         \A a \in {"a"}, w \in OverHttp!Storing!AllWorkflows :
           workflow[a][w].state = "active" => workflow'[a][w] = workflow[a][w]]_(OverHttp!Storing!storeVars)
        => [\A t \in {"t1", "t2"} : Store!Run(t, "purge") /\ todo'[t] = Tail(todo[t]) =>
            \A a \in {"a"}, w \in Store!AllWorkflows :
              workflow[a][w].state = "active" => workflow'[a][w] = workflow[a][w]]_(Store!storeVars)
  BY ZenonT(60) DEF OverHttp!Storing!Run, OverHttp!Storing!AllWorkflows, Store!Run, Store!AllWorkflows,
       OverHttp!Storing!storeVars,
       Store!storeVars
<1>2. [\A a \in {"a"} : workflow[a]["default"].state = "active" /\ config'[a] # OverHttp!Storing!Nothing
         => workflow'[a]["default"].state = "active"]_(OverHttp!Storing!storeVars)
        => [\A a \in {"a"} : workflow[a]["default"].state = "active" /\ config'[a] # Store!Nothing
            => workflow'[a]["default"].state = "active"]_(Store!storeVars)
  BY ZenonT(60) DEF OverHttp!Storing!Nothing, Store!Nothing, OverHttp!Storing!storeVars, Store!storeVars
<1> QED
  BY <1>1, <1>2, StoreBehaves, HttpBounds, OverHttp!DefaultWorkflowStays, OverHttp!OnlyDeletedPurged, PTL
     DEF Store!PurgeOnlyDeleted, Store!DefaultStays, OverHttp!Storing!PurgeOnlyDeleted, OverHttp!Storing!DefaultStays

\* A question is asked in the session its client named, and with the newest of its
\* conversation (api/session.py, memory/memory.py, server/cache.py).
THEOREM InItsSession == Spec => []AskedInItsSession
BY SessionHolds, HistoryHolds, PTL DEF AskedInItsSession

\* What ask_agent and the questions about a title retrieve is within all the
\* filters, and the fallback answers only when no source does (hyperforge_nucliadb).
THEOREM NucliaDBFilters == Spec => []NucliaDBAsked
BY NucliaDBHolds, PTL DEF NucliaDBAsked

-----------------------------------------------------------------------------
(* The parts of a planner.                                                 *)

ForPlanners == INSTANCE Question_proofs WITH
  Uuids <- {"u1", "u2"}, Slugs <- {"s1", "s2"}, UuidSlugs <- {"s2"}, Callers <- {"c1", "c2"},
  NoResource <- "none", MaxOperations <- 4,
  Questions <- 1..4, Ephemeral <- FALSE, Sequential <- TRUE, PageSize <- 9, Limit <- 3, MaxEvictions <- 2,
  Sources <- {"s1", "s2"}, Resources <- Some, HasFallback <- FALSE, NoLabelset <- "none",
  Operations <- {"question", "advanced", "ask_agent", "ask_by_title", "search_images_by_title", "search_images",
                 "all_images_by_title", "facets_search", "facets_count", "catalog_search"},
  asked <- filters, contexts <- found,
  Artifacts <- {"a", "b", "step"}, MaxChunks <- 3, MaxQuestions <- 1,
  AgentQuestions <- {"q1"}, Codes <- 2, AgentRetries <- 2, MaxCallbacks <- 4,
  NodeIds <- {"Start", "A", "B"}, Procedures <- {"t", "u"}, AvailableTools <- {"t"},
  InitialGraphs <- {Straight(TRUE), Straight(FALSE), Looping},
  Rounds <- 1, MaxScore <- 1, MaxEdits <- 2, MemoryLimit <- 0, MaxChars <- 1, Sizes <- {1},
  Preprocess <- {"i"}, Context <- {"c4"}, Generation <- {"g", "h"}, Postprocess <- {"r", "e"},
  Fallback <- To("c4", "c3"), NextAgent <- To("none", "no"),
  ThenAgents <- Branch(<<"c2">>), ElseAgents <- Branch(<<>>),
  Pruning <- {"c2"}, Retries <- 1, MaxFound <- 1, MaxSplit <- 2, NoAgent <- "no",
  context_questions <- asked, memory_contexts <- contexts,
  Agents <- {"a"}, Workflows <- {"w"}, Kinds <- {}, DriverIds <- {}, DriverNames <- {"n"},
  Fields <- {"url"}, Tasks <- {"t1", "t2"}, OneRequest <- FALSE, MaxRequests <- 4, MaxRows <- 0,
  Calls <- {"a", "b"}, Parameterless <- {"a"}, Decisions <- {"d"}, MaxIterations <- 2, MaxChosen <- 2,
  MaxRetries <- 2, NoSession <- "none",
  Mode <- "plan_execute", Parallel <- FALSE,
  Transport <- "http", Pages <- 2, Prompts <- TRUE, Interactive <- FALSE, WorkChain <- FALSE,
  MaxTurns <- 1, MaxAtOnce <- 2

\* And so are those of the parts of a planner: the conditional agent and its
\* branch form a tree, and the graphs to begin with are finite.
LEMMA PlannersBounds ==
  /\ ForPlanners!SmartBounds /\ ForPlanners!MCPBounds /\ ForPlanners!EvolutionBounds /\ ForPlanners!FinitelyMade
  /\ ForPlanners!PipelineBounds /\ ForPlanners!StoreBounds
<1>1. ForPlanners!SmartBounds /\ ForPlanners!MCPBounds /\ ForPlanners!EvolutionBounds
  BY DEF ForPlanners!SmartBounds, ForPlanners!MCPBounds, ForPlanners!EvolutionBounds, Flows, Planners
<1>2. ForPlanners!FinitelyMade
  <2> DEFINE E == {<<"Start", "A">>, <<"A", "B">>}
             L == E \cup {<<"A", "Start">>}
             N == {"Start", "A", "B"}
  <2>1. ForPlanners!IsFiniteSet(N)
    <3>1. IsFiniteSet(N)
      <4>1. N = ({"Start"} \cup {"A"}) \cup {"B"}
        OBVIOUS
      <4>2. IsFiniteSet({"Start"}) /\ IsFiniteSet({"A"}) /\ IsFiniteSet({"B"})
        BY FS_Singleton, ZenonT(60)
      <4>3. IsFiniteSet({"Start"} \cup {"A"})
        BY <4>2, FS_Union, ZenonT(60)
      <4>4. IsFiniteSet(({"Start"} \cup {"A"}) \cup {"B"})
        BY <4>2, <4>3, FS_Union, ZenonT(60)
      <4> QED
        BY <4>1, <4>4
    <3> QED
      BY <3>1, ZenonT(60) DEF ForPlanners!IsFiniteSet, IsFiniteSet
  <2>2. ASSUME NEW g, NEW edges, edges \subseteq L, NEW b, g = [nodes |-> Nodes(N), edges |-> edges, acyclic |-> b]
        PROVE  ForPlanners!WellFormed(g)
    <3>1. ForPlanners!Evolving!Nodes(g) = N
      BY <2>2, ZenonT(60) DEF ForPlanners!Evolving!Nodes, Nodes
    <3>2. \A e \in g.edges : e = <<e[1], e[2]>>
      BY <2>2
    <3>3. g = [nodes |-> g.nodes, edges |-> g.edges, acyclic |-> g.acyclic]
      BY <2>2
    <3> QED
      BY <2>1, <3>1, <3>2, <3>3, ZenonT(60) DEF ForPlanners!WellFormed
  <2>3. \A b : Straight(b) = [nodes |-> Nodes(N), edges |-> E, acyclic |-> b]
    BY DEF Straight
  <2>4. PICK b : Looping = [nodes |-> Nodes(N), edges |-> L, acyclic |-> b]
    <3>1. PICK s : s = Straight(FALSE)
      BY ZenonT(60)
    <3>2. PICK c : s = [nodes |-> Nodes(N), edges |-> E, acyclic |-> c]
      BY <3>1, <2>3, ZenonT(60)
    <3>3. Looping = [s EXCEPT !.edges = s.edges \cup {<<"A", "Start">>}]
      BY <3>1, ZenonT(60) DEF Looping
    <3>4. [s EXCEPT !.edges = s.edges \cup {<<"A", "Start">>}] = [nodes |-> Nodes(N), edges |-> L, acyclic |-> c]
      BY <3>2
    <3> QED
      BY <3>3, <3>4, ZenonT(60)
  <2>5. ForPlanners!WellFormed(Straight(TRUE)) /\ ForPlanners!WellFormed(Straight(FALSE)) /\ ForPlanners!WellFormed(Looping)
    <3>1. E \subseteq L /\ L \subseteq L
      OBVIOUS
    <3> HIDE DEF N, E, L
    <3> QED
      BY <2>2, <2>3, <2>4, <3>1, ZenonT(60)
  <2> QED
    BY <2>5, ZenonT(60) DEF ForPlanners!FinitelyMade
<1>3. ForPlanners!PipelineBounds
  <2> DEFINE rank == [x \in {"no", "c4", "c3", "c2"} |-> 0]
  <2>1. ForPlanners!Chain(rank) = {"c4", "c3", "c2"}
    BY DEF ForPlanners!Chain
  <2>2. \A a \in {"c4", "c3", "c2"} :
          /\ To("c4", "c3")[a] \in {"c3", "no"} /\ To("none", "no")[a] = "no"
          /\ Branch(<<"c2">>)[a] = <<"c2">> /\ Branch(<<>>)[a] = <<>>
    BY DEF To, Branch, Kind
  <2>3. <<"c2">> \in Seq({"c4", "c3", "c2"}) /\ <<>> \in Seq({"c4", "c3", "c2"})
    OBVIOUS
  <2>4. rank \in [DOMAIN rank -> Nat] /\ DOMAIN rank = {"no", "c4", "c3", "c2"}
    OBVIOUS
  <2>5. ForPlanners!AgentsFormTree(rank)
    <3> HIDE DEF rank
    <3> QED
      BY <2>1, <2>2, <2>3, <2>4, ZenonT(60) DEF ForPlanners!AgentsFormTree
  <2> QED
    BY <2>5, ZenonT(60) DEF ForPlanners!PipelineBounds, ForPlanners!RetrievalBounds
<1>4. ForPlanners!StoreBounds
  <2>1. IsFiniteSet({"a"}) /\ IsFiniteSet({"w"})
    BY FS_Singleton
  <2>2. ForPlanners!IsFiniteSet({"a"}) /\ ForPlanners!IsFiniteSet({"w"})
    BY <2>1, ZenonT(60) DEF ForPlanners!IsFiniteSet, IsFiniteSet
  <2> QED
    BY <2>2, SMT DEF ForPlanners!StoreBounds
<1> QED
  BY <1>1, <1>2, <1>3, <1>4

\* A step of the smart agent that plans is the same step of the component.
LEMMA PlanningSteps == Planning!SmartStep => ForPlanners!SmartStep
BY ZenonT(120) DEF
       Planning!turnVars, Planning!Items, Planning!Outcomes, Planning!Unattempted, Planning!Indexes,
       Planning!Unresolved, Planning!HasUnresolvedFeedback, Planning!First, Planning!ReactiveTools,
       Planning!PlannerSays, Planning!CallPlanner, Planning!Turns, Planning!Over, Planning!ChooseTools,
       Planning!ModelFails, Planning!SendFeedback, Planning!FeedbackResolved, Planning!Skipped,
       Planning!CallsToExecute, Planning!Sorted, Planning!ExecuteToolCalls, Planning!NextCall,
       Planning!ExecuteToolCall, Planning!Recorded, Planning!ProcessResults, Planning!EndTurn,
       Planning!SmartStep, Planning!Cardinality, ForPlanners!turnVars, ForPlanners!Items,
       ForPlanners!Outcomes, ForPlanners!Unattempted, ForPlanners!Indexes, ForPlanners!Unresolved,
       ForPlanners!HasUnresolvedFeedback, ForPlanners!First, ForPlanners!ReactiveTools,
       ForPlanners!PlannerSays, ForPlanners!CallPlanner, ForPlanners!Turns, ForPlanners!Over,
       ForPlanners!ChooseTools, ForPlanners!ModelFails, ForPlanners!SendFeedback,
       ForPlanners!FeedbackResolved, ForPlanners!Skipped, ForPlanners!CallsToExecute, ForPlanners!Sorted,
       ForPlanners!ExecuteToolCalls, ForPlanners!NextCall, ForPlanners!ExecuteToolCall,
       ForPlanners!Recorded, ForPlanners!ProcessResults, ForPlanners!EndTurn, ForPlanners!SmartStep,
       ForPlanners!Cardinality

\* In its part, MCQuestion behaves as the component: the smart agent that plans.
LEMMA PlanningBehaves ==
  Spec => []~(part = "planning") \/ ([](part = "planning") /\ ForPlanners!SmartSpec)
<1>1. Init /\ part = "planning" => ForPlanners!SmartInit
  BY ZenonT(60) DEF Init,
       Planning!Unattempted, Planning!SmartInit, ForPlanners!Unattempted, ForPlanners!SmartInit
<1>2. [Next]_vars => /\ (part = "planning")' <=> part = "planning"
                     /\ part = "planning" => [ForPlanners!SmartStep]_(ForPlanners!smartVars)
  BY StepOfPart, PlanningSteps, ZenonT(60) DEF smartVars, ForPlanners!smartVars
<1> QED
  BY <1>1, <1>2, PTL DEF Spec, ForPlanners!SmartSpec

\* And so the theorems about the component hold of its part.
LEMMA PlanningHolds ==
  Spec => [](part = "planning" =>
           /\ Reactive!DecisionAskedOnce
           /\ Reactive!EveryCallAnswered
           /\ Planning!FeedbackIsUsed
           /\ Reactive!SmartTypeOK)
<1>1. /\ ForPlanners!DecisionAskedOnce => Reactive!DecisionAskedOnce
      /\ ForPlanners!EveryCallAnswered => Reactive!EveryCallAnswered
      /\ ForPlanners!FeedbackIsUsed => Planning!FeedbackIsUsed
      /\ ForPlanners!SmartTypeOK => Reactive!SmartTypeOK
  BY ZenonT(60) DEF
       Reactive!DecisionAskedOnce, ForPlanners!DecisionAskedOnce, Reactive!Indexes,
       Reactive!EveryCallAnswered, ForPlanners!Indexes, ForPlanners!EveryCallAnswered, Planning!Turns,
       Planning!FeedbackIsUsed, ForPlanners!Turns, ForPlanners!FeedbackIsUsed, Reactive!Items,
       Reactive!Outcomes, Reactive!SmartTypeOK, ForPlanners!Items, ForPlanners!Outcomes,
       ForPlanners!SmartTypeOK
<1> QED
  BY <1>1, PlanningBehaves, PlannersBounds,
     ForPlanners!AskedOnce, ForPlanners!CallsAnswered, ForPlanners!FeedbackUsed, ForPlanners!SmartTypes, PTL

\* A step of the MCP agent whose tools a planner calls is the same step of the component.
LEMMA PlannedSteps == Planned!MCPNext => ForPlanners!MCPNext
BY ZenonT(120) DEF
       Planned!agentVars, Planned!Closed, Planned!Set, Planned!Raised, Planned!Initialize, Planned!Connect,
       Planned!ConnectFails, Planned!PreloadTools, Planned!PreloadFails, Planned!PreloadPrompts,
       Planned!GetToolSelectionPrompt, Planned!InteractionCompleted, Planned!ChooseTool, Planned!Called,
       Planned!ProcessTool, Planned!ToolError, Planned!RejectOverflow, Planned!ToolResult, Planned!CallTool,
       Planned!ServerAsks, Planned!ElicitationCallback, Planned!SamplingCallback, Planned!CloseSession,
       Planned!AfterAttempt, Planned!AfterStdio, Planned!SaveContext, Planned!MultiQuestion, Planned!Become,
       Planned!Refreshed, Planned!PreloadRegisteredAgents, Planned!OpenSession, Planned!PublishNone,
       Planned!OpenFails, Planned!Listed, Planned!PromptsListed, Planned!Publish, Planned!TeardownFails,
       Planned!CallPublished, Planned!PublishedReturns, Planned!FlowStep, Planned!PlannerStep,
       Planned!MCPNext, ForPlanners!agentVars, ForPlanners!Closed, ForPlanners!Set, ForPlanners!Raised,
       ForPlanners!Initialize, ForPlanners!Connect, ForPlanners!ConnectFails, ForPlanners!PreloadTools,
       ForPlanners!PreloadFails, ForPlanners!PreloadPrompts, ForPlanners!GetToolSelectionPrompt,
       ForPlanners!InteractionCompleted, ForPlanners!ChooseTool, ForPlanners!Called,
       ForPlanners!ProcessTool, ForPlanners!ToolError, ForPlanners!RejectOverflow, ForPlanners!ToolResult,
       ForPlanners!CallTool, ForPlanners!ServerAsks, ForPlanners!ElicitationCallback,
       ForPlanners!SamplingCallback, ForPlanners!CloseSession, ForPlanners!AfterAttempt,
       ForPlanners!AfterStdio, ForPlanners!SaveContext, ForPlanners!MultiQuestion, ForPlanners!Become,
       ForPlanners!Refreshed, ForPlanners!PreloadRegisteredAgents, ForPlanners!OpenSession,
       ForPlanners!PublishNone, ForPlanners!OpenFails, ForPlanners!Listed, ForPlanners!PromptsListed,
       ForPlanners!Publish, ForPlanners!TeardownFails, ForPlanners!CallPublished,
       ForPlanners!PublishedReturns, ForPlanners!FlowStep, ForPlanners!PlannerStep, ForPlanners!MCPNext

\* In its part, MCQuestion behaves as the component: the MCP agent whose tools a planner calls.
LEMMA PlannedBehaves ==
  Spec => []~(part = "planned") \/ ([](part = "planned") /\ ForPlanners!MCPSpec)
<1>1. Init /\ part = "planned" => ForPlanners!MCPInit
  BY ZenonT(60) DEF Init,
       Http!NewFlow, Http!NewPlanner, Http!MCPInit, ForPlanners!NewFlow, ForPlanners!NewPlanner,
       ForPlanners!MCPInit
<1>2. [Next]_vars => /\ (part = "planned")' <=> part = "planned"
                     /\ part = "planned" => [ForPlanners!MCPNext]_(ForPlanners!mcpVars)
  BY StepOfPart, PlannedSteps, ZenonT(60) DEF mcpVars, ForPlanners!mcpVars
<1> QED
  BY <1>1, <1>2, PTL DEF Spec, ForPlanners!MCPSpec

\* And so the theorems about the component hold of its part.
LEMMA PlannedHolds ==
  Spec => [](part = "planned" =>
           /\ Http!CompletedOnce
           /\ Http!ToldOfEveryCall
           /\ Http!PublishedCallsIsolated
           /\ Planned!MCPTypeOK)
<1>1. /\ ForPlanners!CompletedOnce => Http!CompletedOnce
      /\ ForPlanners!ToldOfEveryCall => Http!ToldOfEveryCall
      /\ ForPlanners!PublishedCallsIsolated => Http!PublishedCallsIsolated
      /\ ForPlanners!MCPTypeOK => Planned!MCPTypeOK
  BY ZenonT(60) DEF
       Http!CompletedOnce, ForPlanners!CompletedOnce, Http!ToldOfEveryCall, ForPlanners!ToldOfEveryCall,
       Http!PublishedCallsIsolated, ForPlanners!PublishedCallsIsolated, Planned!Owners, Planned!AllPages,
       Planned!MCPTypeOK, ForPlanners!Owners, ForPlanners!AllPages, ForPlanners!MCPTypeOK
<1>2. ForPlanners!MCPSpec => []ForPlanners!CompletedOnce
  BY PlannersBounds, ForPlanners!InteractionOnce
<1> QED
  BY <1>1, <1>2, PlannedBehaves, PlannersBounds,
     ForPlanners!ModelIsTold, ForPlanners!PublishedIsolated, ForPlanners!MCPTypes, PTL

\* A step of the evolution of larger graphs is the same step of the component.
LEMMA GraphsSteps == Graphs!Next => ForPlanners!Evolving!Next
<1>1. Graphs!Summaries = ForPlanners!Evolving!Summaries
  BY SMTT(90) DEF
       Graphs!Length, Graphs!Summaries, Graphs!FoldLeft, Graphs!MapThenFoldSet, Graphs!Reverse, Graphs!Max,
       ForPlanners!Evolving!Length, ForPlanners!Evolving!Summaries, ForPlanners!Evolving!FoldLeft,
       ForPlanners!Evolving!MapThenFoldSet, ForPlanners!Evolving!Reverse, ForPlanners!Evolving!Max
<1>2. \A g, edits : Graphs!PrepareCandidate(g, edits) = ForPlanners!Evolving!PrepareCandidate(g, edits)
  BY SMTT(90) DEF
       Graphs!NoTool, Graphs!NoGraph, Graphs!Nodes, Graphs!Targets, Graphs!Bound, Graphs!ReachTerminal,
       Graphs!Unsorted, Graphs!EachReachesTerminal, Graphs!ValidGraph, Graphs!CheckTools, Graphs!The,
       Graphs!Pairs, Graphs!PrepareCandidate, Graphs!Cardinality, ForPlanners!Evolving!NoTool,
       ForPlanners!Evolving!NoGraph, ForPlanners!Evolving!Nodes, ForPlanners!Evolving!Targets,
       ForPlanners!Evolving!Bound, ForPlanners!Evolving!ReachTerminal, ForPlanners!Evolving!Unsorted,
       ForPlanners!Evolving!EachReachesTerminal, ForPlanners!Evolving!ValidGraph,
       ForPlanners!Evolving!CheckTools, ForPlanners!Evolving!The, ForPlanners!Evolving!Pairs,
       ForPlanners!Evolving!PrepareCandidate, ForPlanners!Evolving!Cardinality
<1>3. Graphs!Edits = ForPlanners!Evolving!Edits
  BY SMTT(90) DEF
       Graphs!NoTool, Graphs!Edit, Graphs!OneMore, Graphs!Edits, ForPlanners!Evolving!NoTool,
       ForPlanners!Evolving!Edit, ForPlanners!Evolving!OneMore, ForPlanners!Evolving!Edits
<1> QED
  BY <1>1, <1>2, <1>3, ZenonT(120) DEF
       Graphs!files, Graphs!NoGraph, Graphs!Unscored, Graphs!Scores, Graphs!Then, Graphs!SaveGraph,
       Graphs!Retain, Graphs!Claimed, Graphs!Baseline, Graphs!Propose, Graphs!SaveCandidate,
       Graphs!NotWorse, Graphs!Validate, Graphs!Record, Graphs!Accept, Graphs!Reject, Graphs!Ends,
       Graphs!Next, ForPlanners!Evolving!files, ForPlanners!Evolving!NoGraph, ForPlanners!Evolving!Unscored,
       ForPlanners!Evolving!Scores, ForPlanners!Evolving!Then, ForPlanners!Evolving!SaveGraph,
       ForPlanners!Evolving!Retain, ForPlanners!Evolving!Claimed, ForPlanners!Evolving!Baseline,
       ForPlanners!Evolving!Propose, ForPlanners!Evolving!SaveCandidate, ForPlanners!Evolving!NotWorse,
       ForPlanners!Evolving!Validate, ForPlanners!Evolving!Record, ForPlanners!Evolving!Accept,
       ForPlanners!Evolving!Reject, ForPlanners!Evolving!Ends, ForPlanners!Evolving!Next

\* In its part, MCQuestion behaves as the component: the evolution of larger graphs.
LEMMA GraphsBehaves ==
  Spec => []~(part = "graphs") \/ ([](part = "graphs") /\ ForPlanners!Evolving!Spec)
<1>1. Init /\ part = "graphs" => ForPlanners!Evolving!Init
  BY ZenonT(60) DEF Init,
       Graphs!NoTool, Graphs!NoGraph, Graphs!Unscored, Graphs!Nodes, Graphs!Targets, Graphs!Bound,
       Graphs!ReachTerminal, Graphs!Unsorted, Graphs!EachReachesTerminal, Graphs!ValidGraph,
       Graphs!CheckTools, Graphs!Init, Graphs!Cardinality, ForPlanners!Evolving!NoTool,
       ForPlanners!Evolving!NoGraph, ForPlanners!Evolving!Unscored, ForPlanners!Evolving!Nodes,
       ForPlanners!Evolving!Targets, ForPlanners!Evolving!Bound, ForPlanners!Evolving!ReachTerminal,
       ForPlanners!Evolving!Unsorted, ForPlanners!Evolving!EachReachesTerminal,
       ForPlanners!Evolving!ValidGraph, ForPlanners!Evolving!CheckTools, ForPlanners!Evolving!Init,
       ForPlanners!Evolving!Cardinality
<1>2. [Next]_vars => /\ (part = "graphs")' <=> part = "graphs"
                     /\ part = "graphs" => [ForPlanners!Evolving!Next]_(ForPlanners!Evolving!vars)
  BY StepOfPart, GraphsSteps, ZenonT(60) DEF evolutionVars, ForPlanners!Evolving!vars,
       ForPlanners!Evolving!files
<1> QED
  BY <1>1, <1>2, PTL DEF Spec, ForPlanners!Evolving!Spec

\* And so the theorems about the component hold of its part.
LEMMA GraphsHolds ==
  Spec => [](part = "graphs" =>
           /\ Graphs!RetainedIsRecorded
           /\ Graphs!GraphsAreSound
           /\ Graphs!EvolutionTypeOK)
<1>1. /\ ForPlanners!Evolving!RetainedIsRecorded => Graphs!RetainedIsRecorded
      /\ ForPlanners!Evolving!GraphsAreSound => Graphs!GraphsAreSound
      /\ ForPlanners!Evolving!EvolutionTypeOK => Graphs!EvolutionTypeOK
  BY ZenonT(60) DEF
       Graphs!NoGraph, Graphs!Unscored, Graphs!RetainedIsRecorded, ForPlanners!Evolving!NoGraph,
       ForPlanners!Evolving!Unscored, ForPlanners!Evolving!RetainedIsRecorded, Graphs!NoTool, Graphs!Nodes,
       Graphs!Path, Graphs!GraphsAreSound, Graphs!Cardinality, ForPlanners!Evolving!NoTool,
       ForPlanners!Evolving!Nodes, ForPlanners!Evolving!Path, ForPlanners!Evolving!GraphsAreSound,
       ForPlanners!Evolving!Cardinality, Graphs!EvolutionTypeOK, ForPlanners!Evolving!EvolutionTypeOK
<1>2. ForPlanners!Evolving!Spec => []ForPlanners!Evolving!GraphsAreSound
  BY PlannersBounds, ForPlanners!GraphsSound
<1> QED
  BY <1>1, <1>2, GraphsBehaves, PlannersBounds,
     ForPlanners!RetainedOnRecord, ForPlanners!EvolutionTypesKept, PTL

\* A step of the pipeline that starts again is the same step of the component.
LEMMA RestartingSteps == Restarting!Next => ForPlanners!Retrieving!Next
<1>1. \A c : Restarting!Validations(c) = ForPlanners!Retrieving!Validations(c)
  BY SMTT(90) DEF
       Restarting!Validated, Restarting!Validations, ForPlanners!Retrieving!Validated,
       ForPlanners!Retrieving!Validations
<1>2. \A a : Restarting!Retrievals(a) = ForPlanners!Retrieving!Retrievals(a)
  BY SMTT(90) DEF
       Restarting!Raw, Restarting!StaticContext, Restarting!HttpContext, Restarting!GoogleContext,
       Restarting!PerplexityContext, Restarting!PerplexitySearchContext, Restarting!SourceContexts,
       Restarting!RawContext, Restarting!ShouldValidate, Restarting!PruneToCitations, Restarting!Validated,
       Restarting!Validations, Restarting!SaveCtxAndReturnMissing, Restarting!Select, Restarting!Keep,
       Restarting!KeepAll, Restarting!Responses, Restarting!SaveContextsAndReturnMissing,
       Restarting!Retrievals, ForPlanners!Retrieving!Raw, ForPlanners!Retrieving!StaticContext,
       ForPlanners!Retrieving!HttpContext, ForPlanners!Retrieving!GoogleContext,
       ForPlanners!Retrieving!PerplexityContext, ForPlanners!Retrieving!PerplexitySearchContext,
       ForPlanners!Retrieving!SourceContexts, ForPlanners!Retrieving!RawContext,
       ForPlanners!Retrieving!ShouldValidate, ForPlanners!Retrieving!PruneToCitations,
       ForPlanners!Retrieving!Validated, ForPlanners!Retrieving!Validations,
       ForPlanners!Retrieving!SaveCtxAndReturnMissing, ForPlanners!Retrieving!Select,
       ForPlanners!Retrieving!Keep, ForPlanners!Retrieving!KeepAll, ForPlanners!Retrieving!Responses,
       ForPlanners!Retrieving!SaveContextsAndReturnMissing, ForPlanners!Retrieving!Retrievals
<1> QED
  BY <1>1, <1>2, ZenonT(120) DEF
       Restarting!Stages, Restarting!Agents, Restarting!Staged, Restarting!Running, Restarting!Frame,
       Restarting!Top, Restarting!Below, Restarting!NoAnswer, Restarting!StageError, Restarting!Raw,
       Restarting!AgentAnswerSummaries, Restarting!Put, Restarting!Call, Restarting!SaveContext,
       Restarting!Active, Restarting!AfterRetrieval, Restarting!Rephrase, Restarting!Retrieve,
       Restarting!FlowFails, Restarting!MakeDecision, Restarting!Branch, Restarting!ValidateBranch,
       Restarting!AskFallback, Restarting!AskNext, Restarting!Ends, Restarting!AddAnswer,
       Restarting!AgentFails, Restarting!RephraseQuestion, Restarting!Historical, Restarting!Summarize,
       Restarting!Passthrough, Restarting!Generate, Restarting!Restart, Restarting!Remi, Restarting!Related,
       Restarting!ExternalCall, Restarting!Gathered, Restarting!Launch, Restarting!Questions,
       Restarting!RunContext, Restarting!ContextGathered, Restarting!RunGeneration,
       Restarting!AddFinalAnswer, Restarting!RunPostprocess, Restarting!EndLoop, Restarting!FlowStep,
       Restarting!AgentStep, Restarting!PipelineStep, Restarting!Next, ForPlanners!Retrieving!Stages,
       ForPlanners!Retrieving!Agents, ForPlanners!Retrieving!Staged, ForPlanners!Retrieving!Running,
       ForPlanners!Retrieving!Frame, ForPlanners!Retrieving!Top, ForPlanners!Retrieving!Below,
       ForPlanners!Retrieving!NoAnswer, ForPlanners!Retrieving!StageError, ForPlanners!Retrieving!Raw,
       ForPlanners!Retrieving!AgentAnswerSummaries, ForPlanners!Retrieving!Put, ForPlanners!Retrieving!Call,
       ForPlanners!Retrieving!SaveContext, ForPlanners!Retrieving!Active,
       ForPlanners!Retrieving!AfterRetrieval, ForPlanners!Retrieving!Rephrase,
       ForPlanners!Retrieving!Retrieve, ForPlanners!Retrieving!FlowFails,
       ForPlanners!Retrieving!MakeDecision, ForPlanners!Retrieving!Branch,
       ForPlanners!Retrieving!ValidateBranch, ForPlanners!Retrieving!AskFallback,
       ForPlanners!Retrieving!AskNext, ForPlanners!Retrieving!Ends, ForPlanners!Retrieving!AddAnswer,
       ForPlanners!Retrieving!AgentFails, ForPlanners!Retrieving!RephraseQuestion,
       ForPlanners!Retrieving!Historical, ForPlanners!Retrieving!Summarize,
       ForPlanners!Retrieving!Passthrough, ForPlanners!Retrieving!Generate, ForPlanners!Retrieving!Restart,
       ForPlanners!Retrieving!Remi, ForPlanners!Retrieving!Related, ForPlanners!Retrieving!ExternalCall,
       ForPlanners!Retrieving!Gathered, ForPlanners!Retrieving!Launch, ForPlanners!Retrieving!Questions,
       ForPlanners!Retrieving!RunContext, ForPlanners!Retrieving!ContextGathered,
       ForPlanners!Retrieving!RunGeneration, ForPlanners!Retrieving!AddFinalAnswer,
       ForPlanners!Retrieving!RunPostprocess, ForPlanners!Retrieving!EndLoop,
       ForPlanners!Retrieving!FlowStep, ForPlanners!Retrieving!AgentStep,
       ForPlanners!Retrieving!PipelineStep, ForPlanners!Retrieving!Next

\* In its part, MCQuestion behaves as the component: the pipeline that starts again.
LEMMA RestartingBehaves ==
  Spec => []~(part = "restarts") \/ ([](part = "restarts") /\ ForPlanners!Retrieving!Spec)
<1>1. Init /\ part = "restarts" => ForPlanners!Retrieving!Init
  BY ZenonT(60) DEF Init,
       Restarting!Staged, Restarting!NoAnswer, Restarting!Init, ForPlanners!Retrieving!Staged,
       ForPlanners!Retrieving!NoAnswer, ForPlanners!Retrieving!Init
<1>2. [Next]_vars => /\ (part = "restarts")' <=> part = "restarts"
                     /\ part = "restarts" => [ForPlanners!Retrieving!Next]_(ForPlanners!Retrieving!retrievalVars)
  BY StepOfPart, RestartingSteps, ZenonT(60) DEF retrievalVars, ForPlanners!Retrieving!retrievalVars
<1> QED
  BY <1>1, <1>2, PTL DEF Spec, ForPlanners!Retrieving!Spec

\* And so the theorems about the component hold of its part.
LEMMA RestartingHolds ==
  Spec => [](part = "restarts" =>
           /\ Restarting!NextSeesOwnFlow
           /\ Restarting!SavedContextsHaveContent
           /\ Restarting!AnswerSeesEveryContext
           /\ Restarting!ErrorStands
           /\ Restarting!RetrievalTypeOK)
<1>1. /\ ForPlanners!Retrieving!NextSeesOwnFlow => Restarting!NextSeesOwnFlow
      /\ ForPlanners!Retrieving!SavedContextsHaveContent => Restarting!SavedContextsHaveContent
      /\ ForPlanners!Retrieving!AnswerSeesEveryContext => Restarting!AnswerSeesEveryContext
      /\ ForPlanners!Retrieving!ErrorStands => Restarting!ErrorStands
      /\ ForPlanners!Retrieving!RetrievalTypeOK => Restarting!RetrievalTypeOK
  BY ZenonT(60) DEF
       Restarting!NextSeesOwnFlow, ForPlanners!Retrieving!NextSeesOwnFlow,
       Restarting!SavedContextsHaveContent, ForPlanners!Retrieving!SavedContextsHaveContent,
       Restarting!AnswerSeesEveryContext, ForPlanners!Retrieving!AnswerSeesEveryContext,
       Restarting!StageError, Restarting!ErrorStands, ForPlanners!Retrieving!StageError,
       ForPlanners!Retrieving!ErrorStands, Restarting!Stages, Restarting!Staged, Restarting!Ats,
       Restarting!NoAnswer, Restarting!RetrievalTypeOK, ForPlanners!Retrieving!Stages,
       ForPlanners!Retrieving!Staged, ForPlanners!Retrieving!Ats, ForPlanners!Retrieving!NoAnswer,
       ForPlanners!Retrieving!RetrievalTypeOK
<1> QED
  BY <1>1, RestartingBehaves, PlannersBounds,
     ForPlanners!NextSeesOwn, ForPlanners!SavedHaveContent, ForPlanners!AnswerSeesAll,
     ForPlanners!ErrorStays, ForPlanners!RetrievalTypes, PTL

\* SequencesExt is that of the component.
LEMMA SharedStoreSequences ==
  /\ \A set : SharedStore!SetToSeq(set) = ForPlanners!Storing!SetToSeq(set)
  /\ \A seqs : SharedStore!FlattenSeq(seqs) = ForPlanners!Storing!FlattenSeq(seqs)
  /\ \A set : SharedStore!Cardinality(set) = ForPlanners!Storing!Cardinality(set)
<1>1. \A set : SharedStore!Cardinality(set) = ForPlanners!Storing!Cardinality(set)
  BY ZenonT(60) DEF SharedStore!Cardinality, ForPlanners!Storing!Cardinality
<1>2. \A set : SharedStore!SetToSeq(set) = ForPlanners!Storing!SetToSeq(set)
  BY ZenonT(60) DEF SharedStore!SetToSeq, ForPlanners!Storing!SetToSeq, SharedStore!IsInjective,
       ForPlanners!Storing!IsInjective,
       SharedStore!Cardinality, ForPlanners!Storing!Cardinality
<1>3. \A seqs : SharedStore!FlattenSeq(seqs) = ForPlanners!Storing!FlattenSeq(seqs)
  BY ZenonT(60) DEF SharedStore!FlattenSeq, ForPlanners!Storing!FlattenSeq
<1> QED
  BY <1>1, <1>2, <1>3

\* What an import writes is what the component's writes.
LEMMA SharedStoreImports == \A a : SharedStore!ImportAll(a) = ForPlanners!Storing!ImportAll(a)
<1>1. \A set : SharedStore!ByName(set) = ForPlanners!Storing!ByName(set)
  BY ZenonT(60) DEF SharedStore!ByName, ForPlanners!Storing!ByName
<1>2. \A set : SharedStore!StepsInOrder(set) = ForPlanners!Storing!StepsInOrder(set)
  BY SharedStoreSequences, SMT DEF SharedStore!StepsInOrder, ForPlanners!Storing!StepsInOrder,
       SharedStore!StepKinds, ForPlanners!Storing!StepKinds
<1>3. \A a, wf : SharedStore!ImportWorkflow(a, wf) = ForPlanners!Storing!ImportWorkflow(a, wf)
  <2> TAKE a, wf
  <2> DEFINE n == SharedStore!Cardinality(wf.steps)
             q == SharedStore!StepsInOrder(wf.steps)
             f == [i \in 1..n |-> LET r == q[i] IN
                     SharedStore!Ensured(SharedStore!StepSt("insert", a, wf.w, r.k, 0, r.val))]
             g == [i \in 1..n |-> LET r == q[i] IN
                     ForPlanners!Storing!Ensured(ForPlanners!Storing!StepSt("insert", a, wf.w, r.k, 0, r.val))]
             e == IF wf.w = "default" THEN SharedStore!Ensured(SharedStore!WorkflowSt("set_workflow", a, "default", wf.val))
                  ELSE <<SharedStore!WorkflowSt("add_workflow", a, wf.w, wf.val)>>
  <2>1. f = g
    BY ZenonT(60) DEF
       SharedStore!Ensured, ForPlanners!Storing!Ensured, SharedStore!StepSt, ForPlanners!Storing!StepSt,
       SharedStore!St, ForPlanners!Storing!St
  <2>2. ForPlanners!Storing!StepsInOrder(wf.steps) = q /\ ForPlanners!Storing!Cardinality(wf.steps) = n
    BY <1>2, SharedStoreSequences
  <2>3. SharedStore!FlattenSeq(f) = ForPlanners!Storing!FlattenSeq(g)
    BY <2>1, SharedStoreSequences, ZenonT(60)
  <2>4. SharedStore!ImportWorkflow(a, wf) = e \o SharedStore!FlattenSeq(f)
    BY ZenonT(60) DEF SharedStore!ImportWorkflow
  <2>5. ForPlanners!Storing!ImportWorkflow(a, wf) = e \o ForPlanners!Storing!FlattenSeq(g)
    <3>1. ForPlanners!Storing!FlattenSeq([i \in 1..ForPlanners!Storing!Cardinality(wf.steps) |->
            LET r == ForPlanners!Storing!StepsInOrder(wf.steps)[i] IN
            ForPlanners!Storing!Ensured(ForPlanners!Storing!StepSt("insert", a, wf.w, r.k, 0, r.val))]) = ForPlanners!Storing!FlattenSeq(g)
      BY <2>2, SMT
    <3> QED
      BY <3>1, ZenonT(60) DEF ForPlanners!Storing!ImportWorkflow,
       SharedStore!Ensured, ForPlanners!Storing!Ensured, SharedStore!WorkflowSt,
       ForPlanners!Storing!WorkflowSt, SharedStore!St, ForPlanners!Storing!St
  <2> HIDE DEF f, g
  <2> QED
    BY <2>3, <2>4, <2>5, ZenonT(60)
<1> TAKE a
<1>4. PICK wfs : wfs = SharedStore!SetToSeq(file.workflows)
  BY ZenonT(60)
<1>5. PICK ds : ds = SharedStore!SetToSeq(SharedStore!ByName(file.drivers))
  BY ZenonT(60)
<1>6. PICK ps : ps = SharedStore!SetToSeq(file.prompts)
  BY ZenonT(60)
<1>7. /\ ForPlanners!Storing!SetToSeq(file.workflows) = wfs /\ ForPlanners!Storing!SetToSeq(file.prompts) = ps
      /\ ForPlanners!Storing!SetToSeq(ForPlanners!Storing!ByName(file.drivers)) = ds
  BY <1>1, <1>4, <1>5, <1>6, SharedStoreSequences
<1>8. [i \in DOMAIN wfs |-> SharedStore!ImportWorkflow(a, wfs[i])] = [i \in DOMAIN wfs |-> ForPlanners!Storing!ImportWorkflow(a, wfs[i])]
  BY <1>3
<1>9. SharedStore!FlattenSeq([i \in DOMAIN wfs |-> SharedStore!ImportWorkflow(a, wfs[i])])
        = ForPlanners!Storing!FlattenSeq([i \in DOMAIN wfs |-> ForPlanners!Storing!ImportWorkflow(a, wfs[i])])
  BY <1>8, SharedStoreSequences, ZenonT(60)
<1> QED
  BY <1>4, <1>5, <1>6, <1>7, <1>9, ZenonT(60) DEF SharedStore!ImportAll, ForPlanners!Storing!ImportAll,
       SharedStore!AgentSt, ForPlanners!Storing!AgentSt, SharedStore!St, ForPlanners!Storing!St

\* And so are the statements of an export and of the cron job.
LEMMA SharedStoreLists ==
  \A t : /\ SharedStore!WorkflowsList(t) => ForPlanners!Storing!WorkflowsList(t)
         /\ SharedStore!ListExpired(t) => ForPlanners!Storing!ListExpired(t)
<1> TAKE t
<1>1. ASSUME SharedStore!WorkflowsList(t)
      PROVE  ForPlanners!Storing!WorkflowsList(t)
  <2>1. PICK wfs : wfs = SharedStore!SetToSeq({w \in SharedStore!AllWorkflows : workflow[SharedStore!S(t).a][w].state = "active"})
    BY ZenonT(60)
  <2>2. ForPlanners!Storing!SetToSeq({w \in ForPlanners!Storing!AllWorkflows : workflow[ForPlanners!Storing!S(t).a][w].state = "active"}) = wfs
    BY <2>1, SharedStoreSequences, ZenonT(60) DEF SharedStore!AllWorkflows, ForPlanners!Storing!AllWorkflows,
         SharedStore!S, ForPlanners!Storing!S
  <2>3. PICK p : p = SharedStore!FlattenSeq([i \in DOMAIN wfs |->
                       SharedStore!Load(SharedStore!S(t).a, wfs[i]) \o <<SharedStore!St("keep", SharedStore!S(t).a, wfs[i])>>])
    BY ZenonT(60)
  <2>4. ForPlanners!Storing!FlattenSeq([i \in DOMAIN wfs |->
          ForPlanners!Storing!Load(ForPlanners!Storing!S(t).a, wfs[i]) \o <<ForPlanners!Storing!St("keep", ForPlanners!Storing!S(t).a, wfs[i])>>]) = p
    BY <2>3, SharedStoreSequences, ZenonT(60) DEF
       SharedStore!Load, ForPlanners!Storing!Load, SharedStore!St, ForPlanners!Storing!St, SharedStore!S,
       ForPlanners!Storing!S
  <2> QED
    BY <1>1, <2>1, <2>2, <2>3, <2>4, ZenonT(60) DEF
       SharedStore!WorkflowsList, ForPlanners!Storing!WorkflowsList, SharedStore!Run,
       ForPlanners!Storing!Run, SharedStore!Keep, ForPlanners!Storing!Keep, SharedStore!db,
       ForPlanners!Storing!db
<1>2. ASSUME SharedStore!ListExpired(t)
      PROVE  ForPlanners!Storing!ListExpired(t)
  <2>1. PICK gone : gone = SharedStore!SetToSeq({aw \in {"a"} \X SharedStore!AllWorkflows : workflow[aw[1]][aw[2]].state = "expired"})
    BY ZenonT(60)
  <2>2. ForPlanners!Storing!SetToSeq({aw \in {"a"} \X ForPlanners!Storing!AllWorkflows : workflow[aw[1]][aw[2]].state = "expired"}) = gone
    BY <2>1, SharedStoreSequences, ZenonT(60) DEF SharedStore!AllWorkflows, ForPlanners!Storing!AllWorkflows
  <2> QED
    BY <1>2, <2>1, <2>2, ZenonT(60) DEF
       SharedStore!ListExpired, ForPlanners!Storing!ListExpired, SharedStore!Run, ForPlanners!Storing!Run,
       SharedStore!Keep, ForPlanners!Storing!Keep, SharedStore!db, ForPlanners!Storing!db, SharedStore!St,
       ForPlanners!Storing!St
<1> QED
  BY <1>1, <1>2

\* A statement of the store of two at a time is the same statement of the component.
LEMMA SharedStoreStatements == \A t : SharedStore!Statement(t) => ForPlanners!Storing!Statement(t)
<1> TAKE t
<1>1. SharedStore!EnsureWorkflowActive(t) \/ SharedStore!InsertStep(t) \/ SharedStore!UpdateStep(t) \/
      SharedStore!DeleteStep(t) \/ SharedStore!SelectSteps(t) \/ SharedStore!AddWorkflow(t) \/
      SharedStore!UpdateWorkflow(t) \/ SharedStore!SoftDelete(t) \/ SharedStore!PurgeDeletedWorkflow(t)
        => ForPlanners!Storing!Statement(t)
  BY ZenonT(120) DEF ForPlanners!Storing!Statement,
       SharedStore!db, SharedStore!Nothing, SharedStore!NoWorkflow, SharedStore!StepsOf, SharedStore!Run,
       SharedStore!Done, SharedStore!Abort, SharedStore!S, SharedStore!Keep,
       SharedStore!EnsureWorkflowActive, SharedStore!InsertStep, SharedStore!Matches,
       SharedStore!UpdateStep, SharedStore!DeleteStep, SharedStore!SelectSteps, SharedStore!AddWorkflow,
       SharedStore!UpdateWorkflow, SharedStore!SoftDelete, SharedStore!PurgeDeletedWorkflow,
       ForPlanners!Storing!db, ForPlanners!Storing!Nothing, ForPlanners!Storing!NoWorkflow,
       ForPlanners!Storing!StepsOf, ForPlanners!Storing!Run, ForPlanners!Storing!Done,
       ForPlanners!Storing!Abort, ForPlanners!Storing!S, ForPlanners!Storing!Keep,
       ForPlanners!Storing!EnsureWorkflowActive, ForPlanners!Storing!InsertStep,
       ForPlanners!Storing!Matches, ForPlanners!Storing!UpdateStep, ForPlanners!Storing!DeleteStep,
       ForPlanners!Storing!SelectSteps, ForPlanners!Storing!AddWorkflow, ForPlanners!Storing!UpdateWorkflow,
       ForPlanners!Storing!SoftDelete, ForPlanners!Storing!PurgeDeletedWorkflow
<1>2. SharedStore!AddAgent(t) \/ SharedStore!DeleteAgent(t) \/ SharedStore!SetRules(t) \/
      SharedStore!GetRules(t) \/ SharedStore!InsertDriver(t) \/ SharedStore!GetDriver(t) \/
      SharedStore!UpdateDriver(t) \/ SharedStore!DeleteDriver(t) \/ SharedStore!GetDrivers(t)
        => ForPlanners!Storing!Statement(t)
  BY ZenonT(120) DEF ForPlanners!Storing!Statement,
       SharedStore!db, SharedStore!AllWorkflows, SharedStore!Nothing, SharedStore!NoWorkflow,
       SharedStore!DriversOf, SharedStore!Run, SharedStore!Done, SharedStore!Abort, SharedStore!S,
       SharedStore!Keep, SharedStore!AddAgent, SharedStore!DeleteAgent, SharedStore!SetRules,
       SharedStore!InsertDriver, SharedStore!OneDriver, SharedStore!GetDriver, SharedStore!DeepUpdate,
       SharedStore!UpdateDriver, SharedStore!DeleteDriver, SharedStore!GetDrivers, SharedStore!GetRules,
       ForPlanners!Storing!db, ForPlanners!Storing!AllWorkflows, ForPlanners!Storing!Nothing,
       ForPlanners!Storing!NoWorkflow, ForPlanners!Storing!DriversOf, ForPlanners!Storing!Run,
       ForPlanners!Storing!Done, ForPlanners!Storing!Abort, ForPlanners!Storing!S, ForPlanners!Storing!Keep,
       ForPlanners!Storing!AddAgent, ForPlanners!Storing!DeleteAgent, ForPlanners!Storing!SetRules,
       ForPlanners!Storing!InsertDriver, ForPlanners!Storing!OneDriver, ForPlanners!Storing!GetDriver,
       ForPlanners!Storing!DeepUpdate, ForPlanners!Storing!UpdateDriver, ForPlanners!Storing!DeleteDriver,
       ForPlanners!Storing!GetDrivers, ForPlanners!Storing!GetRules
<1>3. SharedStore!InsertPrompt(t) \/ SharedStore!SetPrompt(t) \/ SharedStore!DeletePrompt(t) \/
      SharedStore!GetPrompt(t) \/ SharedStore!GetPrompts(t) \/ SharedStore!UpsertCredentials(t) \/
      SharedStore!GetCredentials(t)
        => ForPlanners!Storing!Statement(t)
  BY ZenonT(120) DEF ForPlanners!Storing!Statement,
       SharedStore!db, SharedStore!Nothing, SharedStore!Run, SharedStore!Done, SharedStore!Abort,
       SharedStore!S, SharedStore!Keep, SharedStore!InsertPrompt, SharedStore!OnePrompt,
       SharedStore!SetPrompt, SharedStore!DeletePrompt, SharedStore!GetPrompt, SharedStore!SelectedPrompts,
       SharedStore!GetPrompts, SharedStore!UpsertCredentials, SharedStore!GetCredentials,
       ForPlanners!Storing!db, ForPlanners!Storing!Nothing, ForPlanners!Storing!Run,
       ForPlanners!Storing!Done, ForPlanners!Storing!Abort, ForPlanners!Storing!S, ForPlanners!Storing!Keep,
       ForPlanners!Storing!InsertPrompt, ForPlanners!Storing!OnePrompt, ForPlanners!Storing!SetPrompt,
       ForPlanners!Storing!DeletePrompt, ForPlanners!Storing!GetPrompt, ForPlanners!Storing!SelectedPrompts,
       ForPlanners!Storing!GetPrompts, ForPlanners!Storing!UpsertCredentials,
       ForPlanners!Storing!GetCredentials
<1>4. SharedStore!SelectConfig(t) \/ SharedStore!SelectWorkflow(t) \/ SharedStore!CheckTarget(t) \/
      SharedStore!Imported(t) \/ SharedStore!KeepLoaded(t) \/ SharedStore!Exported(t)
        => ForPlanners!Storing!Statement(t)
  BY ZenonT(120) DEF ForPlanners!Storing!Statement,
       SharedStore!db, SharedStore!Nothing, SharedStore!NoWorkflow, SharedStore!NoFile, SharedStore!NoQuery,
       SharedStore!NoGot, SharedStore!StepsOf, SharedStore!DriversOf, SharedStore!FirstQuery,
       SharedStore!Run, SharedStore!Done, SharedStore!Abort, SharedStore!S, SharedStore!Keep,
       SharedStore!SelectConfig, SharedStore!SelectWorkflow, SharedStore!St, SharedStore!AgentSt,
       SharedStore!WorkflowSt, SharedStore!NewAgent, SharedStore!IsEmpty, SharedStore!CheckTarget,
       SharedStore!Imported, SharedStore!KeepLoaded, SharedStore!Exported, ForPlanners!Storing!db,
       ForPlanners!Storing!Nothing, ForPlanners!Storing!NoWorkflow, ForPlanners!Storing!NoFile,
       ForPlanners!Storing!NoQuery, ForPlanners!Storing!NoGot, ForPlanners!Storing!StepsOf,
       ForPlanners!Storing!DriversOf, ForPlanners!Storing!FirstQuery, ForPlanners!Storing!Run,
       ForPlanners!Storing!Done, ForPlanners!Storing!Abort, ForPlanners!Storing!S, ForPlanners!Storing!Keep,
       ForPlanners!Storing!SelectConfig, ForPlanners!Storing!SelectWorkflow, ForPlanners!Storing!St,
       ForPlanners!Storing!AgentSt, ForPlanners!Storing!WorkflowSt, ForPlanners!Storing!NewAgent,
       ForPlanners!Storing!IsEmpty, ForPlanners!Storing!CheckTarget, ForPlanners!Storing!Imported,
       ForPlanners!Storing!KeepLoaded, ForPlanners!Storing!Exported
<1>5. SharedStore!ReadFile(t) => ForPlanners!Storing!ReadFile(t)
  BY SharedStoreImports, SMT DEF
       SharedStore!db, SharedStore!NoFile, SharedStore!Run, SharedStore!Abort, SharedStore!S,
       SharedStore!Keep, SharedStore!ReadFile, ForPlanners!Storing!db, ForPlanners!Storing!NoFile,
       ForPlanners!Storing!Run, ForPlanners!Storing!Abort, ForPlanners!Storing!S, ForPlanners!Storing!Keep,
       ForPlanners!Storing!ReadFile
<1>6. SharedStore!ReadFile(t) \/ SharedStore!WorkflowsList(t) \/ SharedStore!ListExpired(t) => ForPlanners!Storing!Statement(t)
  BY <1>5, SharedStoreLists DEF ForPlanners!Storing!Statement
<1> QED
  BY <1>1, <1>2, <1>3, <1>4, <1>6, ZenonT(60) DEF SharedStore!Statement

\* And so is a request.
LEMMA SharedStoreRequests == \A t : SharedStore!Request(t) => ForPlanners!Storing!Request(t)
<1>1. \A x, w, k : SharedStore!StepCalls(x, w, k) = ForPlanners!Storing!StepCalls(x, w, k)
  BY SMT DEF
       SharedStore!St, SharedStore!StepSt, SharedStore!Ensured, SharedStore!V, SharedStore!StepCalls,
       ForPlanners!Storing!St, ForPlanners!Storing!StepSt, ForPlanners!Storing!Ensured,
       ForPlanners!Storing!V, ForPlanners!Storing!StepCalls
<1>2. \A t, k, wfs : SharedStore!StepRequest(t, k, wfs) => ForPlanners!Storing!StepRequest(t, k, wfs)
  BY <1>1, ZenonT(60) DEF
       SharedStore!db, SharedStore!Nothing, SharedStore!NoWorkflow, SharedStore!NoFile, SharedStore!NoQuery,
       SharedStore!NoGot, SharedStore!Start, SharedStore!StepRequest, ForPlanners!Storing!db,
       ForPlanners!Storing!Nothing, ForPlanners!Storing!NoWorkflow, ForPlanners!Storing!NoFile,
       ForPlanners!Storing!NoQuery, ForPlanners!Storing!NoGot, ForPlanners!Storing!Start,
       ForPlanners!Storing!StepRequest
<1> QED
  BY <1>2, ZenonT(120) DEF
       SharedStore!db, SharedStore!AllWorkflows, SharedStore!Nothing, SharedStore!NoWorkflow,
       SharedStore!NoFile, SharedStore!NoQuery, SharedStore!NoGot, SharedStore!St, SharedStore!AgentSt,
       SharedStore!Ensured, SharedStore!Load, SharedStore!WorkflowSt, SharedStore!NewAgent,
       SharedStore!DeleteWorkflow, SharedStore!Start, SharedStore!V, SharedStore!WorkflowPreprocess,
       SharedStore!WorkflowGeneration, SharedStore!WorkflowPostprocess, SharedStore!WorkflowContext,
       SharedStore!AgentPreprocess, SharedStore!AgentGeneration, SharedStore!AgentPostprocess,
       SharedStore!AgentContext, SharedStore!WorkflowRequest, SharedStore!SetWorkflowRules,
       SharedStore!AgentRules, SharedStore!DriverRequest, SharedStore!PromptRequest,
       SharedStore!CredentialsRequest, SharedStore!LoadRequest, SharedStore!ExportRequest,
       SharedStore!ImportRequest, SharedStore!AddAgentRequest, SharedStore!DeleteAgentRequest,
       SharedStore!CleanupDeletedWorkflows, SharedStore!Request, ForPlanners!Storing!db,
       ForPlanners!Storing!AllWorkflows, ForPlanners!Storing!Nothing, ForPlanners!Storing!NoWorkflow,
       ForPlanners!Storing!NoFile, ForPlanners!Storing!NoQuery, ForPlanners!Storing!NoGot,
       ForPlanners!Storing!St, ForPlanners!Storing!AgentSt, ForPlanners!Storing!Ensured,
       ForPlanners!Storing!Load, ForPlanners!Storing!WorkflowSt, ForPlanners!Storing!NewAgent,
       ForPlanners!Storing!DeleteWorkflow, ForPlanners!Storing!Start, ForPlanners!Storing!V,
       ForPlanners!Storing!WorkflowPreprocess, ForPlanners!Storing!WorkflowGeneration,
       ForPlanners!Storing!WorkflowPostprocess, ForPlanners!Storing!WorkflowContext,
       ForPlanners!Storing!AgentPreprocess, ForPlanners!Storing!AgentGeneration,
       ForPlanners!Storing!AgentPostprocess, ForPlanners!Storing!AgentContext,
       ForPlanners!Storing!WorkflowRequest, ForPlanners!Storing!SetWorkflowRules,
       ForPlanners!Storing!AgentRules, ForPlanners!Storing!DriverRequest, ForPlanners!Storing!PromptRequest,
       ForPlanners!Storing!CredentialsRequest, ForPlanners!Storing!LoadRequest,
       ForPlanners!Storing!ExportRequest, ForPlanners!Storing!ImportRequest,
       ForPlanners!Storing!AddAgentRequest, ForPlanners!Storing!DeleteAgentRequest,
       ForPlanners!Storing!CleanupDeletedWorkflows, ForPlanners!Storing!Request

\* A step of the store of two at a time is the same step of the component.
LEMMA SharedStoreSteps == SharedStore!Next => ForPlanners!Storing!Next
<1>1. \A x, w : SharedStore!Expire(x, w) => ForPlanners!Storing!Expire(x, w)
  BY ZenonT(60) DEF SharedStore!Expire, ForPlanners!Storing!Expire
<1> QED
  BY <1>1, SharedStoreStatements, SharedStoreRequests, ZenonT(60) DEF SharedStore!Next,
       ForPlanners!Storing!Next, SharedStore!AllWorkflows,
       ForPlanners!Storing!AllWorkflows

\* In its part, MCQuestion behaves as the component: the store of two at a time.
LEMMA SharedStoreBehaves ==
  Spec => []~(part = "shared store") \/ ([](part = "shared store") /\ ForPlanners!Storing!Spec)
<1>1. Init /\ part = "shared store" => ForPlanners!Storing!Init
  BY ZenonT(60) DEF Init, InStore,
       Store!AllWorkflows, Store!Nothing, Store!NoWorkflow, Store!NoFile, Store!NoQuery, Store!NoGot,
       Store!Init, ForPlanners!Storing!AllWorkflows, ForPlanners!Storing!Nothing,
       ForPlanners!Storing!NoWorkflow, ForPlanners!Storing!NoFile, ForPlanners!Storing!NoQuery,
       ForPlanners!Storing!NoGot, ForPlanners!Storing!Init
<1>2. [Next]_vars => /\ (part = "shared store")' <=> part = "shared store"
                     /\ part = "shared store" => [ForPlanners!Storing!Next]_(ForPlanners!Storing!storeVars)
  BY StepOfPart, SharedStoreSteps, ZenonT(60) DEF storeVars, ForPlanners!Storing!storeVars, SharedStore!db,
       ForPlanners!Storing!db
<1> QED
  BY <1>1, <1>2, PTL DEF Spec, ForPlanners!Storing!Spec

\* And so the theorems about the component hold of its part.
LEMMA SharedStoreHolds ==
  Spec => [](part = "shared store" =>
           /\ SharedStore!AgentStoreTypeOK)
<1>1. /\ ForPlanners!Storing!AgentStoreTypeOK => SharedStore!AgentStoreTypeOK
  BY ZenonT(60) DEF
       SharedStore!AllWorkflows, SharedStore!AgentStoreTypeOK, ForPlanners!Storing!AllWorkflows,
       ForPlanners!Storing!AgentStoreTypeOK
<1> QED
  BY <1>1, SharedStoreBehaves, PlannersBounds,
     ForPlanners!StoreTypes, PTL

\* In the evolution of larger graphs, the score that retained.json gives never gets worse.
LEMMA GraphsNeverWorse ==
  Spec => []~(part = "graphs") \/ Evolving!NeverWorse
<1>1. [current.score # ForPlanners!Evolving!Unscored => current'.score >= current.score /\ current'.score # ForPlanners!Evolving!Unscored]_current
        => [current.score # Evolving!Unscored => current'.score >= current.score /\ current'.score # Evolving!Unscored]_current
  BY ZenonT(60) DEF ForPlanners!Evolving!Unscored, Evolving!Unscored
<1> QED
  BY <1>1, GraphsBehaves, PlannersBounds, ForPlanners!ScoreNeverWorse, PTL DEF Evolving!NeverWorse,
       ForPlanners!Evolving!NeverWorse

\* In the store of two at a time, workflows leave only as they should.
LEMMA SharedStoreKeepsWorkflows ==
  Spec => []~(part = "shared store") \/ (Store!PurgeOnlyDeleted /\ Store!DefaultStays)
<1>1. [\A t \in {"t1", "t2"} : ForPlanners!Storing!Run(t, "purge") /\ todo'[t] = Tail(todo[t]) =>
         \A a \in {"a"}, w \in ForPlanners!Storing!AllWorkflows :
           workflow[a][w].state = "active" => workflow'[a][w] = workflow[a][w]]_(ForPlanners!Storing!storeVars)
        => [\A t \in {"t1", "t2"} : Store!Run(t, "purge") /\ todo'[t] = Tail(todo[t]) =>
            \A a \in {"a"}, w \in Store!AllWorkflows :
              workflow[a][w].state = "active" => workflow'[a][w] = workflow[a][w]]_(Store!storeVars)
  BY ZenonT(60) DEF ForPlanners!Storing!Run, ForPlanners!Storing!AllWorkflows, Store!Run, Store!AllWorkflows,
       ForPlanners!Storing!storeVars,
       Store!storeVars
<1>2. [\A a \in {"a"} : workflow[a]["default"].state = "active" /\ config'[a] # ForPlanners!Storing!Nothing
         => workflow'[a]["default"].state = "active"]_(ForPlanners!Storing!storeVars)
        => [\A a \in {"a"} : workflow[a]["default"].state = "active" /\ config'[a] # Store!Nothing
            => workflow'[a]["default"].state = "active"]_(Store!storeVars)
  BY ZenonT(60) DEF ForPlanners!Storing!Nothing, Store!Nothing, ForPlanners!Storing!storeVars, Store!storeVars
<1> QED
  BY <1>1, <1>2, SharedStoreBehaves, PlannersBounds, ForPlanners!DefaultWorkflowStays,
       ForPlanners!OnlyDeletedPurged, PTL
     DEF Store!PurgeOnlyDeleted, Store!DefaultStays, ForPlanners!Storing!PurgeOnlyDeleted, ForPlanners!Storing!DefaultStays

\* Elsewhere the store is at rest.
LEMMA WorkflowsKept == Spec => Store!PurgeOnlyDeleted /\ Store!DefaultStays
<1>1. ~InStore /\ [Next]_vars =>
        /\ [\A t \in {"t1", "t2"} : Store!Run(t, "purge") /\ todo'[t] = Tail(todo[t]) =>
            \A a \in {"a"}, w \in Store!AllWorkflows :
              workflow[a][w].state = "active" => workflow'[a][w] = workflow[a][w]]_(Store!storeVars)
        /\ [\A a \in {"a"} : workflow[a]["default"].state = "active" /\ config'[a] # Store!Nothing
            => workflow'[a]["default"].state = "active"]_(Store!storeVars)
  BY StepOfPart, ZenonT(60) DEF storeVars, Store!storeVars
<1>2. ~(part = "store") /\ ~(part = "shared store") => ~InStore
  BY ZenonT(60) DEF InStore
<1> QED
  BY <1>1, <1>2, StoreKeepsWorkflows, SharedStoreKeepsWorkflows, PTL
     DEF Spec, Store!PurgeOnlyDeleted, Store!DefaultStays

\* The user is asked once, every function called and every feedback with a question
\* has its outcome and an answer is used, in both modes (hyperforge_smart/agent.py).
THEOREM SmartTurnsKept == Spec => []SmartTurns
<1>1. /\ part = "reactive" => /\ Reactive!DecisionAskedOnce /\ Reactive!EveryCallAnswered
                              /\ Reactive!FeedbackIsUsed
      /\ part = "planning" => /\ Reactive!DecisionAskedOnce /\ Reactive!EveryCallAnswered
                              /\ Planning!FeedbackIsUsed
      => SmartTurns
  BY ZenonT(60) DEF SmartTurns, InSmart
<1> QED
  BY <1>1, ReactiveHolds, PlanningHolds, PTL

\* The answer is made from all the contexts of its own chain, and what a remote agent
\* answers is handed on whole (retrieval/agent.py, hyperforge_a2a).
THEOREM AnswerFromContexts == Spec => []AnswerIsFromItsContexts
BY RemoteHolds, PipelineHolds, RestartingHolds, PTL DEF AnswerIsFromItsContexts

\* A resolved answer is not replaced, and a retained graph gives way only to one that
\* is sound, on record and no worse; a purge takes what was deleted, and the default
\* workflow stays (hyperforge_restricted, procedural/evolution.py, db/agents.py).
THEOREM NothingIsUndone == Spec => SettledStays
<1>1. ~InEvolution /\ [Next]_vars =>
        [current.score # Evolving!Unscored => current'.score >= current.score /\ current'.score # Evolving!Unscored]_current
  BY StepOfPart, ZenonT(60) DEF evolutionVars
<1>2. Spec => [](~(part = "rounds") /\ ~(part = "graphs")) \/ Evolving!NeverWorse
  BY RoundsNeverWorse, GraphsNeverWorse, PTL
<1>3. ~(part = "rounds") /\ ~(part = "graphs") => ~InEvolution
  BY DEF InEvolution
<1>4. Spec => Evolving!NeverWorse
  BY <1>1, <1>2, <1>3, PTL DEF Spec, Evolving!NeverWorse
<1> QED
  BY <1>4, RestrictedSticks, WorkflowsKept, RoundsHolds, GraphsHolds, PTL DEF SettledStays

-----------------------------------------------------------------------------
(* The MCP agent over standard input and output.                           *)

OverStdio == INSTANCE Question_proofs WITH
  Uuids <- {"u1", "u2"}, Slugs <- {"s1", "s2"}, UuidSlugs <- {"s2"}, Callers <- {"c1", "c2"},
  NoResource <- "none", MaxOperations <- 4,
  Questions <- 1..4, Ephemeral <- FALSE, Sequential <- TRUE, PageSize <- 9, Limit <- 3, MaxEvictions <- 2,
  Sources <- {"s1", "s2"}, Resources <- Some, HasFallback <- FALSE, NoLabelset <- "none",
  Operations <- {"question", "advanced", "ask_agent", "ask_by_title", "search_images_by_title", "search_images",
                 "all_images_by_title", "facets_search", "facets_count", "catalog_search"},
  asked <- filters, contexts <- found,
  Artifacts <- {"a", "b", "step"}, MaxChunks <- 3, MaxQuestions <- 1,
  AgentQuestions <- {"q1"}, Codes <- 2, AgentRetries <- 2, MaxCallbacks <- 4,
  NodeIds <- {"Start", "A"}, Procedures <- {"t", "u"}, AvailableTools <- {"t"},
  InitialGraphs <- {[nodes |-> Nodes({"Start"}), edges |-> {}, acyclic |-> FALSE]},
  Rounds <- 3, MaxScore <- 1, MaxEdits <- 2, MemoryLimit <- 2, MaxChars <- 2, Sizes <- 1..2,
  Preprocess <- {"p"}, Context <- {"c1"}, Generation <- {"g"}, Postprocess <- {"e"},
  Fallback <- To("c1", "c3"), NextAgent <- To("c1", "c5"), ThenAgents <- Branch(<<>>), ElseAgents <- Branch(<<>>),
  Pruning <- {"c1"}, Retries <- 0, MaxFound <- 1, MaxSplit <- 2, NoAgent <- "no",
  context_questions <- asked, memory_contexts <- contexts,
  Agents <- {"a"}, Workflows <- {"w"}, Kinds <- {"preprocess"}, DriverIds <- {"d1"}, DriverNames <- {"n"},
  Fields <- {"url"}, Tasks <- {"t1", "t2"}, OneRequest <- TRUE, MaxRequests <- 5, MaxRows <- 3,
  Calls <- {"a", "b"}, Parameterless <- {"a"}, Decisions <- {"d"}, MaxIterations <- 2, MaxChosen <- 2,
  MaxRetries <- 2, NoSession <- "none",
  Mode <- "reactive", Parallel <- TRUE,
  Transport <- "stdio", Pages <- 2, Prompts <- TRUE, Interactive <- TRUE, WorkChain <- TRUE,
  MaxTurns <- 2, MaxAtOnce <- 2

\* Its constants are within the bounds of the proofs.
LEMMA StdioBounds == OverStdio!MCPBounds
BY SMTT(60) DEF OverStdio!MCPBounds, Flows, Planners

\* A step of the MCP agent over standard input and output is the same step of the component.
LEMMA StdioSteps == Stdio!MCPNext => OverStdio!MCPNext
BY ZenonT(120) DEF
       Stdio!agentVars, Stdio!Closed, Stdio!Set, Stdio!Raised, Stdio!Initialize, Stdio!Connect,
       Stdio!ConnectFails, Stdio!PreloadTools, Stdio!PreloadFails, Stdio!PreloadPrompts,
       Stdio!GetToolSelectionPrompt, Stdio!InteractionCompleted, Stdio!ChooseTool, Stdio!Called,
       Stdio!ProcessTool, Stdio!ToolError, Stdio!RejectOverflow, Stdio!ToolResult, Stdio!CallTool,
       Stdio!ServerAsks, Stdio!ElicitationCallback, Stdio!SamplingCallback, Stdio!CloseSession,
       Stdio!AfterAttempt, Stdio!AfterStdio, Stdio!SaveContext, Stdio!MultiQuestion, Stdio!Become,
       Stdio!Refreshed, Stdio!PreloadRegisteredAgents, Stdio!OpenSession, Stdio!PublishNone,
       Stdio!OpenFails, Stdio!Listed, Stdio!PromptsListed, Stdio!Publish, Stdio!TeardownFails,
       Stdio!CallPublished, Stdio!PublishedReturns, Stdio!FlowStep, Stdio!PlannerStep, Stdio!MCPNext,
       OverStdio!agentVars, OverStdio!Closed, OverStdio!Set, OverStdio!Raised, OverStdio!Initialize,
       OverStdio!Connect, OverStdio!ConnectFails, OverStdio!PreloadTools, OverStdio!PreloadFails,
       OverStdio!PreloadPrompts, OverStdio!GetToolSelectionPrompt, OverStdio!InteractionCompleted,
       OverStdio!ChooseTool, OverStdio!Called, OverStdio!ProcessTool, OverStdio!ToolError,
       OverStdio!RejectOverflow, OverStdio!ToolResult, OverStdio!CallTool, OverStdio!ServerAsks,
       OverStdio!ElicitationCallback, OverStdio!SamplingCallback, OverStdio!CloseSession,
       OverStdio!AfterAttempt, OverStdio!AfterStdio, OverStdio!SaveContext, OverStdio!MultiQuestion,
       OverStdio!Become, OverStdio!Refreshed, OverStdio!PreloadRegisteredAgents, OverStdio!OpenSession,
       OverStdio!PublishNone, OverStdio!OpenFails, OverStdio!Listed, OverStdio!PromptsListed,
       OverStdio!Publish, OverStdio!TeardownFails, OverStdio!CallPublished, OverStdio!PublishedReturns,
       OverStdio!FlowStep, OverStdio!PlannerStep, OverStdio!MCPNext

\* In its part, MCQuestion behaves as the component: the MCP agent over standard input and output.
LEMMA StdioBehaves ==
  Spec => []~(part = "stdio") \/ ([](part = "stdio") /\ OverStdio!MCPSpec)
<1>1. Init /\ part = "stdio" => OverStdio!MCPInit
  BY ZenonT(60) DEF Init,
       Http!NewFlow, Http!NewPlanner, Http!MCPInit, OverStdio!NewFlow, OverStdio!NewPlanner,
       OverStdio!MCPInit
<1>2. [Next]_vars => /\ (part = "stdio")' <=> part = "stdio"
                     /\ part = "stdio" => [OverStdio!MCPNext]_(OverStdio!mcpVars)
  BY StepOfPart, StdioSteps, ZenonT(60) DEF mcpVars, OverStdio!mcpVars
<1> QED
  BY <1>1, <1>2, PTL DEF Spec, OverStdio!MCPSpec

\* And so the theorems about the component hold of its part.
LEMMA StdioHolds ==
  Spec => [](part = "stdio" =>
           /\ Http!ToldOfEveryCall
           /\ Http!PublishedCallsIsolated
           /\ Stdio!MCPTypeOK)
<1>1. /\ OverStdio!ToldOfEveryCall => Http!ToldOfEveryCall
      /\ OverStdio!PublishedCallsIsolated => Http!PublishedCallsIsolated
      /\ OverStdio!MCPTypeOK => Stdio!MCPTypeOK
  BY ZenonT(60) DEF
       Http!ToldOfEveryCall, OverStdio!ToldOfEveryCall, Http!PublishedCallsIsolated,
       OverStdio!PublishedCallsIsolated, Stdio!Owners, Stdio!AllPages, Stdio!MCPTypeOK, OverStdio!Owners,
       OverStdio!AllPages, OverStdio!MCPTypeOK
<1> QED
  BY <1>1, StdioBehaves, StdioBounds,
     OverStdio!ModelIsTold, OverStdio!PublishedIsolated, OverStdio!MCPTypes, PTL

-----------------------------------------------------------------------------
(* The MCP agent of several servers.                                       *)

AsMulti == INSTANCE Question_proofs WITH
  Uuids <- {"u1", "u2"}, Slugs <- {"s1", "s2"}, UuidSlugs <- {"s2"}, Callers <- {"c1", "c2"},
  NoResource <- "none", MaxOperations <- 4,
  Questions <- 1..4, Ephemeral <- FALSE, Sequential <- TRUE, PageSize <- 9, Limit <- 3, MaxEvictions <- 2,
  Sources <- {"s1", "s2"}, Resources <- Some, HasFallback <- FALSE, NoLabelset <- "none",
  Operations <- {"question", "advanced", "ask_agent", "ask_by_title", "search_images_by_title", "search_images",
                 "all_images_by_title", "facets_search", "facets_count", "catalog_search"},
  asked <- filters, contexts <- found,
  Artifacts <- {"a", "b", "step"}, MaxChunks <- 3, MaxQuestions <- 1,
  AgentQuestions <- {"q1"}, Codes <- 2, AgentRetries <- 2, MaxCallbacks <- 4,
  NodeIds <- {"Start", "A"}, Procedures <- {"t", "u"}, AvailableTools <- {"t"},
  InitialGraphs <- {[nodes |-> Nodes({"Start"}), edges |-> {}, acyclic |-> FALSE]},
  Rounds <- 3, MaxScore <- 1, MaxEdits <- 2, MemoryLimit <- 2, MaxChars <- 2, Sizes <- 1..2,
  Preprocess <- {"p"}, Context <- {"c1"}, Generation <- {"g"}, Postprocess <- {"e"},
  Fallback <- To("c1", "c3"), NextAgent <- To("c1", "c5"), ThenAgents <- Branch(<<>>), ElseAgents <- Branch(<<>>),
  Pruning <- {"c1"}, Retries <- 0, MaxFound <- 1, MaxSplit <- 2, NoAgent <- "no",
  context_questions <- asked, memory_contexts <- contexts,
  Agents <- {"a"}, Workflows <- {"w"}, Kinds <- {"preprocess"}, DriverIds <- {"d1"}, DriverNames <- {"n"},
  Fields <- {"url"}, Tasks <- {"t1", "t2"}, OneRequest <- TRUE, MaxRequests <- 5, MaxRows <- 3,
  Calls <- {"a", "b"}, Parameterless <- {"a"}, Decisions <- {"d"}, MaxIterations <- 2, MaxChosen <- 2,
  MaxRetries <- 2, NoSession <- "none",
  Mode <- "reactive", Parallel <- TRUE,
  Transport <- "multi", Pages <- 2, Prompts <- FALSE, Interactive <- TRUE, WorkChain <- FALSE,
  MaxTurns <- 1, MaxAtOnce <- 1

\* Its constants are within the bounds of the proofs.
LEMMA MultiBounds == AsMulti!MCPBounds
BY SMTT(60) DEF AsMulti!MCPBounds, Flows, Planners

\* A step of the MCP agent of several servers is the same step of the component.
LEMMA MultiSteps == Multi!MCPNext => AsMulti!MCPNext
BY ZenonT(120) DEF
       Multi!agentVars, Multi!Closed, Multi!Set, Multi!Raised, Multi!Initialize, Multi!Connect,
       Multi!ConnectFails, Multi!PreloadTools, Multi!PreloadFails, Multi!PreloadPrompts,
       Multi!GetToolSelectionPrompt, Multi!InteractionCompleted, Multi!ChooseTool, Multi!Called,
       Multi!ProcessTool, Multi!ToolError, Multi!RejectOverflow, Multi!ToolResult, Multi!CallTool,
       Multi!ServerAsks, Multi!ElicitationCallback, Multi!SamplingCallback, Multi!CloseSession,
       Multi!AfterAttempt, Multi!AfterStdio, Multi!SaveContext, Multi!MultiQuestion, Multi!Become,
       Multi!Refreshed, Multi!PreloadRegisteredAgents, Multi!OpenSession, Multi!PublishNone,
       Multi!OpenFails, Multi!Listed, Multi!PromptsListed, Multi!Publish, Multi!TeardownFails,
       Multi!CallPublished, Multi!PublishedReturns, Multi!FlowStep, Multi!PlannerStep, Multi!MCPNext,
       AsMulti!agentVars, AsMulti!Closed, AsMulti!Set, AsMulti!Raised, AsMulti!Initialize, AsMulti!Connect,
       AsMulti!ConnectFails, AsMulti!PreloadTools, AsMulti!PreloadFails, AsMulti!PreloadPrompts,
       AsMulti!GetToolSelectionPrompt, AsMulti!InteractionCompleted, AsMulti!ChooseTool, AsMulti!Called,
       AsMulti!ProcessTool, AsMulti!ToolError, AsMulti!RejectOverflow, AsMulti!ToolResult, AsMulti!CallTool,
       AsMulti!ServerAsks, AsMulti!ElicitationCallback, AsMulti!SamplingCallback, AsMulti!CloseSession,
       AsMulti!AfterAttempt, AsMulti!AfterStdio, AsMulti!SaveContext, AsMulti!MultiQuestion, AsMulti!Become,
       AsMulti!Refreshed, AsMulti!PreloadRegisteredAgents, AsMulti!OpenSession, AsMulti!PublishNone,
       AsMulti!OpenFails, AsMulti!Listed, AsMulti!PromptsListed, AsMulti!Publish, AsMulti!TeardownFails,
       AsMulti!CallPublished, AsMulti!PublishedReturns, AsMulti!FlowStep, AsMulti!PlannerStep,
       AsMulti!MCPNext

\* In its part, MCQuestion behaves as the component: the MCP agent of several servers.
LEMMA MultiBehaves ==
  Spec => []~(part = "multi") \/ ([](part = "multi") /\ AsMulti!MCPSpec)
<1>1. Init /\ part = "multi" => AsMulti!MCPInit
  BY ZenonT(60) DEF Init,
       Http!NewFlow, Http!NewPlanner, Http!MCPInit, AsMulti!NewFlow, AsMulti!NewPlanner, AsMulti!MCPInit
<1>2. [Next]_vars => /\ (part = "multi")' <=> part = "multi"
                     /\ part = "multi" => [AsMulti!MCPNext]_(AsMulti!mcpVars)
  BY StepOfPart, MultiSteps, ZenonT(60) DEF mcpVars, AsMulti!mcpVars
<1> QED
  BY <1>1, <1>2, PTL DEF Spec, AsMulti!MCPSpec

\* And so the theorems about the component hold of its part.
LEMMA MultiHolds ==
  Spec => [](part = "multi" =>
           /\ Http!ToldOfEveryCall
           /\ Http!PublishedCallsIsolated
           /\ Multi!MCPTypeOK)
<1>1. /\ AsMulti!ToldOfEveryCall => Http!ToldOfEveryCall
      /\ AsMulti!PublishedCallsIsolated => Http!PublishedCallsIsolated
      /\ AsMulti!MCPTypeOK => Multi!MCPTypeOK
  BY ZenonT(60) DEF
       Http!ToldOfEveryCall, AsMulti!ToldOfEveryCall, Http!PublishedCallsIsolated,
       AsMulti!PublishedCallsIsolated, Multi!Owners, Multi!AllPages, Multi!MCPTypeOK, AsMulti!Owners,
       AsMulti!AllPages, AsMulti!MCPTypeOK
<1> QED
  BY <1>1, MultiBehaves, MultiBounds,
     AsMulti!ModelIsTold, AsMulti!PublishedIsolated, AsMulti!MCPTypes, PTL

\* A question over HTTP completes one interaction, the model is told of each call
\* and published calls have sessions of their own (hyperforge_mcp/agent.py).
THEOREM MCPAnswers == Spec => []MCPCallsAnswered
<1>1. /\ part = "http" => Http!CompletedOnce /\ Http!ToldOfEveryCall /\ Http!PublishedCallsIsolated
      /\ part = "planned" => Http!CompletedOnce /\ Http!ToldOfEveryCall /\ Http!PublishedCallsIsolated
      /\ part = "stdio" => Http!ToldOfEveryCall /\ Http!PublishedCallsIsolated
      /\ part = "multi" => Http!ToldOfEveryCall /\ Http!PublishedCallsIsolated
      => MCPCallsAnswered
  BY ZenonT(60) DEF MCPCallsAnswered, InMCP
<1> QED
  BY <1>1, HttpHolds, PlannedHolds, StdioHolds, MultiHolds, PTL

\* The state of every part keeps its types.
THEOREM TypesKept == Spec => []TypesOK
<1> DEFINE Lasting == /\ part = "session" => Session!SessionStoreTypeOK
                      /\ part = "history" => History!QATypeOK
                      /\ part = "rounds" => Evolving!EvolutionTypeOK
                      /\ part = "store" => Store!AgentStoreTypeOK
                      /\ part = "graphs" => Graphs!EvolutionTypeOK
                      /\ part = "shared store" => SharedStore!AgentStoreTypeOK
           Calls   == /\ part = "http" => Http!MCPTypeOK
                      /\ part = "planned" => Planned!MCPTypeOK
                      /\ part = "stdio" => Stdio!MCPTypeOK
                      /\ part = "multi" => Multi!MCPTypeOK
           Agents  == /\ part = "reactive" => Reactive!SmartTypeOK
                      /\ part = "nucliadb" => NucliaDB!NdbTypeOK
                      /\ part = "restricted" => Restricted!RestrictedTypeOK
                      /\ part = "pipeline" => Pipeline!RetrievalTypeOK
                      /\ part = "planning" => Reactive!SmartTypeOK
                      /\ part = "restarts" => Restarting!RetrievalTypeOK
<1>1. Lasting /\ Calls /\ Agents => TypesOK
  BY ZenonT(60) DEF TypesOK, InSmart
<1>2. Spec => []Lasting
  BY SessionHolds, HistoryHolds, RoundsHolds, StoreHolds, GraphsHolds, SharedStoreHolds, PTL
<1>3. Spec => []Calls
  BY HttpHolds, PlannedHolds, StdioHolds, MultiHolds, PTL
<1>4. Spec => []Agents
  BY ReactiveHolds, NucliaDBHolds, RestrictedHolds, PipelineHolds, PlanningHolds, RestartingHolds, PTL
<1> HIDE DEF Lasting, Calls, Agents
<1> QED
  BY <1>1, <1>2, <1>3, <1>4, PTL
================================================================================
