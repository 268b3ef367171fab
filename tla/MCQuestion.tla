------------------------------ MODULE MCQuestion ------------------------------
(***************************************************************************)
(* What a question goes through, for TLC: the session it is asked in and   *)
(* its history, the pipeline of agents, the agents that call an MCP        *)
(* server, choose among functions, run a program of the administrator's,   *)
(* ask NucliaDB or a remote agent, the citations of the answer, and what   *)
(* lasts longer: the store of the configuration and the graphs a procedure *)
(* evolves through.  Each is explored by itself: a behavior is one of a    *)
(* single part, chosen at the beginning, and the variables of the others   *)
(* keep their initial values.                                              *)
(***************************************************************************)
EXTENDS Naturals, Sequences, FiniteSets

CONSTANT Parts

VARIABLES
  part,
  resources, used, caller, calls,
  asker, page, pages, read, stored, cache, evictions,
  stage, restart, restarts, asked, task, flows, contexts, answers, final,
  sources, body, notes,
  config, workflow, rows, drivers, prompts, creds, file, todo, got, requests, ids,
  session, open, tools, driver_cm, published, preloaded, available, flow, planner,
  at, iteration, turn, attempted, resolved, chosen, executing, queue, outcome, answered, decided, unseen,
  output, flow_id, cases, question, code, saved,
  driver, known, operation, filters, labels, branch, found, missing, result,
  remote, agent, gathered, asks,
  pc, round, retained, candidate, verdict, rejections, told, graphs, baseline, rounds, rejected, current

-----------------------------------------------------------------------------
(* The session, its history, the citations.                                *)

Session == INSTANCE SessionStore WITH
  Uuids <- {"u1", "u2"}, Slugs <- {"s1", "s2"}, UuidSlugs <- {"s2"}, Callers <- {"c1", "c2"},
  NoResource <- "none", MaxOperations <- 4
sessVars == <<resources, used, caller, calls>>

History == INSTANCE QAHistory WITH
  Questions <- 1..4, Ephemeral <- FALSE, Sequential <- TRUE, PageSize <- 9, Limit <- 3, MaxEvictions <- 2
qaVars == <<asker, page, pages, read, stored, cache, evictions>>

Cited == INSTANCE Citations WITH Blocks <- 2, MaxContexts <- 2, MaxChunks <- 2, MaxNotes <- 2
citedVars == <<sources, body, notes>>

(* The pipeline: once, with a rephrased question, a fallback and a next    *)
(* agent; then with a restart, a conditional agent and several answers.    *)

Kind == [p |-> "rephrase", i |-> "historical", c1 |-> "static", c2 |-> "source", c3 |-> "static",
         c4 |-> "conditional", c5 |-> "google", g |-> "summarize", h |-> "passthrough",
         r |-> "restart", e |-> "remi"]
To(from, to) == [x \in DOMAIN Kind |-> IF x = from THEN to ELSE "no"]
Branch(agents) == [x \in DOMAIN Kind |-> agents]
Pipeline == INSTANCE Retrieval WITH
  Preprocess <- {"p"}, Context <- {"c1"}, Generation <- {"g"}, Postprocess <- {"e"},
  Fallback <- To("c1", "c3"), NextAgent <- To("c1", "c5"), Then <- Branch(<<>>), Else <- Branch(<<>>),
  Pruning <- {"c1"}, Retries <- 0, MaxFound <- 1, MaxSplit <- 2, NoAgent <- "no"
Restarting == INSTANCE Retrieval WITH
  Preprocess <- {"i"}, Context <- {"c4"}, Generation <- {"g", "h"}, Postprocess <- {"r", "e"},
  Fallback <- To("c4", "c3"), NextAgent <- To("none", "no"), Then <- Branch(<<"c2">>), Else <- Branch(<<>>),
  Pruning <- {"c2"}, Retries <- 1, MaxFound <- 1, MaxSplit <- 2, NoAgent <- "no"
retrievalVars == <<stage, restart, restarts, asked, task, flows, contexts, answers, final>>

(* The store: one request at a time, with every table; two at a time.      *)

Store == INSTANCE AgentStore WITH
  Agents <- {"a"}, Workflows <- {"w"}, Kinds <- {"preprocess"}, DriverIds <- {"d1"}, DriverNames <- {"n"},
  Fields <- {"url"}, Tasks <- {"t1", "t2"}, Sequential <- TRUE, MaxRequests <- 5, MaxRows <- 3
SharedStore == INSTANCE AgentStore WITH
  Agents <- {"a"}, Workflows <- {"w"}, Kinds <- {}, DriverIds <- {}, DriverNames <- {"n"},
  Fields <- {"url"}, Tasks <- {"t1", "t2"}, Sequential <- FALSE, MaxRequests <- 4, MaxRows <- 0
storeVars == <<config, workflow, rows, drivers, prompts, creds, file, todo, got, requests, ids>>

(* The MCP agent: two questions at a time over HTTP; a question and the    *)
(* calls of a planner; one of its other transports.                        *)

Flows == {"f1", "f2"}
Planners == {"p1"}
Http == INSTANCE MCPClient WITH
  Transport <- "http", Pages <- 1, Prompts <- FALSE, Interactive <- TRUE, WorkChain <- TRUE,
  MaxTurns <- 1, MaxRetries <- 2, MaxAtOnce <- 1, NoSession <- "none"
Planned == INSTANCE MCPClient WITH
  Transport <- "http", Pages <- 2, Prompts <- TRUE, Interactive <- FALSE, WorkChain <- FALSE,
  MaxTurns <- 1, MaxRetries <- 2, MaxAtOnce <- 2, NoSession <- "none"
Stdio == INSTANCE MCPClient WITH
  Transport <- "stdio", Pages <- 2, Prompts <- TRUE, Interactive <- TRUE, WorkChain <- TRUE,
  MaxTurns <- 2, MaxRetries <- 2, MaxAtOnce <- 2, NoSession <- "none"
Multi == INSTANCE MCPClient WITH
  Transport <- "multi", Pages <- 2, Prompts <- FALSE, Interactive <- TRUE, WorkChain <- FALSE,
  MaxTurns <- 1, MaxRetries <- 2, MaxAtOnce <- 1, NoSession <- "none"
mcpVars == <<session, open, tools, driver_cm, published, preloaded, available, flow, planner>>

(* The smart agent, in its two modes; the restricted agent; NucliaDB; A2A.  *)

Reactive == INSTANCE SmartAgent WITH
  Calls <- {"a", "b"}, Parameterless <- {"a"}, Decisions <- {"d"}, Mode <- "reactive", Parallel <- TRUE,
  MaxIterations <- 2, MaxChosen <- 2
Planning == INSTANCE SmartAgent WITH
  Calls <- {"a", "b"}, Parameterless <- {"a"}, Decisions <- {"d"}, Mode <- "plan_execute", Parallel <- FALSE,
  MaxIterations <- 2, MaxChosen <- 2
smartVars == <<at, iteration, turn, attempted, resolved, chosen, executing, queue, outcome, answered, decided, unseen>>

Restricted == INSTANCE RestrictedAgent WITH
  Questions <- {"q1"}, Codes <- 2, MaxRetries <- 2, MaxCallbacks <- 4
restrictedVars == <<output, flow_id, cases, question, code, saved>>

Some == {"r1", "r2"}
Configs == [filters : {{"r1"}}, parsed : BOOLEAN, expression : {{"r2"}, Some}, operator : {"and", "or"},
            catalog : {Some}]
\* The first topic and the second language are of one resource each; a label
\* without a labelset comes first or in between; two labelsets have several.
Label(labelset, of) == [labelset |-> labelset, of |-> of]
Topic == Label("topic", {"r1"})
NoTopic == Label("topic", {})
Invalid == Label("none", {})
LabelCalls ==
  {<<>>, <<Topic>>, <<Invalid, Topic>>, <<Topic, Invalid, Label("lang", {"r2"})>>,
   <<Topic, NoTopic, Label("lang", {"r1"}), Label("lang", {"r2"})>>}
NucliaDB == INSTANCE NucliaDBAsk WITH
  Sources <- {"s1", "s2"}, Resources <- Some, HasFallback <- FALSE, NoLabelset <- "none",
  Operations <- {"question", "advanced", "ask_agent", "ask_by_title", "search_images_by_title", "search_images",
                 "all_images_by_title", "facets_search", "facets_count", "catalog_search"},
  asked <- filters, contexts <- found
ndbVars == <<driver, known, operation, filters, labels, branch, found, missing, result>>

Remote == INSTANCE A2AClient WITH Artifacts <- {"a", "b", "step"}, MaxChunks <- 3, MaxQuestions <- 1
remoteVars == <<remote, agent, gathered, asks>>

(* The evolution of a graph: three rounds of two nodes, then one round     *)
(* that starts from one of several graphs of three.                        *)

Nodes(names) == [n \in names |-> IF n = "A" THEN "t" ELSE "no tool"]
Straight(acyclic) ==
  [nodes |-> Nodes({"Start", "A", "B"}), edges |-> {<<"Start", "A">>, <<"A", "B">>}, acyclic |-> acyclic]
Looping == [Straight(FALSE) EXCEPT !.edges = @ \cup {<<"A", "Start">>}]
Evolving == INSTANCE Evolution WITH
  Ids <- {"Start", "A"}, Procedures <- {"t", "u"}, AvailableTools <- {"t"},
  InitialGraphs <- {[nodes |-> Nodes({"Start"}), edges |-> {}, acyclic |-> FALSE]},
  Rounds <- 3, MaxScore <- 1, MaxEdits <- 2, MemoryLimit <- 2, MaxChars <- 2, Sizes <- 1..2
Graphs == INSTANCE Evolution WITH
  Ids <- {"Start", "A", "B"}, Procedures <- {"t", "u"}, AvailableTools <- {"t"},
  InitialGraphs <- {Straight(TRUE), Straight(FALSE), Looping},
  Rounds <- 1, MaxScore <- 1, MaxEdits <- 2, MemoryLimit <- 0, MaxChars <- 1, Sizes <- {1}
evolutionVars ==
  <<pc, round, retained, candidate, verdict, rejections, told, graphs, baseline, rounds, rejected, current>>

-----------------------------------------------------------------------------
InPipeline == part \in {"pipeline", "restarts"}
InStore == part \in {"store", "shared store"}
InMCP == part \in {"http", "planned", "stdio", "multi"}
InSmart == part \in {"reactive", "planning"}
InEvolution == part \in {"rounds", "graphs"}

Unused(S) == CHOOSE x \in S : TRUE
Init ==
  /\ part \in Parts
  /\ Session!SessionStoreInit /\ History!QAInit /\ Http!MCPInit /\ Restricted!Init
  /\ IF part = "citations" THEN Cited!Init ELSE sources = <<>> /\ body = <<>> /\ notes = <<>>
  /\ IF part = "restarts" THEN Restarting!Init ELSE Pipeline!Init
  /\ Store!Init /\ (InStore \/ workflow["a"]["w"].state = "none")
  /\ IF part = "planning" THEN Planning!SmartInit ELSE Reactive!SmartInit
  /\ IF part = "remote" THEN Remote!A2AInit ELSE remote = <<>> /\ agent = "none" /\ gathered = <<>> /\ asks = 0
  /\ IF part = "graphs" THEN Graphs!Init ELSE Evolving!Init
  /\ IF part = "nucliadb" THEN NucliaDB!NdbInit
     ELSE /\ driver = "none" /\ known = {} /\ operation = "none" /\ filters = {} /\ labels = <<>>
          /\ branch = "none" /\ found = {} /\ missing = {} /\ result = "none"

\* Only the part that is explored changes.
Elsewhere ==
  /\ UNCHANGED <<part, citedVars>>
  /\ part # "session" => UNCHANGED sessVars
  /\ part # "history" => UNCHANGED qaVars
  /\ ~InPipeline => UNCHANGED retrievalVars
  /\ ~InStore => UNCHANGED storeVars
  /\ ~InMCP => UNCHANGED mcpVars
  /\ ~InSmart => UNCHANGED smartVars
  /\ part # "restricted" => UNCHANGED restrictedVars
  /\ part # "nucliadb" => UNCHANGED ndbVars
  /\ part # "remote" => UNCHANGED remoteVars
  /\ ~InEvolution => UNCHANGED evolutionVars

SessionNext == part = "session" /\ Session!SessionStoreNext /\ Elsewhere
HistoryNext == part = "history" /\ History!QANext /\ Elsewhere
PipelineNext == part = "pipeline" /\ Pipeline!Next /\ Elsewhere
RestartingNext == part = "restarts" /\ Restarting!Next /\ Elsewhere
StoreNext == part = "store" /\ Store!Next /\ todo'["t2"] = <<>> /\ Elsewhere
SharedStoreNext == part = "shared store" /\ SharedStore!Next /\ Elsewhere
HttpNext == part = "http" /\ Http!MCPNext /\ planner' = planner /\ Elsewhere
OneFlow == flow'["f2"] = flow["f2"]
PlannedNext == part = "planned" /\ Planned!MCPNext /\ OneFlow /\ Elsewhere
StdioNext == part = "stdio" /\ Stdio!MCPNext /\ OneFlow /\ planner' = planner /\ Elsewhere
MultiNext == part = "multi" /\ Multi!MCPNext /\ OneFlow /\ Elsewhere
ReactiveNext == part = "reactive" /\ Reactive!SmartStep /\ Elsewhere
PlanningNext == part = "planning" /\ Planning!SmartStep /\ Elsewhere
RestrictedNext == part = "restricted" /\ Restricted!Next /\ Elsewhere
NucliaDBNext == part = "nucliadb" /\ NucliaDB!NdbStep /\ Elsewhere
RemoteNext == part = "remote" /\ Remote!A2ANext /\ Elsewhere
EvolvingNext == part = "rounds" /\ Evolving!Next /\ Elsewhere
GraphsNext == part = "graphs" /\ Graphs!Next /\ Elsewhere

Next ==
  \/ SessionNext \/ HistoryNext \/ PipelineNext \/ RestartingNext \/ StoreNext \/ SharedStoreNext
  \/ HttpNext \/ PlannedNext \/ StdioNext \/ MultiNext \/ ReactiveNext \/ PlanningNext
  \/ RestrictedNext \/ NucliaDBNext \/ RemoteNext \/ EvolvingNext \/ GraphsNext

vars == <<part, sessVars, qaVars, citedVars, retrievalVars, storeVars, mcpVars, smartVars, restrictedVars, ndbVars,
          remoteVars, evolutionVars>>

\* The agents of a pipeline run when they can.
Spec ==
  /\ Init /\ [][Next]_vars
  /\ WF_retrievalVars(part = "pipeline" /\ Pipeline!Step)
  /\ WF_retrievalVars(part = "restarts" /\ Restarting!Step)

-----------------------------------------------------------------------------
\* The state of every part keeps its types.
TypesOK ==
  /\ part = "session" => Session!SessionStoreTypeOK
  /\ part = "history" => History!QATypeOK
  /\ part = "pipeline" => Pipeline!RetrievalTypeOK
  /\ part = "restarts" => Restarting!RetrievalTypeOK
  /\ part = "store" => Store!AgentStoreTypeOK
  /\ part = "shared store" => SharedStore!AgentStoreTypeOK
  /\ part = "http" => Http!MCPTypeOK
  /\ part = "planned" => Planned!MCPTypeOK
  /\ part = "stdio" => Stdio!MCPTypeOK
  /\ part = "multi" => Multi!MCPTypeOK
  /\ InSmart => Reactive!SmartTypeOK
  /\ part = "restricted" => Restricted!RestrictedTypeOK
  /\ part = "nucliadb" => NucliaDB!NdbTypeOK
  /\ part = "rounds" => Evolving!EvolutionTypeOK
  /\ part = "graphs" => Graphs!EvolutionTypeOK

\* A question is asked in the one session its client named (api/session.py),
\* with the newest questions of that session, in order and each once, as its
\* history (memory/memory.py, server/cache.py).
AskedInItsSession ==
  /\ part = "session" => Session!EffectiveIsNamed /\ Session!OneSessionPerName
  /\ part = "history" => History!HistoryIsASuffix

\* An agent is handed the contexts of its own chain, what is saved has content,
\* the answer is made from all of it, and an error stands (retrieval/agent.py);
\* what a remote agent answers is handed on whole and once (hyperforge_a2a).
AnswerIsFromItsContexts ==
  /\ part = "remote" => Remote!AnswerIsTheTasks
  /\ part = "pipeline" =>
       Pipeline!NextSeesOwnFlow /\ Pipeline!SavedContextsHaveContent /\ Pipeline!AnswerSeesEveryContext /\ Pipeline!ErrorStands
  /\ part = "restarts" =>
       Restarting!NextSeesOwnFlow /\ Restarting!SavedContextsHaveContent /\ Restarting!AnswerSeesEveryContext /\ Restarting!ErrorStands

\* A pipeline ends, whatever fails and however often it starts again.
PipelineEnds == InPipeline => Pipeline!PipelineEnds

\* What is handed on is kept whole: an import gives an agent what the export took
\* from it (db/agents.py); a citation of the answer, however its blocks are
\* numbered, leads to the chunk of the context it was made from (context/agent.py,
\* hyperforge_summarize); a refiner is told of every recent rejection there is room
\* for (procedural/evolution.py), and a walk is shown all that is near (graph.py).
KeptWhole ==
  /\ [](part = "store" => Store!ImportRestoresExport)
  /\ [](part = "citations" => Cited!ExpansionKeepsUrls /\ Cited!CitationLeadsToItsContext)
  /\ [](part = "rounds" => Evolving!RefinerIsTold)
  /\ [](part = "graphs" => Graphs!NeighborhoodIsWithinHops)

\* What was settled is not undone: a resolved answer of the restricted agent is
\* not replaced (hyperforge_restricted) as long as it has one question at a time,
\* since a second one begins with a new output, which they share (agent.py:419);
\* a retained graph gives way only to one that is sound, on record and no worse
\* (procedural/evolution.py, graph.py), a purge takes only what was deleted,
\* however old its list is, and the default workflow of an agent stays as long as
\* the agent does (db/agents.py).
SettledStays ==
  /\ Restricted!ResolvedSticks
  /\ Evolving!NeverWorse
  /\ [](part = "rounds" => Evolving!RetainedIsRecorded)
  /\ [](part = "graphs" => Graphs!GraphsAreSound /\ Graphs!RetainedIsRecorded)
  /\ Store!PurgeOnlyDeleted /\ Store!DefaultStays

\* A question over HTTP completes one interaction with the MCP server whatever
\* is retried, the model is told of every call that ran, and a published
\* function is called in a session of its own (hyperforge_mcp/agent.py).
MCPCallsAnswered ==
  /\ part \in {"http", "planned"} => Http!CompletedOnce
  /\ InMCP => Http!ToldOfEveryCall /\ Http!PublishedCallsIsolated

\* The user is asked each decision once, the model is given an outcome of every
\* function it called and of every user_feedback with a question (one without is
\* dropped), and an answer of the user is used (hyperforge_smart/agent.py).
SmartTurns ==
  /\ InSmart => Reactive!DecisionAskedOnce /\ Reactive!EveryCallAnswered
  /\ part = "reactive" => Reactive!FeedbackIsUsed
  /\ part = "planning" => Planning!FeedbackIsUsed

\* What ask_agent and the questions about a title retrieve is within the filters
\* of the configuration and of the call, and the fallback answers only when no
\* source does (hyperforge_nucliadb).
NucliaDBAsked == part = "nucliadb" => NucliaDB!MergedFilters /\ NucliaDB!FallbackIfAllFailed
================================================================================
