------------------------------ MODULE MCPClient ------------------------------
(***************************************************************************)
(* An MCPAgent, one object for all the questions of a pipeline run.        *)
(* Flows are questions that the agent answers itself, in parallel: each    *)
(* connects to the server, loads its tools, and lets the model choose and  *)
(* call them.  Planners are the questions of a SmartAgent in which it is   *)
(* registered: they preload the agent to publish its tools, then call one. *)
(* The agent's session, tools and published functions are shared.          *)
(***************************************************************************)
EXTENDS Naturals, FiniteSets

CONSTANTS
  Flows, Planners,
  Transport,   \* "http", "stdio" or "multi" (a MultiMCPAgent)
  Pages,       \* of the server's list of tools
  Prompts,     \* expose_prompts_as_tools
  Interactive, \* config.interaction: the user is asked before a call
  WorkChain, MaxTurns,
  MaxRetries,  \* max_retries, 2
  MaxAtOnce,    \* bound: tools the model chooses at once
  NoSession

VARIABLES
  session,   \* self.session: whose it is
  open,      \* sessions that the server has open, by owner
  tools,     \* self.tools: the pages loaded
  driver_cm, \* driver_context_manager, which can be entered once
  published, \* __published_functions__
  preloaded, \* _mcp_preloaded
  available, \* available_functions of the RegisteredAgent
  flow,
  planner

mcpVars == <<session, open, tools, driver_cm, published, preloaded, available, flow, planner>>
agentVars == <<session, tools, driver_cm, published, preloaded, available>>

Owners == Flows \cup Planners
AllPages == 1..Pages
\* A question: its attempt, what it has loaded, and what this attempt has run,
\* has told the model, and still has to call; via is the session of its request.
NewFlow == [pc |-> "idle", attempt |-> 0, loaded |-> FALSE, page |-> 1, turn |-> 0, left |-> 0,
            ran |-> 0, told |-> 0, elicited |-> "none", via |-> NoSession, raised |-> FALSE, completed |-> 0]
NewPlanner == [pc |-> "idle", page |-> 1, via |-> NoSession]

MCPTypeOK ==
  /\ session \in Owners \cup {NoSession} /\ open \subseteq Owners
  /\ tools \subseteq AllPages /\ published \subseteq AllPages /\ available \subseteq AllPages
  /\ driver_cm \in {"none", "fresh", "used"} /\ preloaded \in BOOLEAN
  /\ \A f \in Flows : flow[f].via \in Owners \cup {NoSession} /\ flow[f].turn \in 0..MaxTurns
                      /\ flow[f].attempt \in 0..MaxRetries /\ flow[f].left \in 0..MaxAtOnce
  /\ \A p \in Planners : planner[p].via \in Owners \cup {NoSession} /\ planner[p].page \in 1..(Pages + 1)

MCPInit ==
  /\ session = NoSession /\ open = {} /\ tools = {} /\ driver_cm = "none"
  /\ published = {} /\ preloaded = FALSE /\ available = {}
  /\ flow = [f \in Flows |-> NewFlow] /\ planner = [p \in Planners |-> NewPlanner]

\* A request was made in session s and the server has closed it: it raises.
Closed(s) == s \notin open
Set(f, r) == flow' = [flow EXCEPT ![f] = r]
\* An exception of the attempt, which leaves the contexts of its session.
Raised(f) == [flow[f] EXCEPT !.pc = "leaving", !.raised = TRUE]

-----------------------------------------------------------------------------
(* A question: _get_question_context.                                      *)

\* The context manager of the process is made once, while there is no session.
Initialize(f) ==
  /\ flow[f].pc = "idle" /\ Transport # "multi"
  /\ driver_cm' = IF Transport = "stdio" /\ session = NoSession THEN "fresh" ELSE driver_cm
  /\ Set(f, [flow[f] EXCEPT !.pc = "connect"])
  /\ UNCHANGED <<session, open, tools, published, preloaded, available, planner>>

\* http_streaming_session_ctx: with the session, the first page is asked for.
Connect(f) ==
  /\ flow[f].pc = "connect" /\ (Transport = "stdio" => driver_cm = "fresh")
  /\ open' = open \cup {f} /\ session' = f
  /\ driver_cm' = IF Transport = "stdio" THEN "used" ELSE driver_cm
  /\ tools' = IF flow[f].loaded THEN tools ELSE {}
  /\ Set(f, [flow[f] EXCEPT !.pc = IF flow[f].loaded THEN "prompts" ELSE "list", !.page = 1, !.via = f, !.raised = FALSE])
  /\ UNCHANGED <<published, preloaded, available, planner>>
\* No server, a manager that has been entered before, a failed initialize().
ConnectFails(f) ==
  /\ flow[f].pc = "connect" /\ Set(f, Raised(f))
  /\ UNCHANGED <<agentVars, open, planner>>

\* preload_tools: every further page is asked for in the agent's session.
PreloadTools(f) ==
  /\ flow[f].pc = "list" /\ ~Closed(flow[f].via)
  /\ tools' = tools \cup {flow[f].page}
  /\ Set(f, IF flow[f].page = Pages THEN [flow[f] EXCEPT !.pc = "prompts", !.loaded = TRUE]
            ELSE IF session = NoSession THEN Raised(f)
            ELSE [flow[f] EXCEPT !.page = @ + 1, !.via = session])
  /\ UNCHANGED <<session, driver_cm, published, preloaded, available, open, planner>>
\* An error of the protocol leaves the question without tools; another ends the attempt.
PreloadFails(f) ==
  /\ flow[f].pc = "list"
  /\ \/ ~Closed(flow[f].via) /\ tools' = {} /\ Set(f, [flow[f] EXCEPT !.pc = "prompts"])
     \/ Closed(flow[f].via) /\ tools' = tools /\ Set(f, Raised(f))
  /\ UNCHANGED <<session, driver_cm, published, preloaded, available, open, planner>>

\* Prompts and resources, in the first attempt only.
PreloadPrompts(f) ==
  /\ flow[f].pc = "prompts"
  /\ Set(f, IF flow[f].attempt = 0 /\ session = NoSession THEN Raised(f)
            ELSE [flow[f] EXCEPT !.pc = IF Transport = "stdio" THEN "leaving" ELSE "prompt"])
  /\ UNCHANGED <<agentVars, open, planner>>

\* get_tool_selection_prompt: the user or the model chooses a prompt.
GetToolSelectionPrompt(f) ==
  /\ flow[f].pc = "prompt"
  /\ Set(f, IF session = NoSession THEN Raised(f)
            ELSE [flow[f] EXCEPT !.pc = "choose", !.turn = 0, !.ran = 0, !.told = 0])
  /\ UNCHANGED <<agentVars, open, planner>>

InteractionCompleted(r) == [r EXCEPT !.pc = "leaving", !.completed = @ + 1]
\* The model chooses tools; none ends the interaction, task_complete after them too.
ChooseTool(f) ==
  /\ flow[f].pc = "choose"
  /\ \/ Set(f, InteractionCompleted(flow[f]))
     \/ /\ tools # {}
        /\ \E n \in 1..MaxAtOnce, last \in IF flow[f].turn = 0 THEN {FALSE} ELSE BOOLEAN :
             Set(f, [flow[f] EXCEPT !.pc = "process", !.left = n, !.turn = IF last THEN MaxTurns ELSE @])
     \/ Set(f, Raised(f))
  /\ UNCHANGED <<agentVars, open, planner>>
\* Once the chosen tools have been called: another turn, or the end.
Called(r) ==
  IF r.left > 1 THEN [r EXCEPT !.left = @ - 1, !.pc = "process"]
  ELSE IF WorkChain /\ r.turn < MaxTurns THEN [r EXCEPT !.left = 0, !.turn = @ + 1, !.pc = "choose"]
  ELSE InteractionCompleted([r EXCEPT !.left = 0])

\* process_tool: a user who does not answer does not stop the call.
ProcessTool(f) ==
  /\ flow[f].pc = "process"
  /\ \/ Set(f, IF session = NoSession THEN Raised(f) ELSE [flow[f] EXCEPT !.pc = "calling", !.via = session])
     \/ Interactive /\ session # NoSession /\ Set(f, Called(flow[f]))
  /\ UNCHANGED <<agentVars, open, planner>>

\* Mutation of ToolError: a failed call is only put in the context.
ToolErrorUntold(r) == r
\* What the model is told: the result, or why there is none.
ToolError(r) == [r EXCEPT !.told = @ + 1]
RejectOverflow(r) == [r EXCEPT !.told = @ + 1]
ToolResult(r) == [r EXCEPT !.told = @ + 1]
CallTool(f) ==
  /\ flow[f].pc = "calling" /\ flow[f].elicited = "none"
  /\ LET ran == [flow[f] EXCEPT !.ran = @ + 1] IN
     IF Closed(flow[f].via) THEN Set(f, Raised(f))
     ELSE \/ Set(f, Called(ToolError(ran))) \/ Set(f, Called(RejectOverflow(ran))) \/ Set(f, Called(ToolResult(ran)))
          \/ Set(f, [Raised(f) EXCEPT !.ran = @ + 1]) \* the call, or reading a link of its result, fails
  /\ UNCHANGED <<agentVars, open, planner>>

\* While it runs, a tool asks the user, or the model.
ServerAsks(f) ==
  /\ flow[f].pc = "calling" /\ flow[f].elicited = "none" /\ ~Closed(flow[f].via)
  /\ \E e \in {"form", "url", "sampling"} : Set(f, [flow[f] EXCEPT !.elicited = e])
  /\ UNCHANGED <<agentVars, open, planner>>
ElicitationCallback(f) ==
  /\ flow[f].elicited \in {"form", "url"} /\ Set(f, [flow[f] EXCEPT !.elicited = "none"])
  /\ UNCHANGED <<agentVars, open, planner>>
SamplingCallback(f) ==
  /\ flow[f].elicited = "sampling" /\ Set(f, [flow[f] EXCEPT !.elicited = "none"])
  /\ UNCHANGED <<agentVars, open, planner>>

\* The contexts of the session are left, which may fail too: an interaction
\* that is complete is not run again, another one is, in a new session.
CloseSession(f) ==
  /\ flow[f].pc = "leaving" /\ open' = open \ {f}
  /\ Set(f, [flow[f] EXCEPT !.pc = "left"])
  /\ UNCHANGED <<agentVars, planner>>
\* Mutation of AfterAttempt: an error of the teardown is an error of the interaction.
AfterAttemptRetried(f) ==
  /\ flow[f].pc = "left" /\ session' = NoSession
  /\ \E teardown \in {"ok", "error"} :
       Set(f, IF flow[f].raised \/ teardown = "error"
                THEN IF flow[f].attempt + 1 = MaxRetries THEN [flow[f] EXCEPT !.pc = "failed"]
                     ELSE [flow[f] EXCEPT !.pc = "connect", !.attempt = @ + 1]
                ELSE [flow[f] EXCEPT !.pc = "save"])
  /\ UNCHANGED <<tools, driver_cm, published, preloaded, available, open, planner>>
AfterAttempt(f) ==
  /\ flow[f].pc = "left" /\ Transport = "http" /\ session' = NoSession
  /\ \E teardown \in {"ok", "error"} :
       Set(f, IF flow[f].raised
                THEN IF flow[f].attempt + 1 = MaxRetries THEN [flow[f] EXCEPT !.pc = "failed"]
                     ELSE [flow[f] EXCEPT !.pc = "connect", !.attempt = @ + 1]
                ELSE [flow[f] EXCEPT !.pc = "save"])
  /\ UNCHANGED <<tools, driver_cm, published, preloaded, available, open, planner>>
\* Over standard input and output there is no second attempt, and the agent
\* keeps the session it has left.
AfterStdio(f) ==
  /\ flow[f].pc = "left" /\ Transport = "stdio"
  /\ \E teardown \in {"ok", "error"} :
       Set(f, [flow[f] EXCEPT !.pc = IF flow[f].raised \/ teardown = "error" THEN "failed" ELSE "save"])
  /\ UNCHANGED <<agentVars, open, planner>>
SaveContext(f) ==
  /\ flow[f].pc = "save" /\ Set(f, [flow[f] EXCEPT !.pc = "done"])
  /\ UNCHANGED <<agentVars, open, planner>>

\* A MultiMCPAgent asks with its main agent, which no one connects.
MultiQuestion(f) ==
  /\ flow[f].pc = "idle" /\ Transport = "multi"
  /\ Set(f, [flow[f] EXCEPT !.pc = IF session = NoSession THEN "failed" ELSE "choose"])
  /\ UNCHANGED <<agentVars, open, planner>>
-----------------------------------------------------------------------------
(* A SmartAgent's question: the preload, and the calls of what it published. *)

Become(p, r) == planner' = [planner EXCEPT ![p] = r]
\* available_functions is refreshed when it is empty.
Refreshed(functions) == IF available = {} THEN functions ELSE available
PreloadRegisteredAgents(p) ==
  /\ planner[p].pc = "idle"
  /\ IF preloaded THEN Become(p, [planner[p] EXCEPT !.pc = "preloaded"]) /\ available' = Refreshed(published)
     ELSE Become(p, [planner[p] EXCEPT !.pc = "opening"]) /\ UNCHANGED available
  /\ UNCHANGED <<session, tools, driver_cm, published, preloaded, open, flow>>

\* _open_session, and the first page is asked for in what is now the agent's session.
OpenSession(p) ==
  /\ planner[p].pc = "opening"
  /\ open' = open \cup {p} /\ session' = p /\ tools' = {}
  /\ Become(p, [planner[p] EXCEPT !.pc = "listing", !.via = p, !.page = 1])
  /\ UNCHANGED <<driver_cm, published, preloaded, available, flow>>

\* Registered with no functions: the server cannot be reached, or the preload raised.
PublishNone(p) ==
  /\ published' = {} /\ preloaded' = TRUE /\ available' = Refreshed({})
  /\ open' = open \ {p} /\ Become(p, [planner[p] EXCEPT !.pc = "preloaded"])
OpenFails(p) ==
  /\ planner[p].pc = "opening" /\ PublishNone(p)
  /\ UNCHANGED <<session, tools, driver_cm, flow>>

\* A page arrives, or an error instead of it; then the next, the prompts, or the end.
Listed(p) ==
  /\ planner[p].pc = "listing"
  /\ IF Closed(planner[p].via)
       THEN PublishNone(p) /\ UNCHANGED <<session, tools>>
     ELSE \E refused \in BOOLEAN :
       LET last == refused \/ planner[p].page = Pages IN
       /\ tools' = IF refused THEN {} ELSE tools \cup {planner[p].page}
       /\ IF last /\ ~Prompts
            THEN /\ session' = NoSession /\ Become(p, [planner[p] EXCEPT !.pc = "closing"])
                 /\ UNCHANGED <<published, preloaded, available, open>>
          ELSE IF session = NoSession THEN PublishNone(p) /\ UNCHANGED session
          ELSE /\ Become(p, [planner[p] EXCEPT !.pc = IF last THEN "prompting" ELSE "listing",
                                              !.page = IF last THEN @ ELSE @ + 1, !.via = session])
               /\ UNCHANGED <<session, published, preloaded, available, open>>
  /\ UNCHANGED <<driver_cm, flow>>
PromptsListed(p) ==
  /\ planner[p].pc = "prompting"
  /\ IF Closed(planner[p].via) THEN PublishNone(p) /\ UNCHANGED session
     ELSE /\ session' = NoSession /\ Become(p, [planner[p] EXCEPT !.pc = "closing"])
          /\ UNCHANGED <<published, preloaded, available, open>>
  /\ UNCHANGED <<tools, driver_cm, flow>>

\* The session is closed, and the agent publishes the tools it has by then.
Publish(p) ==
  /\ planner[p].pc = "closing" /\ open' = open \ {p}
  /\ published' = tools /\ preloaded' = TRUE /\ available' = Refreshed(tools)
  /\ Become(p, [planner[p] EXCEPT !.pc = "preloaded"])
  /\ UNCHANGED <<session, tools, driver_cm, flow>>
TeardownFails(p) ==
  /\ planner[p].pc = "closing" /\ PublishNone(p)
  /\ UNCHANGED <<session, tools, driver_cm, flow>>

\* Mutation of CallPublished: the agent's session is preferred, when there is one.
CallPublishedShared(p) ==
  /\ planner[p].pc = "preloaded" /\ available # {}
  /\ open' = open \cup {p}
  /\ Become(p, [planner[p] EXCEPT !.pc = "calling", !.via = IF session = NoSession THEN p ELSE session])
  /\ UNCHANGED <<agentVars, flow>>
\* A published function is called in a session of its own.
CallPublished(p) ==
  /\ planner[p].pc = "preloaded" /\ available # {}
  /\ open' = open \cup {p} /\ Become(p, [planner[p] EXCEPT !.pc = "calling", !.via = p])
  /\ UNCHANGED <<agentVars, flow>>
\* Its context has the result, or nothing when the call fails.
PublishedReturns(p) ==
  /\ planner[p].pc = "calling" /\ open' = open \ {p}
  /\ Become(p, [planner[p] EXCEPT !.pc = "done"])
  /\ UNCHANGED <<agentVars, flow>>

FlowStep(f) ==
  \/ Initialize(f) \/ Connect(f) \/ ConnectFails(f) \/ PreloadTools(f) \/ PreloadFails(f) \/ PreloadPrompts(f)
  \/ GetToolSelectionPrompt(f) \/ ChooseTool(f) \/ ProcessTool(f) \/ CallTool(f)
  \/ ElicitationCallback(f) \/ SamplingCallback(f)
  \/ CloseSession(f) \/ AfterAttempt(f) \/ AfterStdio(f) \/ SaveContext(f) \/ MultiQuestion(f)
PlannerStep(p) ==
  \/ PreloadRegisteredAgents(p) \/ OpenSession(p) \/ OpenFails(p) \/ Listed(p) \/ PromptsListed(p)
  \/ Publish(p) \/ TeardownFails(p) \/ CallPublished(p) \/ PublishedReturns(p)
MCPNext == \/ \E f \in Flows : FlowStep(f) \/ ServerAsks(f)
        \/ \E p \in Planners : PlannerStep(p)
MCPSpec == MCPInit /\ [][MCPNext]_mcpVars

-----------------------------------------------------------------------------
\* A question that ends well has completed one interaction with the server, and
\* only one, whatever failed before it or when its session was left: a retry
\* comes after a failure, never after success (http; stdio starts none).
CompletedOnce == \A f \in Flows : flow[f].completed <= 1 /\ (flow[f].pc = "done" => flow[f].completed = 1)

\* When the model chooses again, it has been told of each call that ran for this
\* question: its result, its error, or that the result is too large.
ToldOfEveryCall == \A f \in Flows : flow[f].pc = "choose" => flow[f].told = flow[f].ran

\* "Each call opens its own MCP session so concurrent SmartAgent tool calls are
\* fully isolated" (_make_tool_caller): also from what preloads left behind.
PublishedCallsIsolated == \A p \in Planners : planner[p].pc = "calling" => planner[p].via = p /\ p \in open

\* "Runs once per instance; subsequent calls are no-ops" (preload): what has been
\* published is not published again.
PreloadIsOnce == [][preloaded => published' = published]_mcpVars
==============================================================================
