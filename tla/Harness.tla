------------------------------ MODULE Harness ------------------------------
(***************************************************************************)
(* A root AgentHarness: its turns, the children its tools spawn, wait for  *)
(* and stop, the messages it keeps in memory and the ones its event log    *)
(* lets another process load, and interrupt(), steer() and the consumer of *)
(* run() acting on it meanwhile.                                           *)
(*                                                                         *)
(* pc names what the turn's task awaits: an append_event, the model, its   *)
(* tools, its children.  Code between two awaits is one step.  Every       *)
(* message is put in memory before its event is appended, so an append cut *)
(* short by a cancellation leaves it in memory and perhaps not in the log. *)
(***************************************************************************)
EXTENDS Naturals, Sequences, FiniteSets

CONSTANTS
  Kids,            \* ids of child agents, each used once
  NoKid,
  Slots,           \* the tool calls a model request may make at once
  MaxAgents,       \* usage_limits.max_concurrent_agents
  MaxModelCalls,   \* usage_limits.max_turns
  MaxEmptyRetries, \* MAX_EMPTY_RETRIES
  MaxTurns,        \* bound: calls of run()
  MaxSteers,       \* bound: calls of steer()
  MaxInterrupts,   \* bound: calls of interrupt() for a turn
  MaxReloads       \* bound: times the process is lost and the log loaded

ASSUME HarnessBounds ==
  /\ IsFiniteSet(Kids) /\ NoKid \notin Kids
  /\ MaxAgents \in Nat \ {0}
  /\ MaxModelCalls \in Nat \ {0} /\ MaxEmptyRetries \in Nat
  /\ MaxTurns \in Nat /\ MaxSteers \in Nat /\ MaxInterrupts \in Nat /\ MaxReloads \in Nat

VARIABLES
  \* the turn
  pc,          \* what its task awaits
  after,       \* what follows once the children have stopped
  outcome,     \* how the last turn ended
  loop,        \* TurnLoopState
  calls,       \* usage.turns
  tools,       \* the tool calls of the current exchange
  turns,
  \* interruption
  interrupted, \* _interrupted
  cancelling,  \* task.cancelling(), 2 standing for more than one
  cancelDue,   \* a CancelledError will be thrown into the turn's task
  abandoned,   \* the consumer of run() went away during the turn
  interrupts,
  \* history
  memory,      \* messages
  log,         \* the messages of its events, in order
  reloads,
  \* steering
  inbox,       \* inbox
  steer,       \* what has become of each call of steer()
  noted,       \* the messages the log held when its INBOX_ADDED was appended
  \* children
  kid,         \* each child's task
  stopping,    \* children that have been interrupted or cancelled
  children,    \* _child_agents.children
  active       \* _child_agents.active_agent_ids

turnVars == <<pc, after, outcome, loop, calls, tools, turns>>
cancelVars == <<interrupted, cancelling, cancelDue, abandoned, interrupts>>
historyVars == <<memory, log, reloads>>
steerVars == <<inbox, steer, noted>>
kidVars == <<kid, stopping, children, active>>
vars == <<turnVars, cancelVars, historyVars, steerVars, kidVars>>

Steers == 1..MaxSteers
\* pc while the task awaits the append_event of a message it has put in memory
Saving == {"prompt", "inbox", "exchange", "retry", "answer"}
PCs == Saving \cup {"idle", "start", "model", "tools", "draining", "completed",
                    "failed", "flagged", "children", "handled", "over"}
Outcomes == {"none", "completed", "failed", "interrupted", "cancelled"}

Message == [kind : Saving \cup {"calls", "outputs"}, id : Nat, items : SUBSET Steers]

FreshLoop == [pending |-> FALSE, post |-> 0, empty |-> 0]
Over == [does |-> "over", kid |-> NoKid]
NoTools == [s \in Slots |-> Over]
Waited == {k \in Kids : \E s \in Slots : tools[s] = [does |-> "wait", kid |-> k]}

Alive(k) == kid[k] \in {"spawned", "working"}
AliveKids == {k \in Kids : Alive(k)}

Init ==
  /\ pc = "idle" /\ after = "completed" /\ outcome = "none"
  /\ loop = FreshLoop /\ calls = 0 /\ tools = NoTools /\ turns = 0
  /\ interrupted = FALSE /\ cancelling = 0 /\ cancelDue = FALSE
  /\ abandoned = FALSE /\ interrupts = 0
  /\ memory = <<>> /\ log = <<>> /\ reloads = 0
  /\ inbox = <<>> /\ steer = [i \in Steers |-> "none"]
  /\ noted = [i \in Steers |-> 0]
  /\ kid = [k \in Kids |-> "free"] /\ stopping = {} /\ children = {} /\ active = {}

-----------------------------------------------------------------------------
(* History.                                                                *)

NextId == IF memory = <<>> THEN 1 ELSE memory[Len(memory)].id + 1
NewMessage(kind, items) == [kind |-> kind, id |-> NextId, items |-> items]
Say(kind) == memory' = Append(memory, NewMessage(kind, {}))

\* The messages the append_event in progress puts in the log, in one event.
Unsaved ==
  CASE pc \in Saving \ {"exchange"} -> <<memory[Len(memory)]>>
    [] pc = "exchange" -> SubSeq(memory, Len(memory) - 1, Len(memory))
    [] OTHER -> <<>>
Persist == log' = log \o Unsaved

\* The calls of a history that lack their outputs, and the history without
\* them.
Unanswered(messages) ==
  {a \in 1..Len(messages) :
     /\ messages[a].kind = "calls"
     /\ \A b \in 1..Len(messages) :
          ~(messages[b].kind = "outputs" /\ messages[b].id = messages[a].id + 1)}
WithoutCalls(messages, ids) ==
  SelectSeq(messages, LAMBDA m : m.kind = "calls" => m.id \notin ids)

\* _complete_tool_history: calls that lack their outputs are dropped.
Complete(messages) ==
  IF Unanswered(messages) = {} THEN messages
  ELSE WithoutCalls(messages, {messages[a].id : a \in Unanswered(messages)})

\* load(): the messages another process rebuilds from the log.
Replay == Complete(log)

-----------------------------------------------------------------------------
(* Children.                                                               *)

\* ChildAgentManager.interrupt: every child is interrupted and cancelled.
InterruptChildren == stopping' = stopping \cup {k \in children : Alive(k)}

\* Mutation of StopChildren: waits for the children without interrupting them.
AwaitChildren(next) ==
  /\ pc' = "children" /\ after' = next
  /\ UNCHANGED stopping

\* ChildAgentManager.stop up to its gather; `next` is where the turn goes on.
StopChildren(next) ==
  /\ pc' = "children" /\ after' = next
  /\ InterruptChildren

\* The rest of stop().
ChildrenStopped ==
  /\ pc = "children" /\ ~cancelDue
  /\ \A k \in children : ~Alive(k)
  /\ children' = {}
  /\ IF after \in {"completed", "failed"}
     THEN pc' = "over" /\ outcome' = after
     ELSE pc' = after /\ UNCHANGED outcome
  /\ UNCHANGED <<after, loop, calls, tools, turns, cancelVars, historyVars, steerVars,
                 kid, stopping, active>>

\* A child's task begins, ends by itself or because it is stopped, and its done
\* callback runs.
KidStarts(k) ==
  /\ kid[k] = "spawned" /\ kid' = [kid EXCEPT ![k] = "working"]
  /\ UNCHANGED <<turnVars, cancelVars, historyVars, steerVars, stopping, children, active>>

KidEnds(k) ==
  /\ kid[k] = "working" \/ (kid[k] = "spawned" /\ k \in stopping)
  /\ kid' = [kid EXCEPT ![k] = "ended"] /\ stopping' = stopping \ {k}
  /\ UNCHANGED <<turnVars, cancelVars, historyVars, steerVars, children, active>>

KidReaped(k) ==
  /\ kid[k] = "ended" /\ k \in active
  /\ active' = active \ {k}
  /\ UNCHANGED <<turnVars, cancelVars, historyVars, steerVars, kid, stopping, children>>

-----------------------------------------------------------------------------
(* Tool calls, which run concurrently.                                     *)

Running(s, does) == pc = "tools" /\ ~cancelDue /\ tools[s].does = does
Becomes(s, tool) == tools' = [tools EXCEPT ![s] = tool]

PlainTool(s) ==
  /\ Running(s, "plain") /\ Becomes(s, Over)
  /\ UNCHANGED <<pc, after, outcome, loop, calls, turns, cancelVars, historyVars, steerVars, kidVars>>

\* Mutation of SpawnTool: the root is left out of the count.
SpawnToolUnderMax(s) ==
  /\ Running(s, "spawn")
  /\ \/ /\ Cardinality(active) < MaxAgents
        /\ \E k \in Kids :
             /\ kid[k] = "free"
             /\ kid' = [kid EXCEPT ![k] = "spawned"]
             /\ children' = children \cup {k} /\ active' = active \cup {k}
             /\ Becomes(s, [does |-> "starting", kid |-> k])
     \/ /\ Becomes(s, Over)
        /\ Cardinality(active) >= MaxAgents \/ \A k \in Kids : kid[k] # "free"
        /\ UNCHANGED <<kid, children, active>>
  /\ UNCHANGED <<pc, after, outcome, loop, calls, turns, cancelVars, historyVars, steerVars, stopping>>

\* spawn(): refused at the limit (or once Kids are used up, which stands for
\* any error), else the child's task is created.
SpawnTool(s) ==
  /\ Running(s, "spawn")
  /\ \/ /\ Cardinality(active) < MaxAgents - 1
        /\ \E k \in Kids :
             /\ kid[k] = "free"
             /\ kid' = [kid EXCEPT ![k] = "spawned"]
             /\ children' = children \cup {k} /\ active' = active \cup {k}
             /\ Becomes(s, [does |-> "starting", kid |-> k])
     \/ /\ Becomes(s, Over)
        /\ Cardinality(active) >= MaxAgents - 1 \/ \A k \in Kids : kid[k] # "free"
        /\ UNCHANGED <<kid, children, active>>
  /\ UNCHANGED <<pc, after, outcome, loop, calls, turns, cancelVars, historyVars, steerVars, stopping>>

\* spawn() after _wait_until_started.
SpawnedTool(s) ==
  /\ Running(s, "starting") /\ kid[tools[s].kid] # "spawned"
  /\ Becomes(s, Over)
  /\ UNCHANGED <<pc, after, outcome, loop, calls, turns, cancelVars, historyVars, steerVars, kidVars>>

\* wait() once the child has ended.
WaitTool(s) ==
  /\ Running(s, "wait") /\ kid[tools[s].kid] = "ended"
  /\ active' = active \ {tools[s].kid} /\ children' = children \ {tools[s].kid}
  /\ Becomes(s, Over)
  /\ UNCHANGED <<pc, after, outcome, loop, calls, turns, cancelVars, historyVars, steerVars, kid, stopping>>

-----------------------------------------------------------------------------
(* The turn.                                                               *)

\* run() and _run up to the append of TURN_STARTED.
RunStarts ==
  /\ pc = "idle" /\ turns < MaxTurns
  /\ pc' = "start" /\ turns' = turns + 1 /\ outcome' = "none"
  /\ abandoned' = FALSE
  /\ UNCHANGED <<after, loop, calls, tools, interrupted, cancelling, cancelDue, interrupts,
                 historyVars, steerVars, kidVars>>

TurnStarted ==
  /\ pc = "start" /\ ~cancelDue
  /\ pc' = "prompt" /\ Say("prompt")
  /\ UNCHANGED <<after, outcome, loop, calls, tools, turns, cancelVars, log, reloads, steerVars, kidVars>>

\* llm(), whose call may be one too many.
CallModel ==
  /\ pc' = IF calls < MaxModelCalls THEN "model" ELSE "failed"
  /\ calls' = calls + 1

\* The top of the loop: _consume_inbox, which appends what it finds, or llm().
NextRound ==
  IF inbox # <<>>
  THEN /\ memory' = Append(memory, NewMessage("inbox", {inbox[j] : j \in 1..Len(inbox)}))
       /\ inbox' = <<>> /\ pc' = "inbox"
       /\ UNCHANGED calls
  ELSE CallModel /\ UNCHANGED <<memory, inbox>>

\* The prompt is saved; an interrupt() from before the turn shows now.
PromptSaved ==
  /\ pc = "prompt" /\ ~cancelDue /\ Persist
  /\ IF interrupted
     THEN pc' = "flagged" /\ UNCHANGED <<memory, inbox, calls>>
     ELSE NextRound
  /\ UNCHANGED <<after, outcome, loop, tools, turns, cancelVars, reloads, steer, noted, kidVars>>

InboxSaved ==
  /\ pc = "inbox" /\ ~cancelDue /\ Persist
  /\ CallModel
  /\ UNCHANGED <<after, outcome, loop, tools, turns, cancelVars, memory, reloads, steerVars, kidVars>>

\* Mutation of ModelAsksTools: the assistant's message is added before its
\* tools run.
ModelAsksToolsEarly ==
  /\ pc = "model" /\ ~cancelDue
  /\ \E chosen \in [Slots -> {Over} \cup [does : {"plain", "spawn"}, kid : {NoKid}]
                                    \cup [does : {"wait"}, kid : {k \in Kids : kid[k] # "free"}]] :
       chosen # NoTools /\ tools' = chosen
  /\ pc' = "tools" /\ Say("calls")
  /\ UNCHANGED <<after, outcome, loop, calls, turns, cancelVars, log, reloads, steerVars, kidVars>>

\* The model asks for tools.
ModelAsksTools ==
  /\ pc = "model" /\ ~cancelDue
  /\ \E chosen \in [Slots -> {Over} \cup [does : {"plain", "spawn"}, kid : {NoKid}]
                                    \cup [does : {"wait"}, kid : {k \in Kids : kid[k] # "free"}]] :
       chosen # NoTools /\ tools' = chosen
  /\ pc' = "tools"
  /\ UNCHANGED <<after, outcome, loop, calls, turns, cancelVars, historyVars, steerVars, kidVars>>

\* Every tool has ended: the exchange is added as a whole.
ToolsEnd ==
  /\ pc = "tools" /\ ~cancelDue /\ tools = NoTools
  /\ memory' = memory \o <<NewMessage("calls", {}),
                           [kind |-> "outputs", id |-> NextId + 1, items |-> {}]>>
  /\ pc' = "exchange"
  /\ UNCHANGED <<after, outcome, loop, calls, tools, turns, cancelVars, log, reloads, steerVars, kidVars>>

ExchangeSaved ==
  /\ pc = "exchange" /\ ~cancelDue /\ Persist
  /\ loop' = [loop EXCEPT !.pending = TRUE, !.post = 0]
  /\ NextRound
  /\ UNCHANGED <<after, outcome, tools, turns, cancelVars, reloads, steer, noted, kidVars>>

\* The model answers without text: retry_prompt() as long as it gives one.
ModelAnswersEmpty ==
  /\ pc = "model" /\ ~cancelDue
  /\ \/ /\ loop.pending /\ loop.post < MaxEmptyRetries
        /\ loop' = [loop EXCEPT !.post = @ + 1]
        /\ pc' = "retry" /\ Say("retry")
     \/ /\ ~(loop.pending /\ loop.post < MaxEmptyRetries) /\ loop.empty < MaxEmptyRetries
        /\ loop' = [loop EXCEPT !.empty = @ + 1]
        /\ pc' = "retry" /\ Say("retry")
     \/ /\ ~(loop.pending /\ loop.post < MaxEmptyRetries) /\ loop.empty >= MaxEmptyRetries
        /\ pc' = "answer" /\ Say("answer")
        /\ UNCHANGED loop
  /\ UNCHANGED <<after, outcome, calls, tools, turns, cancelVars, log, reloads, steerVars, kidVars>>

ModelAnswers ==
  /\ pc = "model" /\ ~cancelDue
  /\ loop' = [loop EXCEPT !.pending = FALSE]
  /\ pc' = "answer" /\ Say("answer")
  /\ UNCHANGED <<after, outcome, calls, tools, turns, cancelVars, log, reloads, steerVars, kidVars>>

RetrySaved ==
  /\ pc = "retry" /\ ~cancelDue /\ Persist
  /\ NextRound
  /\ UNCHANGED <<after, outcome, loop, tools, turns, cancelVars, reloads, steer, noted, kidVars>>

\* Mutation of AnswerSaved: the inbox is not looked at again.
AnswerSavedAtOnce ==
  /\ pc = "answer" /\ ~cancelDue /\ Persist
  /\ pc' = "completed" /\ UNCHANGED <<memory, inbox, calls>>
  /\ UNCHANGED <<after, outcome, loop, tools, turns, cancelVars, reloads, steer, noted, kidVars>>

\* The answer is saved: what was steered meanwhile gets another round.
AnswerSaved ==
  /\ pc = "answer" /\ ~cancelDue /\ Persist
  /\ IF inbox # <<>>
     THEN NextRound
     ELSE pc' = "completed" /\ UNCHANGED <<memory, inbox, calls>>
  /\ UNCHANGED <<after, outcome, loop, tools, turns, cancelVars, reloads, steer, noted, kidVars>>

\* The model call fails, or a limit ends it or the tools: these are cancelled,
\* and a child a tool waits for with them.
Fails ==
  /\ pc \in {"model", "tools"} /\ ~cancelDue
  /\ pc' = "draining" /\ stopping' = stopping \cup {k \in Waited : Alive(k)}
  /\ UNCHANGED <<after, outcome, loop, calls, tools, turns, cancelVars, historyVars, steerVars,
                 kid, children, active>>

Drained ==
  /\ pc = "draining" /\ ~cancelDue /\ \A k \in Waited : ~Alive(k)
  /\ pc' = "failed" /\ tools' = NoTools
  /\ UNCHANGED <<after, outcome, loop, calls, turns, cancelVars, historyVars, steerVars, kidVars>>

\* Mutation of TerminalSaved: a failed turn leaves its children running.
FailureLeavesChildren ==
  /\ pc \in {"completed", "failed"} /\ ~cancelDue
  /\ IF pc = "completed"
     THEN StopChildren(pc) /\ UNCHANGED outcome
     ELSE pc' = "over" /\ outcome' = "failed" /\ UNCHANGED <<after, stopping>>
  /\ UNCHANGED <<loop, calls, tools, turns, cancelVars, historyVars, steerVars,
                 kid, children, active>>

\* TURN_COMPLETED or TURN_FAILED is saved: the children are stopped.
TerminalSaved ==
  /\ pc \in {"completed", "failed"} /\ ~cancelDue
  /\ StopChildren(pc)
  /\ UNCHANGED <<outcome, loop, calls, tools, turns, cancelVars, historyVars, steerVars,
                 kid, children, active>>

\* TURN_INTERRUPTED is saved.
InterruptionSaved ==
  /\ pc \in {"flagged", "handled"} /\ ~cancelDue
  /\ pc' = "over" /\ outcome' = "interrupted"
  /\ UNCHANGED <<after, loop, calls, tools, turns, cancelVars, historyVars, steerVars, kidVars>>

\* Mutation of RunReturns: the interruption is cleared, its cancel() is not.
RunReturnsCancelling ==
  /\ pc = "over"
  /\ pc' = "idle" /\ after' = "completed" /\ loop' = FreshLoop /\ calls' = 0
  /\ interrupted' = FALSE /\ interrupts' = 0
  /\ UNCHANGED <<outcome, tools, turns, cancelling, cancelDue, abandoned,
                 historyVars, steerVars, kidVars>>

\* The consumer of run() sees the turn's task done; what was local to it is
\* gone.
RunReturns ==
  /\ pc = "over"
  /\ pc' = "idle" /\ after' = "completed" /\ loop' = FreshLoop /\ calls' = 0
  /\ interrupted' = FALSE /\ cancelling' = 0 /\ cancelDue' = FALSE /\ interrupts' = 0
  /\ UNCHANGED <<outcome, tools, turns, abandoned, historyVars, steerVars, kidVars>>

-----------------------------------------------------------------------------
(* Interruption.                                                           *)

TaskRuns == pc \notin {"idle", "over"}
InHandler == pc = "handled" \/ (pc = "children" /\ after = "handled")

\* interrupt(), by another task than the turn's.
Interrupt ==
  /\ interrupts < MaxInterrupts /\ interrupts' = interrupts + 1
  /\ interrupted' = TRUE
  /\ IF TaskRuns
     THEN cancelDue' = TRUE /\ cancelling' = IF cancelling = 0 THEN 1 ELSE 2
     ELSE UNCHANGED <<cancelDue, cancelling>>
  /\ InterruptChildren
  /\ UNCHANGED <<turnVars, abandoned, historyVars, steerVars, kid, children, active>>

\* The consumer of run() closes it: interrupt() and one more cancel().
Abandon ==
  /\ TaskRuns /\ ~abandoned /\ abandoned' = TRUE
  /\ interrupted' = TRUE /\ cancelDue' = TRUE /\ cancelling' = 2
  /\ InterruptChildren
  /\ UNCHANGED <<turnVars, interrupts, historyVars, steerVars, kid, children, active>>

\* Mutation of CancelDelivered: a message whose append was cut is taken back.
CancelledMessageRemoved ==
  /\ cancelDue /\ cancelDue' = FALSE
  /\ \A k \in Waited : ~Alive(k)
  /\ tools' = NoTools
  /\ Persist \/ UNCHANGED log
  /\ memory' = SubSeq(memory, 1, Len(memory) - Len(Unsaved))
  /\ IF interrupted /\ cancelling < 2 /\ ~InHandler
     THEN StopChildren("handled") /\ UNCHANGED outcome
     ELSE pc' = "over" /\ outcome' = "cancelled" /\ UNCHANGED <<after, stopping>>
  /\ UNCHANGED <<loop, calls, turns, interrupted, cancelling, abandoned, interrupts,
                 reloads, steerVars, kid, children, active>>

\* Mutation of CancelDelivered: any cancel() after the first is another one's.
CancelledAlways ==
  /\ cancelDue /\ cancelDue' = FALSE
  /\ \A k \in Waited : ~Alive(k)
  /\ tools' = NoTools
  /\ Persist \/ UNCHANGED log
  /\ IF interrupted /\ cancelling < 1 /\ ~InHandler
     THEN StopChildren("handled") /\ UNCHANGED outcome
     ELSE pc' = "over" /\ outcome' = "cancelled" /\ UNCHANGED <<after, stopping>>
  /\ UNCHANGED <<loop, calls, turns, interrupted, cancelling, abandoned, interrupts,
                 memory, reloads, steerVars, kid, children, active>>

\* The CancelledError reaches the turn's task, once the tools it awaits have
\* been cancelled and the children these wait for have ended.  The append in
\* progress may have happened.  _execute_turn makes it an interruption unless
\* there was another cancel(), or it is the handler that is cancelled.
CancelDelivered ==
  /\ cancelDue /\ cancelDue' = FALSE
  /\ \A k \in Waited : ~Alive(k)
  /\ tools' = NoTools
  /\ Persist \/ UNCHANGED log
  /\ IF interrupted /\ cancelling < 2 /\ ~InHandler
     THEN StopChildren("handled") /\ UNCHANGED outcome
     ELSE pc' = "over" /\ outcome' = "cancelled" /\ UNCHANGED <<after, stopping>>
  /\ UNCHANGED <<loop, calls, turns, interrupted, cancelling, abandoned, interrupts,
                 memory, reloads, steerVars, kid, children, active>>

-----------------------------------------------------------------------------
(* Steering, and the loss of the process.                                  *)

\* steer(): the item is in the inbox before its event is saved.
SteerPut(i) ==
  /\ steer[i] = "none" /\ \A j \in 1..(i - 1) : steer[j] # "none"
  /\ inbox' = Append(inbox, i) /\ steer' = [steer EXCEPT ![i] = "put"]
  /\ UNCHANGED <<turnVars, cancelVars, historyVars, noted, kidVars>>

SteerSaved(i) ==
  /\ steer[i] = "put" /\ steer' = [steer EXCEPT ![i] = "saved"]
  /\ noted' = [noted EXCEPT ![i] = Len(log)]
  /\ UNCHANGED <<turnVars, cancelVars, historyVars, inbox, kidVars>>

\* The process is lost, and another one loads the conversation.
Reload ==
  /\ reloads < MaxReloads /\ reloads' = reloads + 1
  /\ memory' = Replay
  /\ pc' = "idle" /\ outcome' = "none" /\ tools' = NoTools
  /\ after' = "completed" /\ loop' = FreshLoop /\ calls' = 0
  /\ interrupted' = FALSE /\ cancelling' = 0 /\ cancelDue' = FALSE
  /\ abandoned' = FALSE /\ interrupts' = 0
  /\ inbox' = <<>> /\ steer' = [i \in Steers |-> IF steer[i] = "none" THEN "none" ELSE "lost"]
  /\ kid' = [k \in Kids |-> IF kid[k] = "free" THEN "free" ELSE "ended"]
  /\ stopping' = {} /\ children' = {} /\ active' = {}
  /\ UNCHANGED <<turns, log, noted>>

-----------------------------------------------------------------------------
TurnStep ==
  \/ TurnStarted \/ PromptSaved \/ InboxSaved \/ ToolsEnd \/ ExchangeSaved
  \/ RetrySaved \/ AnswerSaved \/ Drained \/ TerminalSaved \/ InterruptionSaved
  \/ ChildrenStopped \/ CancelDelivered \/ RunReturns

ModelStep == ModelAsksTools \/ ModelAnswersEmpty \/ ModelAnswers \/ Fails

ToolStep(s) == PlainTool(s) \/ SpawnTool(s) \/ SpawnedTool(s) \/ WaitTool(s)

KidStep(k) == KidStarts(k) \/ KidEnds(k) \/ KidReaped(k)

Next ==
  \/ RunStarts \/ TurnStep \/ ModelStep
  \/ \E s \in Slots : ToolStep(s)
  \/ \E k \in Kids : KidStep(k)
  \/ Interrupt \/ Abandon
  \/ \E i \in Steers : SteerPut(i) \/ SteerSaved(i)
  \/ Reload

Spec == Init /\ [][Next]_vars

\* The event loop runs what can run, and what has been cancelled ends.  Nothing
\* is assumed of the model, of a tool or of a child that is left alone.
Fairness ==
  /\ WF_vars(TurnStep)
  /\ \A k \in Kids : WF_vars(k \in stopping /\ KidEnds(k))

FairSpec == Spec /\ Fairness

-----------------------------------------------------------------------------
TypeOK ==
  /\ pc \in PCs /\ after \in {"completed", "failed", "handled"} /\ outcome \in Outcomes
  /\ loop \in [pending : BOOLEAN, post : 0..MaxEmptyRetries, empty : 0..MaxEmptyRetries]
  /\ calls \in 0..(MaxModelCalls + 1) /\ turns \in 0..MaxTurns
  /\ tools \in [Slots -> {Over} \cup [does : {"plain", "spawn"}, kid : {NoKid}]
                                \cup [does : {"starting", "wait"}, kid : Kids]]
  /\ interrupted \in BOOLEAN /\ cancelling \in 0..2 /\ cancelDue \in BOOLEAN
  /\ abandoned \in BOOLEAN /\ interrupts \in 0..MaxInterrupts
  /\ memory \in Seq(Message) /\ log \in Seq(Message) /\ reloads \in 0..MaxReloads
  /\ inbox \in Seq(Steers) /\ steer \in [Steers -> {"none", "put", "saved", "lost"}]
  /\ noted \in [Steers -> Nat]
  /\ kid \in [Kids -> {"free", "spawned", "working", "ended"}]
  /\ stopping \subseteq Kids /\ children \subseteq Kids /\ active \subseteq Kids
  \* no cancel() of a turn is left for the next one
  /\ pc = "idle" => cancelling = 0 /\ ~cancelDue

-----------------------------------------------------------------------------
(* Safety.                                                                 *)

\* No more agents run at once than max_concurrent_agents, the root included,
\* whatever the order in which tools spawn, wait and are cancelled.
ConcurrencyKept == Cardinality(AliveKids) < MaxAgents

\* What another process loads is what this one has in memory, but for messages
\* whose append was cut: none is invented, repeated or out of order.
MemoryCoversLog ==
  /\ \A a, b \in 1..Len(Replay) : a < b => Replay[a].id < Replay[b].id
  /\ \A a \in 1..Len(Replay) : \E b \in 1..Len(memory) : memory[b] = Replay[a]

\* Neither memory nor the log ever holds a tool call without its outputs: load
\* has nothing to drop, and a turn that follows an interrupted one sends the
\* provider a valid history.
ToolHistoryComplete == Complete(memory) = memory /\ Replay = log

\* A message whose steer() returned before the answer was saved has been put to
\* the model when the turn completes.
SteeredBeforeAnswer ==
  pc = "completed" =>
    \A i \in Steers, a \in 1..Len(log) :
      (steer[i] = "saved" /\ noted[i] < a /\ log[a].kind = "answer") =>
         \E b \in 1..Len(memory) : i \in memory[b].items

\* What the log, memory and a reloaded harness hold agrees and is complete:
\* messages are in order and none is invented, tool calls have their outputs,
\* and a message steered in time has been put to the model (harness.py, load()).
HistoryIsComplete == MemoryCoversLog /\ ToolHistoryComplete /\ SteeredBeforeAnswer

\* Once a turn is over, no child works on unless it has been told to stop.
NoStrayAgents == ~TaskRuns => AliveKids \subseteq stopping

\* A turn that only interrupt() has stopped says so: it ends with a terminal
\* event and run() returns, and only a consumer that went away sees the
\* cancellation.
InterruptIsRecorded == outcome = "cancelled" => abandoned

-----------------------------------------------------------------------------
(* Liveness.                                                               *)

\* A turn that is interrupted or has reached its terminal event ends, children
\* included, whatever the model, its tools and the children were doing.
InterruptEndsTurn ==
  (TaskRuns /\ (interrupted \/ pc \in {"completed", "failed"})) ~> pc = "idle"
=============================================================================
