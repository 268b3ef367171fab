------------------------------ MODULE Retrieval ------------------------------
(***************************************************************************)
(* A question in the retrieval pipeline: RetrievalAgent's four stages, the *)
(* context agents that run for every question in parallel, each with its   *)
(* fallback and its next agent, the validation that decides what they save *)
(* in QuestionMemory, the generation agents that answer from it, and the   *)
(* postprocess agents, one of which may start the pipeline again.          *)
(***************************************************************************)
EXTENDS Integers, Sequences, FiniteSets

CONSTANTS
  Preprocess, Context, Generation, Postprocess, \* the agents of each stage
  Kind,       \* what each agent is
  Fallback, NextAgent, \* of each context agent, NoAgent for none
  Then, Else, \* the branches of each conditional agent, sequences of agents
  Pruning,    \* the context agents with prune_context
  Retries,    \* RestartAgentConfig.retries
  MaxSplit,   \* bound: questions one rephrasing splits into
  MaxFound,   \* bound: contexts one retrieval returns
  NoAgent

VARIABLES
  stage,    \* where RetrievalAgent.__call__ is
  restart,  \* memory.restart
  restarts, \* steps of the restart agent
  asked,    \* context_questions
  task,     \* the agents of the gathered stages
  flows,    \* the call stack of get_question_context, for each flow_id
  contexts, \* memory.contexts and memory.agent_contexts
  answers,  \* memory.answers: who answered, having seen how many contexts
  final     \* memory.final_answer: NoAnswer, StageError, or an index of answers

retrievalVars == <<stage, restart, restarts, asked, task, flows, contexts, answers, final>>

Stages == {"preprocess", "generation", "postprocess"}
Agents(s) == CASE s = "preprocess" -> Preprocess [] s = "generation" -> Generation
               [] OTHER -> Postprocess
Staged == Preprocess \cup Generation \cup Postprocess
Running(a) == task[a] \in {"running", "retrying"}

\* A call of get_question_context: with the contexts it was handed, if any.
Frame(a, aware, extra) ==
  [agent |-> a, at |-> IF aware THEN "rephrase" ELSE IF Kind[a] = "conditional" THEN "decide" ELSE "retrieve",
   aware |-> aware, extra |-> extra, missing |-> 0, chosen |-> <<>>, left |-> 0]
Top(f) == flows[f][Len(flows[f])]
Below(f) == SubSeq(flows[f], 1, Len(flows[f]) - 1)
Ats == {"rephrase", "retrieve", "decide", "branch", "validate", "fallback", "next"}

NoAnswer == 0
StageError == -1

RetrievalTypeOK ==
  /\ stage \in Stages \cup {"context", "done", "failed"}
  /\ restart \in BOOLEAN /\ restarts \in 0..Retries /\ asked \in Nat
  /\ task \in [Staged -> {"idle", "running", "retrying", "ended"}]
  /\ \A f \in DOMAIN flows : \A i \in DOMAIN flows[f] : flows[f][i].at \in Ats
  /\ \A i \in DOMAIN contexts :
       /\ contexts[i].cites \in {"unset", "empty", "some"}
       /\ contexts[i].chunks \in {"all", "cited", "none"} /\ contexts[i].summary \in BOOLEAN
  /\ \A i \in DOMAIN answers : answers[i].seen \in 0..Len(contexts)
  /\ final \in {NoAnswer, StageError} \cup (1..Len(answers))

Init ==
  /\ stage = "preprocess" /\ restart = FALSE /\ restarts = 0 /\ asked = 0
  /\ task = [a \in Staged |-> IF a \in Preprocess THEN "running" ELSE "idle"]
  /\ flows = <<>> /\ contexts = <<>> /\ answers = <<>> /\ final = NoAnswer

-----------------------------------------------------------------------------
(* Contexts: what a retrieval returns and what of it is saved.             *)

Raw(summary, cites) == [summary |-> summary, cites |-> cites, chunks |-> "all"]
\* A fixed text, or the body of a response (empty when its status is an error).
StaticContext == {Raw(FALSE, "unset")}
HttpContext == {Raw(FALSE, "unset")}
\* An answer grounded in search results, or none.
GoogleContext == {Raw(s, "unset") : s \in BOOLEAN}
PerplexityContext == {Raw(s, "unset") : s \in BOOLEAN}
PerplexitySearchContext == {Raw(FALSE, "unset")}
\* Several contexts, each with or without an answer and citations of its own.
SourceContexts ==
  UNION {[1..n -> {Raw(s, c) : s \in BOOLEAN, c \in {"unset", "empty", "some"}}] : n \in 0..MaxFound}
RawContext(kind) ==
  CASE kind = "static" -> StaticContext [] kind = "http" -> HttpContext [] kind = "google" -> GoogleContext
    [] kind = "perplexity" -> PerplexityContext [] OTHER -> PerplexitySearchContext

ShouldValidate(a) == Fallback[a] # NoAgent \/ NextAgent[a] # NoAgent \/ a \in Pruning
PruneToCitations(c) ==
  CASE c.cites = "unset" -> c
    [] c.cites = "empty" -> [c EXCEPT !.chunks = "none"]
    [] OTHER             -> [c EXCEPT !.chunks = "cited"]

\* The model's verdict on a context: useful or not, what is missing, an answer
\* attempt and citations; or its failure, which asks the question again.
Validated(c, s, x) == [c EXCEPT !.summary = s, !.cites = IF x = "absent" THEN @ ELSE x]
Validations(c) ==
  {[useful |-> u, missing |-> m, error |-> FALSE, context |-> Validated(c, s, x)]
     : u \in BOOLEAN, m \in 0..1, s \in BOOLEAN, x \in {"absent", "empty", "some"}}
  \cup {[useful |-> FALSE, missing |-> 1, error |-> TRUE, context |-> c]}

SaveCtxAndReturnMissing(a, c) ==
  IF ShouldValidate(a)
    THEN {[saved |-> IF v.useful \/ v.error
                       THEN <<IF a \in Pruning /\ ~v.error THEN PruneToCitations(v.context)
                                                           ELSE v.context>> ELSE <<>>,
           missing |-> v.missing] : v \in Validations(c)}
    ELSE {[saved |-> <<c>>, missing |-> 0]}

\* validate_contexts_and_answer keeps a source's own answer and citations.
Select(c, response) ==
  IF response.answer \/ response.cited \/ c.summary
    THEN [c EXCEPT !.summary = @ \/ response.answer,
                   !.cites = IF @ = "some" \/ response.cited THEN "some" ELSE "empty"]
    ELSE [c EXCEPT !.cites = "unset"]
\* Mutation of Keep: a context without citations or an answer is kept.
KeepSelected(a, c) ==
  IF c.cites = "unset" THEN <<>> ELSE <<IF a \in Pruning THEN PruneToCitations(c) ELSE c>>
\* What is kept of a context the validation has selected, or not.
Keep(a, c) ==
  IF c.cites = "unset" \/ (a \in Pruning /\ c.cites = "empty" /\ ~c.summary) THEN <<>>
  ELSE <<IF a \in Pruning THEN PruneToCitations(c) ELSE c>>

KeepAll(a, cs) ==
  LET kept[n \in 0..Len(cs)] == IF n = 0 THEN <<>> ELSE kept[n - 1] \o Keep(a, cs[n]) IN kept[Len(cs)]
Responses == [answer : BOOLEAN, cited : BOOLEAN]

SaveContextsAndReturnMissing(a, cs) ==
  LET complete == cs # <<>> /\ \A i \in DOMAIN cs : cs[i].summary /\ cs[i].cites # "unset"
      selected(rs) == [i \in DOMAIN cs |-> Select(cs[i], rs[i])]
      useful(xs) == \E i \in DOMAIN xs : xs[i].cites # "unset"
  IN IF ShouldValidate(a) /\ ~complete
       THEN {[saved |-> IF useful(selected(rs)) THEN KeepAll(a, selected(rs)) ELSE <<>>, missing |-> m]
               : rs \in [DOMAIN cs -> Responses], m \in 0..1}
            \cup {[saved |-> KeepAll(a, cs), missing |-> 1]}
       ELSE {[saved |-> [i \in DOMAIN cs |-> IF a \in Pruning THEN PruneToCitations(cs[i]) ELSE cs[i]],
              missing |-> 0]}

\* All a retrieval can lead to.
Retrievals(a) ==
  IF Kind[a] = "source"
    THEN UNION {SaveContextsAndReturnMissing(a, cs) : cs \in SourceContexts}
    ELSE UNION {SaveCtxAndReturnMissing(a, c) : c \in RawContext(Kind[a])}

\* Mutation of AgentAnswerSummaries: the flow is not part of the key.
AgentSummaries(f, as) ==
  {i \in DOMAIN contexts : contexts[i].agent \in as /\ contexts[i].summary}
\* The contexts of a flow with an answer attempt by the given agents.
AgentAnswerSummaries(f, as) ==
  {i \in DOMAIN contexts : contexts[i].flow = f /\ contexts[i].agent \in as /\ contexts[i].summary}

-----------------------------------------------------------------------------
(* One flow: the agents called for one question, one after another.        *)

Put(f, frame) == flows' = [flows EXCEPT ![f] = Append(Below(f), frame)]
Call(f, frame, callee) == flows' = [flows EXCEPT ![f] = Append(Append(Below(f), frame), callee)]
SaveContext(f, a, saved) ==
  contexts' = contexts \o [i \in DOMAIN saved |-> [flow |-> f, agent |-> a, summary |-> saved[i].summary,
                                                   cites |-> saved[i].cites, chunks |-> saved[i].chunks]]
Active(f, at) == flows[f] # <<>> /\ Top(f).at = at
\* After its own retrieval an agent turns to its fallback, then its next agent.
AfterRetrieval(frame, missing) ==
  [frame EXCEPT !.missing = IF Fallback[frame.agent] = NoAgent THEN 0 ELSE missing, !.at = "fallback"]

\* An agent that follows another asks with the contexts it was handed.
Rephrase(f) ==
  /\ Active(f, "rephrase")
  /\ Put(f, [Top(f) EXCEPT !.at = IF Kind[Top(f).agent] = "conditional" THEN "decide" ELSE "retrieve"])
  /\ UNCHANGED <<stage, restart, restarts, asked, task, contexts, answers, final>>

\* _get_question_context: GoogleAgent adds its text as an answer too.
Retrieve(f) ==
  /\ Active(f, "retrieve")
  /\ \E r \in Retrievals(Top(f).agent) :
       /\ SaveContext(f, Top(f).agent, r.saved)
       /\ Put(f, AfterRetrieval(Top(f), r.missing))
  /\ answers' = IF Kind[Top(f).agent] = "google"
                  THEN Append(answers, [by |-> Top(f).agent, seen |-> Len(contexts)]) ELSE answers
  /\ UNCHANGED <<stage, restart, restarts, asked, task, final>>

\* The first exception of a flow fails the stage; the other flows run on.
FlowFails(f) ==
  /\ \E at \in {"retrieve", "decide"} : Active(f, at)
  /\ flows' = [flows EXCEPT ![f] = <<>>]
  /\ IF stage = "context" THEN stage' = "failed" /\ final' = StageError ELSE UNCHANGED <<stage, final>>
  /\ UNCHANGED <<restart, restarts, asked, task, contexts, answers>>

\* A conditional agent calls the agents of one branch in turn ...
MakeDecision(f) ==
  /\ Active(f, "decide")
  /\ \E b \in {Then, Else} :
       LET chosen == b[Top(f).agent]
       IN  Put(f, [Top(f) EXCEPT !.chosen = chosen, !.left = Len(chosen), !.at = "branch"])
  /\ UNCHANGED <<stage, restart, restarts, asked, task, contexts, answers, final>>

Branch(f) ==
  /\ Active(f, "branch")
  /\ LET t == Top(f) IN
       IF t.left > 0
         THEN Call(f, [t EXCEPT !.left = @ - 1], Frame(t.chosen[Len(t.chosen) - t.left + 1], FALSE, {}))
         ELSE Put(f, IF Fallback[t.agent] = NoAgent THEN AfterRetrieval(t, 0) ELSE [t EXCEPT !.at = "validate"])
  /\ UNCHANGED <<stage, restart, restarts, asked, task, contexts, answers, final>>

\* ... and asks what their answers leave open; nothing is saved of it.
ValidateBranch(f) ==
  /\ Active(f, "validate")
  /\ \E v \in Validations(Raw(FALSE, "unset")) : Put(f, AfterRetrieval(Top(f), v.missing))
  /\ UNCHANGED <<stage, restart, restarts, asked, task, contexts, answers, final>>

\* The fallback is asked every missing question, without the contexts.
AskFallback(f) ==
  /\ Active(f, "fallback")
  /\ LET t == Top(f) IN
       IF t.missing > 0 THEN Call(f, [t EXCEPT !.missing = @ - 1], Frame(Fallback[t.agent], FALSE, {}))
                        ELSE Put(f, [t EXCEPT !.at = "next"])
  /\ UNCHANGED <<stage, restart, restarts, asked, task, contexts, answers, final>>

\* The next agent is asked the same question, with the answer attempts so far.
AskNext(f) ==
  /\ Active(f, "next")
  /\ LET t == Top(f)
         sources == {Fallback[t.agent]} \cup
                      IF Kind[t.agent] = "conditional" THEN {t.chosen[i] : i \in DOMAIN t.chosen} ELSE {t.agent}
     IN flows' = [flows EXCEPT ![f] =
                    IF NextAgent[t.agent] = NoAgent THEN Below(f)
                    ELSE Append(Below(f), Frame(NextAgent[t.agent], TRUE, t.extra \cup AgentAnswerSummaries(f, sources)))]
  /\ UNCHANGED <<stage, restart, restarts, asked, task, contexts, answers, final>>

-----------------------------------------------------------------------------
(* The agents of the gathered stages.                                      *)

Ends(a) == task' = [task EXCEPT ![a] = "ended"]
\* Mutation of AddAnswer: an answer becomes the final one as it is added.
AddFinal(a, seen) == answers' = Append(answers, [by |-> a, seen |-> seen]) /\ final' = Len(answers) + 1
AddAnswer(a, seen) == answers' = Append(answers, [by |-> a, seen |-> seen]) /\ UNCHANGED final

\* An agent raises: the first to do so fails its stage, its siblings run on.
AgentFails(a) ==
  /\ Running(a) /\ Ends(a)
  /\ IF stage \in Stages /\ a \in Agents(stage)
       THEN stage' = "failed" /\ final' = StageError ELSE UNCHANGED <<stage, final>>
  /\ UNCHANGED <<restart, restarts, asked, flows, contexts, answers>>

RephraseQuestion(a) ==
  /\ a \in Preprocess /\ Kind[a] = "rephrase" /\ Running(a) /\ Ends(a)
  /\ \E n \in 1..MaxSplit : asked' = asked + n
  /\ UNCHANGED <<stage, restart, restarts, flows, contexts, answers, final>>

\* A similar question was asked before: an empty answer is added.
Historical(a) ==
  /\ a \in Preprocess /\ Kind[a] = "historical" /\ Running(a) /\ Ends(a)
  /\ AddAnswer(a, Len(contexts)) \/ UNCHANGED <<answers, final>>
  /\ UNCHANGED <<stage, restart, restarts, asked, flows, contexts>>

\* Mutation of Summarize: it tries again as long as the data is too little.
SummarizeAgain(a) ==
  /\ a \in Generation /\ Kind[a] = "summarize"
  /\ \/ /\ Running(a) /\ UNCHANGED <<answers, final>>
        /\ task' = [task EXCEPT ![a] = IF @ = "running" THEN "retrying" ELSE "running"]
     \/ Running(a) /\ Ends(a) /\ AddAnswer(a, Len(contexts))
  /\ UNCHANGED <<stage, restart, restarts, asked, flows, contexts>>
\* SummarizeAgent tries once more with the whole contexts when the model
\* reports too little data; the contexts may not have changed in between.
Summarize(a) ==
  /\ a \in Generation /\ Kind[a] = "summarize"
  /\ \/ task[a] = "running" /\ task' = [task EXCEPT ![a] = "retrying"] /\ UNCHANGED <<answers, final>>
     \/ Running(a) /\ Ends(a) /\ AddAnswer(a, Len(contexts))
  /\ UNCHANGED <<stage, restart, restarts, asked, flows, contexts>>


\* The contexts are the answer.
Passthrough(a) ==
  /\ a \in Generation /\ Kind[a] = "passthrough" /\ Running(a) /\ Ends(a)
  /\ AddAnswer(a, Len(contexts))
  /\ UNCHANGED <<stage, restart, restarts, asked, flows, contexts>>

\* The generated text is no answer.
Generate(a) ==
  /\ a \in Generation /\ Kind[a] = "generate" /\ Running(a) /\ Ends(a)
  /\ UNCHANGED <<stage, restart, restarts, asked, flows, contexts, answers, final>>

\* RestartAgent: the question is answered, or more questions are added.
Restart(a) ==
  /\ a \in Postprocess /\ Kind[a] = "restart" /\ Running(a) /\ Ends(a)
  /\ \/ restart' = FALSE /\ UNCHANGED <<restarts, asked>>
     \/ restarts < Retries /\ restart' = TRUE /\ restarts' = restarts + 1 /\ asked' = asked + 1
  /\ UNCHANGED <<stage, flows, contexts, answers, final>>

\* The scores are saved as a context of their own, if any could be had.
Remi(a) ==
  /\ a \in Postprocess /\ Kind[a] = "remi" /\ Running(a) /\ Ends(a)
  /\ final # NoAnswer
  /\ SaveContext(<<>>, a, <<Raw(TRUE, "unset")>>) \/ UNCHANGED contexts
  /\ UNCHANGED <<stage, restart, restarts, asked, flows, answers, final>>

\* Questions for later, which the pipeline does not read ...
Related(a) ==
  /\ a \in Postprocess /\ Kind[a] = "related" /\ Running(a) /\ Ends(a)
  /\ UNCHANGED <<stage, restart, restarts, asked, flows, contexts, answers, final>>

\* ... and a call of an API, whose failure is an exception.
ExternalCall(a) ==
  /\ a \in Postprocess /\ Kind[a] = "external" /\ Running(a) /\ Ends(a)
  /\ UNCHANGED <<stage, restart, restarts, asked, flows, contexts, answers, final>>

-----------------------------------------------------------------------------
(* RetrievalAgent.__call__.                                                *)

Gathered(s) == \A a \in Agents(s) : ~Running(a)
Launch(s) == task' = [a \in Staged |-> IF a \in Agents(s) THEN "running" ELSE task[a]]

\* get_questions: the context questions, or the original one.
Questions == 1..(IF asked = 0 THEN 1 ELSE asked)
RunContext ==
  /\ stage = "preprocess" /\ Gathered("preprocess")
  /\ stage' = "context"
  /\ flows' = [f \in {restarts} \X Questions \X Context |-> <<Frame(f[3], FALSE, {})>>]
  /\ UNCHANGED <<restart, restarts, asked, task, contexts, answers, final>>

\* Mutation of ContextGathered: the first flow to end is waited for.
FirstFlow == \E f \in DOMAIN flows : flows[f] = <<>>
\* Every flow has ended: a pipeline that has a final answer generates none.
ContextGathered == \A f \in DOMAIN flows : flows[f] = <<>>
RunGeneration ==
  /\ stage = "context" /\ ContextGathered
  /\ stage' = "generation"
  /\ IF final = NoAnswer THEN Launch("generation") ELSE UNCHANGED task
  /\ UNCHANGED <<restart, restarts, asked, flows, contexts, answers, final>>

AddFinalAnswer == final' = IF answers = <<>> THEN final ELSE Len(answers)
RunPostprocess ==
  /\ stage = "generation" /\ Gathered("generation")
  /\ AddFinalAnswer
  /\ stage' = "postprocess" /\ Launch("postprocess")
  /\ UNCHANGED <<restart, restarts, asked, flows, contexts, answers>>

EndLoop ==
  /\ stage = "postprocess" /\ Gathered("postprocess")
  /\ restart' = FALSE
  /\ IF restart THEN stage' = "preprocess" /\ Launch("preprocess") ELSE stage' = "done" /\ UNCHANGED task
  /\ UNCHANGED <<restarts, asked, flows, contexts, answers, final>>
FlowStep(f) ==
  Rephrase(f) \/ Retrieve(f) \/ FlowFails(f) \/ MakeDecision(f) \/ Branch(f) \/ ValidateBranch(f)
    \/ AskFallback(f) \/ AskNext(f)
AgentStep(a) ==
  AgentFails(a) \/ RephraseQuestion(a) \/ Historical(a) \/ Summarize(a) \/ Passthrough(a) \/ Generate(a)
    \/ Restart(a) \/ Remi(a) \/ Related(a) \/ ExternalCall(a)
PipelineStep == RunContext \/ RunGeneration \/ RunPostprocess \/ EndLoop

Next ==
  \/ PipelineStep
  \/ \E f \in DOMAIN flows : FlowStep(f)
  \/ \E a \in Staged : AgentStep(a)

Spec == Init /\ [][Next]_retrievalVars
\* The event loop runs every task that is ready, and every request ends.
Step == PipelineStep \/ (\E f \in DOMAIN flows : FlowStep(f)) \/ (\E a \in Staged : AgentStep(a))
FairSpec == Spec /\ WF_retrievalVars(Step)

-----------------------------------------------------------------------------
(* Properties.                                                             *)

\* The contexts an agent is handed were found for its own question, by the
\* agents before it in the chain: flows share the memory but not their answers.
NextSeesOwnFlow ==
  \A f \in DOMAIN flows : \A i \in DOMAIN flows[f] :
    \A k \in flows[f][i].extra : contexts[k].flow = f /\ contexts[k].agent # flows[f][i].agent

\* What a source with several contexts saves is never empty: a context keeps
\* chunks or an answer, whatever the validation says and pruning removes.
SavedContextsHaveContent ==
  \A i \in DOMAIN contexts :
    Kind[contexts[i].agent] = "source" => contexts[i].summary \/ contexts[i].chunks # "none"

\* A pipeline that was not restarted answers from everything it retrieved:
\* no flow saves a context after a generation agent has read the memory.
AnswerSeesEveryContext ==
  stage = "done" /\ restarts = 0 /\ final \in DOMAIN answers /\ answers[final].by \in Generation =>
    \A i \in DOMAIN contexts : contexts[i].flow # <<>> => i <= answers[final].seen

\* The error of a stage stays the final answer while its siblings run on.
ErrorStands == stage = "failed" => final = StageError

\* The pipeline ends, however often it is started again.
PipelineEnds == <>(stage \in {"done", "failed"})
=============================================================================
