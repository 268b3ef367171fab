---------------------------- MODULE RestrictedAgent ----------------------------
(***************************************************************************)
(* A PythonAgent: for each question it runs the configured code in a       *)
(* sandbox, at first for the question itself, then for what the code has   *)
(* reported missing, until it has resolved it or the retries run out.  The *)
(* code calls back into the agent, by a name that must be authorized.  One *)
(* agent object serves all the questions of a pipeline run, at once.       *)
(***************************************************************************)
EXTENDS Naturals, FiniteSets

CONSTANTS
  Questions,
  Codes,       \* bound: executions that run at once for one question
  MaxRetries,
  MaxCallbacks \* bound: callbacks of one question

VARIABLES
  output,   \* self.output: resolved, missing, final_answer, and whose its contexts are
  flow_id,  \* self.flow_id: the question it is of
  cases,    \* the enum of CHOOSE_SCHEMA: whose options it has
  question, \* where each question is
  code,     \* its executions, each with what its last callback answered
  saved     \* contexts in the question memory: flow and owner

restrictedVars == <<output, flow_id, cases, question, code, saved>>

Replies == {"none", "text", "questions", "object", "scores", "decision", "resolved", "contexts"} \cup Questions
NoQuestion == "nobody"
NoCode == [at |-> "ended", reply |-> "none"]

RestrictedTypeOK ==
  /\ output \in [resolved : BOOLEAN, missing : 0..Codes, contexts : SUBSET Questions, final : BOOLEAN]
  /\ flow_id \in Questions \cup {NoQuestion} /\ cases \subseteq Questions
  /\ \A q \in Questions : question[q].depth \in 0..MaxRetries /\ question[q].callbacks \in 0..MaxCallbacks
  /\ \A q \in Questions : \A c \in 1..Codes :
       code[q][c].at \in {"ended", "running", "calling"} /\ code[q][c].reply \in Replies \cup {"refused"}
  /\ saved \subseteq [flow : Questions, of : Questions]

NewOutput == [resolved |-> FALSE, missing |-> 1, contexts |-> {}, final |-> FALSE]
Init ==
  /\ output = [NewOutput EXCEPT !.missing = 0] /\ flow_id = NoQuestion /\ cases = {}
  /\ question = [q \in Questions |-> [at |-> "idle", depth |-> 0, callbacks |-> 0]]
  /\ code = [q \in Questions |-> [c \in 1..Codes |-> NoCode]] /\ saved = {}

Goto(q, at) == question' = [question EXCEPT ![q].at = at]
\* The children publish functions when they are preloaded, before the code runs.
GetQuestionContext(q) ==
  /\ question[q].at = "idle" /\ flow_id' = q /\ Goto(q, "preload")
  /\ UNCHANGED <<output, cases, code, saved>>
PreloadChildAgents(q) ==
  /\ question[q].at = "preload" /\ output' = NewOutput /\ Goto(q, "loop")
  /\ UNCHANGED <<flow_id, cases, code, saved>>

\* One round: an execution for each question that is missing.
RunMissing(q) ==
  /\ question[q].at = "loop" /\ ~output.resolved /\ question[q].depth < MaxRetries
  /\ output' = [output EXCEPT !.missing = 0]
  /\ code' = [code EXCEPT ![q] = [c \in 1..Codes |-> IF c <= output.missing THEN [NoCode EXCEPT !.at = "running"] ELSE NoCode]]
  /\ question' = [question EXCEPT ![q].at = "gather", ![q].depth = @ + 1]
  /\ UNCHANGED <<flow_id, cases, saved>>
Gathered(q) ==
  /\ question[q].at = "gather" /\ Goto(q, "loop") /\ \A c \in 1..Codes : code[q][c].at = "ended"
  /\ UNCHANGED <<output, flow_id, cases, code, saved>>
\* A failed execution fails the question, and leaves the other ones running.
CodeFails(q, c) ==
  /\ question[q].at = "gather" /\ code[q][c].at = "running" /\ Goto(q, "failed")
  /\ code' = [code EXCEPT ![q][c] = NoCode]
  /\ UNCHANGED <<output, flow_id, cases, saved>>
CodeEnds(q, c) ==
  /\ code[q][c].at = "running" /\ code' = [code EXCEPT ![q][c] = NoCode]
  /\ UNCHANGED <<output, flow_id, cases, question, saved>>

\* What the question has gathered, if it was resolved, is kept under its flow.
SaveOutput(q) ==
  /\ question[q].at = "loop" /\ (output.resolved \/ question[q].depth = MaxRetries) /\ Goto(q, "done")
  /\ saved' = IF output.resolved THEN saved \cup {[flow |-> q, of |-> o] : o \in output.contexts} ELSE saved
  /\ UNCHANGED <<output, flow_id, cases, code>>

-----------------------------------------------------------------------------
(* handle_queue_item: a callback of the code.                              *)

Functions == {"transform", "rephrase", "extract", "remi_validation", "validate", "user_validation", "add_step", "choose", "save", "save_context", "child"}
\* inner_from_config gives the code no save_context, though there is one.
Authorized(fn) == fn # "save_context"
Callback(q, c) ==
  /\ code[q][c].at = "running" /\ question[q].callbacks < MaxCallbacks
  /\ question' = [question EXCEPT ![q].callbacks = @ + 1]
Answer(q, c, reply) == code' = [code EXCEPT ![q][c].reply = reply]

\* The model's answers, and the ones of another agent or of the user.
Transform == {"text"}
Rephrase == {"questions"}
Extract == {"object"}
RemiValidation == {"scores"}
Validate == {"decision"}
ChildFunction == {"contexts"}
UserValidation == {"none"} \* what the user says is not given to the code
AddStep == {"none"}
Reply(fn) ==
  CASE fn = "transform" -> Transform [] fn = "rephrase" -> Rephrase [] fn = "extract" -> Extract
    [] fn = "remi_validation" -> RemiValidation [] fn = "validate" -> Validate [] fn = "child" -> ChildFunction
    [] fn = "user_validation" -> UserValidation [] OTHER -> AddStep
HandleCall(q, c) ==
  /\ Callback(q, c)
  /\ \E fn \in Functions \ {"choose", "save"} :
       IF Authorized(fn) THEN \E r \in Reply(fn) : Answer(q, c, r) ELSE Answer(q, c, "refused")
  /\ UNCHANGED <<output, flow_id, cases, saved>>

\* The options are added to the enum of the one CHOOSE_SCHEMA; the model then
\* selects one of the enum, or "else".
Choose(q, c) ==
  /\ Callback(q, c) /\ cases' = cases \cup {q}
  /\ code' = [code EXCEPT ![q][c].at = "calling"]
  /\ UNCHANGED <<output, flow_id, saved>>
Chosen(q, c) ==
  /\ code[q][c].at = "calling"
  /\ \E case \in cases \cup {"none"} : code' = [code EXCEPT ![q][c] = [at |-> "running", reply |-> case]]
  /\ UNCHANGED <<output, flow_id, cases, question, saved>>

\* Mutation of Save: the last execution to save says whether it is resolved.
SaveLast(q, c) ==
  /\ Callback(q, c)
  /\ \E resolved \in BOOLEAN, found \in BOOLEAN, missing \in 0..Codes, final \in BOOLEAN :
       output' = [resolved |-> resolved, missing |-> missing, final |-> final,
                  contexts |-> IF found THEN output.contexts \cup {q} ELSE output.contexts]
  /\ Answer(q, c, "resolved")
  /\ UNCHANGED <<flow_id, cases, saved>>
\* Its contexts are added to the output; what it misses and the final answer
\* replace those of another execution.
Save(q, c) ==
  /\ Callback(q, c)
  /\ \E resolved \in BOOLEAN, found \in BOOLEAN, missing \in 0..Codes, final \in BOOLEAN :
       output' = [resolved |-> output.resolved \/ resolved, missing |-> missing, final |-> final,
                  contexts |-> IF found THEN output.contexts \cup {q} ELSE output.contexts]
  /\ Answer(q, c, "resolved")
  /\ UNCHANGED <<flow_id, cases, saved>>

CodeStep(q, c) == CodeFails(q, c) \/ CodeEnds(q, c) \/ HandleCall(q, c) \/ Choose(q, c) \/ Chosen(q, c) \/ Save(q, c)
Next ==
  \E q \in Questions :
    \/ GetQuestionContext(q) \/ PreloadChildAgents(q) \/ RunMissing(q) \/ Gathered(q) \/ SaveOutput(q)
    \/ \E c \in 1..Codes : CodeStep(q, c)
Spec == Init /\ [][Next]_restrictedVars

-----------------------------------------------------------------------------
\* An execution that resolved the question has resolved it, whatever the ones
\* that run beside it save later (one question at a time).
ResolvedSticks ==
  [][\A q \in Questions : question[q].at = "gather" /\ output.resolved => output'.resolved]_restrictedVars

\* "You can only select one of the provided cases" (CHOOSE_AGENT): a case of the
\* call, not one that an earlier call has left in the schema.
ChosenIsProvided == \A q \in Questions : \A c \in 1..Codes : code[q][c].reply \in Questions => code[q][c].reply = q
==============================================================================
