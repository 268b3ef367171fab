------------------------------ MODULE SmartAgent ------------------------------
(***************************************************************************)
(* A question of a SmartAgent: a loop in which the model chooses among the *)
(* functions of the registered agents and the agent runs them, alone       *)
(* (reactive) or for each plan of a planner (plan_execute).  The model may *)
(* also ask the user, once for each decision, and say that it is done.     *)
(***************************************************************************)
EXTENDS Naturals, Sequences, FiniteSets

CONSTANTS
  Calls,         \* functions with arguments: _tool_call_key
  Parameterless, \* those of functions that take none
  Decisions,     \* decision_id of a user_feedback
  Mode,          \* planning_mode
  Parallel,      \* parallel_tool_calls
  MaxIterations,
  MaxChosen      \* bound: calls the model chooses at once

VARIABLES
  at,        \* where the loop is
  iteration, \* of the loop, or of the planner
  turn,      \* of the executor
  attempted, \* attempted_tool_calls: how each call ended, in this run
  resolved,  \* resolved_feedback
  chosen,    \* tool_calls of this turn
  executing, \* indexes in chosen of the calls under way
  queue,     \* and of those that wait for them, one at a time
  outcome,   \* by index, how the calls of this turn ended
  answered,  \* indexes the model has been given a result for
  decided,   \* how often the user has been asked each decision
  unseen     \* the user's answer is one the model has not seen yet

smartVars == <<at, iteration, turn, attempted, resolved, chosen, executing, queue, outcome, answered, decided, unseen>>
turnVars == <<attempted, resolved, executing, queue, outcome, answered, decided, unseen>>

\* A user_feedback asks a decision of the user, or comes blank, without a question.
Items ==
  [kind : {"tool"}, of : Calls] \cup [kind : {"ask"}, of : Decisions]
    \cup {[kind |-> "complete", of |-> "task"], [kind |-> "blank", of |-> "question"]}
Outcomes == {"useful", "empty", "error"}

SmartTypeOK ==
  /\ at \in {"plan", "choose", "feedback", "asking", "tools", "turn_done", "done", "failed"}
  /\ iteration \in 0..MaxIterations /\ turn \in 0..MaxIterations
  /\ attempted \in [Calls -> Outcomes \cup {"no"}] /\ resolved \subseteq Decisions
  /\ \A i \in DOMAIN chosen : chosen[i] \in Items
  /\ \A i \in DOMAIN outcome : outcome[i] \in Outcomes
  /\ executing \cup answered \subseteq DOMAIN chosen

Unattempted == [c \in Calls |-> "no"]
SmartInit ==
  /\ at = IF Mode = "reactive" THEN "choose" ELSE "plan"
  /\ iteration = 0 /\ turn = 0 /\ attempted = Unattempted /\ resolved = {} /\ chosen = <<>>
  /\ executing = {} /\ queue = <<>> /\ outcome = <<>> /\ answered = {}
  /\ decided = [d \in Decisions |-> 0] /\ unseen = FALSE

Indexes(kind) == {i \in DOMAIN chosen : chosen[i].kind = kind}
\* Feedback that has been requested and not resolved; what is blank is passed over.
Unresolved == {i \in Indexes("ask") : chosen[i].of \notin resolved}
HasUnresolvedFeedback == Unresolved # {}
First(S) == CHOOSE i \in S : \A j \in S : i <= j

\* A parameterless function that returned nothing is not offered again.
ReactiveTools ==
  {i \in Items : ~(Mode = "reactive" /\ i.kind = "tool" /\ i.of \in Parameterless /\ attempted[i.of] = "empty")}

\* A planner that says done, or plans no step, ends the run; its plan gives the
\* executor a new one.
PlannerSays == {"done", "next"}
CallPlanner ==
  /\ at = "plan"
  /\ IF iteration = MaxIterations THEN at' = "done" /\ UNCHANGED <<iteration, turn, attempted, unseen>>
     ELSE /\ iteration' = iteration + 1 /\ unseen' = FALSE
          /\ \E status \in PlannerSays :
               IF status = "done" THEN at' = "done" /\ UNCHANGED <<turn, attempted>>
               ELSE at' = "choose" /\ turn' = 0 /\ attempted' = Unattempted
  /\ UNCHANGED <<resolved, chosen, executing, queue, outcome, answered, decided>>

Turns == IF Mode = "reactive" THEN iteration ELSE turn
\* Out of turns: the reactive loop is done, an executor is back at its planner.
Over == IF Mode = "reactive" THEN "done" ELSE "plan"
ChooseTools ==
  /\ at = "choose"
  /\ IF Turns = MaxIterations
       THEN at' = Over /\ UNCHANGED <<iteration, turn, chosen, answered, unseen>>
       ELSE /\ iteration' = IF Mode = "reactive" THEN iteration + 1 ELSE iteration
            /\ turn' = IF Mode = "reactive" THEN turn ELSE turn + 1
            /\ \E n \in 0..MaxChosen : \E tool_calls \in [1..n -> ReactiveTools] :
                 /\ chosen' = tool_calls
                 /\ at' = IF n = 0 \/ (Mode # "reactive" /\ \A i \in 1..n : tool_calls[i].kind = "complete")
                            THEN Over ELSE "feedback"
            /\ answered' = {} /\ unseen' = FALSE
  /\ UNCHANGED <<attempted, resolved, executing, queue, outcome, decided>>
ModelFails ==
  /\ at \in {"plan", "choose"} /\ at' = "failed"
  /\ UNCHANGED <<iteration, turn, chosen, turnVars>>

\* New feedback takes the turn, with the resolved ones before it: nothing else runs.
SendFeedback ==
  /\ at = "feedback" /\ HasUnresolvedFeedback
  /\ at' = "asking" /\ decided' = [decided EXCEPT ![chosen[First(Unresolved)].of] = @ + 1]
  /\ UNCHANGED <<iteration, turn, chosen, attempted, resolved, executing, queue, outcome, answered, unseen>>
\* Mutation of FeedbackResolved: the answer is given to the model and not kept.
FeedbackForgotten ==
  /\ at = "asking" /\ at' = "turn_done"
  /\ answered' = {j \in Indexes("ask") : j <= First(Unresolved)} /\ unseen' = TRUE
  /\ UNCHANGED <<iteration, turn, chosen, attempted, resolved, executing, queue, outcome, decided>>
\* A response, or that there was none, resolves it.
FeedbackResolved ==
  /\ at = "asking" /\ at' = "turn_done"
  /\ LET i == First(Unresolved) IN
     /\ resolved' = resolved \cup {chosen[i].of}
     /\ answered' = {j \in Indexes("ask") : j <= i}
  /\ unseen' = TRUE
  /\ UNCHANGED <<iteration, turn, chosen, attempted, executing, queue, outcome, decided>>

\* A call that gave nothing, or an error, in this run is skipped.
Skipped == {i \in Indexes("tool") : attempted[chosen[i].of] \in {"empty", "error"}}
CallsToExecute == Indexes("tool") \ Skipped
Sorted(S) == [k \in 1..Cardinality(S) |-> CHOOSE i \in S : Cardinality({j \in S : j < i}) = k - 1]
\* Mutation of ExecuteToolCalls: the calls that are skipped get no result.
ExecuteUnskipped ==
  /\ at = "feedback" /\ ~HasUnresolvedFeedback /\ at' = "tools"
  /\ attempted' = [c \in Calls |-> IF \E i \in CallsToExecute : chosen[i].of = c THEN "useful" ELSE attempted[c]]
  /\ answered' = Indexes("ask")
  /\ executing' = IF Parallel THEN CallsToExecute ELSE {}
  /\ queue' = IF Parallel THEN <<>> ELSE Sorted(CallsToExecute)
  /\ outcome' = [i \in {} |-> "useful"]
  /\ UNCHANGED <<iteration, turn, chosen, resolved, decided, unseen>>
ExecuteToolCalls ==
  /\ at = "feedback" /\ ~HasUnresolvedFeedback /\ at' = "tools"
  /\ attempted' = [c \in Calls |-> IF \E i \in CallsToExecute : chosen[i].of = c THEN "useful" ELSE attempted[c]]
  /\ answered' = Indexes("ask") \cup Skipped
  /\ executing' = IF Parallel THEN CallsToExecute ELSE {}
  /\ queue' = IF Parallel THEN <<>> ELSE Sorted(CallsToExecute)
  /\ outcome' = [i \in {} |-> "useful"]
  /\ UNCHANGED <<iteration, turn, chosen, resolved, decided, unseen>>
NextCall ==
  /\ at = "tools" /\ executing = {} /\ queue # <<>>
  /\ executing' = {Head(queue)} /\ queue' = Tail(queue)
  /\ UNCHANGED <<at, iteration, turn, chosen, attempted, resolved, outcome, answered, decided, unseen>>
\* execute_tool_call: no such agent or function, and an exception of it, are errors.
ExecuteToolCall(i) ==
  /\ i \in executing /\ executing' = executing \ {i}
  /\ \E o \in Outcomes : outcome' = [j \in DOMAIN outcome \cup {i} |-> IF j = i THEN o ELSE outcome[j]]
  /\ UNCHANGED <<at, iteration, turn, chosen, attempted, resolved, queue, answered, decided, unseen>>
\* The results are recorded in their order, a later one of the same call over an
\* earlier one, and given to the model.
Recorded(c) ==
  LET of == {i \in DOMAIN outcome : chosen[i].of = c} IN
  IF of = {} THEN attempted[c] ELSE outcome[CHOOSE i \in of : \A j \in of : j <= i]
ProcessResults ==
  /\ at = "tools" /\ executing = {} /\ queue = <<>> /\ at' = "turn_done"
  /\ attempted' = [c \in Calls |-> Recorded(c)]
  /\ answered' = answered \cup DOMAIN outcome /\ outcome' = <<>>
  /\ UNCHANGED <<iteration, turn, chosen, resolved, executing, queue, decided, unseen>>

\* Mutation of EndTurn: task_complete ends the loop whatever came with it.
EndTurnComplete ==
  /\ at = "turn_done"
  /\ at' = IF Indexes("complete") # {} THEN Over ELSE "choose"
  /\ UNCHANGED <<iteration, turn, chosen, turnVars>>
\* task_complete ends the loop, unless the turn was one of new feedback.
EndTurn ==
  /\ at = "turn_done"
  /\ at' = IF Indexes("complete") # {} /\ ~unseen THEN Over ELSE "choose"
  /\ UNCHANGED <<iteration, turn, chosen, turnVars>>
SmartStep ==
  \/ CallPlanner \/ ChooseTools \/ ModelFails \/ SendFeedback \/ FeedbackResolved
  \/ ExecuteToolCalls \/ NextCall \/ (\E i \in executing : ExecuteToolCall(i)) \/ ProcessResults \/ EndTurn
SmartSpec == SmartInit /\ [][SmartStep]_smartVars

-----------------------------------------------------------------------------
\* The user is asked each decision once, however often the model requests it, in
\* whatever turn, and whether it was answered or not.
DecisionAskedOnce == \A d \in Decisions : decided[d] <= 1

\* "New feedback pauses other tool execution for the turn. Already-resolved
\* feedback becomes a synthetic result, and any other requested tools continue"
\* (_execute_tool_calls_turn): otherwise every call of a function and every
\* user_feedback with a question gets its result.  A user_feedback without one is
\* dropped: it pauses nothing, and the model is told nothing of it.
EveryCallAnswered ==
  at = "turn_done" =>
    IF unseen THEN answered \cap Indexes("tool") = {}
    ELSE answered = Indexes("tool") \cup Indexes("ask")

\* What the user answered reaches the model or the planner before the loop ends,
\* unless the turns, and the planner's iterations, have run out.
FeedbackIsUsed == at = "done" /\ unseen => Turns = MaxIterations /\ iteration = MaxIterations
==============================================================================
