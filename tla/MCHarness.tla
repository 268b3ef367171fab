------------------------------- MODULE MCHarness -------------------------------
(***************************************************************************)
(* Harness for TLC, in two scenarios: tools that spawn children and wait   *)
(* for them, whose consumer may go away; and a history of plain tools,     *)
(* steered messages and reloads from the log.                              *)
(***************************************************************************)
EXTENDS Harness

CONSTANT Scenarios

VARIABLE scenario

Explored ==
  /\ scenario = "children" => steer' = steer /\ reloads' = 0
  /\ scenario = "history" =>
       /\ ~abandoned'
       /\ \A s \in Slots : tools'[s] \in {Over, [does |-> "plain", kid |-> NoKid]}
       /\ \A s \in Slots : s # (CHOOSE first \in Slots : TRUE) => tools'[s] = Over

ScenarioInit == scenario \in Scenarios /\ Init

ScenarioNext == Next /\ Explored /\ UNCHANGED scenario

ScenarioSpec == ScenarioInit /\ [][ScenarioNext]_<<vars, scenario>> /\ Fairness

================================================================================
