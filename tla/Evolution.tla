------------------------------ MODULE Evolution ------------------------------
(***************************************************************************)
(* evolve(): a procedural graph is refined in rounds, and only a candidate *)
(* that scores no worse than the retained graph replaces it.  Everything   *)
(* is published in an output directory, file after file, and the process   *)
(* may stop between any two of them, as any error of a file stops it; the  *)
(* directory is created exclusively, so nothing continues it.              *)
(*                                                                         *)
(* A graph is its nodes, with the tool an ACTION is bound to, and its      *)
(* edges; descriptions, guidance and several relations between the same    *)
(* two nodes are left out.  A fingerprint stands for its graph.            *)
(***************************************************************************)
EXTENDS Naturals, Sequences, FiniteSets, SequencesExt

CONSTANTS
  Ids,             \* ids of nodes, "Start" among them
  Procedures,      \* what an ACTION may be bound to
  AvailableTools,  \* available_tools
  InitialGraphs,   \* bound: the graphs evolve() may be called with
  Rounds,          \* rounds
  MaxScore,        \* bound: scores are 0..MaxScore
  MaxEdits,        \* bound: node and edge edits of a proposal
  MemoryLimit,     \* rejection_memory_limit
  MaxChars,        \* max_rejection_chars, in units of Sizes
  Sizes            \* bound: how long the summary of a rejection may be

VARIABLES
  pc,        \* what evolve() does next
  round,     \* round_id
  retained,  \* retained and retained_score
  candidate, \* candidate and candidate_score
  verdict,   \* the status and reason of the record
  rejections,\* rejections
  told,      \* the summaries given to the refiner
  \* the output directory
  graphs,    \* graphs/
  baseline,  \* baseline.json
  rounds,    \* rounds/
  rejected,  \* rejections/
  current    \* retained.json

vars == <<pc, round, retained, candidate, verdict, rejections, told, graphs, baseline, rounds, rejected, current>>
files == <<graphs, baseline, rounds, rejected, current>>

NoTool == "no tool"
NoGraph == [nodes |-> <<>>, edges |-> {}, acyclic |-> FALSE]
Unscored == MaxScore + 1
Scores == 0..MaxScore

-----------------------------------------------------------------------------
(* Graphs.                                                                 *)

Nodes(g) == DOMAIN g.nodes
Targets(g, n) == {e[2] : e \in {e \in g.edges : e[1] = n}}
Bound(g) == {n \in Nodes(g) : g.nodes[n] # NoTool}

\* From the terminals backwards, until nothing is added.
ReachTerminal(g) ==
  LET reached[k \in 0..Cardinality(Nodes(g))] ==
        IF k = 0 THEN {n \in Nodes(g) : Targets(g, n) = {}}
        ELSE LET r == reached[k - 1] IN r \cup {n \in Nodes(g) : Targets(g, n) \cap r # {}}
  IN  reached[Cardinality(Nodes(g))]

\* Nodes without an edge from those left are taken away, until there is none;
\* what is left is on cycles or behind one.
Unsorted(g) ==
  LET rest[k \in 0..Cardinality(Nodes(g))] ==
        IF k = 0 THEN Nodes(g)
        ELSE LET r == rest[k - 1] IN {n \in r : \E m \in r : n \in Targets(g, m)}
  IN  rest[Cardinality(Nodes(g))]

\* Mutation of EachReachesTerminal: there is one somewhere.
HasTerminal(g) == \E n \in Nodes(g) : Targets(g, n) = {}
EachReachesTerminal(g) == ReachTerminal(g) = Nodes(g)

\* validate_graph
ValidGraph(g) ==
  /\ "Start" \in Nodes(g) \ Bound(g)
  /\ \A n \in Bound(g) : g.nodes[n] # "Start" /\ \A m \in Bound(g) \ {n} : g.nodes[m] # g.nodes[n]
  /\ \A e \in g.edges : {e[1], e[2]} \subseteq Nodes(g)
  /\ EachReachesTerminal(g)
  /\ g.acyclic => Unsorted(g) = {}

CheckTools(g) == \A n \in Bound(g) : g.nodes[n] \in AvailableTools

\* The edits of a proposal: what is done, to which node, and the tool a node is
\* bound to or the target of the edge.
Edit ==
  [does : {"add node"}, node : Ids, with : Procedures \cup {NoTool}]
    \cup [does : {"delete node"}, node : Ids, with : {NoTool}]
    \cup [does : {"add edge", "delete edge"}, node : Ids, with : Ids]
OneMore(some) == {edits \cup {e} : edits \in some, e \in Edit} \cup {{}}
Edits == LET some[n \in 0..MaxEdits] == IF n = 0 THEN {{}} ELSE OneMore(some[n - 1]) IN some[MaxEdits]
The(edits, what) == {e \in edits : e.does = what}
Pairs(edits) == {<<e.node, e.with>> : e \in edits}

\* prepare_candidate: deletions, then additions; `NoGraph` for a ValueError.
PrepareCandidate(g, edits) ==
  LET unlinked == Pairs(The(edits, "delete edge"))
      deleted == {e.node : e \in The(edits, "delete node")}
      kept == Nodes(g) \ deleted
      left == {e \in g.edges \ unlinked : {e[1], e[2]} \cap deleted = {}}
      added == The(edits, "add node")
      links == Pairs(The(edits, "add edge"))
      result ==
        [g EXCEPT !.nodes = [n \in kept \cup {e.node : e \in added} |->
                               IF n \in kept THEN g.nodes[n] ELSE (CHOOSE e \in added : e.node = n).with],
                  !.edges = left \cup links]
  IN  IF /\ unlinked \subseteq g.edges /\ deleted \subseteq Nodes(g)
         /\ \A e \in added : e.node \notin kept /\ \A f \in added \ {e} : f.node # e.node
         /\ links \cap left = {}
         /\ ValidGraph(result) /\ CheckTools(result)
      THEN result ELSE NoGraph

\* locate
Locate(g, procedure) ==
  IF procedure = "Start" THEN {"Start"} ELSE {n \in Bound(g) : g.nodes[n] = procedure}

\* Mutation of AtBoundary: the nodes at the boundary are expanded.
PastBoundary(depth, hops) == depth > hops
AtBoundary(depth, hops) == depth >= hops

\* neighborhood: breadth first, from a queue of nodes and depths that a node
\* enters once.
Explore(g, hops, start, active) ==
  LET search[k \in 0..Cardinality(Nodes(g))] ==
        IF k = 0 THEN [pending |-> <<[node |-> start, depth |-> 0]>>, nodes |-> active, edges |-> {}]
        ELSE LET s == search[k - 1] IN
             IF s.pending = <<>> THEN s
             ELSE LET source == Head(s.pending).node
                      depth == Head(s.pending).depth
                      next == IF AtBoundary(depth, hops) THEN {} ELSE Targets(g, source)
                      new == SetToSeq({[node |-> n, depth |-> depth + 1] : n \in next \ s.nodes})
                  IN  [pending |-> Tail(s.pending) \o new, nodes |-> s.nodes \cup next,
                       edges |-> s.edges \cup {<<source, n>> : n \in next}]
  IN  [nodes |-> search[Cardinality(Nodes(g))].nodes, edges |-> search[Cardinality(Nodes(g))].edges]
Neighborhood(g, procedure, hops) ==
  LET active == Locate(g, procedure)
      start == CHOOSE n \in active : TRUE
  IN  IF active = {} THEN [nodes |-> Nodes(g), edges |-> g.edges]
      ELSE Explore(g, hops, start, active)

-----------------------------------------------------------------------------
(* The rounds.                                                             *)

Init ==
  /\ pc = "manifest" /\ round = 0
  /\ \E g \in {g \in InitialGraphs : ValidGraph(g) /\ CheckTools(g)} : retained = [graph |-> g, score |-> Unscored]
  /\ candidate = [graph |-> NoGraph, score |-> Unscored] /\ verdict = "none"
  /\ rejections = <<>> /\ told = <<>>
  /\ graphs = {} /\ baseline = "none" /\ rounds = <<>> /\ rejected = {}
  /\ current = [graph |-> NoGraph, score |-> Unscored, round |-> 0]

Then(next) == pc' = next
\* store.graph
SaveGraph(g) == graphs' = graphs \cup {g} /\ UNCHANGED <<baseline, rounds, rejected, current>>
\* store.retain
Retain(kept, n) ==
  /\ current' = [graph |-> kept.graph, score |-> kept.score, round |-> n]
  /\ UNCHANGED <<graphs, baseline, rounds, rejected>>

\* The directory is claimed, with its manifest; the initial graph is retained.
Claimed ==
  /\ \/ pc = "manifest" /\ Then("first graph") /\ UNCHANGED files
     \/ pc = "first graph" /\ Then("first retain") /\ SaveGraph(retained.graph)
     \/ pc = "first retain" /\ Then("validate first") /\ Retain(retained, 0)
  /\ UNCHANGED <<round, retained, candidate, verdict, rejections, told>>

\* The initial graph is validated, or that fails and evolve() raises.
Baseline ==
  \/ /\ pc = "validate first"
     /\ \/ \E s \in Scores : retained' = [retained EXCEPT !.score = s] /\ baseline' = "scored" /\ Then("retain first")
        \/ baseline' = "error" /\ Then("over") /\ UNCHANGED retained
     /\ UNCHANGED <<round, candidate, verdict, rejections, told, graphs, rounds, rejected, current>>
  \/ /\ pc = "retain first" /\ Then("round") /\ Retain(retained, 0)
     /\ UNCHANGED <<round, retained, candidate, verdict, rejections, told>>

Length(summaries) == FoldLeft(LAMBDA n, r : n + r.size, 0, summaries)
\* Mutation of Summaries: the oldest first.
SummariesOldestFirst ==
  LET recent == SubSeq(rejections, IF Len(rejections) > MemoryLimit THEN Len(rejections) - MemoryLimit + 1 ELSE 1,
                       Len(rejections))
  IN  FoldLeft(LAMBDA summaries, r :
                 IF Length(Append(summaries, r)) <= MaxChars THEN Append(summaries, r) ELSE summaries,
               <<>>, recent)

\* What the refiner is told of rejections: the newest first, each if it fits.
Summaries ==
  LET recent == SubSeq(rejections, IF Len(rejections) > MemoryLimit THEN Len(rejections) - MemoryLimit + 1 ELSE 1,
                       Len(rejections))
  IN  FoldLeft(LAMBDA summaries, r :
                 IF Length(<<r>> \o summaries) <= MaxChars THEN <<r>> \o summaries ELSE summaries,
               <<>>, Reverse(recent))

\* A round up to its candidate: the batch is run, and the refiner proposes edits;
\* the run, the refiner and the proposal may each fail.
Propose ==
  /\ pc = "round" /\ round < Rounds
  /\ round' = round + 1
  /\ \/ told' = <<>> /\ verdict' = "training_error" /\ candidate' = [graph |-> NoGraph, score |-> Unscored]
     \/ told' = Summaries /\ verdict' = "refiner_error" /\ candidate' = [graph |-> NoGraph, score |-> Unscored]
     \/ /\ told' = Summaries
        /\ \E edits \in Edits : candidate' = [graph |-> PrepareCandidate(retained.graph, edits), score |-> Unscored]
        /\ verdict' = IF candidate'.graph = NoGraph THEN "proposal_error" ELSE "none"
  /\ Then(IF verdict' = "none" THEN "save candidate" ELSE "record")
  /\ UNCHANGED <<retained, rejections, files>>

\* Mutation of SaveCandidate: the graph is not written.
SaveNothing ==
  /\ pc = "save candidate" /\ Then("validate")
  /\ UNCHANGED <<round, retained, candidate, verdict, rejections, told, files>>

SaveCandidate ==
  /\ pc = "save candidate" /\ Then("validate") /\ SaveGraph(candidate.graph)
  /\ UNCHANGED <<round, retained, candidate, verdict, rejections, told>>

\* Mutation of NotWorse: a score one lower is good enough.
AlmostNotWorse(score) == score + 1 >= retained.score

NotWorse(score) == score >= retained.score

Validate ==
  /\ pc = "validate" /\ Then("record")
  /\ \/ verdict' = "validation_error" /\ UNCHANGED candidate
     \/ \E s \in Scores :
          /\ candidate' = [candidate EXCEPT !.score = s]
          /\ verdict' = IF NotWorse(s) THEN "accepted" ELSE "validation_worse"
  /\ UNCHANGED <<round, retained, rejections, told, files>>

\* The record of the round is written before what follows from it.
Record ==
  /\ pc = "record"
  /\ rounds' = Append(rounds, [verdict |-> verdict, graph |-> candidate.graph, score |-> candidate.score])
  /\ Then(IF verdict = "accepted" THEN "accept" ELSE "reject")
  /\ UNCHANGED <<round, retained, candidate, verdict, rejections, told, graphs, baseline, rejected, current>>

Accept ==
  /\ pc = "accept" /\ Retain(candidate, round)
  /\ retained' = candidate /\ Then("round")
  /\ UNCHANGED <<round, candidate, verdict, rejections, told>>

Reject ==
  /\ pc = "reject" /\ rejected' = rejected \cup {round}
  /\ \E n \in Sizes : rejections' = Append(rejections, [round |-> round, size |-> n])
  /\ Then("round")
  /\ UNCHANGED <<round, retained, candidate, verdict, told, graphs, baseline, rounds, current>>

\* evolve() returns the retained graph; or the process stops or a file fails.
Ends ==
  /\ pc \notin {"over", "returned"}
  /\ \/ pc = "round" /\ round = Rounds /\ Then("returned")
     \/ Then("over")
  /\ UNCHANGED <<round, retained, candidate, verdict, rejections, told, files>>

Next == Claimed \/ Baseline \/ Propose \/ SaveCandidate \/ Validate \/ Record \/ Accept \/ Reject \/ Ends

Spec == Init /\ [][Next]_vars

-----------------------------------------------------------------------------
(* Properties.                                                             *)

EvolutionTypeOK ==
  /\ round \in 0..Rounds /\ retained.score \in 0..Unscored /\ candidate.score \in 0..Unscored
  /\ Len(rounds) \in {round, round - 1} /\ rejected \subseteq 1..round
  /\ baseline \in {"none", "scored", "error"}

\* Reference: a path along the edges.
Path(g, a, b, n) ==
  \E p \in [0..n -> Nodes(g)] : p[0] = a /\ p[n] = b /\ \A i \in 1..n : <<p[i - 1], p[i]>> \in g.edges

\* Whatever the refiner proposes, a graph that is kept has a way from each node
\* to a terminal, no cycle where none is allowed, and no tool that is not there
\* (procedural/graph.py, validate_graph and check_tools).
GraphsAreSound ==
  \A g \in graphs :
    /\ \A a \in Nodes(g) :
         \E b \in Nodes(g), n \in 0..Cardinality(Nodes(g)) : Path(g, a, b, n) /\ \A m \in Nodes(g) : ~Path(g, b, m, 1)
    /\ g.acyclic => ~\E a \in Nodes(g), n \in 1..Cardinality(Nodes(g)) : Path(g, a, a, n)
    /\ {g.nodes[n] : n \in Nodes(g)} \subseteq AvailableTools \cup {NoTool}

\* The neighbourhood of an active node has the nodes a path of so many edges
\* reaches, each edge such a path may take, and no other (graph.neighborhood).
NeighborhoodIsWithinHops ==
  \A procedure \in AvailableTools \cup {"Start"}, hops \in 0..2 :
    \A start \in Locate(retained.graph, procedure) :
      LET near(n) == {m \in Nodes(retained.graph) : \E k \in 0..n : Path(retained.graph, start, m, k)}
      IN  Neighborhood(retained.graph, procedure, hops) =
            [nodes |-> near(hops),
             edges |-> IF hops = 0 THEN {} ELSE {e \in retained.graph.edges : e[1] \in near(hops - 1)}]

\* Wherever the process stops, retained.json leads to a graph that was written
\* and, once it has a score, to the accepted record of that score, which only the
\* newest round may be ahead of; and no round is both accepted and rejected.
RetainedIsRecorded ==
  /\ current.graph # NoGraph => current.graph \in graphs
  /\ current.round > 0 =>
       rounds[current.round] = [verdict |-> "accepted", graph |-> current.graph, score |-> current.score]
  /\ current.score # Unscored => baseline = "scored"
  /\ \A r \in 1..Len(rounds) : rounds[r].verdict = "accepted" /\ r < round => r <= current.round
  /\ \A r \in rejected : rounds[r].verdict # "accepted"
  /\ pc = "returned" => current.graph = retained.graph

\* The refiner is told of a recent rejection unless there is no room for it beside
\* the newer ones it is told of (evolve's docstring: newest entries take priority).
RefinerIsTold ==
  pc = "save candidate" =>
    /\ Length(told) <= MaxChars
    /\ \A r \in ToSet(rejections) \ ToSet(told) :
         \/ Cardinality({q \in ToSet(rejections) : q.round > r.round}) >= MemoryLimit
         \/ Length(SelectSeq(told, LAMBDA q : q.round > r.round)) + r.size > MaxChars

\* The score of the retained graph never gets worse (evolve).
NeverWorse == [][current.score # Unscored => current'.score >= current.score /\ current'.score # Unscored]_current
================================================================================
