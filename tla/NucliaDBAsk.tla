------------------------------ MODULE NucliaDBAsk ------------------------------
(***************************************************************************)
(* The basic and advanced ask agents: an operation on the knowledge boxes  *)
(* of their sources, in parallel, each through its driver, whose filters   *)
(* say which resources may be retrieved.  A filter is the set of resources *)
(* that it lets through.                                                   *)
(***************************************************************************)
EXTENDS Naturals, Sequences, FiniteSets

CONSTANTS
  Sources, Resources,
  Configs,    \* bound: configurations that a driver may have
  Operations, \* bound: of the agent, the ones that are called
  LabelCalls, \* bound: the labels that a program calls ask_agent with
  NoLabelset, \* of a label that is not of the format labelset/label
  HasFallback

VARIABLES
  driver,   \* config of the driver of each source
  known,    \* sources whose information the session memory has
  operation,
  asked,    \* the filters of the call: keyword_filters, or filter_expression
  labels,   \* and its labels, each with the resources it is of
  branch,   \* where each source is, and the resources that match the title there
  contexts, \* what each source has given
  missing,  \* "none", or whether the question is missing in each source
  result

ndbVars == <<driver, known, operation, asked, labels, branch, contexts, missing, result>>

\* filters is the deprecated list, parsed whether it could be converted; operator
\* combines the field and the paragraph part of filter_expression.
IsConfig(c) ==
  /\ c.filters \subseteq Resources /\ c.parsed \in BOOLEAN /\ c.expression \subseteq Resources
  /\ c.operator \in {"and", "or"} /\ c.catalog \subseteq Resources

ByTitle == {"ask_by_title", "search_images_by_title", "search_images", "all_images_by_title"}
Catalog == {"facets_search", "facets_count", "catalog_search"}
QuestionOperations == {"question", "advanced"}

NdbTypeOK ==
  /\ \A s \in Sources : IsConfig(driver[s]) /\ missing[s] \in {"unknown", "none", "missing"}
  /\ known \subseteq Sources /\ operation \in Operations /\ asked \subseteq Resources
  /\ labels \in LabelCalls \cup {<<>>}
  /\ \A s \in Sources : contexts[s] \subseteq Resources /\ branch[s].titled \subseteq Resources
  /\ result \in {"running", "done", "fallback", "failed"}

NdbInit ==
  /\ driver \in [Sources -> Configs] /\ operation \in Operations
  /\ asked \in IF operation \in {"ask_agent", "advanced"} THEN SUBSET Resources ELSE {Resources}
  /\ labels \in IF operation = "ask_agent" THEN LabelCalls ELSE {<<>>}
  /\ branch = [s \in Sources |->
       [at |-> IF operation \in ByTitle THEN "search" ELSE IF operation = "ask_agent" THEN "labels" ELSE "load",
        titled |-> {}]]
  /\ known = {} /\ contexts = [s \in Sources |-> {}] /\ missing = [s \in Sources |-> "unknown"] /\ result = "running"

Goto(s, at) == branch' = [branch EXCEPT ![s].at = at]
At(s, at) == branch[s].at = at
Give(s, given) == contexts' = [contexts EXCEPT ![s] = given]
\* Nothing catches an exception of one source: the operation fails, and the
\* other sources, which nobody waits for any more, run on.
Fail(s) == result' = "failed" /\ Goto(s, "left")

-----------------------------------------------------------------------------
(* The labels of a call of ask_agent.                                      *)

\* A label that is invalid is logged, and the one read before it is added again
\* (which there is, since a call that begins with an invalid one has failed).
ValidLabel(i) == labels[i].labelset # NoLabelset
Added(i) == labels[CHOOSE j \in 1..i : (j = 1 \/ ValidLabel(j)) /\ \A k \in (j + 1)..i : ~ValidLabel(k)]
LabelsDict == {Added(i).labelset : i \in DOMAIN labels}
LabelValues(labelset) == {i \in DOMAIN labels : Added(i).labelset = labelset}
Several == {labelset \in LabelsDict : Cardinality(LabelValues(labelset)) > 1}
\* or_filters is assigned for each labelset with several labels, in the order in
\* which they came first: the last one stays.
OrFilters ==
  CHOOSE labelset \in Several :
    \A other \in Several : \E i \in LabelValues(other) : \A j \in LabelValues(labelset) : i <= j
LabelFilter ==
  {r \in Resources :
     /\ \A labelset \in LabelsDict \ Several : \A i \in LabelValues(labelset) : r \in Added(i).of
     /\ Several # {} => \E i \in LabelValues(OrFilters) : r \in Added(i).of}

\* Before the first valid label there is none to add again: the call is an error.
ConvertLabels ==
  /\ result = "running" /\ \A s \in Sources : At(s, "labels")
  /\ LET converted == labels = <<>> \/ ValidLabel(1) IN
     /\ branch' = [s \in Sources |-> [branch[s] EXCEPT !.at = IF converted THEN "load" ELSE "left"]]
     /\ result' = IF converted THEN "running" ELSE "failed"
  /\ UNCHANGED <<driver, known, operation, asked, labels, contexts, missing>>

-----------------------------------------------------------------------------
(* The sources.                                                            *)

\* choose_source: one by one, the information of the sources is loaded, with
\* requests in parallel of which only those of facets_native may fail.
LoadSourceInformation(s) ==
  /\ result = "running" /\ At(s, "load")
  /\ IF s \in known THEN Goto(s, "loaded") /\ UNCHANGED <<known, result>>
     ELSE \/ known' = known \cup {s} /\ Goto(s, "loaded") /\ UNCHANGED result
          \/ Fail(s) /\ UNCHANGED known
  /\ UNCHANGED <<driver, operation, asked, labels, contexts, missing>>
\* The model chooses when there are several, even none; an unknown id is an error.
ChooseSource ==
  /\ result = "running" /\ \A s \in Sources : At(s, "loaded")
  /\ \/ \E chosen \in IF Cardinality(Sources) = 1 THEN {Sources} ELSE SUBSET Sources :
          branch' = [s \in Sources |-> [branch[s] EXCEPT !.at = IF s \in chosen THEN "ask" ELSE "left"]]
        /\ UNCHANGED result
     \/ Cardinality(Sources) > 1 /\ result' = "failed" /\ branch' = [s \in Sources |-> [branch[s] EXCEPT !.at = "left"]]
  /\ UNCHANGED <<driver, known, operation, asked, labels, contexts, missing>>

-----------------------------------------------------------------------------
(* The filters of a request.                                               *)

\* The filters in the old format; the ones that cannot be converted are left out.
ToFieldFilterExpression(c) == IF c.parsed THEN c.filters ELSE Resources
\* An expression is combined with the filters there are when it has their operator.
CanCombine(c, filtered) == c.expression # Resources /\ filtered => c.operator = "and"
\* Mutation of BuildFilterExpression: an expression of the driver is used when
\* the call has no filters.
BuildFirstFilter(c, filters) ==
  IF ToFieldFilterExpression(c) \cap filters # Resources THEN ToFieldFilterExpression(c) \cap filters ELSE c.expression
BuildFilterExpression(c, filters) == ToFieldFilterExpression(c) \cap filters \cap c.expression
BuildCatalogFilterExpression(c, filters) == filters \cap c.catalog
\* The agent's own expression, with the driver's filters or else its expression.
ParseFilterExpression(c, filters) == filters \cap IF c.filters # Resources THEN ToFieldFilterExpression(c) ELSE c.expression
BuildAskRequest(c, filters) ==
  IF ParseFilterExpression(c, filters) = Resources THEN c.filters ELSE ParseFilterExpression(c, filters)

\* retrieve and inner_rag; the synonyms of a keyword only widen it within asked.
InnerRag(s) == BuildFilterExpression(driver[s], asked \cap LabelFilter)
\* rag, kept as it was: the deprecated filters only.
Rag(s) == driver[s].filters
\* do_nucliadb_query: one resource is a filter, several are none.
DoNucliadbQuery(s) ==
  BuildFilterExpression(driver[s], IF Cardinality(branch[s].titled) = 1 THEN branch[s].titled ELSE Resources)
SearchImages(s) == branch[s].titled
InnerFacetsSearch(s) == BuildCatalogFilterExpression(driver[s], asked)
\* field_labels, and a catalog request with the filters the model has written
\* (none when they cannot be parsed).
InnerFacets(s) == Resources
InnerCatalogSearch(s) == Resources

Scope(s) ==
  CASE operation = "question" -> Rag(s)
    [] operation = "advanced" -> BuildAskRequest(driver[s], asked)
    [] operation = "ask_agent" -> InnerRag(s)
    [] operation \in {"ask_by_title", "search_images_by_title"} -> DoNucliadbQuery(s)
    [] operation \in {"search_images", "all_images_by_title"} -> SearchImages(s)
    [] operation = "facets_search" -> InnerFacetsSearch(s)
    [] operation = "facets_count" -> InnerFacets(s)
    [] OTHER -> InnerCatalogSearch(s)
Combines(s) ==
  CASE operation = "ask_agent" -> CanCombine(driver[s], labels # <<>> \/ asked \cap ToFieldFilterExpression(driver[s]) # Resources)
    [] operation = "advanced" -> CanCombine(driver[s], asked # Resources) /\ (driver[s].filters # Resources => asked = Resources)
    [] operation \in {"ask_by_title", "search_images_by_title"} ->
         CanCombine(driver[s], Cardinality(branch[s].titled) = 1 \/ ToFieldFilterExpression(driver[s]) # Resources)
    [] OTHER -> TRUE

-----------------------------------------------------------------------------
(* The requests.                                                           *)

\* search_by_title, one source after the other: the catalog finds the resources.
SearchByTitle(s) ==
  /\ result = "running" /\ At(s, "search")
  /\ \/ \E titled \in SUBSET BuildCatalogFilterExpression(driver[s], Resources) :
          branch' = [branch EXCEPT ![s] = [at |-> IF titled = {} THEN "left" ELSE "searched", titled |-> titled]]
        /\ UNCHANGED result
     \/ Fail(s)
  /\ UNCHANGED <<driver, known, operation, asked, labels, contexts, missing>>
AskByTitle ==
  /\ result = "running" /\ operation \in ByTitle /\ \E s \in Sources : At(s, "searched")
  /\ \A s \in Sources : At(s, "searched") \/ At(s, "left")
  /\ branch' = [s \in Sources |-> [branch[s] EXCEPT !.at = IF @ = "searched" THEN "ask" ELSE @]]
  /\ UNCHANGED <<driver, known, operation, asked, labels, contexts, missing, result>>

\* The knowledge box retrieves within the filters, and its answer becomes a context.
CreateContext(s, retrieved) == Give(s, retrieved) /\ UNCHANGED <<missing, result>>
\* The model may choose no labels: facets_search gives an empty context then, and
\* facets_count has none to give, which is an error.
NoLabels(s) == operation = "facets_search" /\ CreateContext(s, {}) /\ Goto(s, "left")
Retrieved(s, retrieved) ==
  IF operation \in QuestionOperations
    THEN /\ branch' = [branch EXCEPT ![s] = [at |-> "save", titled |-> retrieved]]
         /\ UNCHANGED <<contexts, missing, result>>
    ELSE CreateContext(s, retrieved) /\ Goto(s, "left")
\* The images are asked for one source after the other: an error ends them all.
InTurn(s) == At(s, "ask") /\ (operation \in {"search_images", "all_images_by_title"} => result = "running")
Ask(s) ==
  /\ InTurn(s)
  /\ IF Combines(s) THEN \E retrieved \in SUBSET Scope(s) : Retrieved(s, retrieved)
     ELSE Fail(s) /\ UNCHANGED <<contexts, missing>>
  /\ UNCHANGED <<driver, known, operation, asked, labels>>
AskFails(s) ==
  /\ InTurn(s)
  /\ \/ Fail(s) /\ UNCHANGED <<contexts, missing>>
     \/ NoLabels(s)
  /\ UNCHANGED <<driver, known, operation, asked, labels>>
\* The answer is kept, unless there is none and no fallback either; keeping it
\* says whether it is enough, and whether it has anything to keep.
SaveAnswer(s) ==
  /\ At(s, "save") /\ Goto(s, "left")
  /\ \E answer \in BOOLEAN :
       IF answer \/ HasFallback
         THEN /\ \E enough \in BOOLEAN : missing' = [missing EXCEPT ![s] = IF enough THEN "none" ELSE "missing"]
              /\ Give(s, branch[s].titled)
         ELSE missing' = [missing EXCEPT ![s] = "missing"] /\ UNCHANGED contexts
  /\ UNCHANGED <<driver, known, operation, asked, labels, result>>

\* Mutation of GetQuestionContext: one source that misses it is enough.
FallbackIfAny ==
  IF \E s \in Sources : missing[s] = "missing" THEN "fallback" ELSE "done"
\* All the sources that were asked have answered.
GetQuestionContext ==
  LET answered == {s \in Sources : missing[s] # "unknown"} IN
  IF answered # {} /\ \A s \in answered : missing[s] = "missing" THEN "fallback" ELSE "done"
Gathered ==
  /\ result = "running" /\ \A s \in Sources : At(s, "left")
  /\ result' = GetQuestionContext
  /\ UNCHANGED <<driver, known, operation, asked, labels, branch, contexts, missing>>

NdbStep ==
  \/ ConvertLabels \/ ChooseSource \/ AskByTitle \/ Gathered
  \/ \E s \in Sources :
       LoadSourceInformation(s) \/ SearchByTitle(s) \/ Ask(s) \/ AskFails(s) \/ SaveAnswer(s)
NdbSpec == NdbInit /\ [][NdbStep]_ndbVars

-----------------------------------------------------------------------------
\* The resources with one of the labels asked of each labelset.
AllLabels ==
  {r \in Resources :
     \A i \in DOMAIN labels : \E j \in DOMAIN labels : labels[j].labelset = labels[i].labelset /\ r \in labels[j].of}
ValidLabels == \A i \in DOMAIN labels : ValidLabel(i)

\* "It will merge whatever filters were passed by the user with the ones
\* configured at the driver level" (build_filter_expression): what ask_agent,
\* ask_by_title and search_images_by_title retrieve is within both, whatever a
\* title matched, and within every labelset of the call as long as its labels
\* are valid and only one labelset has several.  The other operations (rag,
\* advanced, facets, catalog) build their filters in another way.
MergedFilters ==
  \A s \in Sources :
    operation \in {"ask_agent", "ask_by_title", "search_images_by_title"} =>
      /\ contexts[s] \subseteq asked \cap LabelFilter \cap driver[s].expression \cap ToFieldFilterExpression(driver[s])
      /\ ValidLabels /\ (\A k, l \in Several : k = l) => contexts[s] \subseteq AllLabels

\* The same of the labels, however many labelsets have several: what ask_agent
\* retrieves has one of the labels of each.  It does not hold: or_filters is
\* assigned anew for each of those labelsets, and only the last one is kept.
WithinLabels == \A s \in Sources : operation = "ask_agent" /\ ValidLabels => contexts[s] \subseteq AllLabels

\* "We only want to fallback if all sources failed" (_get_question_context): no
\* source that found enough was asked in vain.
FallbackIfAllFailed == result = "fallback" => ~\E s \in Sources : missing[s] = "none"

\* "This will be combined with any other filters that are provided at query time
\* or chosen by the agent, using an AND operator" (filter_expression of a source).
WithinFilterExpression == \A s \in Sources : contexts[s] \subseteq driver[s].expression

\* "Then perform ask operation filtered by those resource IDs" (ask_by_title).
OnlyTitledResources == \A s \in Sources : operation \in ByTitle => contexts[s] \subseteq branch[s].titled
================================================================================
