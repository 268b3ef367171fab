------------------------------ MODULE AgentStore ------------------------------
(***************************************************************************)
(* The database of the agents' configuration (AgentManager) under the      *)
(* requests of the REST API, the loader of a question's configuration, the *)
(* export and import of an agent and the cron job that purges workflows.   *)
(* A request is the list of SQL statements it has still to execute (todo): *)
(* each runs on its own, and no transaction holds two of them together.    *)
(***************************************************************************)
EXTENDS Naturals, FiniteSets, Sequences, SequencesExt

CONSTANTS
  Agents,      \* of one account
  Workflows,   \* their ids besides "default"
  Kinds,       \* of a workflow's steps: those of StepKinds that are explored
  DriverIds,   \* identifiers of drivers
  DriverNames, \* and their names
  Fields,      \* of a driver's configuration
  Tasks,       \* requests that run at the same time
  Sequential,  \* a request starts when no other one is running
  MaxRequests, \* bound
  MaxRows      \* bound: rows of steps, drivers and prompts inserted

VARIABLES
  config,    \* retrieval_agent_config: an agent's rules, or Nothing
  workflow,  \* retrieval_agent_workflow
  rows,      \* retrieval_agent_preprocess, _context, _generation and _postprocess
  drivers,   \* retrieval_agents_drivers
  prompts,   \* retrieval_agent_prompts
  creds,     \* sync_oauth_credentials
  file,      \* what the last export wrote
  todo,      \* the statements each request has still to execute
  got,       \* what it has read
  requests,  \* made so far: the version that the next one writes
  ids        \* the last row id

db == <<config, workflow, rows, drivers, prompts, creds>>
storeVars == <<config, workflow, rows, drivers, prompts, creds, file, todo, got, requests, ids>>

StepKinds == <<"preprocess", "context", "generation", "postprocess">>
AllWorkflows == Workflows \cup {"default"}
Nothing == 0
NoWorkflow == [state |-> "none", val |-> Nothing]
NoFile == [workflows |-> {}, drivers |-> {}, prompts |-> {}]
NoQuery == [steps |-> {}, drivers |-> {}, rules |-> Nothing]
\* set: rows; first and read: the two queries of get_agent_config, then: its
\* workflow at the time of the first (no code reads it); kept: an export so far.
NoGot == [set |-> {}, first |-> NoQuery, then |-> NoWorkflow, read |-> NoWorkflow, kept |-> NoFile]

\* What get_agent_config's first query selects, of all tables but the workflow's.
StepsOf(a, w) == {r \in rows : r.a = a /\ r.w = w}
DriversOf(a) == {d \in drivers : d.a = a}
FirstQuery(a, w) == [steps |-> StepsOf(a, w), drivers |-> DriversOf(a), rules |-> config[a]]

Init ==
  /\ config = [a \in Agents |-> 1]
  /\ \E states \in [Agents \X Workflows -> {"none", "active", "deleted", "expired"}] :
       workflow = [a \in Agents |-> [w \in AllWorkflows |->
         IF w = "default" THEN [state |-> "active", val |-> 1]
         ELSE IF states[<<a, w>>] = "none" THEN NoWorkflow ELSE [state |-> states[<<a, w>>], val |-> 1]]]
  /\ rows = {} /\ drivers = {} /\ prompts = {} /\ creds = {}
  /\ file = NoFile
  /\ todo = [t \in Tasks |-> <<>>]
  /\ got = [t \in Tasks |-> NoGot]
  /\ requests = 1 /\ ids = 0

-----------------------------------------------------------------------------
\* The statements. One that fails ends its request: nothing is undone.
Run(t, do) == todo[t] # <<>> /\ Head(todo[t]).do = do
Done(t) == todo' = [todo EXCEPT ![t] = Tail(@)]
Abort(t) == todo' = [todo EXCEPT ![t] = <<>>]
S(t) == Head(todo[t])
Keep == UNCHANGED <<file, requests>>

EnsureWorkflowActive(t) ==
  /\ Run(t, "ensure")
  /\ IF workflow[S(t).a][S(t).w].state = "active" THEN Done(t) ELSE Abort(t)
  /\ UNCHANGED <<db, got, ids>> /\ Keep

\* A row needs the row it references, whatever the workflow's is_deleted says.
InsertStep(t) ==
  /\ Run(t, "insert") /\ ids < MaxRows
  /\ IF workflow[S(t).a][S(t).w].state = "none" THEN Abort(t) /\ UNCHANGED <<rows, ids>>
     ELSE /\ rows' = rows \cup {[id |-> ids + 1, a |-> S(t).a, w |-> S(t).w, k |-> S(t).k, val |-> S(t).val]}
          /\ ids' = ids + 1 /\ Done(t)
  /\ UNCHANGED <<config, workflow, drivers, prompts, creds, got>> /\ Keep
Matches(s) == {r \in rows : r.id = s.id /\ r.a = s.a /\ r.w = s.w /\ r.k = s.k}
UpdateStep(t) ==
  /\ Run(t, "update") /\ Done(t)
  /\ rows' = (rows \ Matches(S(t))) \cup {[r EXCEPT !.val = S(t).val] : r \in Matches(S(t))}
  /\ UNCHANGED <<config, workflow, drivers, prompts, creds, got, ids>> /\ Keep
DeleteStep(t) ==
  /\ Run(t, "delete") /\ Done(t)
  /\ rows' = rows \ Matches(S(t))
  /\ UNCHANGED <<config, workflow, drivers, prompts, creds, got, ids>> /\ Keep
SelectSteps(t) ==
  /\ Run(t, "select") /\ Done(t)
  /\ got' = [got EXCEPT ![t].set = {r \in StepsOf(S(t).a, S(t).w) : r.k = S(t).k}]
  /\ UNCHANGED <<db, ids>> /\ Keep

\* add_workflow: the primary key also holds the ids of deleted workflows.
AddWorkflow(t) ==
  /\ Run(t, "add_workflow")
  /\ IF config[S(t).a] = Nothing \/ workflow[S(t).a][S(t).w].state # "none" THEN Abort(t) /\ UNCHANGED workflow
     ELSE Done(t) /\ workflow' = [workflow EXCEPT ![S(t).a][S(t).w] = [state |-> "active", val |-> S(t).val]]
  /\ UNCHANGED <<config, rows, drivers, prompts, creds, got, ids>> /\ Keep
\* The update of set_workflow and of set_workflow_rules.
UpdateWorkflow(t) ==
  /\ Run(t, "set_workflow") /\ Done(t)
  /\ workflow' = [workflow EXCEPT ![S(t).a][S(t).w] = IF @.state = "active" THEN [@ EXCEPT !.val = S(t).val] ELSE @]
  /\ UNCHANGED <<config, rows, drivers, prompts, creds, got, ids>> /\ Keep
SoftDelete(t) ==
  /\ Run(t, "delete_workflow") /\ Done(t)
  /\ workflow' = [workflow EXCEPT ![S(t).a][S(t).w].state = IF @ = "active" THEN "deleted" ELSE @]
  /\ UNCHANGED <<config, rows, drivers, prompts, creds, got, ids>> /\ Keep
\* Mutation of PurgeDeletedWorkflow: the row that was listed, whatever it is by now.
PurgeListed(t) ==
  LET a == S(t).a  w == S(t).w IN
  /\ Run(t, "purge") /\ Done(t)
  /\ workflow' = [workflow EXCEPT ![a][w] = NoWorkflow]
  /\ rows' = rows \ StepsOf(a, w)
  /\ UNCHANGED <<config, drivers, prompts, creds, got, ids>> /\ Keep
\* purge_deleted_workflow, and the cascade to the steps.
PurgeDeletedWorkflow(t) ==
  LET a == S(t).a  w == S(t).w  gone == workflow[a][w].state \in {"deleted", "expired"} IN
  /\ Run(t, "purge") /\ Done(t)
  /\ workflow' = IF gone THEN [workflow EXCEPT ![a][w] = NoWorkflow] ELSE workflow
  /\ rows' = IF gone THEN rows \ StepsOf(a, w) ELSE rows
  /\ UNCHANGED <<config, drivers, prompts, creds, got, ids>> /\ Keep

\* add_agent's first insert; AddWorkflow is its second one.
AddAgent(t) ==
  /\ Run(t, "add_agent")
  /\ IF config[S(t).a] # Nothing THEN Abort(t) /\ UNCHANGED config
     ELSE Done(t) /\ config' = [config EXCEPT ![S(t).a] = S(t).val]
  /\ UNCHANGED <<workflow, rows, drivers, prompts, creds, got, ids>> /\ Keep
\* delete_agent: every table references the configuration with ON DELETE CASCADE.
DeleteAgent(t) ==
  LET Others(set) == {r \in set : r.a # S(t).a} IN
  /\ Run(t, "delete_agent") /\ Done(t)
  /\ config' = [config EXCEPT ![S(t).a] = Nothing]
  /\ workflow' = [workflow EXCEPT ![S(t).a] = [w \in AllWorkflows |-> NoWorkflow]]
  /\ rows' = Others(rows) /\ drivers' = Others(drivers) /\ prompts' = Others(prompts) /\ creds' = Others(creds)
  /\ UNCHANGED <<got, ids>> /\ Keep
SetRules(t) ==
  /\ Run(t, "set_rules") /\ Done(t)
  /\ config' = [config EXCEPT ![S(t).a] = IF @ = Nothing THEN @ ELSE S(t).val]
  /\ UNCHANGED <<workflow, rows, drivers, prompts, creds, got, ids>> /\ Keep

\* An agent has one driver of an identifier.
InsertDriver(t) ==
  /\ Run(t, "add_driver") /\ ids < MaxRows
  /\ IF config[S(t).a] = Nothing \/ \E d \in DriversOf(S(t).a) : d.k = S(t).k
     THEN Abort(t) /\ UNCHANGED <<drivers, ids>>
     ELSE /\ drivers' = drivers \cup {[id |-> ids + 1, a |-> S(t).a, k |-> S(t).k, n |-> S(t).n, val |-> S(t).val]}
          /\ ids' = ids + 1 /\ Done(t)
  /\ UNCHANGED <<config, workflow, rows, prompts, creds, got>> /\ Keep
OneDriver(s) == {d \in DriversOf(s.a) : d.id = s.id}
\* get_driver: patch_driver reads what it merges the request into, and returns if there is nothing.
GetDriver(t) ==
  /\ Run(t, "get_driver")
  /\ IF OneDriver(S(t)) = {} THEN Abort(t) ELSE Done(t)
  /\ got' = [got EXCEPT ![t].set = OneDriver(S(t))]
  /\ UNCHANGED <<db, ids>> /\ Keep
\* The fields of the request over the configuration that was read.
DeepUpdate(original, fields, v) == [f \in Fields |-> IF f \in fields THEN v ELSE original[f]]
UpdateDriver(t) ==
  LET read == CHOOSE d \in got[t].set : TRUE
      merged == DeepUpdate(read.val, S(t).set, S(t).val) IN
  /\ Run(t, "patch_driver") /\ Done(t)
  /\ drivers' = (drivers \ OneDriver(S(t))) \cup {[d EXCEPT !.n = S(t).n, !.val = merged] : d \in OneDriver(S(t))}
  /\ UNCHANGED <<config, workflow, rows, prompts, creds, got, ids>> /\ Keep
DeleteDriver(t) ==
  /\ Run(t, "delete_driver") /\ Done(t)
  /\ drivers' = drivers \ OneDriver(S(t))
  /\ UNCHANGED <<config, workflow, rows, prompts, creds, got, ids>> /\ Keep
GetDrivers(t) ==
  /\ Run(t, "get_drivers") /\ Done(t)
  /\ got' = [got EXCEPT ![t].set = DriversOf(S(t).a)]
  /\ UNCHANGED <<db, ids>> /\ Keep

InsertPrompt(t) ==
  /\ Run(t, "add_prompt") /\ ids < MaxRows
  /\ IF config[S(t).a] = Nothing THEN Abort(t) /\ UNCHANGED <<prompts, ids>>
     ELSE prompts' = prompts \cup {[id |-> ids + 1, a |-> S(t).a, val |-> S(t).val]} /\ ids' = ids + 1 /\ Done(t)
  /\ UNCHANGED <<config, workflow, rows, drivers, creds, got>> /\ Keep
OnePrompt(s) == {p \in prompts : p.a = s.a /\ p.id = s.id}
SetPrompt(t) ==
  /\ Run(t, "set_prompt") /\ Done(t)
  /\ prompts' = (prompts \ OnePrompt(S(t))) \cup {[p EXCEPT !.val = S(t).val] : p \in OnePrompt(S(t))}
  /\ UNCHANGED <<config, workflow, rows, drivers, creds, got, ids>> /\ Keep
DeletePrompt(t) ==
  /\ Run(t, "delete_prompt") /\ Done(t)
  /\ prompts' = prompts \ OnePrompt(S(t))
  /\ UNCHANGED <<config, workflow, rows, drivers, creds, got, ids>> /\ Keep
GetPrompt(t) ==
  /\ Run(t, "get_prompt")
  /\ got' = [got EXCEPT ![t].set = OnePrompt(S(t))]
  /\ IF OnePrompt(S(t)) = {} THEN Abort(t) ELSE Done(t)
  /\ UNCHANGED <<db, ids>> /\ Keep
\* get_prompts: the WHERE names the columns of retrieval_agent_config, which is
\* joined without a condition: the prompts of every agent, if this one exists.
SelectedPrompts(a) == IF config[a] = Nothing THEN {} ELSE prompts
GetPrompts(t) ==
  /\ Run(t, "get_prompts") /\ Done(t)
  /\ got' = [got EXCEPT ![t].set = SelectedPrompts(S(t).a), ![t].kept.prompts = SelectedPrompts(S(t).a)]
  /\ UNCHANGED <<db, ids>> /\ Keep

\* upsert_sync_oauth_credentials_batch: the one transaction there is.
UpsertCredentials(t) ==
  /\ Run(t, "upsert")
  /\ IF config[S(t).a] = Nothing THEN Abort(t) /\ UNCHANGED creds
     ELSE /\ creds' = {c \in creds : c.a # S(t).a \/ c.k \notin S(t).ks}
                        \cup {[a |-> S(t).a, k |-> k, val |-> S(t).val] : k \in S(t).ks}
          /\ Done(t)
  /\ UNCHANGED <<config, workflow, rows, drivers, prompts, got, ids>> /\ Keep
GetCredentials(t) ==
  /\ Run(t, "get_credentials") /\ Done(t)
  /\ got' = [got EXCEPT ![t].set = {c \in creds : c.a = S(t).a /\ c.k = S(t).k}]
  /\ UNCHANGED <<db, ids>> /\ Keep

\* get_agent_config: the union of the tables ...
SelectConfig(t) ==
  /\ Run(t, "select_config") /\ Done(t)
  /\ got' = [got EXCEPT ![t].first = FirstQuery(S(t).a, S(t).w), ![t].then = workflow[S(t).a][S(t).w], ![t].read = NoWorkflow]
  /\ UNCHANGED <<db, ids>> /\ Keep
\* ... and, in a second query, the active workflow.
SelectWorkflow(t) ==
  LET wf == workflow[S(t).a][S(t).w] IN
  /\ Run(t, "select_workflow")
  /\ IF wf.state = "active" /\ got[t].first.rules # Nothing
     THEN Done(t) /\ got' = [got EXCEPT ![t].read = wf]
     ELSE Abort(t) /\ UNCHANGED got
  /\ UNCHANGED <<db, ids>> /\ Keep

GetRules(t) ==
  /\ Run(t, "get_rules") /\ Done(t)
  /\ got' = [got EXCEPT ![t].first.rules = config[S(t).a]]
  /\ UNCHANGED <<db, ids>> /\ Keep

-----------------------------------------------------------------------------
\* What the functions of AgentManager execute.
St(do, a, w) == [do |-> do, a |-> a, w |-> w]
StepSt(do, a, w, k, id, v) == [do |-> do, a |-> a, w |-> w, k |-> k, id |-> id, val |-> v]
AgentSt(do, a, k, id, v) == [do |-> do, a |-> a, k |-> k, id |-> id, val |-> v]
Ensured(st) == <<St("ensure", st.a, st.w), st>>
Load(a, w) == <<St("select_config", a, w), St("select_workflow", a, w)>>
WorkflowSt(do, a, w, v) == [do |-> do, a |-> a, w |-> w, val |-> v]
NewAgent(a, v) == <<AgentSt("add_agent", a, "", 0, v), WorkflowSt("add_workflow", a, "default", v)>>

\* Mutation of DeleteWorkflow: any active workflow.
DeleteAnyWorkflow(a, w) == Ensured(St("delete_workflow", a, w))
\* delete_workflow refuses the default workflow before it looks at the database.
DeleteWorkflow(a, w) == IF w = "default" THEN <<>> ELSE Ensured(St("delete_workflow", a, w))

\* is_empty looks at what get_agent_config read of the default workflow.
IsEmpty(first) == first.steps = {} /\ first.drivers = {}

\* One driver of each name: the last.
ByName(set) == {d \in set : ~ \E e \in set : e.n = d.n /\ e.id > d.id}
StepsInOrder(set) == FlattenSeq([i \in DOMAIN StepKinds |-> SetToSeq({r \in set : r.k = StepKinds[i]})])
\* What import_config writes of a workflow of the file.
ImportWorkflow(a, wf) ==
  (IF wf.w = "default" THEN Ensured(WorkflowSt("set_workflow", a, "default", wf.val))
   ELSE <<WorkflowSt("add_workflow", a, wf.w, wf.val)>>)
  \o FlattenSeq([i \in 1..Cardinality(wf.steps) |->
       LET r == StepsInOrder(wf.steps)[i] IN Ensured(StepSt("insert", a, wf.w, r.k, 0, r.val))])
ImportAll(a) ==
  LET wfs == SetToSeq(file.workflows) IN
  FlattenSeq([i \in DOMAIN wfs |-> ImportWorkflow(a, wfs[i])])
  \o (IF wfs = <<>> THEN <<>> ELSE <<AgentSt("set_rules", a, "", 0, wfs[Len(wfs)].rules)>>)
  \o LET ds == SetToSeq(ByName(file.drivers)) IN
     [i \in DOMAIN ds |-> [do |-> "add_driver", a |-> a, k |-> ds[i].k, n |-> ds[i].n, val |-> ds[i].val]]
  \o LET ps == SetToSeq(file.prompts) IN
     [i \in DOMAIN ps |-> AgentSt("add_prompt", a, "", 0, ps[i].val)]
  \o <<St("imported", a, "default")>>

\* Mutation of CheckTarget: an overwritten configuration is kept under the new one.
CheckTargetMerge(t) ==
  /\ Run(t, "check_target")
  /\ todo' = [todo EXCEPT ![t] = IF IsEmpty(got[t].first) \/ S(t).overwrite THEN <<St("read_file", S(t).a, "default")>> ELSE <<>>]
  /\ UNCHANGED <<db, got, ids>> /\ Keep
\* import_config, once it has read the configuration of the agent: a
\* configuration that is to be overwritten goes before the file is looked at.
CheckTarget(t) ==
  LET a == S(t).a  read == <<St("read_file", a, "default")>> IN
  /\ Run(t, "check_target")
  /\ todo' = [todo EXCEPT ![t] =
       IF IsEmpty(got[t].first) THEN read
       ELSE IF ~S(t).overwrite THEN <<>>
       ELSE <<St("delete_agent", a, "default")>> \o NewAgent(a, 1) \o read]
  /\ UNCHANGED <<db, got, ids>> /\ Keep

\* The file may be too large, not decrypt with the passphrase or not parse.
ReadFile(t) ==
  /\ Run(t, "read_file")
  /\ \/ Abort(t)
     \/ file # NoFile /\ todo' = [todo EXCEPT ![t] = ImportAll(S(t).a)]
  /\ UNCHANGED <<db, got, ids>> /\ Keep
Imported(t) ==
  /\ Run(t, "imported") /\ Done(t) /\ UNCHANGED <<db, got, ids>> /\ Keep

\* export: every active workflow is loaded in turn, and the prompts in the end.
WorkflowsList(t) ==
  LET a == S(t).a
      wfs == SetToSeq({w \in AllWorkflows : workflow[a][w].state = "active"}) IN
  /\ Run(t, "workflows_list")
  /\ todo' = [todo EXCEPT ![t] =
       (IF Len(@) = 1 THEN <<>> ELSE FlattenSeq([i \in DOMAIN wfs |-> Load(a, wfs[i]) \o <<St("keep", a, wfs[i])>>])) \o Tail(@)]
  /\ UNCHANGED <<db, got, ids>> /\ Keep
KeepLoaded(t) ==
  /\ Run(t, "keep") /\ Done(t)
  /\ got' = [got EXCEPT
       ![t].kept.workflows = @ \cup {[w |-> S(t).w, steps |-> got[t].first.steps, val |-> got[t].read.val, rules |-> got[t].first.rules]},
       ![t].kept.drivers = got[t].first.drivers]
  /\ UNCHANGED <<db, ids>> /\ Keep
Exported(t) ==
  /\ Run(t, "exported") /\ Done(t)
  /\ file' = got[t].kept /\ got' = [got EXCEPT ![t] = NoGot]
  /\ UNCHANGED <<db, requests, ids>>

\* cleanup_deleted_workflows: those that are expired when it lists them.
ListExpired(t) ==
  LET gone == SetToSeq({aw \in Agents \X AllWorkflows : workflow[aw[1]][aw[2]].state = "expired"}) IN
  /\ Run(t, "get_expired")
  /\ todo' = [todo EXCEPT ![t] = [i \in DOMAIN gone |-> St("purge", gone[i][1], gone[i][2])]]
  /\ UNCHANGED <<db, got, ids>> /\ Keep

-----------------------------------------------------------------------------
\* The requests.
Start(t, program) ==
  /\ todo[t] = <<>> /\ requests < MaxRequests
  /\ Sequential => \A u \in Tasks : todo[u] = <<>>
  /\ todo' = [todo EXCEPT ![t] = program]
  /\ got' = [got EXCEPT ![t] = NoGot]
  /\ requests' = requests + 1
  /\ UNCHANGED <<db, file, ids>>
V == requests + 1

\* add_, patch_, delete_ and get_ of one kind of step.
StepCalls(a, w, k) ==
  {Ensured(StepSt(do, a, w, k, id, V)) : do \in {"update", "delete"}, id \in 1..ids}
    \cup {Ensured(StepSt(do, a, w, k, 0, V)) : do \in {"insert", "select"}}
StepRequest(t, k, wfs) ==
  k \in Kinds /\ \E a \in Agents, w \in wfs : \E calls \in StepCalls(a, w, k) : Start(t, calls)
\* The routes of a workflow, and those of an agent, whose workflow is the default one.
WorkflowPreprocess(t) == StepRequest(t, "preprocess", AllWorkflows)
WorkflowGeneration(t) == StepRequest(t, "generation", AllWorkflows)
WorkflowPostprocess(t) == StepRequest(t, "postprocess", AllWorkflows)
WorkflowContext(t) == StepRequest(t, "context", AllWorkflows)
AgentPreprocess(t) == StepRequest(t, "preprocess", {"default"})
AgentGeneration(t) == StepRequest(t, "generation", {"default"})
AgentPostprocess(t) == StepRequest(t, "postprocess", {"default"})
AgentContext(t) == StepRequest(t, "context", {"default"})

WorkflowRequest(t) ==
  \E a \in Agents, w \in AllWorkflows :
    \/ Start(t, <<WorkflowSt("add_workflow", a, w, V)>>)
    \/ Start(t, Ensured(WorkflowSt("set_workflow", a, w, V)))
    \/ DeleteWorkflow(a, w) # <<>> /\ Start(t, DeleteWorkflow(a, w))
    \/ Start(t, <<St("workflows_list", a, w)>>)
SetWorkflowRules(t) ==
  \E a \in Agents, w \in AllWorkflows : Start(t, Ensured(WorkflowSt("set_workflow", a, w, V)))

AgentRules(t) ==
  \E a \in Agents : Start(t, <<AgentSt("set_rules", a, "", 0, V)>>) \/ Start(t, <<St("get_rules", a, "default")>>)
DriverRequest(t) ==
  \E a \in Agents :
    \/ \E k \in DriverIds, n \in DriverNames :
         Start(t, <<[do |-> "add_driver", a |-> a, k |-> k, n |-> n, val |-> [f \in Fields |-> V]]>>)
    \/ \E id \in 1..ids, n \in DriverNames, set \in SUBSET Fields :
         Start(t, <<AgentSt("get_driver", a, "", id, V),
                    [do |-> "patch_driver", a |-> a, id |-> id, n |-> n, set |-> set, val |-> V]>>)
    \/ \E id \in 1..ids : Start(t, <<AgentSt("delete_driver", a, "", id, V)>>)
    \/ Start(t, <<AgentSt("get_drivers", a, "", 0, V)>>)
PromptRequest(t) ==
  \E a \in Agents :
    \/ \E do \in {"add_prompt", "get_prompts"} : Start(t, <<AgentSt(do, a, "", 0, V)>>)
    \/ \E do \in {"set_prompt", "delete_prompt", "get_prompt"}, id \in 1..ids : Start(t, <<AgentSt(do, a, "", id, V)>>)

\* The credentials that a user of the MCP server sends for its drivers.
CredentialsRequest(t) ==
  \E a \in Agents :
    \/ \E ks \in SUBSET DriverIds : Start(t, <<[do |-> "upsert", a |-> a, ks |-> ks, val |-> V]>>)
    \/ \E k \in DriverIds : Start(t, <<AgentSt("get_credentials", a, k, 0, V)>>)
\* The configuration that a question is answered with.
LoadRequest(t) == \E a \in Agents, w \in AllWorkflows : Start(t, Load(a, w))
ExportRequest(t) ==
  \E a \in Agents : Start(t, <<St("workflows_list", a, "default"), AgentSt("get_prompts", a, "", 0, V), St("exported", a, "default")>>)
ImportRequest(t) ==
  \E a \in Agents, o \in BOOLEAN :
    Start(t, Load(a, "default") \o <<[do |-> "check_target", a |-> a, overwrite |-> o]>>)
AddAgentRequest(t) == \E a \in Agents : Start(t, NewAgent(a, V))
DeleteAgentRequest(t) == \E a \in Agents : Start(t, <<St("delete_agent", a, "default")>>)
CleanupDeletedWorkflows(t) == Start(t, <<[do |-> "get_expired"]>>)

\* WORKFLOW_PURGE_RETENTION has passed since the workflow was deleted.
Expire(a, w) ==
  /\ workflow[a][w].state = "deleted"
  /\ workflow' = [workflow EXCEPT ![a][w].state = "expired"]
  /\ UNCHANGED <<config, rows, drivers, prompts, creds, file, todo, got, requests, ids>>

Statement(t) ==
  \/ EnsureWorkflowActive(t) \/ InsertStep(t) \/ UpdateStep(t) \/ DeleteStep(t) \/ SelectSteps(t)
  \/ AddWorkflow(t) \/ UpdateWorkflow(t) \/ SoftDelete(t) \/ PurgeDeletedWorkflow(t)
  \/ AddAgent(t) \/ DeleteAgent(t) \/ SetRules(t) \/ GetRules(t)
  \/ InsertDriver(t) \/ GetDriver(t) \/ UpdateDriver(t) \/ DeleteDriver(t) \/ GetDrivers(t)
  \/ InsertPrompt(t) \/ SetPrompt(t) \/ DeletePrompt(t) \/ GetPrompt(t) \/ GetPrompts(t)
  \/ UpsertCredentials(t) \/ GetCredentials(t) \/ SelectConfig(t) \/ SelectWorkflow(t)
  \/ CheckTarget(t) \/ ReadFile(t) \/ Imported(t) \/ WorkflowsList(t) \/ KeepLoaded(t) \/ Exported(t) \/ ListExpired(t)
Request(t) ==
  \/ WorkflowPreprocess(t) \/ WorkflowGeneration(t) \/ WorkflowPostprocess(t) \/ WorkflowContext(t)
  \/ AgentPreprocess(t) \/ AgentGeneration(t) \/ AgentPostprocess(t) \/ AgentContext(t)
  \/ WorkflowRequest(t) \/ SetWorkflowRules(t) \/ AgentRules(t) \/ DriverRequest(t) \/ PromptRequest(t)
  \/ CredentialsRequest(t) \/ LoadRequest(t) \/ ExportRequest(t) \/ ImportRequest(t)
  \/ AddAgentRequest(t) \/ DeleteAgentRequest(t) \/ CleanupDeletedWorkflows(t)
Next ==
  \/ \E t \in Tasks : Statement(t) \/ Request(t)
  \/ \E a \in Agents, w \in AllWorkflows : Expire(a, w)
Spec == Init /\ [][Next]_storeVars

-----------------------------------------------------------------------------
AgentStoreTypeOK ==
  /\ config \in [Agents -> 0..MaxRequests]
  /\ \A a \in Agents, w \in AllWorkflows :
       workflow[a][w].state \in {"none", "active", "deleted", "expired"} /\ workflow[a][w].val \in 0..MaxRequests
  /\ \A r \in rows : r.id \in 1..ids /\ r.k \in Kinds /\ r.val \in 0..MaxRequests
  /\ \A d \in drivers : d.k \in DriverIds /\ d.n \in DriverNames /\ d.val \in [Fields -> 0..MaxRequests]
  /\ requests \in 1..MaxRequests /\ ids \in 0..MaxRows

\* The cron job takes away only workflows that are deleted, though the list it
\* works through may be old: an id may have been created again meanwhile.
PurgeOnlyDeleted ==
  [][\A t \in Tasks : Run(t, "purge") /\ todo'[t] = Tail(todo[t]) =>
       \A a \in Agents, w \in AllWorkflows : workflow[a][w].state = "active" => workflow'[a][w] = workflow[a][w]]_storeVars

\* The default workflow of an agent leaves only with the agent.
DefaultStays ==
  [][\A a \in Agents :
       workflow[a]["default"].state = "active" /\ config'[a] # Nothing => workflow'[a]["default"].state = "active"]_storeVars

\* An import that ran alone to its end leaves each workflow of the file with the
\* steps, in kind and content, that the export saw, and the agent with its
\* drivers, if no two of them share a name.
Content(set) == {<<r.k, r.val>> : r \in set}
ImportRestoresExport ==
  \A t \in Tasks : Sequential /\ Run(t, "imported") =>
    LET a == S(t).a IN
    /\ \A wf \in file.workflows :
         /\ Content(StepsOf(a, wf.w)) = Content(wf.steps) /\ Cardinality(StepsOf(a, wf.w)) = Cardinality(wf.steps)
         /\ workflow[a][wf.w] = [state |-> "active", val |-> wf.val]
    /\ (\A d, e \in file.drivers : d.n = e.n => d = e) => Content(DriversOf(a)) = Content(file.drivers)

\* "Loads the configuration in a single query to ensure we get a consistent
\* view" (get_agent_config): when it returns, the steps, drivers and rules it
\* has read and the workflow it has read were in the database together.
ConsistentView ==
  [][\A t \in Tasks : Run(t, "select_workflow") /\ got'[t].read # got[t].read =>
       got'[t].read = got[t].then \/ got[t].first = FirstQuery(S(t).a, S(t).w)]_storeVars

\* The prompts of an agent are its own.
PromptsAreTheAgents == \A a \in Agents : \A p \in SelectedPrompts(a) : p.a = a
=============================================================================
