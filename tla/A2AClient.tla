------------------------------ MODULE A2AClient ------------------------------
(***************************************************************************)
(* The agent that asks a remote A2A agent, and the text it gathers.  The   *)
(* remote task, which is external, works on its artifacts and asks for     *)
(* feedback; its server tells the client of each change, or only of the    *)
(* whole task when the client must do something, or of both.  A request    *)
(* for feedback is put to the local user, and the reply continues the      *)
(* task in a new stream of responses.  A remote agent that answers with a  *)
(* message and no task is left out.                                        *)
(***************************************************************************)
EXTENDS Naturals, Sequences

CONSTANTS
  Artifacts,     \* ids of artifacts; "step" is one of them, and named so
  MaxChunks,     \* bound: changes of artifacts
  MaxQuestions   \* bound: requests for feedback

VARIABLES
  remote,      \* the state of the remote task, its artifacts, whether its server tells of each change
  agent,       \* what a2a_query awaits
  gathered,    \* ResponseTextAccumulator: the texts of artifacts
  asks         \* requests for feedback so far

a2aVars == <<remote, agent, gathered, asks>>

Nothing == [a \in Artifacts |-> <<>>]
Terminal == {"failed", "canceled", "rejected", "auth_required"}

A2AInit ==
  /\ \E streams \in BOOLEAN : remote = [state |-> "working", artifacts |-> Nothing, chunks |-> 0, streams |-> streams]
  /\ agent = "reading" /\ gathered = Nothing /\ asks = 0

\* _update_artifact: the agent's steps are not part of its answer.
UpdateArtifact(texts, a, text, append) ==
  IF a = "step" THEN texts ELSE [texts EXCEPT ![a] = IF append THEN @ \o text ELSE text]

\* Mutation of AddTask: the artifacts of a task are added to those told of before.
AddTaskToText(task) ==
  [a \in Artifacts |-> IF a = "step" THEN <<>> ELSE gathered[a] \o task[a]]

\* add, of a task: it takes the place of what was told of it before.
AddTask(task) == [a \in Artifacts |-> IF a = "step" THEN <<>> ELSE task[a]]

\* A change of an artifact, which the client is told of if its server streams.
ArtifactUpdate ==
  /\ agent = "reading" /\ remote.state = "working" /\ remote.chunks < MaxChunks
  /\ \E a \in Artifacts, append \in BOOLEAN :
       LET text == <<remote.chunks + 1>>
       IN  /\ remote' = [remote EXCEPT !.artifacts[a] = IF append THEN @ \o text ELSE text, !.chunks = @ + 1]
           /\ gathered' = IF remote.streams
                          THEN UpdateArtifact(gathered, a, text, append) ELSE gathered
  /\ UNCHANGED <<agent, asks>>

\* The whole task, at any time of a stream.
Task ==
  /\ agent = "reading" /\ remote.state = "working"
  /\ gathered' = AddTask(remote.artifacts)
  /\ UNCHANGED <<remote, agent, asks>>

\* The task pauses: what comes with the request is not gathered.
InputRequired ==
  /\ agent = "reading" /\ remote.state = "working" /\ asks < MaxQuestions
  /\ remote' = [remote EXCEPT !.state = "input_required"]
  /\ agent' = "asking" /\ asks' = asks + 1
  /\ UNCHANGED gathered

\* The user replies, and the task goes on; an empty reply, none or one to another
\* question raises.
Feedback ==
  /\ agent = "asking"
  /\ \/ agent' = "reading" /\ remote' = [remote EXCEPT !.state = "working"]
     \/ agent' = "raised" /\ UNCHANGED remote
  /\ UNCHANGED <<gathered, asks>>

\* The task is over: its server says so in an update, or with the whole task.
Ends ==
  /\ agent = "reading" /\ remote.state = "working"
  /\ \E state \in Terminal \cup {"completed"} :
       /\ remote' = [remote EXCEPT !.state = state]
       /\ agent' = IF state \in Terminal THEN "raised" ELSE agent
       /\ gathered' = IF state = "completed" /\ ~remote.streams
                      THEN AddTask(remote.artifacts) ELSE gathered
  /\ UNCHANGED asks

\* The stream has ended.  The code takes that for the end of the task and does not
\* look at its state; that a server ends a stream only with a completed task, or
\* one that waits for input, is what the protocol says of it, and assumed here.
Returns == agent = "reading" /\ remote.state = "completed" /\ agent' = "returned" /\ UNCHANGED <<remote, gathered, asks>>

\* read_timeout_seconds is for the whole conversation, the user's time included.
TimesOut == agent \in {"reading", "asking"} /\ agent' = "raised" /\ UNCHANGED <<remote, gathered, asks>>

A2ANext ==
  \/ ArtifactUpdate \/ Task \/ InputRequired \/ Feedback \/ Ends \/ Returns \/ TimesOut
A2ASpec == A2AInit /\ [][A2ANext]_a2aVars

-----------------------------------------------------------------------------
\* The answer has the text of each artifact of the remote task as it is at the
\* end, once, whether it was told of in pieces, at once or in both ways, and
\* however often the task paused (hyperforge_a2a client.py, agent.py).
AnswerIsTheTasks ==
  agent = "returned" => gathered = [remote.artifacts EXCEPT !["step"] = <<>>]
================================================================================
