----------------------------- MODULE MCA2AExecutor -----------------------------
(***************************************************************************)
(* For TLC: a task of the A2A executor, or a small pool of MCP servers.    *)
(* The two have in common that callers wait for each other, and that every *)
(* wait must end; a behavior is one of a single part, chosen at the        *)
(* beginning, and the variables of the other one keep their initial values.*)
(***************************************************************************)
EXTENDS A2AExecutor

CONSTANT Parts

VARIABLES
  part,
  servers, creating, lock, toScan, found, emptied, shutdown, removes, takenBy, awaited,
  task, stale, server, leased, leases, expired, sessions, pc, want, target

Clients == {"r1", "r2"}
Pool == INSTANCE MCPServerPool WITH
  Keys <- {"k1", "k2"}, Requests <- Clients, NoOne <- "nobody", MaxServers <- 1, MaxRemoves <- 1, active <- leases

poolVars == <<servers, creating, lock, toScan, found, emptied, shutdown, removes, takenBy, awaited, task, stale,
              server, leased, leases, expired, sessions, pc, want, target>>

PartInit ==
  /\ part \in Parts
  /\ Init /\ (part = "task" \/ owner = CHOOSE i \in Instances : TRUE)
  /\ Pool!Init /\ (part = "pool" \/ want = [r \in Clients |-> "k1"])

TaskNext == part = "task" /\ Next /\ UNCHANGED <<part, poolVars>>
\* Sessions come and go only while a request looks for a server to evict:
\* nothing else reads them, and the module's own run leaves them free.
PoolNext ==
  /\ part = "pool" /\ Pool!Next /\ (sessions' = sessions \/ lock # "nobody")
  /\ UNCHANGED <<part, vars>>

\* The fairness of each part, as its module states it.
PartFairness ==
  /\ \A c \in Consumers : WF_vars(part = "task" /\ Consume(c))
  /\ \A k \in Rounds : WF_vars(part = "task" /\ Wait(k))
  /\ \A m \in Messages : WF_vars(part = "task" /\ HandleFeedback(m))
  /\ WF_vars(part = "task" /\ Cancel) /\ WF_vars(part = "task" /\ TakeCancel)
  /\ \A r \in Clients :
       /\ WF_poolVars(part = "pool" /\ Pool!Acquire(r))
       /\ WF_poolVars(part = "pool" /\ Pool!Creation(r))
       /\ WF_poolVars(part = "pool" /\ Pool!ServerStops(r))
  /\ WF_poolVars(part = "pool" /\ Pool!ShutdownReturns)

PartSpec == PartInit /\ [][TaskNext \/ PoolNext]_<<part, vars, poolVars>> /\ PartFairness

-----------------------------------------------------------------------------
\* Every wait for another's work ends: a feedback message gets its outcome and
\* the client its first round (a2a/executor.py), acquire() and shutdown()
\* return or raise (api/mcp_server_pool.py).
WaitsEnd == FeedbackSettles /\ FirstRoundSettles /\ Pool!AcquireSettles /\ Pool!ShutdownEnds
================================================================================
