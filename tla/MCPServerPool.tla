--------------------------- MODULE MCPServerPool ---------------------------
(***************************************************************************)
(* MCPServerPool: the MCP servers of one API process, at most MaxServers   *)
(* of them, made on demand by one creation task per key, shared by the     *)
(* requests that lease them, retired when they are idle or when another    *)
(* key needs the place, and taken down by remove() and shutdown().         *)
(*                                                                         *)
(* A request starts one creation task at most, and the task makes one      *)
(* server: the request names all three.  The pool's lock is held over an   *)
(* await only while a request looks for a server to evict (session_count   *)
(* asks Redis); all else it guards is one step.                            *)
(***************************************************************************)
EXTENDS Integers, FiniteSets

CONSTANTS
  Keys,         \* (account, user, account type, agent, session)
  Requests,     \* HTTP requests
  NoOne,        \* no request: None, an absent key
  MaxServers,   \* max_servers
  MaxRemoves    \* bound: calls of remove()

ASSUME PoolAssumption ==
  /\ IsFiniteSet(Keys) /\ IsFiniteSet(Requests) /\ NoOne \notin Requests
  /\ MaxServers \in Nat \ {0} /\ MaxRemoves \in Nat

VARIABLES
  \* the pool
  servers,  \* _servers: the server of each key 
  creating, \* _creating: the creation task of each key
  lock,     \* the request that looks for a server to evict
  toScan,   \* keys it has not looked at
  found,    \* keys of the servers it may evict
  emptied,  \* history: keys that had no session at some time between the beginning
            \* of the search and their own turn
  shutdown, \* "no", "begun" (_shutting_down) or "returned"
  removes,  \* number of calls of remove()
  takenBy,  \* who waits for a server taken from the pool: "retired"
            \* (_retired_tasks), "reaped" (the reaper) or "removed" (remove())
  awaited,  \* what _finish_shutdown waits for
  \* creation tasks and servers
  task,     \* where each creation task is
  stale,    \* the server it stops first
  server,   \* state of the server: "none", "open", "closing", "closed"
  leased,   \* has_been_leased
  active,   \* active_requests
  expired,  \* idle for idle_ttl_seconds
  sessions, \* session_count() > 0, for each key: Redis holds the sessions, and
            \* every process of the service opens and ends them
  \* requests
  pc,       \* where each request is
  want,     \* its key
  target    \* the task it waits for, or the server it has leased

dictVars == <<servers, creating>>
exitVars == <<shutdown, removes, takenBy, awaited>>
poolVars == <<dictVars, exitVars>>
lockVars == <<lock, toScan, found, emptied>>
taskVars == <<task, stale>>
serverVars == <<server, leased, active, expired, sessions>>
requestVars == <<pc, want, target>>
vars == <<poolVars, lockVars, taskVars, serverVars, requestVars>>

Running == {"stale", "factory", "unmaking", "lock", "stopping", "aborting", "cleanup"}
Holding == {"holding", "serving"}
Free == lock = NoOne

Init ==
  /\ servers = [k \in Keys |-> NoOne] /\ creating = [k \in Keys |-> NoOne]
  /\ lock = NoOne /\ toScan = {} /\ found = {} /\ emptied = {}
  /\ shutdown = "no" /\ removes = 0
  /\ takenBy = [s \in Requests |-> "nobody"] /\ awaited = [tasks |-> {}, servers |-> {}]
  /\ task = [t \in Requests |-> "unused"] /\ stale = [t \in Requests |-> NoOne]
  /\ server = [s \in Requests |-> "none"] /\ leased = [s \in Requests |-> FALSE]
  /\ active = [s \in Requests |-> 0] /\ expired = [s \in Requests |-> FALSE]
  /\ sessions = [k \in Keys |-> FALSE]
  /\ pc = [r \in Requests |-> "new"]
  /\ want \in [Requests -> Keys]
  /\ target = [r \in Requests |-> NoOne]

-----------------------------------------------------------------------------
Registered == {k \in Keys : servers[k] # NoOne}
BeingMade == {k \in Keys : creating[k] # NoOne}

\* Mutation of HasRoom: servers that are still being made are not counted.
HasRoomRegistered(extra) == Cardinality(Registered) - extra < MaxServers
\* _reserve_capacity; extra servers are about to leave.
HasRoom(extra) == Cardinality(Registered) + Cardinality(BeingMade) - extra < MaxServers

IdleFor(s) == active[s] = 0 /\ expired[s]

\* Mutation of Evictable: a server that nobody has leased yet has no sessions.
EvictableUnleased(k) ==
  active[servers[k]] = 0 /\ (~sessions[k] \/ expired[servers[k]])
\* The server of key k is a candidate of _evict_one.
Evictable(k) ==
  active[servers[k]] = 0 /\ ((leased[servers[k]] /\ ~sessions[k]) \/ expired[servers[k]])

\* reserve_request.
Using(s) ==
  /\ leased' = [leased EXCEPT ![s] = TRUE]
  /\ active' = [active EXCEPT ![s] = @ + 1]
  /\ expired' = [expired EXCEPT ![s] = FALSE]

Lease(r, s) ==
  /\ Using(s)
  /\ pc' = [pc EXCEPT ![r] = "holding"] /\ target' = [target EXCEPT ![r] = s]
  /\ UNCHANGED <<server, sessions, want>>

Fail(r) == pc' = [pc EXCEPT ![r] = "failed"] /\ UNCHANGED <<want, target>>

\* The creation task of request r for its key, which first stops server s.
StartCreation(r, s) ==
  /\ task' = [task EXCEPT ![r] = IF s = NoOne THEN "factory" ELSE "stale"]
  /\ stale' = [stale EXCEPT ![r] = s]
  /\ creating' = [creating EXCEPT ![want[r]] = r]
  /\ pc' = [pc EXCEPT ![r] = "waiting"] /\ target' = [target EXCEPT ![r] = r]
  /\ UNCHANGED want

\* The servers S leave the pool: closed, and their tasks awaited by `who`.
Retire(S, who) ==
  /\ server' = [s \in Requests |-> IF s \in S THEN "closing" ELSE server[s]]
  /\ takenBy' = [s \in Requests |-> IF s \in S THEN who ELSE takenBy[s]]
  /\ UNCHANGED <<shutdown, removes, awaited>>

(* acquire(), up to the end of its first critical section.                 *)

AcquireRefused(r) ==
  /\ pc[r] = "new" /\ Free /\ shutdown # "no"
  /\ Fail(r)
  /\ UNCHANGED <<poolVars, lockVars, taskVars, serverVars>>

AcquireLease(r) ==
  /\ pc[r] = "new" /\ Free /\ shutdown = "no"
  /\ servers[want[r]] # NoOne /\ ~IdleFor(servers[want[r]])
  /\ Lease(r, servers[want[r]])
  /\ UNCHANGED <<poolVars, lockVars, taskVars>>

AcquireJoin(r) ==
  /\ pc[r] = "new" /\ Free /\ shutdown = "no"
  /\ servers[want[r]] = NoOne /\ creating[want[r]] # NoOne
  /\ pc' = [pc EXCEPT ![r] = "waiting"]
  /\ target' = [target EXCEPT ![r] = creating[want[r]]]
  /\ UNCHANGED <<poolVars, lockVars, taskVars, serverVars, want>>

AcquireCreate(r) ==
  /\ pc[r] = "new" /\ Free /\ shutdown = "no"
  /\ servers[want[r]] = NoOne /\ creating[want[r]] = NoOne /\ HasRoom(0)
  /\ StartCreation(r, NoOne)
  /\ UNCHANGED <<servers, exitVars, lockVars, serverVars>>

\* The server of the key has been idle for too long: it is retired, and its
\* successor is made in its place.
AcquireReplace(r) ==
  LET old == servers[want[r]] IN
  /\ pc[r] = "new" /\ Free /\ shutdown = "no"
  /\ old # NoOne /\ IdleFor(old) /\ HasRoom(1)
  /\ servers' = [servers EXCEPT ![want[r]] = NoOne]
  /\ Retire({old}, "retired") /\ StartCreation(r, old)
  /\ UNCHANGED <<lockVars, leased, active, expired, sessions>>

\* No place for another server: look for one to evict, holding the lock.
AcquireScan(r) ==
  /\ pc[r] = "new" /\ Free /\ shutdown = "no"
  /\ servers[want[r]] = NoOne /\ creating[want[r]] = NoOne /\ ~HasRoom(0)
  /\ pc' = [pc EXCEPT ![r] = "reserving"]
  /\ lock' = r /\ toScan' = Registered /\ found' = {} /\ emptied' = {k \in Registered : ~sessions[k]}
  /\ UNCHANGED <<poolVars, taskVars, serverVars, want, target>>

Unlock == lock' = NoOne /\ toScan' = {} /\ found' = {} /\ emptied' = {}

\* session_count() of the key is answered: the answer may be out of date when
\* the search ends.
Scan(r, k) ==
  /\ lock = r /\ k \in toScan
  /\ toScan' = toScan \ {k}
  /\ found' = IF Evictable(k) THEN found \cup {k} ELSE found
  /\ UNCHANGED <<poolVars, lock, emptied, taskVars, serverVars, requestVars>>

\* The candidate used least recently (here: any) is retired, and the loop of
\* _reserve_capacity ends.
Evict(r, k) ==
  /\ lock = r /\ toScan = {} /\ k \in found /\ HasRoom(1)
  /\ servers' = [servers EXCEPT ![k] = NoOne]
  /\ Retire({servers[k]}, "retired") /\ StartCreation(r, NoOne) /\ Unlock
  /\ UNCHANGED <<leased, active, expired, sessions>>

\* Mutation of NothingToEvict: it looks again.
ScanAgain(r) ==
  /\ lock = r /\ toScan = {} /\ found = {}
  /\ toScan' = Registered
  /\ UNCHANGED <<poolVars, lock, found, emptied, taskVars, serverVars, requestVars>>

NothingToEvict(r) ==
  /\ lock = r /\ toScan = {} /\ found = {}
  /\ Fail(r) /\ Unlock
  /\ UNCHANGED <<poolVars, taskVars, serverVars>>

(* acquire(), after the creation task.                                     *)

\* Mutation of Interrupted: any server of the key will do.
InterruptedUnlessServed(r) == shutdown # "no" \/ servers[want[r]] = NoOne
\* The pool shuts down, or the server made is not the server of the key.
Interrupted(r) == shutdown # "no" \/ servers[want[r]] # target[r]

Claim(r) ==
  /\ pc[r] = "waiting" /\ task[target[r]] = "done" /\ Free /\ ~Interrupted(r)
  /\ Lease(r, target[r])
  /\ UNCHANGED <<poolVars, lockVars, taskVars>>

WaitFails(r) ==
  /\ pc[r] = "waiting"
  /\ \/ task[target[r]] = "failed"
     \/ task[target[r]] = "done" /\ Free /\ Interrupted(r)
  /\ Fail(r)
  /\ UNCHANGED <<poolVars, lockVars, taskVars, serverVars>>

(* local_mcp_response and _MCPTransportResponse around acquire().          *)

Serve(r) ==
  /\ pc[r] = "holding"
  /\ pc' = [pc EXCEPT ![r] = "serving"]
  /\ UNCHANGED <<poolVars, lockVars, taskVars, serverVars, want, target>>

\* Mutation of Release: the lease is released again by the cleanup.
ReleaseTwice(s) ==
  /\ active' = [active EXCEPT ![s] = @ - 2]
  /\ expired' = [expired EXCEPT ![s] = FALSE]
\* release_request, once for each lease.
Release(s) ==
  /\ active' = [active EXCEPT ![s] = @ - 1]
  /\ expired' = [expired EXCEPT ![s] = FALSE]

Respond(r) ==
  /\ pc[r] = "serving"
  /\ Release(target[r])
  /\ pc' = [pc EXCEPT ![r] = "served"]
  /\ UNCHANGED <<poolVars, lockVars, taskVars, server, leased, sessions, want, target>>

\* Mutation of Abort: a lease that was acquired in the meantime is forgotten.
AbortForgets(r) ==
  /\ pc[r] \in {"waiting", "reserving", "holding"}
  /\ IF lock = r THEN Unlock ELSE UNCHANGED lockVars
  /\ Fail(r)
  /\ UNCHANGED <<poolVars, taskVars, serverVars>>

\* The renewal of the call fails, the request is cancelled or session_count
\* cannot reach Redis: acquire() is cancelled, and a lease it has returned is
\* given back.
Abort(r) ==
  /\ pc[r] \in {"waiting", "reserving", "holding"}
  /\ IF lock = r THEN Unlock ELSE UNCHANGED lockVars
  /\ IF pc[r] = "holding" THEN Release(target[r]) ELSE UNCHANGED <<active, expired>>
  /\ Fail(r)
  /\ UNCHANGED <<poolVars, taskVars, server, leased, sessions>>

-----------------------------------------------------------------------------
(* _create_server.                                                         *)

Move(t, stage) == task' = [task EXCEPT ![t] = stage] /\ UNCHANGED stale

\* Mutation of StaleStopped: the factory does not wait.
StaleIgnored(t) ==
  /\ task[t] = "stale"
  /\ Move(t, "factory")
  /\ UNCHANGED <<poolVars, lockVars, serverVars, requestVars>>

StaleStopped(t) ==
  /\ task[t] = "stale" /\ server[stale[t]] = "closed"
  /\ Move(t, "factory")
  /\ UNCHANGED <<poolVars, lockVars, serverVars, requestVars>>

FactoryReturns(t) ==
  /\ task[t] = "factory" /\ Move(t, "lock")
  /\ server' = [server EXCEPT ![t] = "open"]
  /\ UNCHANGED <<poolVars, lockVars, leased, active, expired, sessions, requestVars>>

\* The factory, cancelled, undoes its work; so does the wait for the stale
\* server, which lasts until the server has stopped.
Unmade(t) ==
  /\ task[t] = "unmaking"
  /\ stale[t] # NoOne => server[stale[t]] = "closed"
  /\ Move(t, "cleanup")
  /\ UNCHANGED <<poolVars, lockVars, serverVars, requestVars>>

\* An error, or startup_timeout_seconds.
FactoryFails(t) ==
  /\ task[t] = "factory" /\ Move(t, "cleanup")
  /\ UNCHANGED <<poolVars, lockVars, serverVars, requestVars>>

\* _ensure_running and _evict_for_capacity have nothing to do: shutdown()
\* has cancelled the task, and its place is reserved.
Register(t) ==
  /\ task[t] = "lock" /\ Free
  /\ servers' = [servers EXCEPT ![want[t]] = t]
  /\ creating' = [creating EXCEPT ![want[t]] = NoOne]
  /\ Move(t, "done")
  /\ UNCHANGED <<exitVars, lockVars, serverVars, requestVars>>

\* `await candidate.stop()` returns; a task that was cancelled again in the
\* meantime ends here.
CandidateStopped(t) ==
  /\ task[t] \in {"stopping", "aborting"} /\ server[t] = "closed"
  /\ Move(t, IF task[t] = "stopping" THEN "cleanup" ELSE "failed")
  /\ UNCHANGED <<poolVars, lockVars, serverVars, requestVars>>

Cleanup(t) ==
  /\ task[t] = "cleanup" /\ Free /\ Move(t, "failed")
  /\ creating' = IF creating[want[t]] = t
                 THEN [creating EXCEPT ![want[t]] = NoOne] ELSE creating
  /\ UNCHANGED <<servers, exitVars, lockVars, serverVars, requestVars>>

\* Where task.cancel() sends a creation task: to the except clause, and out of
\* it, without the cleanup, if it is there already.
Cancelled(stage) ==
  CASE stage \in {"stale", "factory"} -> "unmaking"
    [] stage = "lock" -> "stopping"
    [] stage = "stopping" -> "aborting"
    [] stage = "cleanup" -> "failed"
    [] OTHER -> stage

\* Mutation of CancelTasks: a cancelled task leaves its candidate open.
CancelTasksOnly(T, S) ==
  /\ task' = [t \in Requests |-> IF t \in T THEN Cancelled(task[t]) ELSE task[t]]
  /\ server' = [s \in Requests |-> IF server[s] = "open" /\ s \in S THEN "closing" ELSE server[s]]

\* Cancel the tasks T and close the servers S; a cancelled task closes its
\* candidate.
CancelTasks(T, S) ==
  /\ task' = [t \in Requests |-> IF t \in T THEN Cancelled(task[t]) ELSE task[t]]
  /\ server' = [s \in Requests |->
       IF server[s] = "open" /\ (s \in S \/ (s \in T /\ task[s] = "lock"))
       THEN "closing" ELSE server[s]]

\* Mutation of RemoveKey: the place is given back before the creation ends.
RemoveKeyEarly(k) ==
  /\ removes < MaxRemoves /\ Free
  /\ removes' = removes + 1
  /\ servers' = [servers EXCEPT ![k] = NoOne]
  /\ creating' = [creating EXCEPT ![k] = NoOne]
  /\ CancelTasks({creating[k]}, {servers[k]})
  /\ takenBy' = [s \in Requests |-> IF s = servers[k] THEN "removed" ELSE takenBy[s]]
  /\ UNCHANGED <<shutdown, awaited, lockVars, stale, leased, active, expired, sessions,
                 requestVars>>

\* remove(): what follows is waiting for what it has stopped.
RemoveKey(k) ==
  /\ removes < MaxRemoves /\ Free
  /\ removes' = removes + 1
  /\ servers' = [servers EXCEPT ![k] = NoOne]
  /\ CancelTasks({creating[k]}, {servers[k]})
  /\ takenBy' = [s \in Requests |-> IF s = servers[k] THEN "removed" ELSE takenBy[s]]
  /\ UNCHANGED <<creating, shutdown, awaited, lockVars, stale, leased, active, expired,
                 sessions, requestVars>>

Entries(dict) == {dict[k] : k \in Keys} \ {NoOne}

\* Mutation of TasksToAwait: the retired servers and those the reaper is
\* stopping are left out.
TasksInDicts == [tasks |-> Entries(creating), servers |-> Entries(servers)]
TasksToAwait ==
  [tasks |-> Entries(creating),
   servers |-> Entries(servers)
                 \cup {s \in Requests : takenBy[s] \in {"retired", "reaped"}}]

\* Every shutdown() waits for the same _finish_shutdown.
Shutdown ==
  /\ shutdown = "no" /\ Free
  /\ shutdown' = "begun"
  /\ servers' = [k \in Keys |-> NoOne] /\ creating' = [k \in Keys |-> NoOne]
  /\ CancelTasks(Entries(creating), Entries(servers))
  /\ awaited' = TasksToAwait
  /\ UNCHANGED <<removes, takenBy, lockVars, stale, leased, active, expired, sessions,
                 requestVars>>

ShutdownReturns ==
  /\ shutdown = "begun"
  /\ \A t \in awaited.tasks : task[t] \notin Running
  /\ \A s \in awaited.servers : server[s] = "closed"
  /\ shutdown' = "returned"
  /\ UNCHANGED <<dictVars, removes, takenBy, awaited, lockVars, taskVars, serverVars,
                 requestVars>>

-----------------------------------------------------------------------------
(* The reaper, time, sessions and the tasks of the servers.                *)

\* One round of _reap_idle_servers, which waits for the servers it has closed
\* before the next: it takes the servers that had expired
\* when it read the clock.
Reap ==
  /\ shutdown = "no" /\ Free
  /\ \A s \in Requests : takenBy[s] = "reaped" => server[s] = "closed"
  /\ \E E \in SUBSET {k \in Registered : IdleFor(servers[k])} \ {{}} :
       /\ servers' = [k \in Keys |-> IF k \in E THEN NoOne ELSE servers[k]]
       /\ Retire({servers[k] : k \in E}, "reaped")
  /\ UNCHANGED <<creating, lockVars, taskVars, leased, active,
                 expired, sessions, requestVars>>

\* idle_ttl_seconds have passed since the last use of the server.
Expire(s) ==
  /\ server[s] = "open" /\ active[s] = 0 /\ ~expired[s]
  /\ expired' = [expired EXCEPT ![s] = TRUE]
  /\ UNCHANGED <<poolVars, lockVars, taskVars, server, leased, active, sessions, requestVars>>

\* A request opens the first session of the key, at a server of this process
\* or at another process: the pool's lock does not hold it up.
OpenSession(k) ==
  /\ ~sessions[k]
  /\ sessions' = [sessions EXCEPT ![k] = TRUE]
  /\ UNCHANGED <<poolVars, lockVars, taskVars, server, leased, active, expired, requestVars>>

\* The key's last session is deleted or expires.
EndSessions(k) ==
  /\ sessions[k]
  /\ sessions' = [sessions EXCEPT ![k] = FALSE]
  /\ emptied' = IF k \in toScan THEN emptied \cup {k} ELSE emptied
  /\ UNCHANGED <<poolVars, lock, toScan, found, taskVars, server, leased, active, expired,
                 requestVars>>

\* The cancelled task of a server ends.
ServerStops(s) ==
  /\ server[s] = "closing"
  /\ server' = [server EXCEPT ![s] = "closed"]
  /\ UNCHANGED <<poolVars, lockVars, taskVars, leased, active, expired, sessions, requestVars>>

-----------------------------------------------------------------------------
Acquire(r) ==
  \/ AcquireRefused(r) \/ AcquireLease(r) \/ AcquireJoin(r) \/ AcquireCreate(r)
  \/ AcquireReplace(r) \/ AcquireScan(r)
  \/ \E k \in Keys : Scan(r, k) \/ Evict(r, k)
  \/ NothingToEvict(r) \/ Claim(r) \/ WaitFails(r)

Request(r) == Acquire(r) \/ Serve(r) \/ Respond(r) \/ Abort(r)

Creation(t) ==
  \/ StaleStopped(t) \/ FactoryReturns(t) \/ Unmade(t) \/ FactoryFails(t)
  \/ Register(t) \/ CandidateStopped(t) \/ Cleanup(t)

\* The process has stopped.
Terminated ==
  /\ shutdown = "returned"
  /\ \A r \in Requests : pc[r] \in {"served", "failed"}
  /\ UNCHANGED vars

Next ==
  \/ \E r \in Requests :
       Request(r) \/ Creation(r) \/ Expire(r) \/ ServerStops(r)
  \/ \E k \in Keys : RemoveKey(k) \/ OpenSession(k) \/ EndSessions(k)
  \/ Shutdown \/ ShutdownReturns \/ Reap \/ Terminated

Spec == Init /\ [][Next]_vars

\* Requests in acquire(), creation tasks and cancelled servers go on, and so
\* does shutdown(); a request may be served for ever.
Fairness ==
  /\ \A r \in Requests :
       WF_vars(Acquire(r)) /\ WF_vars(Creation(r)) /\ WF_vars(ServerStops(r))
  /\ WF_vars(ShutdownReturns)

FairSpec == Spec /\ Fairness

-----------------------------------------------------------------------------
TypeOK ==
  /\ servers \in [Keys -> Requests \cup {NoOne}]
  /\ creating \in [Keys -> Requests \cup {NoOne}]
  /\ lock \in Requests \cup {NoOne} /\ toScan \in SUBSET Keys /\ found \in SUBSET Keys
  /\ emptied \in SUBSET Keys
  /\ shutdown \in {"no", "begun", "returned"} /\ removes \in 0..MaxRemoves
  /\ takenBy \in [Requests -> {"nobody", "retired", "reaped", "removed"}]
  /\ awaited \in [tasks : SUBSET Requests, servers : SUBSET Requests]
  /\ task \in [Requests -> Running \cup {"unused", "done", "failed"}]
  /\ stale \in [Requests -> Requests \cup {NoOne}]
  /\ server \in [Requests -> {"none", "open", "closing", "closed"}]
  /\ leased \in [Requests -> BOOLEAN] /\ active \in [Requests -> Nat]
  /\ expired \in [Requests -> BOOLEAN] /\ sessions \in [Keys -> BOOLEAN]
  /\ pc \in [Requests -> Holding \cup {"new", "reserving", "waiting", "served", "failed"}]
  /\ want \in [Requests -> Keys]
  /\ target \in [Requests -> Requests \cup {NoOne}]

\* Never more than max_servers servers, those being made and those whose
\* creation is being undone included: a request that gives up, a creation
\* that fails and a removal leave the count right.
CapacityKept == Cardinality(Registered) + Cardinality(BeingMade) <= MaxServers

\* A key has one server or one creation task; its server was made for it and
\* has not been closed, and no other task makes one for it.
OneServerPerKey ==
  \A k \in Keys :
    /\ servers[k] # NoOne =>
         /\ creating[k] = NoOne
         /\ want[servers[k]] = k /\ server[servers[k]] = "open"
    /\ \A t \in Requests :
         want[t] = k /\ task[t] \in Running /\ shutdown = "no" => creating[k] = t

\* Every lease that is held, by whoever, is counted once on its server: no
\* request that fails or is cancelled on the way leaves a server in use.
LeasesCounted ==
  \A s \in Requests :
    active[s] = Cardinality({r \in Requests : pc[r] \in Holding /\ target[r] = s})

\* The server s leaves the pool other than by remove() or shutdown().
Displaced(s) ==
  server[s] = "open" /\ server'[s] = "closing" /\ removes' = removes /\ shutdown' = shutdown

\* Such a server is in use by no request, and it has been idle for too long,
\* or it has served and its key had no session at some moment between the
\* beginning of the search and its count (_evict_one): neither a server nobody
\* has leased yet nor one whose key had a session all that time makes room for
\* another.  A session opened after the count does not keep the server.
EvictsUnusedOnly ==
  [][\A s \in Requests : Displaced(s) =>
       active[s] = 0 /\ (expired[s] \/ (leased[s] /\ want[s] \in emptied))]_vars

\* What the pool's test says of it: a server with a session that is not idle
\* for too long is preserved.  It does not hold: _evict_one awaits the count and
\* retires the server after that, when another process may have opened one.
PreservesSessions ==
  [][\A s \in Requests : Displaced(s) => expired[s] \/ ~sessions[want[s]]]_vars

\* A lease is given on the server of the key, open, and never once the pool
\* shuts down, though the request has waited for its creation in between.
LeasesOpenServer ==
  [][\A r \in Requests :
       pc[r] # "holding" /\ pc'[r] = "holding" =>
          /\ shutdown = "no" /\ server[target'[r]] = "open"
          /\ servers[want[r]] = target'[r]]_vars

\* The successor of an idle server starts when the old server has stopped.
StaleServerStoppedFirst ==
  \A t \in Requests : task[t] = "lock" /\ stale[t] # NoOne => server[stale[t]] = "closed"

\* When shutdown() returns no server is left but those a remove() is waiting
\* for, whatever was being made, retired or reaped when it was called, and
\* none appears later.
ShutdownIsComplete ==
  shutdown = "returned" =>
     \A s \in Requests :
        /\ server[s] \in {"none", "closed"} \/ takenBy[s] = "removed"
        /\ task[s] \notin Running

\* An entry of _creating belongs to a task that has not ended: a key that was
\* removed can be acquired again.
CreatingIsRunning ==
  \A k \in Keys : creating[k] # NoOne => task[creating[k]] \in Running

\* acquire() returns or raises.
AcquireSettles ==
  \A r \in Requests : pc[r] \in {"reserving", "waiting"} ~> pc[r] \notin {"reserving", "waiting"}

\* shutdown() returns, however many creations, retired servers and waiting
\* requests there are.
ShutdownEnds == shutdown = "begun" ~> shutdown = "returned"
=============================================================================
