------------------------ MODULE MCPServerPool_proofs ------------------------
(***************************************************************************)
(* Proofs about MCPServerPool for any finite sets of keys and requests and *)
(* any capacity.                                                           *)
(***************************************************************************)
EXTENDS MCPServerPool, FiniteSetTheorems, TLAPS

-----------------------------------------------------------------------------
(* Type correctness.                                                       *)

\* Leasing a server, starting a creation and retiring servers keep the types.
LEMMA LeaseType ==
  ASSUME TypeOK, NEW r \in Requests, NEW s \in Requests, Lease(r, s)
  PROVE  /\ leased' \in [Requests -> BOOLEAN] /\ active' \in [Requests -> Int]
         /\ active[s] >= 0 => active' \in [Requests -> Nat]
         /\ expired' \in [Requests -> BOOLEAN]
         /\ pc' \in
               [Requests -> Holding \cup {"new", "reserving", "waiting", "served", "failed"}]
         /\ target' \in [Requests -> Requests \cup {NoOne}]
         /\ UNCHANGED <<server, sessions, want>>
BY DEF TypeOK, Lease, Using, Holding

LEMMA CreationType ==
  ASSUME TypeOK, NEW r \in Requests, NEW s \in Requests \cup {NoOne}, StartCreation(r, s)
  PROVE  /\ task' \in [Requests -> Running \cup {"unused", "done", "failed"}]
         /\ stale' \in [Requests -> Requests \cup {NoOne}]
         /\ creating' \in [Keys -> Requests \cup {NoOne}]
         /\ pc' \in
               [Requests -> Holding \cup {"new", "reserving", "waiting", "served", "failed"}]
         /\ target' \in [Requests -> Requests \cup {NoOne}]
         /\ want' = want
BY DEF TypeOK, StartCreation, Running

LEMMA RetireType ==
  ASSUME TypeOK, NEW S, NEW who \in {"retired", "reaped"}, Retire(S, who)
  PROVE  /\ server' \in [Requests -> {"none", "open", "closing", "closed"}]
         /\ takenBy' \in [Requests -> {"nobody", "retired", "reaped", "removed"}]
         /\ UNCHANGED <<shutdown, removes, awaited>>
BY DEF TypeOK, Retire

LEMMA CancelType ==
  ASSUME TypeOK, NEW T, NEW S, CancelTasks(T, S)
  PROVE  /\ server' \in [Requests -> {"none", "open", "closing", "closed"}]
         /\ task' \in [Requests -> Running \cup {"unused", "done", "failed"}]
<1>1. \A st \in Running \cup {"unused", "done", "failed"} :
         Cancelled(st) \in Running \cup {"unused", "done", "failed"}
  BY DEF Cancelled, Running
<1> QED
  BY <1>1 DEF TypeOK, CancelTasks

\* A lease that is given back was counted: active_requests does not become
\* negative.
LEMMA ReleaseType ==
  ASSUME TypeOK, NEW s \in Requests, active[s] > 0, Release(s)
  PROVE  active' \in [Requests -> Nat] /\ expired' \in [Requests -> BOOLEAN]
BY DEF TypeOK, Release

-----------------------------------------------------------------------------
(* The inductive invariant.                                                *)

\* What the entries of the two dictionaries say of servers and tasks.
EntriesOK ==
  \A k \in Keys :
    /\ servers[k] # NoOne =>
         /\ creating[k] = NoOne /\ shutdown = "no" /\ want[servers[k]] = k
         /\ server[servers[k]] = "open" /\ task[servers[k]] = "done"
    /\ creating[k] # NoOne =>
         /\ shutdown = "no" /\ want[creating[k]] = k
         /\ task[creating[k]] \in Running \cup {"failed"}

\* What the stage of a creation task says of its entry and its servers.
TasksOK ==
  \A t \in Requests :
    /\ task[t] \in Running /\ shutdown = "no" => creating[want[t]] = t
    /\ task[t] \in {"stale", "factory", "lock"} => shutdown = "no"
    /\ task[t] = "lock" => server[t] = "open"
    /\ task[t] \in {"unused", "stale", "factory", "unmaking"} => server[t] = "none"
    /\ task[t] \in {"factory", "lock"} /\ stale[t] # NoOne => server[stale[t]] = "closed"

\* What the stage of a request says of its task, its target and the lock.
RequestsOK ==
  \A r \in Requests :
    /\ pc[r] \in {"new", "reserving"} => task[r] = "unused"
    /\ pc[r] \in Holding \cup {"waiting"} => target[r] \in Requests
    /\ pc[r] = "reserving" <=> lock = r

\* What the request that holds the lock has found: servers nobody uses, expired
\* or without a session when they were counted.
ScanOK ==
  /\ lock # NoOne =>
       shutdown = "no" /\ servers[want[lock]] = NoOne /\ creating[want[lock]] = NoOne
  /\ lock = NoOne => toScan = {} /\ found = {}
  /\ \A k \in toScan : servers[k] # NoOne /\ (~sessions[k] => k \in emptied)
  /\ \A k \in found :
       /\ servers[k] # NoOne /\ active[servers[k]] = 0
       /\ expired[servers[k]] \/ (leased[servers[k]] /\ k \in emptied)

PoolInv ==
  TypeOK /\ LeasesCounted /\ EntriesOK /\ TasksOK /\ RequestsOK /\ ScanOK /\ CapacityKept

\* The leases held on a server, and what a lease held says of its server.
Holders(s) == {r \in Requests : pc[r] \in Holding /\ target[r] = s}

LEMMA HeldIsCounted ==
  ASSUME TypeOK, LeasesCounted, NEW r \in Requests, pc[r] \in Holding, target[r] \in Requests
  PROVE  active[target[r]] > 0
<1>1. IsFiniteSet(Holders(target[r])) /\ r \in Holders(target[r])
  <2>1. IsFiniteSet(Requests) /\ Holders(target[r]) \subseteq Requests
    BY PoolAssumption DEF Holders
  <2> QED
    BY <2>1, FS_Subset DEF Holders
<1>2. Cardinality(Holders(target[r])) # 0 /\ Cardinality(Holders(target[r])) \in Nat
  BY <1>1, FS_EmptySet, FS_CardinalityType
<1>3. active[target[r]] = Cardinality(Holders(target[r]))
  BY DEF LeasesCounted, Holders
<1> QED
  BY <1>2, <1>3

\* The steps of requests and of time that start no creation and retire no
\* server leave the two dictionaries, the tasks and the servers alone.
Quiet(r) ==
  \/ AcquireRefused(r) \/ AcquireLease(r) \/ AcquireJoin(r) \/ AcquireScan(r)
  \/ \E k \in Keys : Scan(r, k)
  \/ NothingToEvict(r) \/ Claim(r) \/ WaitFails(r) \/ Serve(r) \/ Respond(r)
  \/ Abort(r) \/ Expire(r)

\* So do the sessions of a key.
Sessions(k) == OpenSession(k) \/ EndSessions(k)

LEMMA QuietStep ==
  ASSUME NEW r \in Requests, Quiet(r)
  PROVE  UNCHANGED <<dictVars, taskVars, shutdown, server, want>>
BY DEF Quiet, AcquireRefused, AcquireLease, Lease, AcquireJoin, AcquireScan, Scan,
   NothingToEvict, Fail, Claim, WaitFails, Serve, Respond, Abort, Release, Expire,
   poolVars, dictVars, exitVars, taskVars, serverVars, requestVars

LEMMA SessionStep ==
  ASSUME NEW k \in Keys, Sessions(k)
  PROVE  UNCHANGED <<poolVars, lock, toScan, found, taskVars, server, leased, active,
                     expired, requestVars>>
BY DEF Sessions, OpenSession, EndSessions, lockVars

\* Every step keeps the two dictionaries right.
LEMMA EntriesStep ==
  ASSUME TypeOK, LeasesCounted, EntriesOK, TasksOK, RequestsOK, ScanOK, Next
  PROVE  EntriesOK'
<1> USE PoolAssumption DEF poolVars, dictVars, exitVars, lockVars, taskVars,
     serverVars, requestVars, EntriesOK, Free, Running, Holding
<1>1. ASSUME NEW r \in Requests, AcquireCreate(r) PROVE EntriesOK'
  BY <1>1 DEF AcquireCreate, StartCreation, TypeOK
<1>2. ASSUME NEW r \in Requests, AcquireReplace(r) PROVE EntriesOK'
  BY <1>2 DEF AcquireReplace, StartCreation, Retire, TypeOK
<1>3. ASSUME NEW r \in Requests, Register(r) PROVE EntriesOK'
  BY <1>3 DEF Register, Move, TypeOK, TasksOK
<1>4. ASSUME NEW r \in Requests, NEW k \in Keys, Evict(r, k) PROVE EntriesOK'
  BY <1>4 DEF Evict, StartCreation, Retire, TypeOK, ScanOK
<1>5. ASSUME NEW k \in Keys, RemoveKey(k) PROVE EntriesOK'
  BY <1>5 DEF RemoveKey, CancelTasks, Cancelled, TypeOK
<1>6. CASE Reap
  BY <1>6 DEF Reap, Retire, Registered, TypeOK
<1>7. ASSUME NEW r \in Requests, StaleStopped(r) PROVE EntriesOK'
  BY <1>7 DEF StaleStopped, Move
<1>8. ASSUME NEW r \in Requests, FactoryReturns(r) PROVE EntriesOK'
  BY <1>8 DEF FactoryReturns, Move
<1>9. ASSUME NEW r \in Requests, Unmade(r) PROVE EntriesOK'
  BY <1>9 DEF Unmade, Move
<1>10. ASSUME NEW r \in Requests, FactoryFails(r) PROVE EntriesOK'
  BY <1>10 DEF FactoryFails, Move
<1>11. ASSUME NEW r \in Requests, CandidateStopped(r) PROVE EntriesOK'
  BY <1>11 DEF CandidateStopped, Move
<1>12. ASSUME NEW r \in Requests, Cleanup(r) PROVE EntriesOK'
  BY <1>12 DEF Cleanup, Move
<1>13. ASSUME NEW r \in Requests, ServerStops(r) PROVE EntriesOK'
  BY <1>13 DEF ServerStops
<1>14. CASE Shutdown
  BY <1>14 DEF Shutdown
<1>15. CASE ShutdownReturns
  BY <1>15 DEF ShutdownReturns
<1>16. CASE Terminated
  BY <1>16 DEF Terminated, vars
<1>17. CASE UNCHANGED <<dictVars, taskVars, shutdown, server, want>>
  BY <1>17
<1>18. ASSUME NEW r \in Requests, Quiet(r) PROVE EntriesOK'
  BY <1>17, <1>18, QuietStep
<1>19. ASSUME NEW k \in Keys, Sessions(k) PROVE EntriesOK'
  BY <1>17, <1>19, SessionStep
<1> QED
  BY <1>1, <1>2, <1>3, <1>4, <1>5, <1>6, <1>7, <1>8, <1>9, <1>10, <1>11, <1>12, <1>13,
     <1>14, <1>15, <1>16, <1>17, <1>18, <1>19
  DEF Next, Request, Acquire, Creation, Quiet, Sessions

\* Every step keeps what is known of creation tasks.
LEMMA TasksStep ==
  ASSUME TypeOK, LeasesCounted, EntriesOK, TasksOK, RequestsOK, ScanOK, Next
  PROVE  TasksOK'
<1> USE PoolAssumption DEF poolVars, dictVars, exitVars, lockVars, taskVars,
     serverVars, requestVars, TasksOK, Free, Running, Holding
<1>1. ASSUME NEW r \in Requests, AcquireCreate(r) PROVE TasksOK'
  BY <1>1 DEF AcquireCreate, StartCreation, TypeOK, RequestsOK
<1>2. ASSUME NEW r \in Requests, AcquireReplace(r) PROVE TasksOK'
  BY <1>2 DEF AcquireReplace, StartCreation, Retire, TypeOK, EntriesOK, RequestsOK
<1>3. ASSUME NEW r \in Requests, FactoryReturns(r) PROVE TasksOK'
  BY <1>3 DEF FactoryReturns, Move, TypeOK
<1>4. ASSUME NEW r \in Requests, Register(r) PROVE TasksOK'
  BY <1>4 DEF Register, Move, TypeOK
<1>5. ASSUME NEW r \in Requests, Cleanup(r) PROVE TasksOK'
  BY <1>5 DEF Cleanup, Move, TypeOK
<1>6. ASSUME NEW r \in Requests, NEW k \in Keys, Evict(r, k) PROVE TasksOK'
  BY <1>6 DEF Evict, StartCreation, Retire, TypeOK, EntriesOK, RequestsOK, ScanOK
<1>7. ASSUME NEW k \in Keys, RemoveKey(k) PROVE TasksOK'
  BY <1>7 DEF RemoveKey, CancelTasks, Cancelled, TypeOK, EntriesOK
<1>8. CASE Shutdown
  BY <1>8 DEF Shutdown, CancelTasks, Cancelled, Entries, TypeOK
<1>9. CASE Reap
  BY <1>9 DEF Reap, Retire, Registered, TypeOK, EntriesOK
<1>10. ASSUME NEW r \in Requests, StaleStopped(r) PROVE TasksOK'
  BY <1>10 DEF StaleStopped, Move
<1>11. ASSUME NEW r \in Requests, Unmade(r) PROVE TasksOK'
  BY <1>11 DEF Unmade, Move
<1>12. ASSUME NEW r \in Requests, FactoryFails(r) PROVE TasksOK'
  BY <1>12 DEF FactoryFails, Move
<1>13. ASSUME NEW r \in Requests, CandidateStopped(r) PROVE TasksOK'
  BY <1>13 DEF CandidateStopped, Move
<1>14. ASSUME NEW r \in Requests, ServerStops(r) PROVE TasksOK'
  BY <1>14 DEF ServerStops
<1>15. CASE ShutdownReturns
  BY <1>15 DEF ShutdownReturns
<1>16. CASE Terminated
  BY <1>16 DEF Terminated, vars
<1>17. CASE UNCHANGED <<dictVars, taskVars, shutdown, server, want>>
  BY <1>17
<1>18. ASSUME NEW r \in Requests, Quiet(r) PROVE TasksOK'
  BY <1>17, <1>18, QuietStep
<1>19. ASSUME NEW k \in Keys, Sessions(k) PROVE TasksOK'
  BY <1>17, <1>19, SessionStep
<1> QED
  BY <1>1, <1>2, <1>3, <1>4, <1>5, <1>6, <1>7, <1>8, <1>9, <1>10, <1>11, <1>12, <1>13,
     <1>14, <1>15, <1>16, <1>17, <1>18, <1>19
  DEF Next, Request, Acquire, Creation, Quiet, Sessions

\* Every step keeps what is known of requests.
LEMMA RequestsStep ==
  ASSUME TypeOK, LeasesCounted, EntriesOK, TasksOK, RequestsOK, ScanOK, Next
  PROVE  RequestsOK'
<1> USE PoolAssumption DEF poolVars, dictVars, exitVars, lockVars, taskVars,
     serverVars, requestVars, RequestsOK, Free, Running, Holding
<1>1. ASSUME NEW r \in Requests, AcquireLease(r) PROVE RequestsOK'
  BY <1>1 DEF AcquireLease, Lease, TypeOK
<1>2. ASSUME NEW r \in Requests, AcquireJoin(r) PROVE RequestsOK'
  BY <1>2 DEF AcquireJoin, TypeOK
<1>3. ASSUME NEW r \in Requests, AcquireCreate(r) PROVE RequestsOK'
  BY <1>3 DEF AcquireCreate, StartCreation, TypeOK
<1>4. ASSUME NEW r \in Requests, AcquireReplace(r) PROVE RequestsOK'
  BY <1>4 DEF AcquireReplace, StartCreation, TypeOK
<1>5. ASSUME NEW r \in Requests, AcquireScan(r) PROVE RequestsOK'
  BY <1>5 DEF AcquireScan, TypeOK
<1>6. ASSUME NEW r \in Requests, NothingToEvict(r) PROVE RequestsOK'
  BY <1>6 DEF NothingToEvict, Fail, Unlock, TypeOK
<1>7. ASSUME NEW r \in Requests, Abort(r) PROVE RequestsOK'
  BY <1>7 DEF Abort, Fail, Unlock, TypeOK
<1>8. ASSUME NEW r \in Requests, NEW k \in Keys, Evict(r, k) PROVE RequestsOK'
  BY <1>8 DEF Evict, StartCreation, Unlock, TypeOK
<1>9. ASSUME NEW r \in Requests, AcquireRefused(r) PROVE RequestsOK'
  BY <1>9 DEF AcquireRefused, Fail
<1>10. ASSUME NEW r \in Requests, Claim(r) PROVE RequestsOK'
  BY <1>10 DEF Claim, Lease
<1>11. ASSUME NEW r \in Requests, WaitFails(r) PROVE RequestsOK'
  BY <1>11 DEF WaitFails, Fail
<1>12. ASSUME NEW r \in Requests, Serve(r) PROVE RequestsOK'
  BY <1>12 DEF Serve
<1>13. ASSUME NEW r \in Requests, Respond(r) PROVE RequestsOK'
  BY <1>13 DEF Respond
<1>14. ASSUME NEW r \in Requests, StaleStopped(r) PROVE RequestsOK'
  BY <1>14 DEF StaleStopped, Move
<1>15. ASSUME NEW r \in Requests, FactoryReturns(r) PROVE RequestsOK'
  BY <1>15 DEF FactoryReturns, Move
<1>16. ASSUME NEW r \in Requests, Unmade(r) PROVE RequestsOK'
  BY <1>16 DEF Unmade, Move
<1>17. ASSUME NEW r \in Requests, FactoryFails(r) PROVE RequestsOK'
  BY <1>17 DEF FactoryFails, Move
<1>18. ASSUME NEW r \in Requests, Register(r) PROVE RequestsOK'
  BY <1>18 DEF Register, Move
<1>19. ASSUME NEW r \in Requests, CandidateStopped(r) PROVE RequestsOK'
  BY <1>19 DEF CandidateStopped, Move
<1>20. ASSUME NEW r \in Requests, Cleanup(r) PROVE RequestsOK'
  BY <1>20 DEF Cleanup, Move
<1>21. ASSUME NEW r \in Requests, Expire(r) PROVE RequestsOK'
  BY <1>21 DEF Expire
<1>22. ASSUME NEW k \in Keys, OpenSession(k) PROVE RequestsOK'
  BY <1>22 DEF OpenSession
<1>23. ASSUME NEW k \in Keys, EndSessions(k) PROVE RequestsOK'
  BY <1>23 DEF EndSessions
<1>24. ASSUME NEW r \in Requests, ServerStops(r) PROVE RequestsOK'
  BY <1>24 DEF ServerStops
<1>25. ASSUME NEW r \in Requests, NEW k \in Keys, Scan(r, k) PROVE RequestsOK'
  BY <1>25 DEF Scan
<1>26. ASSUME NEW k \in Keys, RemoveKey(k) PROVE RequestsOK'
  BY <1>26 DEF RemoveKey, CancelTasks, Cancelled
<1>27. CASE Shutdown
  BY <1>27 DEF Shutdown, CancelTasks, Cancelled
<1>28. CASE ShutdownReturns
  BY <1>28 DEF ShutdownReturns
<1>29. CASE Reap
  BY <1>29 DEF Reap
<1>30. CASE Terminated
  BY <1>30 DEF Terminated, vars
<1> QED
  BY <1>1, <1>2, <1>3, <1>4, <1>5, <1>6, <1>7, <1>8, <1>9, <1>10, <1>11, <1>12, <1>13,
     <1>14, <1>15, <1>16, <1>17, <1>18, <1>19, <1>20, <1>21, <1>22, <1>23, <1>24,
     <1>25, <1>26, <1>27, <1>28, <1>29, <1>30
  DEF Next, Request, Acquire, Creation

\* Every step keeps what the request that holds the lock has found: nobody
\* else can lease a server it has found, a lease that is given back is the
\* lease of another server, and sessions that come and go later change nothing.
LEMMA ScanStep ==
  ASSUME TypeOK, LeasesCounted, EntriesOK, TasksOK, RequestsOK, ScanOK, Next
  PROVE  ScanOK'
<1>0. \A r \in Requests : pc[r] \in Holding => active[target[r]] > 0
  BY HeldIsCounted DEF RequestsOK
<1> USE PoolAssumption DEF poolVars, dictVars, exitVars, lockVars, taskVars,
     serverVars, requestVars, ScanOK, Free, Running, Holding
<1>1. ASSUME NEW r \in Requests, AcquireScan(r) PROVE ScanOK'
  BY <1>1 DEF AcquireScan, Registered
<1>2. ASSUME NEW r \in Requests, WaitFails(r) PROVE ScanOK'
  BY <1>2 DEF WaitFails, Fail
<1>3. ASSUME NEW r \in Requests, Serve(r) PROVE ScanOK'
  BY <1>3 DEF Serve
<1>4. ASSUME NEW r \in Requests, Respond(r) PROVE ScanOK'
  BY <1>0, <1>4 DEF Respond, Release
<1>5. ASSUME NEW r \in Requests, Abort(r) PROVE ScanOK'
  BY <1>0, <1>5 DEF Abort, Fail, Release, Unlock, TypeOK
<1>6. ASSUME NEW r \in Requests, StaleStopped(r) PROVE ScanOK'
  BY <1>6 DEF StaleStopped
<1>7. ASSUME NEW r \in Requests, FactoryReturns(r) PROVE ScanOK'
  BY <1>7 DEF FactoryReturns
<1>8. ASSUME NEW r \in Requests, Unmade(r) PROVE ScanOK'
  BY <1>8 DEF Unmade
<1>9. ASSUME NEW r \in Requests, FactoryFails(r) PROVE ScanOK'
  BY <1>9 DEF FactoryFails
<1>10. ASSUME NEW r \in Requests, CandidateStopped(r) PROVE ScanOK'
  BY <1>10 DEF CandidateStopped
<1>11. ASSUME NEW r \in Requests, Expire(r) PROVE ScanOK'
  BY <1>11 DEF Expire
<1>12. ASSUME NEW k \in Keys, OpenSession(k) PROVE ScanOK'
  BY <1>12 DEF OpenSession, TypeOK
<1>13. ASSUME NEW k \in Keys, EndSessions(k) PROVE ScanOK'
  BY <1>13 DEF EndSessions, TypeOK
<1>14. ASSUME NEW r \in Requests, ServerStops(r) PROVE ScanOK'
  BY <1>14 DEF ServerStops
<1>15. ASSUME NEW r \in Requests, NEW k \in Keys, Scan(r, k) PROVE ScanOK'
  BY <1>15 DEF Scan, Evictable
<1>16. ASSUME NEW r \in Requests, AcquireRefused(r) PROVE ScanOK'
  BY <1>16 DEF AcquireRefused
<1>17. ASSUME NEW r \in Requests, AcquireLease(r) PROVE ScanOK'
  BY <1>17 DEF AcquireLease
<1>18. ASSUME NEW r \in Requests, AcquireJoin(r) PROVE ScanOK'
  BY <1>18 DEF AcquireJoin
<1>19. ASSUME NEW r \in Requests, AcquireCreate(r) PROVE ScanOK'
  BY <1>19 DEF AcquireCreate
<1>20. ASSUME NEW r \in Requests, AcquireReplace(r) PROVE ScanOK'
  BY <1>20 DEF AcquireReplace
<1>21. ASSUME NEW r \in Requests, NothingToEvict(r) PROVE ScanOK'
  BY <1>21 DEF NothingToEvict, Unlock
<1>22. ASSUME NEW r \in Requests, Claim(r) PROVE ScanOK'
  BY <1>22 DEF Claim
<1>23. ASSUME NEW r \in Requests, Register(r) PROVE ScanOK'
  BY <1>23 DEF Register
<1>24. ASSUME NEW r \in Requests, Cleanup(r) PROVE ScanOK'
  BY <1>24 DEF Cleanup
<1>25. ASSUME NEW r \in Requests, NEW k \in Keys, Evict(r, k) PROVE ScanOK'
  BY <1>25 DEF Evict, Unlock
<1>26. ASSUME NEW k \in Keys, RemoveKey(k) PROVE ScanOK'
  BY <1>26 DEF RemoveKey
<1>27. CASE Shutdown
  BY <1>27 DEF Shutdown
<1>28. CASE ShutdownReturns
  BY <1>28 DEF ShutdownReturns
<1>29. CASE Reap
  BY <1>29 DEF Reap
<1>30. CASE Terminated
  BY <1>30 DEF Terminated, vars
<1> QED
  BY <1>1, <1>2, <1>3, <1>4, <1>5, <1>6, <1>7, <1>8, <1>9, <1>10, <1>11, <1>12, <1>13,
     <1>14, <1>15, <1>16, <1>17, <1>18, <1>19, <1>20, <1>21, <1>22, <1>23, <1>24,
     <1>25, <1>26, <1>27, <1>28, <1>29, <1>30
  DEF Next, Request, Acquire, Creation


LEMMA LeaseCounts ==
  ASSUME TypeOK, LeasesCounted, NEW r \in Requests, NEW s \in Requests,
         pc[r] \notin Holding, Lease(r, s)
  PROVE  LeasesCounted'
<1> SUFFICES ASSUME NEW u \in Requests PROVE active'[u] = Cardinality(Holders(u)')
  BY DEF LeasesCounted, Holders
<1>1. IsFiniteSet(Holders(u)) /\ active[u] = Cardinality(Holders(u))
  BY PoolAssumption, FS_Subset DEF LeasesCounted, Holders
<1>2. r \notin Holders(u)
  BY DEF Holders
<1>3. CASE u = s
  <2>1. Holders(u)' = Holders(u) \cup {r} /\ active'[u] = active[u] + 1
    BY <1>3 DEF Holders, Lease, Using, TypeOK, Holding
  <2> QED
    BY <1>1, <1>2, <2>1, FS_AddElement
<1>4. CASE u # s
  BY <1>1, <1>2, <1>4 DEF Holders, Lease, Using, TypeOK, Holding
<1> QED
  BY <1>3, <1>4

LEMMA ReleaseCounts ==
  ASSUME TypeOK, LeasesCounted, NEW r \in Requests, pc[r] \in Holding,
         target[r] \in Requests, Release(target[r]), NEW stage \in {"served", "failed"},
         pc' = [pc EXCEPT ![r] = stage], target' = target
  PROVE  LeasesCounted'
<1> SUFFICES ASSUME NEW u \in Requests PROVE active'[u] = Cardinality(Holders(u)')
  BY DEF LeasesCounted, Holders
<1>1. IsFiniteSet(Holders(u)) /\ active[u] = Cardinality(Holders(u))
  BY PoolAssumption, FS_Subset DEF LeasesCounted, Holders
<1>2. Holders(u)' = Holders(u) \ {r}
  BY DEF Holders, TypeOK, Holding
<1>3. CASE u = target[r]
  <2>1. r \in Holders(u) /\ active'[u] = active[u] - 1
    BY <1>3 DEF Holders, Release, TypeOK
  <2> QED
    BY <1>1, <1>2, <2>1, FS_RemoveElement
<1>4. CASE u # target[r]
  <2>1. Holders(u)' = Holders(u) /\ active'[u] = active[u]
    BY <1>2, <1>4 DEF Holders, Release, TypeOK
  <2> QED
    BY <1>1, <2>1
<1> QED
  BY <1>3, <1>4

\* Any other step leaves the leases as they are.
LEMMA SameLeases ==
  ASSUME LeasesCounted, active' = active,
         \A r \in Requests : pc[r] \in Holding \/ pc'[r] \in Holding =>
            pc[r] \in Holding /\ pc'[r] \in Holding /\ target'[r] = target[r]
  PROVE  LeasesCounted'
<1>1. \A s \in Requests : Holders(s)' = Holders(s)
  BY DEF Holders
<1> QED
  BY <1>1 DEF LeasesCounted, Holders

LEMMA CountStep ==
  ASSUME TypeOK, LeasesCounted, RequestsOK, Next
  PROVE  LeasesCounted'
<1> USE DEF poolVars, dictVars, exitVars, lockVars, taskVars, serverVars, requestVars
<1>1. ASSUME NEW r \in Requests, AcquireLease(r) \/ Claim(r) PROVE LeasesCounted'
  <2>1. PICK s \in Requests : Lease(r, s)
    BY <1>1 DEF AcquireLease, Claim, RequestsOK, TypeOK
  <2>2. pc[r] \notin Holding
    BY <1>1 DEF AcquireLease, Claim, Holding
  <2> QED
    BY <2>1, <2>2, LeaseCounts
<1>2. ASSUME NEW r \in Requests, Respond(r) PROVE LeasesCounted'
  BY <1>2, ReleaseCounts DEF Respond, Holding, RequestsOK
<1>3. ASSUME NEW r \in Requests, Abort(r) PROVE LeasesCounted'
  <2>1. CASE pc[r] = "holding"
    BY <1>3, <2>1, ReleaseCounts DEF Abort, Fail, Holding, RequestsOK
  <2>2. CASE pc[r] # "holding"
    BY <1>3, <2>2, SameLeases DEF Abort, Fail, Holding, TypeOK
  <2> QED
    BY <2>1, <2>2
<1>4. ASSUME NEW r \in Requests,
             AcquireRefused(r) \/ AcquireJoin(r) \/ AcquireScan(r) \/ NothingToEvict(r)
               \/ WaitFails(r) \/ Serve(r)
      PROVE  LeasesCounted'
  <2>1. \A q \in Requests : pc[q] \in Holding \/ pc'[q] \in Holding =>
          pc[q] \in Holding /\ pc'[q] \in Holding /\ target'[q] = target[q]
    BY <1>4 DEF AcquireRefused, AcquireJoin, AcquireScan, NothingToEvict, WaitFails,
                Serve, Fail, Holding, TypeOK, RequestsOK
  <2>2. active' = active
    BY <1>4 DEF AcquireRefused, AcquireJoin, AcquireScan, NothingToEvict, WaitFails, Serve
  <2> QED
    BY <2>1, <2>2, SameLeases
<1>5. ASSUME NEW r \in Requests, NEW s, StartCreation(r, s), active' = active,
             pc[r] \in {"new", "reserving"}
      PROVE  LeasesCounted'
  BY <1>5, SameLeases DEF StartCreation, Holding, TypeOK
<1>6. ASSUME NEW r \in Requests, AcquireCreate(r) \/ AcquireReplace(r) PROVE LeasesCounted'
  BY <1>5, <1>6 DEF AcquireCreate, AcquireReplace
<1>7. ASSUME NEW r \in Requests, NEW k \in Keys, Evict(r, k) PROVE LeasesCounted'
  BY <1>5, <1>7 DEF Evict, RequestsOK
<1>8. CASE UNCHANGED <<active, requestVars>>
  BY <1>8, SameLeases
<1>9. ASSUME NEW r \in Requests, Creation(r) \/ Expire(r) \/ ServerStops(r)
      PROVE  UNCHANGED <<active, requestVars>>
  BY <1>9 DEF Creation, StaleStopped, FactoryReturns, Unmade, FactoryFails, Register,
     CandidateStopped, Cleanup, Expire, ServerStops
<1>10. ASSUME NEW k \in Keys,
              RemoveKey(k) \/ OpenSession(k) \/ EndSessions(k) \/ \E r \in Requests : Scan(r, k)
       PROVE  UNCHANGED <<active, requestVars>>
  BY <1>10 DEF RemoveKey, OpenSession, EndSessions, Scan
<1>11. CASE Shutdown \/ ShutdownReturns \/ Reap \/ Terminated
  <2>1. UNCHANGED <<active, requestVars>>
    BY <1>11 DEF Shutdown, ShutdownReturns, Reap, Terminated, vars
  <2> QED
    BY <1>8, <2>1
<1> QED
  BY <1>1, <1>2, <1>3, <1>4, <1>6, <1>7, <1>8, <1>9, <1>10, <1>11 DEF Next, Request, Acquire

-----------------------------------------------------------------------------
(* Capacity.                                                               *)

Places == Cardinality(Registered) + Cardinality(BeingMade)

LEMMA FiniteDicts ==
  /\ IsFiniteSet(Registered) /\ IsFiniteSet(BeingMade)
  /\ Cardinality(Registered) \in Nat /\ Cardinality(BeingMade) \in Nat
<1>1. IsFiniteSet(Registered) /\ IsFiniteSet(BeingMade)
  BY PoolAssumption, FS_Subset DEF Registered, BeingMade
<1> QED
  BY <1>1, FS_CardinalityType

\* No step but the start of a creation adds a key to the two dictionaries.
LEMMA FewerPlaces ==
  ASSUME CapacityKept, Registered' \subseteq Registered, BeingMade' \subseteq BeingMade
  PROVE  CapacityKept'
<1>1. /\ Cardinality(Registered') <= Cardinality(Registered)
      /\ Cardinality(BeingMade') <= Cardinality(BeingMade)
      /\ Cardinality(Registered') \in Nat /\ Cardinality(BeingMade') \in Nat
  BY FiniteDicts, FS_Subset, FS_CardinalityType
<1> QED
  BY <1>1, FiniteDicts, PoolAssumption DEF CapacityKept

\* One key more in one of them, and one less in the other or room before.
LEMMA OnePlaceMore ==
  ASSUME CapacityKept, NEW k \in Keys, k \notin BeingMade, BeingMade' = BeingMade \cup {k},
         \/ Registered' = Registered /\ HasRoom(0)
         \/ \E p \in Registered : Registered' = Registered \ {p}
  PROVE  CapacityKept'
<1>1. Cardinality(BeingMade') = Cardinality(BeingMade) + 1
  BY FiniteDicts, FS_AddElement
<1>2. CASE Registered' = Registered /\ HasRoom(0)
  BY <1>1, <1>2, FiniteDicts, PoolAssumption DEF CapacityKept, HasRoom
<1>3. ASSUME NEW p \in Registered, Registered' = Registered \ {p} PROVE CapacityKept'
  <2>1. Cardinality(Registered') = Cardinality(Registered) - 1
    BY <1>3, FiniteDicts, FS_RemoveElement
  <2> QED
    BY <1>1, <2>1, FiniteDicts, PoolAssumption DEF CapacityKept
<1> QED
  BY <1>2, <1>3

LEMMA CapacityStep ==
  ASSUME TypeOK, EntriesOK, TasksOK, RequestsOK, ScanOK, CapacityKept, Next
  PROVE  CapacityKept'
<1> USE DEF poolVars, dictVars, exitVars, lockVars, taskVars, serverVars, requestVars
<1>1. ASSUME NEW r \in Requests, AcquireCreate(r) PROVE CapacityKept'
  <2>1. /\ want[r] \in Keys /\ want[r] \notin BeingMade /\ HasRoom(0)
        /\ Registered' = Registered
    BY <1>1 DEF AcquireCreate, TypeOK, BeingMade, Registered
  <2>2. BeingMade' = BeingMade \cup {want[r]}
    BY <1>1, PoolAssumption DEF AcquireCreate, StartCreation, TypeOK, BeingMade
  <2> QED
    BY <2>1, <2>2, OnePlaceMore
<1>2. ASSUME NEW r \in Requests, AcquireReplace(r) PROVE CapacityKept'
  <2>1. want[r] \in Keys /\ want[r] \notin BeingMade /\ want[r] \in Registered
    BY <1>2 DEF AcquireReplace, TypeOK, EntriesOK, BeingMade, Registered
  <2>2. Registered' = Registered \ {want[r]}
    BY <1>2 DEF AcquireReplace, TypeOK, Registered
  <2>3. BeingMade' = BeingMade \cup {want[r]}
    BY <1>2, PoolAssumption DEF AcquireReplace, StartCreation, TypeOK, BeingMade
  <2> QED
    BY <2>1, <2>2, <2>3, OnePlaceMore
<1>3. ASSUME NEW r \in Requests, NEW k \in Keys, Evict(r, k) PROVE CapacityKept'
  <2>1. want[r] \in Keys /\ want[r] \notin BeingMade /\ k \in Registered
    BY <1>3, PoolAssumption DEF Evict, TypeOK, ScanOK, BeingMade, Registered
  <2>2. Registered' = Registered \ {k}
    BY <1>3 DEF Evict, TypeOK, Registered
  <2>3. BeingMade' = BeingMade \cup {want[r]}
    BY <1>3, PoolAssumption DEF Evict, StartCreation, TypeOK, BeingMade
  <2> QED
    BY <2>1, <2>2, <2>3, OnePlaceMore
<1>4. ASSUME NEW t \in Requests, Register(t) PROVE CapacityKept'
  <2>1. creating[want[t]] = t /\ servers[want[t]] = NoOne /\ want[t] \in Keys
    BY <1>4, PoolAssumption DEF Register, EntriesOK, TasksOK, Running, TypeOK
  <2>2. want[t] \notin Registered /\ want[t] \in BeingMade
    BY <2>1, PoolAssumption DEF Registered, BeingMade
  <2>3. Registered' = Registered \cup {want[t]}
    BY <1>4, PoolAssumption DEF Register, TypeOK, Registered
  <2>4. BeingMade' = BeingMade \ {want[t]}
    BY <1>4 DEF Register, TypeOK, BeingMade
  <2>5. /\ Cardinality(Registered') = Cardinality(Registered) + 1
        /\ Cardinality(BeingMade') = Cardinality(BeingMade) - 1
    BY <2>2, <2>3, <2>4, FiniteDicts, FS_AddElement, FS_RemoveElement
  <2> QED
    BY <2>5, FiniteDicts, PoolAssumption DEF CapacityKept
<1>5. ASSUME NEW t \in Requests, Cleanup(t) PROVE CapacityKept'
  <2>1. Registered' = Registered /\ BeingMade' \subseteq BeingMade
    BY <1>5 DEF Cleanup, TypeOK, Registered, BeingMade
  <2> QED
    BY <2>1, FewerPlaces
<1>6. ASSUME NEW k \in Keys, RemoveKey(k) PROVE CapacityKept'
  <2>1. Registered' \subseteq Registered /\ BeingMade' = BeingMade
    BY <1>6 DEF RemoveKey, TypeOK, Registered, BeingMade
  <2> QED
    BY <2>1, FewerPlaces
<1>7. CASE Shutdown \/ Reap
  <2>1. CASE Shutdown
    <3>1. Registered' = {} /\ BeingMade' = {}
      BY <2>1 DEF Shutdown, Registered, BeingMade
    <3> QED
      BY <3>1, FewerPlaces
  <2>2. CASE Reap
    <3>1. PICK E \in SUBSET Keys :
            servers' = [k \in Keys |-> IF k \in E THEN NoOne ELSE servers[k]]
      BY <2>2 DEF Reap, Registered
    <3>2. Registered' \subseteq Registered /\ BeingMade' = BeingMade
      BY <2>2, <3>1 DEF Reap, Registered, BeingMade
    <3> QED
      BY <3>2, FewerPlaces
  <2> QED
    BY <1>7, <2>1, <2>2
<1>8. CASE UNCHANGED dictVars
  BY <1>8, FewerPlaces DEF Registered, BeingMade
<1>9. ASSUME NEW r \in Requests, Quiet(r) PROVE UNCHANGED dictVars
  BY <1>9, QuietStep
<1>10. ASSUME NEW t \in Requests,
              StaleStopped(t) \/ FactoryReturns(t) \/ Unmade(t) \/ FactoryFails(t)
                \/ CandidateStopped(t) \/ ServerStops(t)
       PROVE  UNCHANGED dictVars
  BY <1>10 DEF StaleStopped, FactoryReturns, Unmade, FactoryFails,
     CandidateStopped, ServerStops
<1>11. CASE ShutdownReturns \/ Terminated
  BY <1>8, <1>11 DEF ShutdownReturns, Terminated, vars
<1>12. ASSUME NEW k \in Keys, Sessions(k) PROVE UNCHANGED dictVars
  BY <1>12, SessionStep
<1> QED
  BY <1>1, <1>2, <1>3, <1>4, <1>5, <1>6, <1>7, <1>8, <1>9, <1>10, <1>11, <1>12
  DEF Next, Request, Acquire, Creation, Quiet, Sessions

-----------------------------------------------------------------------------
(* The theorems.                                                           *)

LEMMA TypeStep ==
  ASSUME TypeOK, LeasesCounted, EntriesOK, RequestsOK, ScanOK, Next
  PROVE  TypeOK'
<1> USE DEF poolVars, dictVars, exitVars, lockVars, taskVars, serverVars, requestVars, Move
<1>1. ASSUME NEW r \in Requests, AcquireLease(r) \/ Claim(r) PROVE TypeOK'
  <2>1. PICK s \in Requests : Lease(r, s)
    BY <1>1 DEF AcquireLease, Claim, RequestsOK, TypeOK
  <2>2. active[s] >= 0
    BY DEF TypeOK
  <2>3. UNCHANGED <<poolVars, lockVars, taskVars>>
    BY <1>1 DEF AcquireLease, Claim
  <2> QED
    BY <2>1, <2>2, <2>3, LeaseType DEF TypeOK
<1>2. ASSUME NEW r \in Requests, Respond(r) \/ Abort(r) PROVE TypeOK'
  <2>1. pc[r] \in Holding => target[r] \in Requests /\ active[target[r]] > 0
    BY HeldIsCounted DEF RequestsOK
  <2>2. active' \in [Requests -> Nat] /\ expired' \in [Requests -> BOOLEAN]
    <3>1. CASE UNCHANGED <<active, expired>>
      BY <3>1 DEF TypeOK
    <3>2. CASE pc[r] \in Holding /\ Release(target[r])
      BY <2>1, <3>2, ReleaseType
    <3> QED
      BY <1>2, <3>1, <3>2 DEF Respond, Abort, Holding
  <2>3. pc' \in
          [Requests -> Holding \cup {"new", "reserving", "waiting", "served", "failed"}]
    BY <1>2 DEF Respond, Abort, Fail, TypeOK
  <2> QED
    BY <1>2, <2>2, <2>3 DEF Respond, Abort, Fail, Unlock, TypeOK
<1>3. ASSUME NEW r \in Requests, AcquireRefused(r) \/ NothingToEvict(r) \/ WaitFails(r)
      PROVE  TypeOK'
  BY <1>3 DEF AcquireRefused, NothingToEvict, WaitFails, Fail, Unlock, TypeOK
<1>4. ASSUME NEW r \in Requests, AcquireJoin(r) \/ AcquireScan(r) \/ Serve(r) PROVE TypeOK'
  BY <1>4 DEF AcquireJoin, AcquireScan, Serve, Registered, Holding, TypeOK
<1>5. ASSUME NEW r \in Requests, AcquireCreate(r) PROVE TypeOK'
  BY <1>5, CreationType DEF AcquireCreate, TypeOK
<1>6. ASSUME NEW r \in Requests, AcquireReplace(r) PROVE TypeOK'
  <2>1. servers[want[r]] \in Requests /\ servers' \in [Keys -> Requests \cup {NoOne}]
    BY <1>6 DEF AcquireReplace, TypeOK
  <2> QED
    BY <1>6, <2>1, CreationType, RetireType DEF AcquireReplace, TypeOK
<1>7. ASSUME NEW r \in Requests, NEW k \in Keys, Scan(r, k) PROVE TypeOK'
  BY <1>7 DEF Scan, TypeOK
<1>8. ASSUME NEW r \in Requests, NEW k \in Keys, Evict(r, k) PROVE TypeOK'
  <2>1. servers' \in [Keys -> Requests \cup {NoOne}]
    BY <1>8 DEF Evict, TypeOK
  <2> QED
    BY <1>8, <2>1, CreationType, RetireType DEF Evict, Unlock, TypeOK
<1>9. ASSUME NEW t \in Requests,
             StaleStopped(t) \/ Unmade(t) \/ FactoryFails(t) \/ CandidateStopped(t)
               \/ FactoryReturns(t)
      PROVE  TypeOK'
  BY <1>9 DEF StaleStopped, Unmade, FactoryFails, CandidateStopped, FactoryReturns,
              Running, TypeOK
<1>10. ASSUME NEW t \in Requests, Register(t) \/ Cleanup(t) PROVE TypeOK'
  BY <1>10 DEF Register, Cleanup, TypeOK
<1>11. ASSUME NEW s \in Requests, Expire(s) \/ ServerStops(s) PROVE TypeOK'
  BY ZenonT(60), <1>11 DEF Expire, ServerStops, TypeOK
<1>12. ASSUME NEW k \in Keys, RemoveKey(k) PROVE TypeOK'
  <2>1. /\ removes' \in 0..MaxRemoves /\ servers' \in [Keys -> Requests \cup {NoOne}]
        /\ takenBy' \in [Requests -> {"nobody", "retired", "reaped", "removed"}]
    BY <1>12, PoolAssumption DEF RemoveKey, TypeOK
  <2> QED
    BY <1>12, <2>1, CancelType DEF RemoveKey, TypeOK
<1>13. CASE Shutdown
  <2>1. awaited' \in [tasks : SUBSET Requests, servers : SUBSET Requests]
    BY <1>13 DEF Shutdown, TasksToAwait, Entries, TypeOK
  <2>2. /\ servers' \in [Keys -> Requests \cup {NoOne}]
        /\ creating' \in [Keys -> Requests \cup {NoOne}]
    BY <1>13 DEF Shutdown
  <2> QED
    BY <1>13, <2>1, <2>2, CancelType DEF Shutdown, TypeOK
<1>14. CASE Reap
  <2>1. PICK E \in SUBSET Registered :
          /\ servers' = [k \in Keys |-> IF k \in E THEN NoOne ELSE servers[k]]
          /\ Retire({servers[k] : k \in E}, "reaped")
    BY <1>14 DEF Reap
  <2>2. servers' \in [Keys -> Requests \cup {NoOne}]
    BY <2>1 DEF TypeOK
  <2> QED
    BY <1>14, <2>1, <2>2, RetireType DEF Reap, TypeOK
<1>15. CASE ShutdownReturns \/ Terminated
  BY <1>15 DEF ShutdownReturns, Terminated, vars, TypeOK
<1>16. ASSUME NEW k \in Keys, OpenSession(k) \/ EndSessions(k) PROVE TypeOK'
  <2>1. sessions' \in [Keys -> BOOLEAN] /\ emptied' \in SUBSET Keys
    BY <1>16 DEF OpenSession, EndSessions, TypeOK
  <2> QED
    BY <1>16, <2>1 DEF OpenSession, EndSessions, TypeOK
<1> QED
  BY <1>1, <1>2, <1>3, <1>4, <1>5, <1>6, <1>7, <1>8, <1>9, <1>10, <1>11, <1>12, <1>13,
     <1>14, <1>15, <1>16
  DEF Next, Request, Acquire, Creation

LEMMA PoolInit == Init => PoolInv
<1> SUFFICES ASSUME Init PROVE PoolInv
  OBVIOUS
<1>1. TypeOK
  BY PoolAssumption DEF Init, TypeOK
<1>2. EntriesOK /\ TasksOK /\ RequestsOK /\ ScanOK
  BY PoolAssumption DEF Init, EntriesOK, TasksOK, RequestsOK, ScanOK, Running, Holding
<1>3. LeasesCounted
  <2>1. \A s \in Requests : {r \in Requests : pc[r] \in Holding /\ target[r] = s} = {}
    BY DEF Init, Holding
  <2> QED
    BY <2>1, FS_EmptySet DEF Init, LeasesCounted
<1>4. CapacityKept
  <2>1. Registered = {} /\ BeingMade = {}
    BY DEF Init, Registered, BeingMade
  <2> QED
    BY <2>1, FS_EmptySet, PoolAssumption DEF CapacityKept
<1> QED
  BY <1>1, <1>2, <1>3, <1>4 DEF PoolInv

LEMMA PoolStep == PoolInv /\ [Next]_vars => PoolInv'
<1>1. CASE Next
  BY <1>1, TypeStep, CountStep, EntriesStep, TasksStep, RequestsStep, ScanStep, CapacityStep
  DEF PoolInv
<1>2. CASE UNCHANGED vars
  BY <1>2
  DEF vars, poolVars, dictVars, exitVars, lockVars, taskVars, serverVars, requestVars,
      PoolInv, TypeOK, LeasesCounted, EntriesOK, TasksOK, RequestsOK, ScanOK,
      CapacityKept, Registered, BeingMade
<1> QED
  BY <1>1, <1>2

LEMMA PoolInvariant == Spec => []PoolInv
BY PoolInit, PoolStep, PTL DEF Spec

\* The pool's state is well typed; active_requests is never negative.
THEOREM TypeCorrect == Spec => []TypeOK
<1>1. PoolInv => TypeOK
  BY DEF PoolInv
<1> QED
  BY PoolInvariant, <1>1, PTL

\* max_servers bounds the servers and those being made (_reserve_capacity).
THEOREM CapacityIsKept == Spec => []CapacityKept
<1>1. PoolInv => CapacityKept
  BY DEF PoolInv
<1> QED
  BY PoolInvariant, <1>1, PTL

\* active_requests counts the leases that are held (acquire, release and the
\* failure paths of local_mcp_response).
THEOREM LeasesAreCounted == Spec => []LeasesCounted
<1>1. PoolInv => LeasesCounted
  BY DEF PoolInv
<1> QED
  BY PoolInvariant, <1>1, PTL

\* _servers and _creating never both have a key, and agree with the servers
\* and the tasks.
THEOREM KeysHaveOneServer == Spec => []OneServerPerKey
<1>1. PoolInv => OneServerPerKey
  BY DEF PoolInv, EntriesOK, TasksOK, OneServerPerKey
<1> QED
  BY PoolInvariant, <1>1, PTL

\* _create_server stops the stale server before it calls the factory.
THEOREM StaleServersStopFirst == Spec => []StaleServerStoppedFirst
<1>1. PoolInv => StaleServerStoppedFirst
  BY DEF PoolInv, TasksOK, StaleServerStoppedFirst
<1> QED
  BY PoolInvariant, <1>1, PTL

\* acquire() leases the server of the key, open, in a pool that runs.
THEOREM LeasesAreOfOpenServers == Spec => LeasesOpenServer
<1> DEFINE A == \A r \in Requests : pc[r] # "holding" /\ pc'[r] = "holding" =>
                  /\ shutdown = "no" /\ server[target'[r]] = "open"
                  /\ servers[want[r]] = target'[r]
<1>1. PoolInv /\ [Next]_vars => [A]_vars
  <2> SUFFICES ASSUME PoolInv, Next, NEW r \in Requests, pc[r] # "holding",
                      pc'[r] = "holding"
               PROVE  /\ shutdown = "no" /\ server[target'[r]] = "open"
                      /\ servers[want[r]] = target'[r]
    OBVIOUS
  <2> USE DEF PoolInv, poolVars, dictVars, exitVars, requestVars
  <2>1. AcquireLease(r) \/ Claim(r)
    <3>1. ASSUME NEW q \in Requests, Request(q), ~(AcquireLease(q) \/ Claim(q))
          PROVE  pc'[r] # "holding"
      BY ZenonT(60), <3>1 DEF Request, Acquire, AcquireRefused, AcquireJoin, AcquireCreate,
         AcquireReplace, AcquireScan, Scan, Evict, StartCreation, NothingToEvict,
         WaitFails, Serve, Respond, Abort, Fail, TypeOK
    <3>2. ASSUME NEW q \in Requests, AcquireLease(q) \/ Claim(q)
          PROVE  q = r
      BY <3>2 DEF AcquireLease, Claim, Lease, TypeOK
    <3>3. ASSUME NEW q \in Requests, Creation(q) \/ Expire(q) \/ ServerStops(q)
          PROVE  pc' = pc
      BY <3>3 DEF Creation, StaleStopped, FactoryReturns, Unmade, FactoryFails, Register,
         CandidateStopped, Cleanup, Expire, ServerStops
    <3>4. \/ \E k \in Keys : RemoveKey(k) \/ OpenSession(k) \/ EndSessions(k)
          \/ Shutdown \/ ShutdownReturns \/ Reap \/ Terminated
          => pc' = pc
      BY DEF RemoveKey, OpenSession, EndSessions, Shutdown, ShutdownReturns, Reap,
         Terminated, vars
    <3> QED
      BY <3>1, <3>2, <3>3, <3>4 DEF Next
  <2>2. CASE AcquireLease(r)
    BY <2>2 DEF AcquireLease, Lease, EntriesOK, TypeOK
  <2>3. CASE Claim(r)
    BY <2>3, PoolAssumption DEF Claim, Interrupted, Lease, EntriesOK, RequestsOK, TypeOK
  <2> QED
    BY <2>1, <2>2, <2>3
<1> QED
  BY PoolInvariant, <1>1, PTL DEF Spec, LeasesOpenServer

\* Eviction, replacement and the reaper leave servers alone that are used, or
\* that are not idle for too long and had a session from the beginning of the
\* search to their count, or were never leased (_evict_one, _reap_idle_servers).
THEOREM OnlyUnusedAreEvicted == Spec => EvictsUnusedOnly
<1> DEFINE Unused(s) == active[s] = 0 /\ (expired[s] \/ (leased[s] /\ want[s] \in emptied))
<1> DEFINE A == \A s \in Requests : Displaced(s) => Unused(s)
<1>1. PoolInv /\ [Next]_vars => [A]_vars
  <2> SUFFICES ASSUME PoolInv, Next, NEW s \in Requests, server[s] = "open",
                      server'[s] = "closing", removes' = removes, shutdown' = shutdown
               PROVE  Unused(s)
    BY DEF Displaced
  <2> USE DEF PoolInv, serverVars
  <2>1. ASSUME NEW r \in Requests, AcquireReplace(r) PROVE Unused(s)
    BY <2>1 DEF AcquireReplace, Retire, IdleFor, TypeOK
  <2>2. ASSUME NEW r \in Requests, NEW k \in Keys, Evict(r, k) PROVE Unused(s)
    <3>1. s = servers[k] /\ k \in found
      BY <2>2 DEF Evict, Retire, TypeOK
    <3>2. want[s] = k
      BY <3>1 DEF EntriesOK, ScanOK
    <3> QED
      BY <3>1, <3>2 DEF ScanOK
  <2>3. ASSUME Reap PROVE Unused(s)
    BY <2>3 DEF Reap, Retire, IdleFor, Registered, TypeOK
  <2>4. ASSUME NEW k \in Keys, RemoveKey(k) PROVE FALSE
    BY <2>4 DEF RemoveKey, TypeOK
  <2>5. ASSUME Shutdown \/ ShutdownReturns \/ Terminated PROVE FALSE
    BY <2>5 DEF Shutdown, ShutdownReturns, Terminated, vars
  <2>6. ASSUME NEW r \in Requests,
               \/ AcquireRefused(r) \/ AcquireLease(r) \/ AcquireJoin(r) \/ AcquireScan(r)
               \/ AcquireCreate(r) \/ NothingToEvict(r) \/ Claim(r) \/ WaitFails(r)
               \/ Serve(r) \/ Respond(r) \/ Abort(r) \/ Expire(r)
               \/ \E k \in Keys : Scan(r, k) \/ OpenSession(k) \/ EndSessions(k)
        PROVE  server' = server
    BY <2>6 DEF AcquireRefused, AcquireLease, AcquireJoin, AcquireScan, AcquireCreate,
       NothingToEvict, Claim, WaitFails, Serve, Respond, Abort, Expire, OpenSession,
       EndSessions, Scan, Lease
  <2>7. ASSUME NEW t \in Requests, Creation(t) \/ ServerStops(t)
        PROVE  server'[s] # "closing"
    BY <2>7 DEF Creation, StaleStopped, FactoryReturns, Unmade, FactoryFails, Register,
       CandidateStopped, Cleanup, ServerStops, TypeOK
  <2> QED
    BY <2>1, <2>2, <2>3, <2>4, <2>5, <2>6, <2>7 DEF Next, Request, Acquire
<1> QED
  BY PoolInvariant, <1>1, PTL DEF Spec, EvictsUnusedOnly

-----------------------------------------------------------------------------
(* What shutdown() waits for.                                              *)

\* An open server is in the pool or about to be, a server that closes has
\* somebody who waits for it, and shutdown() waits for every creation task and
\* every server that no remove() waits for.
ExitOK ==
  \A s \in Requests :
    /\ server[s] = "open" => shutdown = "no" /\ (task[s] = "lock" \/ servers[want[s]] = s)
    /\ server[s] = "closing" /\ takenBy[s] # "removed" =>
         \/ task[s] \in {"stopping", "aborting"}
         \/ shutdown = "no" /\ takenBy[s] \in {"retired", "reaped"}
         \/ shutdown = "begun" /\ s \in awaited.servers
    /\ task[s] \in Running /\ shutdown # "no" => shutdown = "begun" /\ s \in awaited.tasks

\* The steps of creation tasks and servers.
LEMMA CreationExit ==
  ASSUME TypeOK, EntriesOK, TasksOK, ExitOK, NEW t \in Requests, Creation(t) \/ ServerStops(t)
  PROVE  ExitOK'
<1> USE DEF poolVars, dictVars, exitVars, requestVars, serverVars, ExitOK, Running, Move
<1>1. CASE StaleStopped(t) \/ Unmade(t) \/ FactoryFails(t) \/ Cleanup(t)
  BY <1>1 DEF StaleStopped, Unmade, FactoryFails, Cleanup, TypeOK
<1>2. CASE FactoryReturns(t)
  BY <1>2 DEF FactoryReturns, TypeOK, TasksOK
<1>3. CASE Register(t)
  <2>1. /\ task' = [task EXCEPT ![t] = "done"] /\ task[t] = "lock" /\ shutdown = "no"
        /\ servers' = [servers EXCEPT ![want[t]] = t] /\ creating[want[t]] = t
        /\ UNCHANGED <<server, shutdown, takenBy, awaited, want>>
    BY <1>3 DEF Register, TasksOK
  <2>2. want[t] \in Keys /\ servers[want[t]] = NoOne
    BY <2>1, PoolAssumption DEF TypeOK, EntriesOK
  <2> QED
    BY <2>1, <2>2, PoolAssumption DEF TypeOK
<1>4. CASE CandidateStopped(t)
  BY <1>4 DEF CandidateStopped, TypeOK
<1>5. CASE ServerStops(t)
  BY <1>5 DEF ServerStops, TypeOK, taskVars
<1> QED
  BY <1>1, <1>2, <1>3, <1>4, <1>5 DEF Creation

\* acquire() starts a creation that its entry names, and whoever takes a server
\* from the pool waits for it.
LEMMA AcquireExit ==
  ASSUME TypeOK, EntriesOK, TasksOK, RequestsOK, ScanOK, ExitOK, NEW r \in Requests,
         AcquireCreate(r) \/ AcquireReplace(r) \/ \E k \in Keys : Evict(r, k)
  PROVE  ExitOK'
<1> USE DEF poolVars, dictVars, exitVars, requestVars, serverVars, ExitOK
<1>0. task[r] = "unused" /\ server[r] = "none" /\ want[r] \in Keys /\ shutdown = "no"
  BY PoolAssumption
  DEF AcquireCreate, AcquireReplace, Evict, RequestsOK, TasksOK, TypeOK, ScanOK
<1>1. CASE AcquireCreate(r)
  BY <1>0, <1>1 DEF AcquireCreate, StartCreation, TypeOK
<1>2. ASSUME NEW k \in Keys, NEW x \in Requests \cup {NoOne}, servers[k] # NoOne,
             servers' = [servers EXCEPT ![k] = NoOne], Retire({servers[k]}, "retired"),
             StartCreation(r, x)
      PROVE  ExitOK'
  <2>1. want' = want /\ UNCHANGED <<shutdown, awaited>>
    BY <1>2 DEF StartCreation, Retire
  <2>2. /\ \A s \in Requests \ {r} : task'[s] = task[s]
        /\ task'[r] \in {"factory", "stale"}
    BY <1>2 DEF StartCreation, TypeOK
  <2>3. /\ \A s \in Requests \ {servers[k]} : server'[s] = server[s] /\ takenBy'[s] = takenBy[s]
        /\ servers[k] \in Requests => server'[servers[k]] = "closing" /\ takenBy'[servers[k]] = "retired"
    BY <1>2 DEF Retire
  <2>4. \A s \in Requests \ {servers[k]} : servers[want[s]] = s => servers'[want[s]] = s
    BY <1>2 DEF TypeOK
  <2>5. servers[k] \in Requests /\ server[servers[k]] = "open"
    BY <1>2 DEF TypeOK, EntriesOK
  <2> QED
    BY <1>0, <2>1, <2>2, <2>3, <2>4, <2>5
<1>3. CASE AcquireReplace(r)
  BY <1>0, <1>2, <1>3 DEF AcquireReplace, TypeOK
<1>4. ASSUME NEW k \in Keys, Evict(r, k) PROVE ExitOK'
  BY <1>2, <1>4 DEF Evict, ScanOK
<1> QED
  BY <1>1, <1>3, <1>4

\* What remove(), shutdown() and the reaper take from the pool is waited for.
LEMMA TakeDownExit ==
  ASSUME TypeOK, EntriesOK, TasksOK, ExitOK,
         (\E k \in Keys : RemoveKey(k)) \/ Shutdown \/ ShutdownReturns \/ Reap
  PROVE  ExitOK'
<1> USE DEF dictVars, exitVars, requestVars, serverVars, taskVars, ExitOK
<1>1. ASSUME NEW k \in Keys, RemoveKey(k) PROVE ExitOK'
  <2>1. /\ want' = want /\ UNCHANGED <<shutdown, awaited>>
        /\ servers' = [servers EXCEPT ![k] = NoOne]
        /\ takenBy' = [s \in Requests |-> IF s = servers[k] THEN "removed" ELSE takenBy[s]]
        /\ CancelTasks({creating[k]}, {servers[k]})
    BY <1>1 DEF RemoveKey
  <2>2. ASSUME NEW s \in Requests
        PROVE  /\ task'[s] = (IF s = creating[k] THEN Cancelled(task[s]) ELSE task[s])
               /\ server'[s] = (IF server[s] = "open"
                                   /\ (s = servers[k] \/ (s = creating[k] /\ task[s] = "lock"))
                                THEN "closing" ELSE server[s])
               /\ takenBy'[s] = (IF s = servers[k] THEN "removed" ELSE takenBy[s])
               /\ s # servers[k] /\ servers[want[s]] = s => servers'[want[s]] = s
    BY <2>1 DEF CancelTasks, TypeOK
  <2>3. \A s \in Requests : s = servers[k] => s # creating[k] /\ task[s] = "done"
    BY PoolAssumption DEF EntriesOK
  <2>4. \A s \in Requests : s = creating[k] => shutdown = "no"
    BY PoolAssumption DEF EntriesOK
  <2> QED
    BY <2>1, <2>2, <2>3, <2>4 DEF Cancelled, Running
<1>2. CASE Shutdown
  <2>1. /\ shutdown = "no" /\ shutdown' = "begun" /\ takenBy' = takenBy
        /\ awaited' = TasksToAwait /\ CancelTasks(Entries(creating), Entries(servers))
    BY <1>2 DEF Shutdown
  <2>2. /\ awaited'.tasks = Entries(creating) /\ Entries(servers) \subseteq awaited'.servers
        /\ \A s \in Requests : takenBy[s] \in {"retired", "reaped"} => s \in awaited'.servers
    BY <2>1 DEF TasksToAwait
  <2>3. \A s \in Requests : task[s] \in Running => s \in Entries(creating)
    BY <2>1, PoolAssumption DEF TasksOK, Entries, TypeOK
  <2>4. \A s \in Requests : server[s] = "open" => s \in Entries(servers) \/ task[s] = "lock"
    BY PoolAssumption DEF Entries, TypeOK
  <2>5. ASSUME NEW s \in Requests
        PROVE  /\ task'[s] = (IF s \in Entries(creating) THEN Cancelled(task[s]) ELSE task[s])
               /\ server'[s] = IF server[s] = "open" THEN "closing" ELSE server[s]
    BY <2>1, <2>3, <2>4 DEF CancelTasks, Running
  <2>6. \A s \in Requests : task'[s] \in Running => task[s] \in Running
    BY <2>5 DEF Cancelled, Running, TypeOK
  <2>7. \A s \in Requests : task[s] \in {"lock", "stopping", "aborting"} =>
           task'[s] \in {"stopping", "aborting"}
    BY <2>3, <2>5 DEF Cancelled, Running
  <2> QED
    BY <2>1, <2>2, <2>3, <2>4, <2>5, <2>6, <2>7
<1>3. CASE ShutdownReturns
  BY <1>3 DEF ShutdownReturns, Running
<1>4. CASE Reap
  <2>1. PICK E \in SUBSET Registered :
          /\ servers' = [k \in Keys |-> IF k \in E THEN NoOne ELSE servers[k]]
          /\ Retire({servers[k] : k \in E}, "reaped")
    BY <1>4 DEF Reap
  <2>2. UNCHANGED <<task, want>> /\ UNCHANGED <<shutdown, awaited>> /\ shutdown = "no"
    BY <1>4, <2>1 DEF Reap, Retire
  <2>3. ASSUME NEW s \in Requests
        PROVE  \/ server'[s] = "closing" /\ takenBy'[s] = "reaped"
               \/ /\ server'[s] = server[s] /\ takenBy'[s] = takenBy[s]
                  /\ servers[want[s]] = s => servers'[want[s]] = s
    BY <2>1 DEF Retire, TypeOK
  <2> QED
    BY <2>2, <2>3
<1> QED
  BY <1>1, <1>2, <1>3, <1>4

\* Once shutdown() has returned, no creation runs and the only servers that
\* have not stopped are those a remove() waits for (_finish_shutdown waits for
\* the tasks, the retired servers and those the reaper stops).
THEOREM ShutdownLeavesNothing == Spec => []ShutdownIsComplete
<1>1. Init => ExitOK
  BY PoolAssumption DEF Init, ExitOK, Running
<1>2. PoolInv /\ ExitOK /\ [Next]_vars => ExitOK'
  <2> SUFFICES ASSUME PoolInv, ExitOK, [Next]_vars PROVE ExitOK'
    OBVIOUS
  <2> USE DEF PoolInv
  <2>1. ASSUME UNCHANGED <<dictVars, taskVars, shutdown, server, want, takenBy, awaited>>
        PROVE  ExitOK'
    BY <2>1 DEF ExitOK, dictVars, taskVars
  <2>2. ASSUME NEW r \in Requests, Quiet(r) PROVE ExitOK'
    <3>1. UNCHANGED <<takenBy, awaited>>
      BY <2>2 DEF Quiet, AcquireRefused, AcquireLease, AcquireJoin, AcquireScan, Scan,
         NothingToEvict, Claim, WaitFails, Serve, Respond, Abort, Expire, poolVars, exitVars
    <3> QED
      BY <2>1, <2>2, <3>1, QuietStep
  <2>4. ASSUME NEW k \in Keys, Sessions(k) PROVE ExitOK'
    BY <2>1, <2>4, SessionStep DEF poolVars, exitVars, taskVars, requestVars
  <2>3. Terminated \/ UNCHANGED vars => ExitOK'
    BY <2>1 DEF Terminated, vars, poolVars, exitVars, dictVars, taskVars, serverVars, requestVars
  <2> QED
    BY <2>2, <2>3, <2>4, CreationExit, AcquireExit, TakeDownExit
    DEF Next, Request, Acquire, Quiet, Sessions
<1>3. ExitOK /\ TypeOK => ShutdownIsComplete
  BY DEF ExitOK, ShutdownIsComplete, TypeOK, Running
<1> QED
  BY PoolInvariant, TypeCorrect, <1>1, <1>2, <1>3, PTL DEF Spec
=============================================================================
