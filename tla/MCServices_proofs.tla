-------------------------- MODULE MCServices_proofs --------------------------
(***************************************************************************)
(* The parts that MCServices checks on small instances are instances of    *)
(* the components that Services_proofs proves about for every value of     *)
(* their constants, and the others leave their variables alone.  So the    *)
(* theorems hold of MCServices too, whatever parts it is given.            *)
(***************************************************************************)
EXTENDS MCServices, FiniteSetTheorems, TLAPS

Proved == INSTANCE Services_proofs WITH
  MaxActive <- 2, MaxConcurrentSessions <- 1, MaxNested <- 1, MaxCalls <- 2, MaxCancels <- 1,
  Sids <- {"s1", "s2"}, Sid <- "s1", Creators <- {"i1", "i2"}, NoCall <- "none",
  MaxSessions <- 1, MaxActiveCalls <- 2, MaxTicks <- 2,
  SingleFlightKey <- [r \in Requests |-> "q1"], Broker <- "local",
  MaxGrants <- 2, MaxCallbacks <- 2, NoRequest <- "none",
  Topics <- {"a", "b"}, Topic <- [s \in {"s1", "s2"} |-> "a"],
  MaxStreams <- 1, MaxMessages <- 3, MaxSubscribes <- 3

-----------------------------------------------------------------------------
(* Each part behaves as the component does.                                *)

\* A step of code mode is the same step of the component that is proved about.
LEMMA CodeSteps == Code!CodeNext => Proved!CodeNext
BY ZenonT(60) DEF
       Code!toolVars, Code!wireVars, Code!serverVars, Code!Kinds, Code!PlaceFree, Code!Live, Code!Alive,
       Code!To, Code!Acquire, Code!AcquireRemoteSession, Code!Connect, Code!ReadMessage, Code!Record,
       Code!Dispatch, Code!CallbackEnds, Code!CallbackInterrupted, Code!CancelTool, Code!AwaitCancelled,
       Code!CallbackCancelled, Code!Close, Code!Settle, Code!Handle, Code!Reply, Code!Handshakes,
       Code!Accept, Code!Handshake, Code!Admit, Code!WorkerCalls, Code!ScheduleCallback, Code!ReadResponse,
       Code!WorkerFinishes, Code!Fail, Code!StopSession, Code!RunnerStep, Code!ServerStep, Code!CodeNext,
       Proved!toolVars, Proved!wireVars, Proved!serverVars, Proved!Kinds,
       Proved!PlaceFree, Proved!Live, Proved!Alive, Proved!To, Proved!Acquire,
       Proved!AcquireRemoteSession, Proved!Connect, Proved!ReadMessage, Proved!Record,
       Proved!Dispatch, Proved!CallbackEnds, Proved!CallbackInterrupted, Proved!CancelTool,
       Proved!AwaitCancelled, Proved!CallbackCancelled, Proved!Close, Proved!Settle,
       Proved!Handle, Proved!Reply, Proved!Handshakes, Proved!Accept, Proved!Handshake,
       Proved!Admit, Proved!WorkerCalls, Proved!ScheduleCallback, Proved!ReadResponse,
       Proved!WorkerFinishes, Proved!Fail, Proved!StopSession, Proved!RunnerStep,
       Proved!ServerStep, Proved!CodeNext,
       Code!Cardinality, Proved!Cardinality

\* A step of the MCP sessions is the same step of the component.
LEMMA SessionsSteps == Sessions!SessionsNext => Proved!SessionsNext
BY ZenonT(60) DEF
       Sessions!sessionVars, Sessions!callVars, Sessions!Bodies, Sessions!NoRecord, Sessions!LiveSession,
       Sessions!Expired, Sessions!Tick, Sessions!Get, Sessions!CreateRead, Sessions!CreateExec,
       Sessions!SessionCount, Sessions!Ready, Sessions!Delete, Sessions!Moves, Sessions!Control,
       Sessions!Start, Sessions!Polled, Sessions!Cancelled, Sessions!Renew, Sessions!Acquired,
       Sessions!ToolMessage, Sessions!Poll, Sessions!Acknowledge, Sessions!Stop, Sessions!Finish,
       Sessions!ReleaseCall, Sessions!CancelRequest, Sessions!Asked, Sessions!Told, Sessions!ClientReply, Sessions!HandlerStep, Sessions!SessionsNext,
       Proved!sessionVars, Proved!callVars, Proved!Bodies, Proved!NoRecord,
       Proved!LiveSession, Proved!Expired, Proved!Tick, Proved!Get,
       Proved!CreateRead, Proved!CreateExec, Proved!SessionCount,
       Proved!Ready, Proved!Delete, Proved!Moves, Proved!Control,
       Proved!Start, Proved!Polled, Proved!Cancelled, Proved!Renew,
       Proved!Acquired, Proved!ToolMessage, Proved!Poll,
       Proved!Acknowledge, Proved!Stop, Proved!Finish, Proved!ReleaseCall,
       Proved!CancelRequest, Proved!Asked, Proved!Told, Proved!ClientReply, Proved!HandlerStep, Proved!SessionsNext,
       Sessions!Cardinality, Proved!Cardinality

\* A step of the authorization of requests is the same step of the component.
LEMMA AuthSteps == Auth!OAuthNext => Proved!OAuthNext
BY ZenonT(60) DEF
       Auth!Grants, Auth!Made, Auth!Ended, Auth!flowVars, Auth!brokerVars, Auth!userVars, Auth!Goto,
       Auth!Key, Auth!Release, Auth!AsyncAuthFlow, Auth!GetTokens, Auth!Respond,
       Auth!PerformAuthorizationCodeGrant, Auth!Subject, Auth!HandleCallback, Auth!Deleted,
       Auth!ReceiveReply, Auth!Refused, Auth!ReceiveTimesOut, Auth!ExchangeToken, Auth!SetTokens,
       Auth!Cancel, Auth!MCPOAuthCallback, Auth!StateExpires, Auth!RequestStep, Auth!OAuthNext,
       Proved!Grants, Proved!Made, Proved!Ended, Proved!flowVars,
       Proved!brokerVars, Proved!userVars, Proved!Goto, Proved!Key,
       Proved!Release, Proved!AsyncAuthFlow, Proved!GetTokens, Proved!Respond,
       Proved!PerformAuthorizationCodeGrant, Proved!Subject, Proved!HandleCallback,
       Proved!Deleted, Proved!ReceiveReply, Proved!Refused, Proved!ReceiveTimesOut,
       Proved!ExchangeToken, Proved!SetTokens, Proved!Cancel,
       Proved!MCPOAuthCallback, Proved!StateExpires, Proved!RequestStep,
       Proved!OAuthNext,
       Auth!RemoveAt, Proved!RemoveAt

\* A step of the streams of the broker is the same step of the component.
LEMMA StreamsSteps == Streams!LocalStreamsNext => Proved!LocalStreamsNext
BY ZenonT(60) DEF
       Streams!Subscribers, Streams!Cached, Streams!ListOf, Streams!Use, Streams!Publish, Streams!Position,
       Streams!Subscribe, Streams!Read, Streams!TimeOut, Streams!LocalStreamsNext,
       Proved!Subscribers, Proved!Cached, Proved!ListOf, Proved!Use,
       Proved!Publish, Proved!Position, Proved!Subscribe, Proved!Read,
       Proved!TimeOut, Proved!LocalStreamsNext,
       Streams!ToSet, Proved!ToSet, Streams!RemoveAt, Proved!RemoveAt,
       Streams!Last, Proved!Last

\* Whatever part is run, code mode behaves as its component.
LEMMA CodeBehaves == Spec => Proved!CodeSpec
<1>1. Init => Proved!CodeInit
  BY DEF Init, Code!CodeInit, Proved!CodeInit
<1>2. [Next]_vars => [Proved!CodeNext]_(Proved!codeVars)
  <2> SUFFICES ASSUME [Next]_vars
               PROVE  Proved!CodeNext \/ UNCHANGED Proved!codeVars
    OBVIOUS
  <2>1. CASE CodeNext
    BY <2>1, CodeSteps DEF CodeNext
  <2>2. CASE SessionsNext \/ AuthNext \/ StreamsNext \/ UNCHANGED vars
    BY <2>2 DEF SessionsNext, AuthNext, StreamsNext, vars, codeVars, Proved!codeVars, Proved!toolVars,
                Proved!wireVars, Proved!serverVars
  <2> QED
    BY <2>1, <2>2 DEF Next
<1> QED
  BY <1>1, <1>2, PTL DEF Spec, Proved!CodeSpec

\* Whatever part is run, the MCP sessions behave as their component.
LEMMA SessionsBehave == Spec => Proved!SessionsSpec
<1>1. Init => Proved!SessionsInit
  BY DEF Init, Sessions!SessionsInit, Proved!SessionsInit, Sessions!NoRecord, Proved!NoRecord
<1>2. [Next]_vars => [Proved!SessionsNext]_(Proved!transportVars)
  <2> SUFFICES ASSUME [Next]_vars
               PROVE  Proved!SessionsNext \/ UNCHANGED Proved!transportVars
    OBVIOUS
  <2>1. CASE SessionsNext
    BY <2>1, SessionsSteps DEF SessionsNext
  <2>2. CASE CodeNext \/ AuthNext \/ StreamsNext \/ UNCHANGED vars
    BY <2>2 DEF CodeNext, AuthNext, StreamsNext, vars, sessionsVars, Proved!transportVars,
                Proved!sessionVars, Proved!callVars
  <2> QED
    BY <2>1, <2>2 DEF Next
<1> QED
  BY <1>1, <1>2, PTL DEF Spec, Proved!SessionsSpec

\* Whatever part is run, the requests of OAuth behave as their component.
LEMMA AuthBehaves == Spec => Proved!OAuthSpec
<1>1. Init => Proved!OAuthInit
  BY DEF Init, Auth!OAuthInit, Proved!OAuthInit, Auth!Keys, Proved!Keys, Auth!Grants,
         Proved!Grants
<1>2. [Next]_vars => [Proved!OAuthNext]_(Proved!oauthVars)
  <2> SUFFICES ASSUME [Next]_vars
               PROVE  Proved!OAuthNext \/ UNCHANGED Proved!oauthVars
    OBVIOUS
  <2>1. CASE AuthNext
    BY <2>1, AuthSteps DEF AuthNext
  <2>2. CASE CodeNext \/ SessionsNext \/ StreamsNext \/ UNCHANGED vars
    BY <2>2 DEF CodeNext, SessionsNext, StreamsNext, vars, authVars, Proved!oauthVars
  <2> QED
    BY <2>1, <2>2 DEF Next
<1> QED
  BY <1>1, <1>2, PTL DEF Spec, Proved!OAuthSpec

\* Whatever part is run, the streams of the broker behave as their component.
LEMMA StreamsBehave == Spec => Proved!LocalStreamsSpec
<1>1. Init => Proved!LocalStreamsInit
  BY DEF Init, Streams!LocalStreamsInit, Proved!LocalStreamsInit, Streams!Subscribers, Proved!Subscribers
<1>2. [Next]_vars => [Proved!LocalStreamsNext]_(Proved!localStreamsVars)
  <2> SUFFICES ASSUME [Next]_vars
               PROVE  Proved!LocalStreamsNext \/ UNCHANGED Proved!localStreamsVars
    OBVIOUS
  <2>1. CASE StreamsNext
    BY <2>1, StreamsSteps DEF StreamsNext
  <2>2. CASE CodeNext \/ SessionsNext \/ AuthNext \/ UNCHANGED vars
    BY <2>2 DEF CodeNext, SessionsNext, AuthNext, vars, streamsVars, Proved!localStreamsVars
  <2> QED
    BY <2>1, <2>2 DEF Next
<1> QED
  BY <1>1, <1>2, PTL DEF Spec, Proved!LocalStreamsSpec

\* The constants of the instances are within the bounds of the proofs.
LEMMA InstancesInBounds ==
  Proved!CodeBounds /\ Proved!SessionsBounds /\ Proved!AuthBounds /\ Proved!StreamsBounds
<1>1. Proved!CodeBounds
  <2>1. IsFiniteSet(({} \cup {"e1"}) \cup {"e2"}) /\ {"e1", "e2"} = ({} \cup {"e1"}) \cup {"e2"}
    BY FS_EmptySet, FS_AddElement
  <2> QED
    BY <2>1 DEF Proved!CodeBounds, Proved!IsFiniteSet, IsFiniteSet, Executions
<1>2. Proved!SessionsBounds
  <2>1. IsFiniteSet(({} \cup {"s1"}) \cup {"s2"}) /\ {"s1", "s2"} = ({} \cup {"s1"}) \cup {"s2"}
    BY FS_EmptySet, FS_AddElement
  <2> QED
    BY <2>1 DEF Proved!SessionsBounds, Proved!IsFiniteSet, IsFiniteSet, Calls
<1>3. Proved!AuthBounds /\ Proved!StreamsBounds
  BY DEF Proved!AuthBounds, Proved!StreamsBounds, Proved!Subscribers, Requests
<1> QED
  BY <1>1, <1>2, <1>3

-----------------------------------------------------------------------------
(* The theorems.                                                           *)

\* The state of every part keeps its types, whatever parts are run.
THEOREM AllTypes == Spec => []TypesOK
<1>1. /\ Proved!CodeModeTypeOK => Code!CodeModeTypeOK
      /\ Proved!SessionsTypeOK => Sessions!SessionsTypeOK
      /\ Proved!OAuthTypeOK => Auth!OAuthTypeOK
  <2>1. Proved!CodeModeTypeOK => Code!CodeModeTypeOK
    BY Zenon DEF Code!CodeModeTypeOK, Proved!CodeModeTypeOK, Code!Kinds, Proved!Kinds
  <2>2. Proved!SessionsTypeOK => Sessions!SessionsTypeOK
    BY Zenon DEF
              Sessions!Bodies, Sessions!CallRecord, Sessions!RedisKeys, Sessions!CallStates, Sessions!SessionsTypeOK,
              Proved!Bodies, Proved!CallRecord, Proved!RedisKeys, Proved!CallStates,
              Proved!SessionsTypeOK
  <2>3. Proved!OAuthTypeOK => Auth!OAuthTypeOK
    BY Zenon DEF
              Auth!Keys, Auth!Grants, Auth!Payloads, Auth!Steps, Auth!OAuthTypeOK,
              Proved!Keys, Proved!Grants, Proved!Payloads, Proved!Steps,
              Proved!OAuthTypeOK
  <2> QED
    BY <2>1, <2>2, <2>3
<1>2. Spec => [](Proved!CodeModeTypeOK /\ Proved!SessionsTypeOK /\ Proved!OAuthTypeOK)
  BY CodeBehaves, SessionsBehave, AuthBehaves, InstancesInBounds, Proved!CodeModeTypes,
     Proved!SessionsTypes, Proved!AuthorizationTypes, PTL
<1>3. Proved!CodeModeTypeOK /\ Proved!SessionsTypeOK /\ Proved!OAuthTypeOK => TypesOK
  BY <1>1 DEF TypesOK
<1> QED
  BY <1>2, <1>3, PTL

\* Places, tickets and slots come back, and a value is returned only for one
\* accepted output (harness_sdk/tools/codemode.py, codemode/sandbox.py).
THEOREM CodeModeKeepsCount == Spec => []CodeModeGivesBack
<1>1. /\ Proved!PlacesHeld => Code!PlacesHeld
      /\ Proved!SlotsHeld => Code!SlotsHeld
      /\ Proved!ResultIsOneOutput => Code!ResultIsOneOutput
  BY Zenon DEF
       Code!Live, Code!Admitted, Code!HasTicket, Code!Alive, Code!PlacesHeld, Code!SlotsHeld,
       Code!ResultIsOneOutput,
       Proved!Live, Proved!Admitted, Proved!HasTicket, Proved!Alive, Proved!PlacesHeld,
       Proved!SlotsHeld, Proved!ResultIsOneOutput,
       Code!Cardinality, Proved!Cardinality
<1>2. Spec => [](Proved!PlacesHeld /\ Proved!SlotsHeld /\ Proved!ResultIsOneOutput)
  BY CodeBehaves, InstancesInBounds, Proved!PlacesComeBack, Proved!SlotsComeBack,
     Proved!ResultIsEarned, PTL
<1>3. Proved!PlacesHeld /\ Proved!SlotsHeld /\ Proved!ResultIsOneOutput => CodeModeGivesBack
  BY <1>1 DEF CodeModeGivesBack
<1> QED
  BY <1>2, <1>3, PTL

\* A server has no more sessions than it may, and what is delivered is the one
\* reply that was taken, beside which no other was told accepted until the
\* mailbox has gone (api/mcp_sessions.py, api/mcp_transport.py).
THEOREM SessionsKept == Spec => []SessionsAreKept
<1>1. /\ Proved!SessionsBounded => Sessions!SessionsBounded
      /\ Proved!ReplyIsTheTaken => Sessions!ReplyIsTheTaken
  BY Zenon DEF
       Sessions!LiveSession, Sessions!Bodies, Sessions!SessionsBounded, Sessions!ReplyIsTheTaken,
       Proved!LiveSession, Proved!Bodies, Proved!SessionsBounded, Proved!ReplyIsTheTaken,
       Sessions!Cardinality, Proved!Cardinality
<1>2. Spec => [](Proved!SessionsBounded /\ Proved!ReplyIsTheTaken)
  BY SessionsBehave, InstancesInBounds, Proved!NeverTooManySessions,
     Proved!TakenReplyIsDelivered, PTL
<1>3. Proved!SessionsBounded /\ Proved!ReplyIsTheTaken => SessionsAreKept
  BY <1>1 DEF SessionsAreKept
<1> QED
  BY <1>2, <1>3, PTL

\* No call's record goes with the clean-up of another (mcp_sessions.finish).
THEOREM RecordKept == Spec => RecordIsOwn
<1>1. Spec => Proved!RecordIsOwn
  BY SessionsBehave, InstancesInBounds, Proved!OwnRecord, PTL
<1>2. Proved!RecordIsOwn => Sessions!RecordIsOwn
  BY PTL DEF Sessions!RecordIsOwn, Proved!RecordIsOwn, Sessions!transportVars, Proved!transportVars,
     Sessions!sessionVars, Proved!sessionVars, Sessions!callVars, Proved!callVars
<1> QED
  BY <1>1, <1>2, PTL DEF RecordIsOwn

\* One authorization at a time is pending, callbacks reach their grants, and
\* subscribers get their messages in order (agents/mcp http.py, broker/local.py).
THEOREM MessagesReach == Spec => []MessagesReachTheirOwn
<1>1. /\ Proved!OneAuthorizationPending => Auth!OneAuthorizationPending
      /\ Proved!CallbackReachesItsGrant => Auth!CallbackReachesItsGrant
      /\ Proved!ReadInOrder => Streams!ReadInOrder
  <2>1. /\ Proved!OneAuthorizationPending => Auth!OneAuthorizationPending
        /\ Proved!CallbackReachesItsGrant => Auth!CallbackReachesItsGrant
    BY Zenon DEF
              Auth!Key, Auth!Authorizing, Auth!OneAuthorizationPending, Auth!CallbackReachesItsGrant,
              Proved!Key, Proved!Authorizing, Proved!OneAuthorizationPending,
              Proved!CallbackReachesItsGrant
  <2>2. Proved!ReadInOrder => Streams!ReadInOrder
    BY Zenon DEF
              Streams!Subscribers, Streams!Cached, Streams!ReadInOrder,
              Proved!Subscribers, Proved!Cached, Proved!ReadInOrder,
              Streams!ToSet, Proved!ToSet, Streams!Last, Proved!Last
  <2> QED
    BY <2>1, <2>2
<1>2. Spec => [](Proved!OneAuthorizationPending /\ Proved!CallbackReachesItsGrant
                   /\ Proved!ReadInOrder)
  BY AuthBehaves, StreamsBehave, InstancesInBounds, Proved!OneAtATime, Proved!OwnCallback,
     Proved!InOrder, PTL
<1>3. Proved!OneAuthorizationPending /\ Proved!CallbackReachesItsGrant
        /\ Proved!ReadInOrder => MessagesReachTheirOwn
  BY <1>1 DEF MessagesReachTheirOwn
<1> QED
  BY <1>2, <1>3, PTL
=============================================================================
