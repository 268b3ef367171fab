------------------------------ MODULE MCServices ------------------------------
(***************************************************************************)
(* The parts of the server that hold something for others and must let it  *)
(* go, for TLC: code mode, the sessions and the calls of an MCP client,    *)
(* the authorization of requests, and the streams of the in-process        *)
(* broker.  They have nothing in common, so a behavior is one of a single  *)
(* part, chosen at the beginning; the variables of the others keep their   *)
(* initial values.                                                         *)
(***************************************************************************)
EXTENDS Naturals, Sequences, FiniteSets

CONSTANT Parts

VARIABLES
  part,
  tool, verdict, callback, invocation, active, tickets, cancels, open, up, down,
  handler, sessions, worker, calls,
  session, registry, fresh, creator, used, record, mailbox, call, activeCalls, pending,
  taken, accepted, delivered, credentials, ticks,
  request, lock, waiters, grants, channel, exists, redirected, sending, expired, tokens,
  streams, lists, counter, reader, received

Executions == {"e1", "e2"}
Code == INSTANCE CodeMode WITH
  MaxActive <- 2, MaxConcurrentSessions <- 1, MaxNested <- 1, MaxCalls <- 2, MaxCancels <- 1

Calls == {"c1", "c2"}
Sessions == INSTANCE MCPSessions WITH
  Sids <- {"s1", "s2"}, Sid <- "s1", Creators <- {"i1", "i2"}, NoCall <- "none",
  MaxSessions <- 1, MaxActiveCalls <- 2, MaxTicks <- 2

\* Two requests of one question to one server.
Requests == {"r1", "r2"}
Auth == INSTANCE OAuth WITH
  SingleFlightKey <- [r \in Requests |-> "q1"], Broker <- "local",
  MaxGrants <- 2, MaxCallbacks <- 2, NoRequest <- "none"

\* Two subscribers of one topic, and a cache that keeps one stream of two.
Streams == INSTANCE LocalStreams WITH
  Topics <- {"a", "b"}, Topic <- [s \in {"s1", "s2"} |-> "a"],
  MaxStreams <- 1, MaxMessages <- 3, MaxSubscribes <- 3

codeVars == <<tool, verdict, callback, invocation, active, tickets, cancels, open, up, down, handler, sessions,
              worker, calls>>
sessionsVars == <<session, registry, fresh, creator, used, record, mailbox, call, activeCalls, pending,
                  taken, accepted, delivered, credentials, ticks>>
authVars == <<request, lock, waiters, grants, channel, exists, redirected, sending, expired, tokens>>
streamsVars == <<streams, lists, counter, reader, received>>
vars == <<part, codeVars, sessionsVars, authVars, streamsVars>>

Init == part \in Parts /\ Code!CodeInit /\ Sessions!SessionsInit /\ Auth!OAuthInit /\ Streams!LocalStreamsInit

InCode == part \in {"code", "script"}
\* Two executions that make a call each, or one that makes two.
CodeNext ==
  /\ Code!CodeNext
  /\ \/ part = "code" /\ \A e \in Executions : calls'[e] <= 1
     \/ part = "script" /\ tool'["e2"] = "idle"
  /\ UNCHANGED <<part, sessionsVars, authVars, streamsVars>>
\* Two sessions and a call of one of them, or one session and two calls of one
\* request id that ask nothing of the client.
SessionsNext ==
  /\ Sessions!SessionsNext
  /\ \/ part = "sessions" /\ call'["c2"] = "idle"
     \/ part = "same id" /\ session'["s2"] = "none" /\ creator'["i2"].at = "idle"
        /\ \A c \in Calls : mailbox'[c] = "none" /\ credentials'[c] # "stored"
  /\ UNCHANGED <<part, codeVars, authVars, streamsVars>>
AuthNext == part = "oauth" /\ Auth!OAuthNext /\ UNCHANGED <<part, codeVars, sessionsVars, streamsVars>>
StreamsNext == part = "streams" /\ Streams!LocalStreamsNext /\ UNCHANGED <<part, codeVars, sessionsVars, authVars>>

Next == CodeNext \/ SessionsNext \/ AuthNext \/ StreamsNext

Spec == Init /\ [][Next]_vars

InSessions == part \in {"sessions", "same id"}

\* The fairness of each part, as its module states it.
Fairness ==
  /\ \A e \in Executions :
       WF_codeVars(InCode /\ Code!RunnerStep(e)) /\ WF_codeVars(InCode /\ Code!ServerStep(e))
  /\ \A c \in Calls :
       WF_sessionsVars(InSessions /\ Sessions!HandlerStep(c)) /\ WF_sessionsVars(InSessions /\ Sessions!Poll(c))
  /\ \A r \in Requests : WF_authVars(part = "oauth" /\ Auth!RequestStep(r))

FairSpec == Spec /\ Fairness

-----------------------------------------------------------------------------
\* The state of every part keeps its types.
TypesOK ==
  /\ InCode => Code!CodeModeTypeOK
  /\ InSessions => Sessions!SessionsTypeOK
  /\ part = "oauth" => Auth!OAuthTypeOK

\* Places, tickets and slots are each taken once and given back once, and a
\* call returns a value only for one accepted output of a script that has ended
\* (harness_sdk/tools/codemode.py, codemode/sandbox.py).
CodeModeGivesBack == InCode => Code!PlacesHeld /\ Code!SlotsHeld /\ Code!ResultIsOneOutput

\* A server has no more sessions than it may, and gets the one reply that was
\* taken for its request, beside which the client was told of no other that it
\* is accepted until the mailbox has gone (api/mcp_sessions.py,
\* api/mcp_transport.py).
SessionsAreKept == InSessions => Sessions!SessionsBounded /\ Sessions!ReplyIsTheTaken

\* The record of a call goes with its own clean-up or with time, never with the
\* clean-up of another call of the same request id (mcp_sessions.finish).
RecordIsOwn == Sessions!RecordIsOwn

\* One authorization at a time is pending for a question and a server, and a
\* request is given the callback of its own grant, whatever comes late or twice
\* (agents/mcp http.py, api/v1/oauth.py); a subscriber is given the messages of
\* its stream in order and once, and skips none that is still there
\* (broker/local.py).
MessagesReachTheirOwn ==
  /\ part = "oauth" => Auth!OneAuthorizationPending /\ Auth!CallbackReachesItsGrant
  /\ part = "streams" => Streams!ReadInOrder

\* Whoever waits for one of these parts is let go in the end: runs whose client
\* has gone, cancelled calls, and requests that wait for another's authorization.
EveryWaitEnds == Code!RunsEnd /\ Sessions!CancelledCallEnds /\ Auth!RequestsEnd
================================================================================
