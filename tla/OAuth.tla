--------------------------------- MODULE OAuth ---------------------------------
(***************************************************************************)
(* The authorization of an MCP server's requests.  A request that is       *)
(* refused starts a grant: the user is sent a URL, authorizes at the       *)
(* provider, whose redirect comes back to another endpoint, perhaps in     *)
(* another process; that one sends the code, as a reply of the broker, to  *)
(* the request that waits for it.                                          *)
(***************************************************************************)
EXTENDS Naturals, Sequences, SequencesExt, FiniteSets

CONSTANTS
  Requests,
  SingleFlightKey, \* of each request: its session, question and server
  Broker,          \* "local" or "redis"
  MaxGrants,       \* bound
  MaxCallbacks,    \* bound: redirects of one grant, the browser's reloads included
  NoRequest

VARIABLES
  request,     \* where each is, its grant, and whose callback it was given
  lock,        \* _MCP_OAUTH_SINGLE_FLIGHT_LOCKS: holder
  waiters,     \* and those who wait for it, in order
  grants,      \* the requests that have made a grant, in order
  channel,     \* of each grant, the replies to it
  exists,      \* grants whose channel the broker has
  redirected,  \* handlers of the redirects, by grant: how many have been called
  sending,     \* and are blocked in send_reply, were answered, were refused
  expired,     \* grants whose state is older than _MCP_OAUTH_STATE_TTL
  tokens       \* keys whose token the client has

oauthVars == <<request, lock, waiters, grants, channel, exists, redirected, sending, expired, tokens>>

Keys == {SingleFlightKey[r] : r \in Requests}
Grants == 1..MaxGrants
Made == 1..Len(grants)
Payloads == [of : Grants, kind : {"code", "error"}]
Steps == {"idle", "waiting", "tokens", "sent", "redirect", "listening", "refused", "exchange", "set_tokens", "done", "failed"}
Ended == {"done", "failed"}

OAuthTypeOK ==
  /\ \A r \in Requests : request[r].pc \in Steps /\ request[r].grant \in 0..MaxGrants /\ request[r].given \in 0..MaxGrants
  /\ \A k \in Keys : lock[k] \in Requests \cup {NoRequest} /\ tokens \subseteq Keys
  /\ \A g \in Grants : \A i \in 1..Len(channel[g]) : channel[g][i] \in Payloads
  /\ exists \cup expired \subseteq Grants

OAuthInit ==
  /\ request = [r \in Requests |-> [pc |-> "idle", grant |-> 0, given |-> 0, token |-> FALSE, cancelled |-> FALSE]]
  /\ lock = [k \in Keys |-> NoRequest] /\ waiters = [k \in Keys |-> <<>>] /\ grants = <<>>
  /\ channel = [g \in Grants |-> <<>>] /\ exists = {} /\ redirected = [g \in Grants |-> 0]
  /\ sending = {} /\ expired = {} /\ tokens = {}

flowVars == <<lock, waiters>>
brokerVars == <<channel, exists>>
userVars == <<redirected, sending, expired>>

Goto(r, pc) == request' = [request EXCEPT ![r].pc = pc]
Key(r) == SingleFlightKey[r]
\* The flow is left, well or not, and with it the lock.
Release(r) ==
  /\ lock' = [lock EXCEPT ![Key(r)] = IF waiters[Key(r)] = <<>> THEN NoRequest ELSE Head(waiters[Key(r)])]
  /\ waiters' = [waiters EXCEPT ![Key(r)] = IF @ = <<>> THEN @ ELSE Tail(@)]
  /\ request' = [s \in Requests |->
       IF s = r THEN [request[r] EXCEPT !.pc = IF @ = "sent" THEN "done" ELSE "failed"]
       ELSE IF waiters[Key(r)] # <<>> /\ s = Head(waiters[Key(r)]) THEN [request[s] EXCEPT !.pc = "tokens"] ELSE request[s]]

-----------------------------------------------------------------------------
(* A request: async_auth_flow.                                             *)

\* Mutation of AsyncAuthFlow: as when there is no single_flight_key.
AuthFlowUnlocked(r) ==
  /\ request[r].pc = "idle" /\ Goto(r, "tokens")
  /\ UNCHANGED <<flowVars, grants, brokerVars, userVars, tokens>>
AsyncAuthFlow(r) ==
  /\ request[r].pc = "idle"
  /\ IF lock[Key(r)] = NoRequest
       THEN lock' = [lock EXCEPT ![Key(r)] = r] /\ Goto(r, "tokens") /\ UNCHANGED waiters
       ELSE waiters' = [waiters EXCEPT ![Key(r)] = Append(@, r)] /\ Goto(r, "waiting") /\ UNCHANGED lock
  /\ UNCHANGED <<grants, brokerVars, userVars, tokens>>
\* Mutation of Refused: the flow of a request that is refused is not left.
RefusedKeepsLock(r) ==
  /\ request[r].pc = "refused" /\ Goto(r, "failed")
  /\ UNCHANGED <<flowVars, grants, brokerVars, userVars, tokens>>

\* The client is asked for a token, and may not answer.
GetTokens(r) ==
  /\ request[r].pc = "tokens"
  /\ \E token \in IF Key(r) \in tokens THEN BOOLEAN ELSE {FALSE} :
       request' = [request EXCEPT ![r].pc = "sent", ![r].token = token]
  /\ UNCHANGED <<flowVars, grants, brokerVars, userVars, tokens>>
\* The server accepts the request, or an error ends it; after a new token too.
Respond(r) ==
  /\ request[r].pc = "sent" /\ Release(r)
  /\ UNCHANGED <<grants, brokerVars, userVars, tokens>>

\* The server refuses it: a grant, with a PKCE verifier, a state and an oauth_uuid
\* of its own, and its URL for the user.
PerformAuthorizationCodeGrant(r) ==
  /\ request[r].pc = "sent" /\ request[r].grant = 0 /\ Len(grants) < MaxGrants
  /\ grants' = Append(grants, r)
  /\ request' = [request EXCEPT ![r].pc = "redirect", ![r].grant = Len(grants')]
  /\ UNCHANGED <<flowVars, brokerVars, userVars, tokens>>

\* Mutation of Subject: the oauth_uuid is the question's, whatever the grant.
SubjectOfQuestion(g) == CHOOSE h \in Made : SingleFlightKey[grants[h]] = SingleFlightKey[grants[g]]
Subject(g) == g

\* handle_callback: receive_reply makes the channel, or finds it.
HandleCallback(r) ==
  /\ request[r].pc = "redirect" /\ Goto(r, "listening")
  /\ exists' = IF Broker = "local" THEN exists \cup {Subject(request[r].grant)} ELSE exists
  /\ UNCHANGED <<flowVars, grants, channel, userVars, tokens>>
\* Whoever is blocked in the queue that has been emptied is let go; the queue is
\* no longer one of the broker's.
Deleted(g) == exists' = exists \ {g} /\ channel' = [channel EXCEPT ![g] = <<>>]
\* A code, for the state of the request's own grant; an error ends it.
ReceiveReply(r) ==
  LET g == Subject(request[r].grant) IN
  /\ request[r].pc = "listening" /\ channel[g] # <<>>
  /\ request' = [request EXCEPT ![r].given = Head(channel[g]).of,
       ![r].pc = IF Head(channel[g]).kind = "code" /\ Head(channel[g]).of = request[r].grant THEN "exchange" ELSE "refused"]
  /\ \/ Deleted(g) /\ sending' = sending \ {p \in sending : Subject(p.of) = g}
     \/ Broker = "redis" /\ UNCHANGED <<brokerVars, sending>> \* Redis fails to delete it
  /\ UNCHANGED <<flowVars, grants, redirected, expired, tokens>>
Refused(r) ==
  /\ request[r].pc = "refused" /\ Release(r)
  /\ UNCHANGED <<grants, brokerVars, userVars, tokens>>
\* The time to wait for a reply is over: a little before the question's.
ReceiveTimesOut(r) ==
  LET g == Subject(request[r].grant) IN
  /\ request[r].pc = "listening" /\ channel[g] = <<>> /\ Release(r)
  /\ IF Broker = "local" THEN Deleted(g) ELSE UNCHANGED brokerVars
  /\ UNCHANGED <<grants, userVars, tokens>>

\* _exchange_token_authorization_code: with the grant's verifier.
ExchangeToken(r) ==
  /\ request[r].pc = "exchange"
  /\ \/ Goto(r, "set_tokens") /\ UNCHANGED flowVars
     \/ Release(r)
  /\ UNCHANGED <<grants, brokerVars, userVars, tokens>>
\* The client is told of the token, if it can be; then the request is sent again.
SetTokens(r) ==
  /\ request[r].pc = "set_tokens"
  /\ request' = [request EXCEPT ![r].pc = "sent", ![r].token = TRUE]
  /\ tokens' \in {tokens, tokens \cup {Key(r)}}
  /\ UNCHANGED <<flowVars, grants, brokerVars, userVars>>

\* The question's time is over, and its task is cancelled: once.  get_tokens and
\* set_tokens take the cancellation for a client that does not answer.
Cancel(r) ==
  /\ request[r].pc \notin Ended \cup {"idle"} /\ ~request[r].cancelled
  /\ IF request[r].pc \in {"tokens", "set_tokens"}
       THEN request' = [request EXCEPT ![r].pc = "sent", ![r].cancelled = TRUE] /\ UNCHANGED flowVars
     ELSE IF request[r].pc = "waiting"
       THEN \E i \in DOMAIN waiters[Key(r)] :
              /\ waiters[Key(r)][i] = r
              /\ request' = [request EXCEPT ![r].pc = "failed", ![r].cancelled = TRUE]
              /\ waiters' = [waiters EXCEPT ![Key(r)] = RemoveAt(@, i)]
              /\ UNCHANGED lock
     ELSE Release(r)
  /\ IF request[r].pc = "listening" /\ Broker = "local" THEN Deleted(Subject(request[r].grant)) ELSE UNCHANGED brokerVars
  /\ UNCHANGED <<grants, userVars, tokens>>

-----------------------------------------------------------------------------
(* The redirect: mcp_oauth_callback_generic.                               *)

\* The user has authorized, or not, at the URL of a grant, or loads the page again.
MCPOAuthCallback(g) ==
  /\ g \in Made /\ redirected[g] < MaxCallbacks
  /\ redirected' = [redirected EXCEPT ![g] = @ + 1]
  /\ IF g \in expired THEN UNCHANGED <<brokerVars, sending>>
     ELSE \E kind \in {"code", "error"} :
       LET s == Subject(g)  payload == [of |-> g, kind |-> kind] IN
       /\ exists' = exists \cup {s}
       /\ IF Broker = "local" /\ channel[s] # <<>>
            THEN sending' = sending \cup {payload} /\ UNCHANGED channel
            ELSE channel' = [channel EXCEPT ![s] = Append(@, payload)] /\ UNCHANGED sending
  /\ UNCHANGED <<request, flowVars, grants, expired, tokens>>
\* The state of a grant outlives the wait for its callback.
StateExpires(g) ==
  /\ g \in Made \ expired /\ request[grants[g]].pc \in Ended
  /\ expired' = expired \cup {g}
  /\ UNCHANGED <<request, flowVars, grants, brokerVars, redirected, sending, tokens>>

RequestStep(r) ==
  \/ AsyncAuthFlow(r) \/ GetTokens(r) \/ Respond(r) \/ PerformAuthorizationCodeGrant(r) \/ HandleCallback(r)
  \/ ReceiveReply(r) \/ Refused(r) \/ ReceiveTimesOut(r) \/ ExchangeToken(r) \/ SetTokens(r)
OAuthNext ==
  \/ \E r \in Requests : RequestStep(r) \/ Cancel(r)
  \/ \E g \in Grants : MCPOAuthCallback(g) \/ StateExpires(g)
OAuthSpec == OAuthInit /\ [][OAuthNext]_oauthVars
OAuthFairSpec == OAuthSpec /\ \A r \in Requests : WF_oauthVars(RequestStep(r))

-----------------------------------------------------------------------------
\* The user is never asked to authorize one server twice at once for a question,
\* however many of its requests are refused together (single_flight_key).
Authorizing(r) == request[r].pc \in {"redirect", "listening", "exchange"}
OneAuthorizationPending ==
  \A r, s \in Requests : Authorizing(r) /\ Authorizing(s) /\ Key(r) = Key(s) => r = s

\* The callback that a request is given is that of its own grant, even when the
\* redirects of earlier ones come late or twice: none fails for another's state.
CallbackReachesItsGrant == \A r \in Requests : request[r].given \in {0, request[r].grant}

\* A lock is held by a request that is under way, and every waiter gets its turn.
RequestsEnd == \A r \in Requests : request[r].pc = "waiting" ~> request[r].pc \in Ended

\* A request whose question has been stopped asks the user for nothing more.
StoppedAsksNothing == [][\A r \in Requests : request[r].cancelled => request'[r].grant = request[r].grant]_oauthVars

\* "key -> queue (single item). Deleted after receive_reply" (LocalBroker): the
\* channel of a request that has ended is gone.
ChannelIsDeleted == \A g \in Made : request[grants[g]].pc \in Ended => Subject(g) \notin exists
================================================================================
