---------------------------- MODULE MCPSessions ----------------------------
(***************************************************************************)
(* MCP sessions shared by the API's replicas through Redis: the registry   *)
(* of a server's sessions, the record of each active call, the mailboxes   *)
(* of what the server asks the client while it serves a call, and the      *)
(* requests of one replica that serve the calls (control_response,         *)
(* local_mcp_response, MCPTransport and call_tool).                        *)
(*                                                                         *)
(* Every key of Redis has the same time to live.  A key is fresh when it   *)
(* is written or renewed; Tick makes fresh keys stale and removes the      *)
(* stale ones.                                                             *)
(***************************************************************************)
EXTENDS Naturals, FiniteSets

CONSTANTS
  Sids,           \* session ids
  Sid,            \* the session of the calls
  Creators,       \* initialize requests
  Calls,          \* tools/call requests of session Sid, with one request id
  NoCall,
  MaxSessions,    \* mcp_max_sessions_per_server
  MaxActiveCalls, \* MAX_ACTIVE_CALLS
  MaxTicks        \* bound on time

VARIABLES
  session,     \* the record of each session: absent, created or ready
  registry,    \* the set of registered sessions
  fresh,       \* keys that are not stale: sessions, "registry", "call", mailboxes
  creator,     \* what each initialize request has read, and where it is
  used,        \* session ids that have been given out
  record,      \* the record of the active call
  mailbox,     \* the mailbox of each call's request to the client
  call,        \* where each request is
  activeCalls, \* active_requests
  pending,     \* calls whose request to the client has had no reply
  taken,       \* history: the replies that reply() has matched with the mailbox
  accepted,    \* history: the replies the client has been told are accepted (202)
  delivered,   \* the reply the server has got
  credentials, \* what call_tool has asked for and stored
  ticks

sessionVars == <<session, registry, creator, used>>
callVars == <<record, mailbox, call, activeCalls, pending, taken, accepted, delivered, credentials>>
transportVars == <<sessionVars, callVars, fresh, ticks>>

\* The request asks the client one thing at a time; its mailbox is absent
\* ("none"), empty, or holds the reply.
Bodies == {"accept", "decline"}
CallRecord == [by : Calls \cup {NoCall}, cancelled : BOOLEAN]
NoRecord == [by |-> NoCall, cancelled |-> FALSE]
RedisKeys == Sids \cup {"registry", "call"} \cup Calls
CallStates == {"idle", "refused", "starting", "acquiring", "serving", "asking", "acknowledge",
               "cancelled", "cleanup", "release", "ended"}

SessionsTypeOK ==
  /\ session \in [Sids -> {"none", "created", "ready"}]
  /\ registry \subseteq Sids /\ used \subseteq Sids /\ fresh \subseteq RedisKeys
  /\ creator \in [Creators -> [at : {"idle", "read", "ended"}, seen : SUBSET Sids, expired : SUBSET Sids]]
  /\ record \in CallRecord
  /\ mailbox \in [Calls -> {"none", "empty"} \cup Bodies]
  /\ call \in [Calls -> CallStates]
  /\ activeCalls \subseteq Calls /\ pending \subseteq Calls
  /\ taken \in [Calls -> SUBSET Bodies] /\ accepted \in [Calls -> SUBSET Bodies]
  /\ delivered \in [Calls -> {"none"} \cup Bodies]
  /\ credentials \in [Calls -> {"none", "requested", "stored"}]
  /\ ticks \in 0..MaxTicks

SessionsInit ==
  /\ session = [s \in Sids |-> "none"] /\ registry = {} /\ used = {} /\ fresh = {}
  /\ creator = [c \in Creators |-> [at |-> "idle", seen |-> {}, expired |-> {}]]
  /\ record = NoRecord
  /\ mailbox = [c \in Calls |-> "none"]
  /\ call = [c \in Calls |-> "idle"]
  /\ activeCalls = {} /\ pending = {}
  /\ taken = [c \in Calls |-> {}] /\ accepted = [c \in Calls |-> {}]
  /\ delivered = [c \in Calls |-> "none"]
  /\ credentials = [c \in Calls |-> "none"]
  /\ ticks = 0

-----------------------------------------------------------------------------
(* Redis.                                                                  *)

LiveSession(s) == session[s] # "none"
Expired(sids) == {s \in sids : ~LiveSession(s)}

Tick ==
  /\ ticks < MaxTicks /\ ticks' = ticks + 1
  /\ fresh' = {}
  /\ session' = [s \in Sids |-> IF s \in fresh THEN session[s] ELSE "none"]
  /\ registry' = IF "registry" \in fresh THEN registry ELSE {}
  /\ record' = IF "call" \in fresh THEN record ELSE NoRecord
  /\ mailbox' = [c \in Calls |-> IF c \in fresh THEN mailbox[c] ELSE "none"]
  /\ UNCHANGED <<creator, used, call, activeCalls, pending, taken, accepted, delivered, credentials>>

\* Mutation of Get: the registry is left to expire.
GetOnly(s) == IF LiveSession(s) THEN {s} ELSE {}
\* get: the session and the registry are renewed in one transaction.
Get(s) == (IF LiveSession(s) THEN {s} ELSE {}) \cup (IF registry # {} THEN {"registry"} ELSE {})

\* create: what is registered and what of it has expired ...
CreateRead(c) ==
  /\ creator[c].at = "idle"
  /\ creator' = [creator EXCEPT ![c] =
       IF Cardinality(registry) - Cardinality(Expired(registry)) >= MaxSessions
       THEN [@ EXCEPT !.at = "ended"]
       ELSE [at |-> "read", seen |-> registry, expired |-> Expired(registry)]]
  /\ UNCHANGED <<session, registry, used, callVars, fresh, ticks>>

\* Mutation of CreateExec: the registry is not watched.
CreateUnwatched(c) ==
  \E s \in Sids \ used :
    /\ creator[c].at = "read"
    /\ creator' = [creator EXCEPT ![c].at = "ended"]
    /\ used' = used \cup {s}
    /\ session' = [session EXCEPT ![s] = "created"]
    /\ registry' = (registry \ creator[c].expired) \cup {s}
    /\ fresh' = fresh \cup {s, "registry"}
    /\ UNCHANGED <<callVars, ticks>>
\* ... and the transaction, which fails when the registry has changed.
CreateExec(c) ==
  /\ creator[c].at = "read"
  /\ IF registry # creator[c].seen
     THEN /\ creator' = [creator EXCEPT ![c].at = "idle"]
          /\ UNCHANGED <<session, registry, used, fresh>>
     ELSE \E s \in Sids \ used :
            /\ creator' = [creator EXCEPT ![c].at = "ended"]
            /\ used' = used \cup {s}
            /\ session' = [session EXCEPT ![s] = "created"]
            /\ registry' = (registry \ creator[c].expired) \cup {s}
            /\ fresh' = fresh \cup {s, "registry"}
  /\ UNCHANGED <<callVars, ticks>>

\* session_count, which the pool asks before it evicts a server.
SessionCount ==
  /\ registry' = registry \ Expired(registry)
  /\ UNCHANGED <<session, creator, used, callVars, fresh, ticks>>

\* notifications/initialized: get, then a change that keeps the time to live.
Ready(s) ==
  /\ LiveSession(s)
  /\ session' = [session EXCEPT ![s] = "ready"]
  /\ fresh' = fresh \cup Get(s)
  /\ UNCHANGED <<registry, creator, used, callVars, ticks>>

\* DELETE: the registry keeps the id until someone counts.
Delete(s) ==
  /\ LiveSession(s)
  /\ session' = [session EXCEPT ![s] = "none"]
  /\ fresh' = (fresh \cup Get(s)) \ {s}
  /\ UNCHANGED <<registry, creator, used, callVars, ticks>>

-----------------------------------------------------------------------------
(* The requests of session Sid on this replica.                            *)

Moves(c, s) == call' = [call EXCEPT ![c] = s]

\* control_response and reserve_request.
Control(c) ==
  /\ call[c] = "idle"
  /\ IF session[Sid] = "ready" /\ Cardinality(activeCalls) < MaxActiveCalls
     THEN Moves(c, "starting") /\ activeCalls' = activeCalls \cup {c}
     ELSE Moves(c, "refused") /\ UNCHANGED activeCalls
  /\ fresh' = fresh \cup Get(Sid)
  /\ UNCHANGED <<sessionVars, record, mailbox, pending, taken, accepted, delivered, credentials, ticks>>

\* start: SET NX; another call may have the request id.
Start(c) ==
  /\ call[c] = "starting"
  /\ IF record = NoRecord
     THEN /\ record' = [by |-> c, cancelled |-> FALSE]
          /\ fresh' = fresh \cup {"call"} /\ Moves(c, "acquiring")
     ELSE Moves(c, "release") /\ UNCHANGED <<record, fresh>>
  /\ UNCHANGED <<sessionVars, mailbox, activeCalls, pending, taken, accepted, delivered, credentials, ticks>>

\* What a poll reads and renews: the session, the record, the mailbox.
Polled(c) ==
  Get(Sid) \cup (IF LiveSession(Sid)
                 THEN (IF record # NoRecord THEN {"call"} ELSE {})
                      \cup (IF c \in pending /\ mailbox[c] # "none" THEN {c} ELSE {})
                 ELSE {})
\* poll tells a call that it is cancelled.
Cancelled(c) ==
  \/ ~LiveSession(Sid) \/ record # [by |-> c, cancelled |-> FALSE]
  \/ c \in pending /\ mailbox[c] = "none"

\* renew_call, while the server is acquired: a session that has gone ends it.
Renew(c) ==
  /\ call[c] = "acquiring"
  /\ Moves(c, IF LiveSession(Sid) THEN "acquiring" ELSE "cleanup")
  /\ fresh' = fresh \cup Polled(c)
  /\ UNCHANGED <<sessionVars, record, mailbox, activeCalls, pending, taken, accepted, delivered, credentials, ticks>>

\* The lease is obtained or refused; _serve polls once before it starts.
Acquired(c) ==
  /\ call[c] = "acquiring"
  /\ \E s \in {"serving", "cleanup"} :
       Moves(c, IF s = "serving" /\ Cancelled(c) THEN "cleanup" ELSE s)
  /\ fresh' = fresh \cup Polled(c)
  /\ UNCHANGED <<sessionVars, record, mailbox, activeCalls, pending, taken, accepted, delivered, credentials, ticks>>

\* call_tool takes a message of the answer stream: a request for credentials
\* is answered with what is stored, credentials are stored if they were
\* requested, other requests are asked of the client, and the rest ends it.
ToolMessage(c) ==
  /\ call[c] = "serving"
  /\ \/ /\ Moves(c, "asking") /\ pending' = pending \cup {c} /\ delivered[c] = "none"
        /\ mailbox' = [mailbox EXCEPT ![c] = "empty"]
        /\ fresh' = fresh \cup {c} /\ UNCHANGED credentials
     \/ /\ credentials' = [credentials EXCEPT ![c] = IF @ = "none" THEN "requested" ELSE "stored"]
        /\ UNCHANGED <<call, pending, mailbox, fresh>>
     \/ Moves(c, "cleanup") /\ UNCHANGED <<credentials, pending, mailbox, fresh>>
  /\ UNCHANGED <<sessionVars, record, activeCalls, taken, accepted, delivered, ticks>>

\* The poll of a request that is served: a cancellation, or the replies, each
\* of which is handed over once.
Poll(c) ==
  /\ call[c] \in {"serving", "asking"}
  /\ fresh' = fresh \cup Polled(c)
  /\ IF Cancelled(c) THEN Moves(c, "cancelled") /\ UNCHANGED <<pending, delivered>>
     ELSE IF c \in pending /\ mailbox[c] \in Bodies
     THEN /\ pending' = pending \ {c}
          /\ delivered' = [delivered EXCEPT ![c] = mailbox[c]]
          /\ Moves(c, "acknowledge")
     ELSE UNCHANGED <<call, pending, delivered>>
  /\ UNCHANGED <<sessionVars, record, mailbox, activeCalls, taken, accepted, credentials, ticks>>

\* acknowledge: the mailbox is deleted.  The tool goes on if the client has
\* accepted.
Acknowledge(c) ==
  /\ call[c] = "acknowledge"
  /\ mailbox' = [mailbox EXCEPT ![c] = "none"] /\ fresh' = fresh \ {c}
  /\ Moves(c, IF delivered[c] = "accept" THEN "serving" ELSE "cleanup")
  /\ UNCHANGED <<sessionVars, record, activeCalls, pending, taken, accepted, delivered, credentials, ticks>>

\* The cancelled server answers with an error, or the client disconnects.
Stop(c) ==
  /\ call[c] \in {"acquiring", "serving", "asking", "acknowledge", "cancelled"} /\ Moves(c, "cleanup")
  /\ UNCHANGED <<sessionVars, record, mailbox, activeCalls, pending, taken, accepted, delivered, credentials,
                 fresh, ticks>>

\* Mutation of Finish: whatever record is there is removed.
FinishAny(c) ==
  /\ call[c] = "cleanup"
  /\ record' = NoRecord /\ fresh' = fresh \ {"call"}
  /\ Moves(c, "release")
  /\ UNCHANGED <<sessionVars, mailbox, activeCalls, pending, taken, accepted, delivered, credentials, ticks>>
\* finish, shielded: the record is removed if it is this call's; Redis may
\* be unavailable.
Finish(c) ==
  /\ call[c] = "cleanup"
  /\ \/ record.by = c /\ record' = NoRecord /\ fresh' = fresh \ {"call"}
     \/ UNCHANGED <<record, fresh>>
  /\ Moves(c, "release")
  /\ UNCHANGED <<sessionVars, mailbox, activeCalls, pending, taken, accepted, delivered, credentials, ticks>>

\* The mailbox that is left is deleted, if Redis is there, and the place is
\* given back.
ReleaseCall(c) ==
  /\ call[c] = "release" /\ Moves(c, "ended")
  /\ activeCalls' = activeCalls \ {c}
  /\ \/ mailbox' = [mailbox EXCEPT ![c] = "none"] /\ fresh' = fresh \ {c}
     \/ UNCHANGED <<mailbox, fresh>>
  /\ UNCHANGED <<sessionVars, record, pending, taken, accepted, delivered, credentials, ticks>>

-----------------------------------------------------------------------------
(* The client, through any replica.                                        *)

\* notifications/cancelled.
CancelRequest ==
  /\ LiveSession(Sid) /\ fresh' = fresh \cup Get(Sid)
  /\ record.by # NoCall /\ record' = [record EXCEPT !.cancelled = TRUE]
  /\ UNCHANGED <<sessionVars, mailbox, call, activeCalls, pending, taken, accepted, delivered, credentials, ticks>>

\* The client answers what it was asked, perhaps more than once and late.
Asked(c) == c \in pending \/ delivered[c] # "none"
\* It is told 409 if the mailbox holds another reply, and 202 otherwise, also
\* when there is no mailbox any more: reply() returns False, which is logged.
Told(c, body) ==
  /\ taken' = IF mailbox[c] \in {"empty", body} THEN [taken EXCEPT ![c] = @ \cup {body}] ELSE taken
  /\ accepted' = IF mailbox[c] \in {"none", "empty", body}
                 THEN [accepted EXCEPT ![c] = @ \cup {body}] ELSE accepted

\* Mutation of ClientReply: the last reply is kept.
ReplyLast(c, body) ==
  /\ LiveSession(Sid) /\ Asked(c)
  /\ mailbox' = [mailbox EXCEPT ![c] = IF @ = "none" THEN @ ELSE body]
  /\ Told(c, body)
  /\ fresh' = fresh \cup Get(Sid)
  /\ UNCHANGED <<sessionVars, record, call, activeCalls, pending, delivered, credentials, ticks>>
\* A reply fills an empty mailbox.
ClientReply(c, body) ==
  /\ LiveSession(Sid) /\ Asked(c)
  /\ mailbox' = [mailbox EXCEPT ![c] = IF @ = "empty" THEN body ELSE @]
  /\ Told(c, body)
  /\ fresh' = fresh \cup Get(Sid)
  /\ UNCHANGED <<sessionVars, record, call, activeCalls, pending, delivered, credentials, ticks>>

-----------------------------------------------------------------------------

HandlerStep(c) ==
  Start(c) \/ Acquired(c) \/ Poll(c) \/ Acknowledge(c) \/ Finish(c) \/ ReleaseCall(c)
    \/ (call[c] = "cancelled" /\ Stop(c))

SessionsNext ==
  \/ Tick \/ SessionCount \/ CancelRequest
  \/ \E c \in Creators : CreateRead(c) \/ CreateExec(c)
  \/ \E s \in Sids : Ready(s) \/ Delete(s)
  \/ \E c \in Calls :
       Control(c) \/ Renew(c) \/ ToolMessage(c) \/ Stop(c) \/ HandlerStep(c)
         \/ \E body \in Bodies : ClientReply(c, body)

SessionsSpec == SessionsInit /\ [][SessionsNext]_transportVars
SessionsFairSpec == SessionsSpec /\ \A c \in Calls : WF_transportVars(HandlerStep(c)) /\ WF_transportVars(Poll(c))

-----------------------------------------------------------------------------

\* However creations interleave with expiry, deletion and counting, a server
\* has at most its number of sessions: the registry is watched, and outlives
\* every session it lists.
SessionsBounded ==
  /\ Cardinality({s \in Sids : LiveSession(s)}) <= MaxSessions
  /\ \A s \in Sids : LiveSession(s) => s \in registry

\* The record of a call goes with its own clean-up or with time, never with
\* the clean-up of another call of the same request id.
RecordIsOwn ==
  [][record.by # NoCall /\ record'.by # record.by
       => call[record.by] = "cleanup" \/ "call" \notin fresh]_transportVars

\* One reply is taken, and it is the one the server gets; as long as there is a
\* mailbox the client is told of no other that it is accepted.  A reply that
\* comes when the mailbox has gone, acknowledged, released or expired, is told
\* 202 too, and is lost.
ReplyIsTheTaken ==
  \A c \in Calls :
    /\ delivered[c] # "none" => taken[c] = {delivered[c]}
    /\ mailbox[c] # "none" => accepted[c] = taken[c]
    /\ mailbox[c] \in Bodies => taken[c] = {mailbox[c]}

\* A cancelled call, and one whose session has gone, ends.
CancelledCallEnds ==
  \A c \in Calls :
    (call[c] \in {"acquiring", "serving", "asking"}
       /\ (session[Sid] = "none" \/ (record.by = c /\ record.cancelled)))
      ~> (call[c] = "ended")
=============================================================================
