----------------------------- MODULE SessionStore -----------------------------
(***************************************************************************)
(* The sessions of an agent: resources of its knowledge box, created,      *)
(* changed and removed through the REST API, and resolved or created when  *)
(* a question names one. Clients name a session by its id or by its slug.  *)
(***************************************************************************)
EXTENDS Naturals, FiniteSets

CONSTANTS
  Uuids,      \* the ids that the knowledge box gives, in their turn
  Slugs,      \* names that clients make up
  UuidSlugs,  \* those of them that look like UUIDs
  Callers,    \* requests that run at the same time
  NoResource,
  MaxOperations    \* bound

VARIABLES
  resources, \* [id, slug, val] of the knowledge box
  used,      \* ids it has given: a client knows no other one
  caller,    \* where each request is, and what it was asked and has found
  calls

sessVars == <<resources, used, caller, calls>>
Names == Uuids \cup Slugs
Idle == [pc |-> "idle", name |-> NoResource, create |-> FALSE, found |-> NoResource]

SessionStoreTypeOK ==
  /\ resources \in SUBSET [id : Uuids, slug : Names, val : 0..MaxOperations]
  /\ caller \in [Callers -> [pc : {"idle", "by_id", "by_slug", "create", "ready", "missing", "failed"},
       name : Names \cup {NoResource}, create : BOOLEAN, found : Names \cup {NoResource}]]
  /\ used \subseteq Uuids /\ calls \in 0..MaxOperations

SessionStoreInit == resources = {} /\ used = {} /\ caller = [c \in Callers |-> Idle] /\ calls = 0

Ids == {r.id : r \in resources}
BySlug(n) == {r \in resources : r.slug = n}
Proceed(c, pc) == caller' = [caller EXCEPT ![c].pc = pc]
\* get_resource_by_slug of the knowledge box.
LookUpSlug(c, otherwise) ==
  LET found == BySlug(caller[c].name) IN
  caller' = [caller EXCEPT ![c].found = IF found = {} THEN NoResource ELSE (CHOOSE r \in found : TRUE).id,
                           ![c].pc = IF found = {} THEN otherwise ELSE "ready"]

\* create_session_resource: the knowledge box refuses a slug that is taken.
CreateSessionResource(slug, id) ==
  /\ id \in Uuids \ used /\ BySlug(slug) = {}
  /\ used' = used \cup {id}
  /\ resources' = resources \cup {[id |-> id, slug |-> slug, val |-> calls]}

\* A question names its session.
EnsureSessionExists(c, n, create) ==
  /\ n \in used \cup Slugs
  /\ caller[c].pc \in {"idle", "ready", "missing", "failed"} /\ calls < MaxOperations
  /\ caller' = [caller EXCEPT ![c] = [Idle EXCEPT !.pc = IF n \in Uuids \cup UuidSlugs THEN "by_id" ELSE "by_slug", !.name = n, !.create = create]]
  /\ calls' = calls + 1 /\ UNCHANGED <<resources, used>>

\* resolve_session_id: an id first, if it can be one, then a slug.
ResolveById(c) ==
  /\ caller[c].pc = "by_id"
  /\ IF caller[c].name \in Ids THEN caller' = [caller EXCEPT ![c].found = caller[c].name, ![c].pc = "ready"]
     ELSE Proceed(c, "by_slug")
  /\ UNCHANGED <<resources, used, calls>>
ResolveBySlug(c) ==
  /\ caller[c].pc = "by_slug"
  /\ LookUpSlug(c, IF caller[c].create THEN "create" ELSE "missing")
  /\ UNCHANGED <<resources, used, calls>>
\* Mutation of CreateMissing: the id that is answered is the name that was asked for.
CreateAnswerName(c) ==
  /\ caller[c].pc = "create"
  /\ \E id \in Uuids :
       /\ CreateSessionResource(caller[c].name, id)
       /\ caller' = [caller EXCEPT ![c].found = caller[c].name, ![c].pc = "ready"]
  /\ UNCHANGED calls
\* The session that was not there is created under its name as the slug.
CreateMissing(c) ==
  /\ caller[c].pc = "create"
  /\ \/ \E id \in Uuids :
          /\ CreateSessionResource(caller[c].name, id)
          /\ caller' = [caller EXCEPT ![c].found = id, ![c].pc = "ready"]
     \/ Proceed(c, "failed") /\ UNCHANGED <<resources, used>> \* the slug is taken, or the call fails
  /\ UNCHANGED calls

\* The routes of the API: they take ids only.
CreateSession(n) ==
  /\ n \in used \cup Slugs
  /\ calls < MaxOperations /\ calls' = calls + 1
  /\ \E id \in Uuids : CreateSessionResource(n, id)
  /\ UNCHANGED caller
PatchSession(n) ==
  /\ calls < MaxOperations /\ calls' = calls + 1
  /\ \E r \in resources : r.id = n /\ resources' = (resources \ {r}) \cup {[r EXCEPT !.val = calls]}
  /\ UNCHANGED <<used, caller>>
DeleteSession(n) ==
  /\ calls < MaxOperations /\ calls' = calls + 1
  /\ n \in Ids /\ resources' = {r \in resources : r.id # n}
  /\ UNCHANGED <<used, caller>>

SessionStoreNext ==
  \/ \E c \in Callers :
       \/ \E n \in Names, create \in BOOLEAN : EnsureSessionExists(c, n, create)
       \/ ResolveById(c) \/ ResolveBySlug(c) \/ CreateMissing(c)
  \/ \E n \in Names : CreateSession(n) \/ PatchSession(n) \/ DeleteSession(n)
SessionStoreSpec == SessionStoreInit /\ [][SessionStoreNext]_sessVars

-----------------------------------------------------------------------------
\* The memory of a question belongs to the session it names: the id that
\* ensure_session_exists answers is the name, or that of the session whose slug
\* is the name, and the knowledge box has given it.
EffectiveIsNamed ==
  \A c \in Callers : caller[c].pc = "ready" =>
    /\ caller[c].found \in used
    /\ \A r \in resources : r.id = caller[c].found => caller[c].name \in {r.id, r.slug}

\* Two questions that name one session are in one session.
OneSessionPerName ==
  \A c, d \in Callers :
    caller[c].pc = "ready" /\ caller[d].pc = "ready" /\ caller[c].name = caller[d].name
      /\ {caller[c].found, caller[d].found} \subseteq Ids => caller[c].found = caller[d].found

\* "The original session id and an error message if the session doesn't exist
\* and shouldn't be created" (ensure_session_exists): the error is never
\* answered for a session that exists and was to be created.
ErrorMeansMissing ==
  [][\A c \in Callers : caller[c].pc = "create" /\ caller'[c].pc = "failed" => BySlug(caller[c].name) = {}]_sessVars
=============================================================================
