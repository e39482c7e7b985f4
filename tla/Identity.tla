------------------------------- MODULE Identity -------------------------------
(***************************************************************************)
(* The agent id of a browser profile and the requests made with it:        *)
(* lib/agent-id.ts, request() of lib/api.ts, and the bootstrap that        *)
(* main.tsx starts without waiting for it.  The tabs of the profile share  *)
(* its localStorage; a tab may be loaded again at any time.                *)
(***************************************************************************)
EXTENDS Integers, FiniteSets

CONSTANTS Tabs,    \* tabs of the browser profile
          MaxIds   \* bound: agents that the server registers

VARIABLES storage,     \* what localStorage allows: all | read | none
          storedId,    \* the item under KEY
          registered,  \* ids the server has handed out: 1 .. registered
          boot,        \* boot[t]: start | posting | an id | failed
          call         \* call[t]: the request that tab t makes

identityVars == <<storage, storedId, registered, boot, call>>

NoId == 0
Undefined == -1   \* what setItem stores for an undefined id
Idle == [at |-> "idle", id |-> NoId, res |-> "none", out |-> "none"]

IdentityInit ==
  /\ storage \in {"all", "read", "none"}
  /\ storedId = NoId /\ registered = 0
  /\ boot = [t \in Tabs |-> "start"]
  /\ call = [t \in Tabs |-> Idle]

(* getItem that throws reads as null. *)
GetAgentId == IF storage = "none" THEN NoId ELSE storedId

(* setItem that throws is ignored. *)
SetAgentId(id) == storedId' = IF storage = "all" THEN id ELSE storedId

-----------------------------------------------------------------------------
(* ensureAgentId: the cached id, or POST /agents. *)
Bootstrap(t) ==
  /\ boot[t] = "start"
  /\ boot' = [boot EXCEPT ![t] = IF GetAgentId # NoId THEN "done" ELSE "posting"]
  /\ UNCHANGED <<storage, storedId, registered, call>>

(* Slip: the body is taken as it is. *)
BootBodyUnchecked(t, id) ==
  /\ SetAgentId(IF id = NoId THEN Undefined ELSE id)
  /\ boot' = [boot EXCEPT ![t] = "done"]

(* A body without an agent_id throws, any other id is kept. *)
BootBody(t, id) ==
  IF id = NoId
  THEN boot' = [boot EXCEPT ![t] = "failed"] /\ UNCHANGED storedId
  ELSE SetAgentId(id) /\ boot' = [boot EXCEPT ![t] = "done"]

(* The answer to the POST: a new id, a body without one, or an error: the  *)
(* connection, a status, a body that is no JSON.  The server may have      *)
(* registered the agent all the same.                                      *)
BootAnswer(t) ==
  /\ boot[t] = "posting"
  /\ \/ /\ registered < MaxIds
        /\ registered' = registered + 1
        /\ BootBody(t, registered')
     \/ BootBody(t, NoId) /\ UNCHANGED registered
     \/ /\ registered' \in {registered, registered + 1} \cap 0 .. MaxIds
        /\ boot' = [boot EXCEPT ![t] = "failed"]
        /\ UNCHANGED storedId
  /\ UNCHANGED <<storage, call>>

(* The tab is loaded again: main.tsx runs from the start. *)
Reload(t) ==
  /\ boot[t] # "start"
  /\ boot' = [boot EXCEPT ![t] = "start"]
  /\ call' = [call EXCEPT ![t] = Idle]
  /\ UNCHANGED <<storage, storedId, registered>>

-----------------------------------------------------------------------------
(* The endpoints of lib/api.ts, without createAgent, which nothing calls,  *)
(* and those that pass skipAuth.                                           *)
Endpoints == {"getResidentAgent", "listConversations", "listAllConversations",
              "createConversation", "invite", "leave", "getHistory", "getObserverHistory",
              "ack", "listUnread", "health"}
SkipAuth == {"health", "getResidentAgent", "listAllConversations", "getObserverHistory"}

(* request(): without skipAuth the id is read when the call is made, ready *)
(* or not, and without one the call throws.                                *)
Request(t, endpoint) ==
  /\ call[t].at # "sent"
  /\ call' = [call EXCEPT ![t] =
       IF endpoint \in SkipAuth THEN [Idle EXCEPT !.at = "sent"]
       ELSE IF GetAgentId = NoId THEN [Idle EXCEPT !.at = "done", !.out = "no_agent_id"]
       ELSE [Idle EXCEPT !.at = "sent", !.id = GetAgentId]]
  /\ UNCHANGED <<storage, storedId, registered, boot>>

Statuses == {"ok", "no_content", "refused"}
Bodies == {"data", "envelope", "not_json"}   \* of a body: JSON, the error envelope, neither

(* What request() makes of an answer. *)
Outcome(status, body) ==
  CASE status = "refused" -> IF body = "envelope" THEN "code_of_envelope" ELSE "code_of_status"
    [] status = "no_content" -> "undefined"
    [] status = "ok" -> IF body = "not_json" THEN "syntax_error" ELSE "value"

Answer(t) ==
  /\ call[t].at = "sent"
  /\ \/ \E status \in Statuses, body \in Bodies :
          call' = [call EXCEPT ![t].at = "done", ![t].res = status,
                               ![t].out = Outcome(status, body)]
     \/ call' = [call EXCEPT ![t].at = "done", ![t].res = "lost", ![t].out = "network_error"]
  /\ UNCHANGED <<storage, storedId, registered, boot>>

IdentityNext ==
  \E t \in Tabs : \/ Bootstrap(t) \/ BootAnswer(t) \/ Reload(t)
                  \/ \E e \in Endpoints : Request(t, e)
                  \/ Answer(t)

-----------------------------------------------------------------------------
(* The profile's id and the X-Agent-ID of every request are ids the server *)
(* has handed out, whatever it answered to whichever tab in between, lost  *)
(* answers and reloads included; and a refused request ends in an error    *)
(* that has a code, whatever body came with it.                            *)
RequestsSound ==
  /\ storedId \in NoId .. registered
  /\ \A t \in Tabs :
       /\ call[t].id \in NoId .. registered
       /\ call[t].res = "refused" => call[t].out \in {"code_of_envelope", "code_of_status"}
===============================================================================
