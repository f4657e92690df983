------------------------------ MODULE ToolAccess -------------------------------
(***************************************************************************)
(* The whole of Agent Identity Lab: the identity API (IdentityApi), the    *)
(* gateway in front of the tools (McpGateway) and the token broker         *)
(* (TokenBroker).  Gateway and broker are processes of their own; they meet*)
(* the API in its tables, its tokens and the clock.                        *)
(*                                                                         *)
(* Two parts of IdentityApi are left to its own runs.  Delegations, which  *)
(* neither the gateway, authorize nor the broker reads; and Restart: on the*)
(* tables and tokens, all that gateway and broker see, it has the effect of*)
(* failures of the requests in flight, and those are here.                 *)
(***************************************************************************)
EXTENDS IdentityApi, McpGateway, TokenBroker, FiniteSets

CONSTANT MaxAccesses    \* bound of the exploration: calls and exchanges in one behaviour
ASSUME AccessAssumption == MaxAccesses \in Nat

accessVars == <<apiVars, gatewayVars, brokerVars>>

AccessInit == ApiInit /\ GatewayInit /\ BrokerInit

ServeApi ==
  /\ \/ \E w \in AdminWorkers : Administer(w)
     \/ ManageBlueprints
     \/ ServeSessions
     \/ Tick
  /\ UNCHANGED <<gatewayVars, brokerVars>>

\* Calls and exchanges begun, but for exchanges that ended without a credential.
Accesses ==
  Cardinality({c \in Calls : calls[c] # NoCall})
    + Cardinality({x \in Exchangers : exchanges[x].kind = "flush"})
    + Cardinality(credentials)

ServeTools == GatewayNext /\ UNCHANGED <<apiVars, brokerVars>>

ExchangeTokens == BrokerNext /\ UNCHANGED <<apiVars, gatewayVars>>

AccessNext ==
  /\ ServeApi \/ ServeTools \/ ExchangeTokens
  /\ Accesses' <= MaxAccesses

AccessSpec == AccessInit /\ [][AccessNext]_accessVars

-----------------------------------------------------------------------------
(* Properties. *)

AccessTypeOK == GatewayTypeOK /\ BrokerTypeOK

\* The session of token t is revoked, or the token has none and no
\* create_session is about to commit one.
WithoutStanding(t) ==
  \/ \E s \in sessions : s.id = t.id /\ s.revoked
  \/ /\ ~Stored(t.id)
     /\ \A w \in SessionWorkers :
          ~(sessionRequests[w].kind = "commit" /\ sessionRequests[w].row.id = t.id)

PresentedBy(c, t) == calls[c].kind # "none" /\ calls[c].token = t

\* Call c may still run although its session has ended: the read is behind it.  (An
\* allow stays with the call until its client has sent the body, however long that
\* takes: the properties speak of the calls for which it is over.)
PastSessionRead(c) ==
  \/ inTransit[c] > 0
  \/ authorizations[c].kind \in {"agent", "blueprint", "evaluate"}
  \/ authorizations[c].kind = "answered" /\ authorizations[c].decision = "allow"

\* The token is dead and the calls that overlapped its death have drained.
TokenShut(t) ==
  /\ WithoutStanding(t) \/ ~Valid(t)
  /\ \A c \in Calls : PresentedBy(c, t) =>
       /\ ~PastSessionRead(c)
       /\ authorizations[c].kind = "session" => WithoutStanding(t)

\* Once the calls that overlapped its end have drained, a token that expired, whose
\* session was revoked or never committed, runs nothing, whoever presents it.
DeadTokenRunsNothing ==
  [][\A t \in tokens : TokenShut(t) =>
       /\ TokenShut(t)'
       /\ \A c \in Calls : PresentedBy(c, t)' => runs'[c] = runs[c]]_accessVars

\* Call c of agent a has passed the reading of the agent's row while it was active.
PastAgentCheck(c, a) ==
  /\ calls[c].kind # "none"
  /\ calls[c].token.agent = a
  /\ \/ inTransit[c] > 0
     \/ /\ authorizations[c].kind \in {"blueprint", "evaluate"}
        /\ authorizations[c].agentActive
     \/ authorizations[c].kind = "answered" /\ authorizations[c].decision = "allow"

AgentCutOff(a) ==
  /\ Registry!Settled(a)
  /\ \A c \in Calls : ~PastAgentCheck(c, a)

\* A revoked agent runs no tool once the overlapping requests have drained, with
\* whatever token, although tokens cannot be taken back.
CutOffAgentRunsNothing ==
  [][\A a \in Agents : AgentCutOff(a) =>
       /\ AgentCutOff(a)'
       /\ \A c \in Calls : calls'[c].kind # "none" /\ calls'[c].token.agent = a =>
            runs'[c] = runs[c]]_accessVars

\* Call c of an agent of blueprint b has passed the reading of b while it was active.
PastBlueprintCheck(c, b) ==
  /\ calls[c].kind # "none"
  /\ agents[calls[c].token.agent].blueprint = b
  /\ \/ inTransit[c] > 0
     \/ authorizations[c].kind = "evaluate" /\ authorizations[c].blueprintActive
     \/ authorizations[c].kind = "answered" /\ authorizations[c].decision = "allow"

\* While no request is about to activate it, a blueprint that is not active keeps
\* all its agents from every tool, whatever tokens they hold, once the calls
\* that overlapped its deactivation have drained.
InactiveBlueprintRunsNothing ==
  [][\A b \in Blueprints :
       /\ blueprints[b].status # "active"
       /\ \A w \in BlueprintWorkers :
            blueprintRequests[w].kind = "status" /\ blueprintRequests[w].blueprint = b =>
              blueprintRequests[w].edited.status # "active"
       /\ \A c \in Calls : ~PastBlueprintCheck(c, b)
       => \A c \in Calls :
            /\ ~PastBlueprintCheck(c, b)'
            /\ calls'[c].kind # "none" /\ agents[calls'[c].token.agent].blueprint = b =>
                 runs'[c] = runs[c]]_accessVars

\* docs/token-model.md: an exchange attempted after the session expired fails, so
\* every credential belongs to an exchange that began before its session expired.
ExchangeWithinSession ==
  \A l \in credentials, s \in sessions : s.id = l.session => l.issued < s.expires
=============================================================================
