--------------------------- MODULE ToolAccessProofs ----------------------------
(***************************************************************************)
(* Theorems about ToolAccess: the components' theorems carry over to the   *)
(* whole system, which keeps promises that none of them makes alone.  They *)
(* hold for any number of calls, exchanges, requests, agents and keys.     *)
(***************************************************************************)
EXTENDS ToolAccess, IdentityApiProofs, McpGatewayProofs

-----------------------------------------------------------------------------
(* The components do not disturb each other: every step of the system is, to *)
(* the API and to the gateway, a step of its own or none.                    *)

LEMMA AccessIsApiStep == [AccessNext]_accessVars => [ApiNext]_apiVars
BY DEF AccessNext, ServeApi, ServeTools, ExchangeTokens, ApiNext, accessVars

LEMMA AccessIsGatewayStep == [AccessNext]_accessVars => [GatewayNext]_gatewayVars
BY DEF AccessNext, ServeApi, ServeTools, ExchangeTokens, accessVars

\* What is true of the identity API alone is true of it behind gateway and broker.
THEOREM SystemImplementsApi == AccessSpec => ApiSpec
<1>1. AccessInit => ApiInit
  BY DEF AccessInit
<1> QED BY <1>1, AccessIsApiStep, PTL DEF AccessSpec, ApiSpec

\* The gateway in the system is the gateway in some environment.
THEOREM SystemImplementsGateway == AccessSpec => GatewaySpec
<1>1. AccessInit => GatewayInit
  BY DEF AccessInit
<1> QED BY <1>1, AccessIsGatewayStep, PTL DEF AccessSpec, GatewaySpec

\* Behind gateway and broker, whatever their calls and exchanges do, the identity API
\* keeps its ledger of tokens and sessions, what it promises about revoked agents,
\* inactive blueprints and dead grants, and the rows of both registries.
THEOREM SystemKeepsApiPromises ==
  AccessSpec => /\ KeepsLedger
                /\ []EverySessionAttested
                /\ ShutAgentGetsNothing
                /\ ShutGrantBacksNothing
                /\ ShutBlueprintOpensNothing
                /\ []Registry!StampedStatus
                /\ Registry!StampsPermanent
                /\ Registry!SettledRevocationIsFinal
                /\ Registry!FreshCommitsFollowLifecycle
                /\ []BlueprintApi!SlugUnique
                /\ BlueprintApi!PutKeepsStatus
                /\ BlueprintApi!VersionsCountPuts
BY SystemImplementsApi, ApiKeepsLedger, AttestedSessions, ShutAgentStaysOut, ShutGrantsBackNothing,
   ShutBlueprintsOpenNothing, ApiStampsFollowStatus, ApiStampsNeverLost, ApiSettledIsFinal,
   OnlyStaleCommitsDepartInApi, ApiSlugsStayUnique, ApiPutsKeepStatus, ApiVersionsAreCounts, PTL

LEMMA AccessSessions == SessionInv /\ [AccessNext]_accessVars => SessionInv'
BY AccessIsApiStep, ApiSessions

LEMMA AccessGateway == GatewayInv /\ [AccessNext]_accessVars => GatewayInv'
BY AccessIsGatewayStep, GatewayStep

LEMMA AccessStart == AccessInit => SessionInv /\ AgentRows /\ GatewayInv
BY ApiStart, ApiRowsStart, GatewayStart DEF AccessInit

\* In the whole system, tools run only operations that the token's session holds
\* the scopes for.
THEOREM SystemRunsEntitled == AccessSpec => []RunsEntitled
BY SystemImplementsGateway, ToolRunsEntitled, PTL

\* In the whole system, the gateway's answers say what the tool did.
THEOREM SystemAnswersTrue == AccessSpec => []AnswersAreTrue
BY SystemImplementsGateway, GatewayAnswersTrue, PTL

-----------------------------------------------------------------------------
(* Credentials.  The foreign key is checked before the credential goes out,  *)
(* and sessions are never deleted.                                           *)

\* Sessions keep their rows, tokens stay out.
LEMMA SessionsGrow ==
  ASSUME SessionInv, [ApiNext]_apiVars
  PROVE  /\ \A id : Stored(id) => Stored(id)'
         /\ tokens \subseteq tokens'
<1>1. UNCHANGED <<sessions, tokens>> =>
        /\ \A id : Stored(id) => Stored(id)'
        /\ tokens \subseteq tokens'
  BY DEF Stored
<1>2. ASSUME NEW w \in SessionWorkers, CommitRevoke(w)
      PROVE  /\ \A id : Stored(id) => Stored(id)'
             /\ tokens \subseteq tokens'
  <2>1. \A t \in sessions : \E s \in sessions' : SameRow(s, t)
    BY <1>2, RevokeKeepsRows
  <2> QED BY <1>2, <2>1 DEF CommitRevoke, Stored, SameRow
<1>3. ASSUME NEW w \in SessionWorkers, Respond(w) \/ CommitSession(w)
      PROVE  /\ \A id : Stored(id) => Stored(id)'
             /\ tokens \subseteq tokens'
  BY <1>3 DEF Respond, CommitSession, Stored
<1>4. ASSUME SessionNext
      PROVE  /\ \A id : Stored(id) => Stored(id)'
             /\ tokens \subseteq tokens'
  BY <1>1, <1>2, <1>3, <1>4
  DEF SessionNext, AdvanceSession, BeginSession, BeginRevoke, FailSession, VerifyAttestation,
      FlushAttestation, FlushSession
<1> QED
  BY <1>1, <1>4
  DEF ApiNext, Administer, ManageBlueprints, ManageDelegations, ServeSessions, Tick, Restart,
      apiVars, tableVars, sessionVars

BrokerInv ==
  /\ DOMAIN exchanges = Exchangers
  /\ \A x \in Exchangers : exchanges[x].kind = "commit" => exchanges[x].lease \in credentials
  /\ CredentialNeedsSession

LEMMA BrokerStart == BrokerInit => BrokerInv
BY DEF BrokerInit, BrokerInv, NoExchange, CredentialNeedsSession

LEMMA BrokerStep ==
  ASSUME BrokerInv, BrokerNext, sessions' = sessions
  PROVE  BrokerInv'
<1>1. \A id : Stored(id)' = Stored(id)
  BY DEF Stored
<1>2. PICK x \in Exchangers :
        \/ \E id \in SessionIds : BeginExchange(x, id)
        \/ FlushLease(x) \/ CommitLease(x) \/ FailExchange(x)
  BY DEF BrokerNext
<1>3. CASE \E id \in SessionIds : BeginExchange(x, id)
  BY <1>1, <1>3 DEF BeginExchange, BrokerInv, CredentialNeedsSession
<1>4. CASE FlushLease(x)
  BY <1>1, <1>4 DEF FlushLease, HandOut, Close, NoExchange, BrokerInv, CredentialNeedsSession
<1>5. CASE CommitLease(x) \/ FailExchange(x)
  BY <1>1, <1>5 DEF CommitLease, FailExchange, Close, NoExchange, BrokerInv, CredentialNeedsSession
<1> QED BY <1>2, <1>3, <1>4, <1>5

LEMMA AccessBroker == SessionInv /\ BrokerInv /\ [AccessNext]_accessVars => BrokerInv'
<1> SUFFICES ASSUME SessionInv, BrokerInv, [AccessNext]_accessVars
             PROVE  BrokerInv'
  OBVIOUS
<1>1. ASSUME UNCHANGED brokerVars
      PROVE  BrokerInv'
  BY <1>1, AccessIsApiStep, SessionsGrow DEF brokerVars, BrokerInv, CredentialNeedsSession
<1>2. CASE ExchangeTokens
  BY <1>2, BrokerStep DEF ExchangeTokens, apiVars, tableVars
<1> QED BY <1>1, <1>2 DEF AccessNext, ServeApi, ServeTools, accessVars

\* No credential, and no lease, for a session that was never committed: whatever
\* ids callers invent, and whatever fails between provider, flush and commit.
THEOREM CredentialsNeedSessions == AccessSpec => []CredentialNeedsSession
<1>1. AccessInit => BrokerInv
  BY BrokerStart DEF AccessInit
<1>2. BrokerInv => CredentialNeedsSession
  BY DEF BrokerInv
<1> QED BY <1>1, <1>2, AccessStart, AccessSessions, AccessBroker, PTL DEF AccessSpec

-----------------------------------------------------------------------------
(* Revoked agents.  The token a call presents, the session it names and the *)
(* agent row that authorize reads belong to one agent: the chain from token *)
(* to row runs through four separate reads.                                  *)

\* What authorize looks up for a call is what the call's token names.
Follows(a, call) ==
  /\ call.kind # "none" => "token" \in DOMAIN call /\ call.token \in tokens
  /\ a.kind = "probe" => a.token = call.token
  /\ a.kind = "session" => a.id = call.token.id
  /\ a.kind = "agent" => a.agent = call.token.agent

AskInv == \A c \in Calls : Follows(authorizations[c], calls[c])

LEMMA AskStart == AccessInit => AskInv
BY DEF AccessInit, GatewayInit, AuthorizationInit, AskInv, Follows, NotAsked, NoCall

\* Tokens are never taken back, so the API cannot break the chain.
LEMMA AskWaits ==
  ASSUME SessionInv, AskInv, [ApiNext]_apiVars, UNCHANGED gatewayVars
  PROVE  AskInv'
<1>1. tokens \subseteq tokens'
  BY SessionsGrow
<1> QED BY <1>1 DEF AskInv, Follows, gatewayVars

\* A step of call c extends c's chain and leaves the others alone.
LEMMA AskOne ==
  ASSUME AskInv, NEW c \in Calls, UNCHANGED apiVars, OnlyCall(c),
         Follows(authorizations'[c], calls'[c])
  PROVE  AskInv'
<1>1. tokens' = tokens
  BY DEF apiVars
<1> QED BY <1>1 DEF AskInv, Follows, OnlyCall

\* Every step of a call concerns that call only.
LEMMA OnlyOneCall ==
  ASSUME GatewayInv, NEW c \in Calls,
         \/ \E t \in tokens, op \in CallOperations : ReceiveCall(c, t, op)
         \/ Authorize(c) /\ UNCHANGED <<calls, inTransit, runs>>
         \/ GatewayAdvances(c)
         \/ RunTool(c)
  PROVE  OnlyCall(c)
<1> USE DEF GatewayInv, OnlyCall
<1>1. ASSUME NEW t, NEW op, ReceiveCall(c, t, op)
      PROVE  OnlyCall(c)
  BY <1>1 DEF ReceiveCall, Refuse, Progress, Become
<1>2. ASSUME Authorize(c), UNCHANGED <<calls, inTransit, runs>>
      PROVE  OnlyCall(c)
  <2>1. CallInv(c)
    OBVIOUS
  <2>2. PICK a : Become(c, a)
    BY <1>2, <2>1, AuthorizeSound DEF CallInv, Consistent
  <2> QED BY <1>2, <2>2 DEF Become
<1>3. ASSUME GatewayAdvances(c)
      PROVE  OnlyCall(c)
  BY <1>3
  DEF GatewayAdvances, ActOnDecision, Forward, ClientLeaves, AuthorizationFails, Relay,
      ForwardingFails, Progress, Finish, Become
<1>4. ASSUME RunTool(c)
      PROVE  OnlyCall(c)
  BY <1>4 DEF RunTool
<1> QED BY <1>1, <1>2, <1>3, <1>4

LEMMA AskStep ==
  ASSUME SessionInv, GatewayInv, AskInv, GatewayNext, UNCHANGED apiVars
  PROVE  AskInv'
<1>1. ASSUME NEW c \in Calls, NEW t \in tokens, NEW op \in CallOperations, ReceiveCall(c, t, op)
      PROVE  AskInv'
  <2>1. authorizations[c].kind = "none"
    BY <1>1 DEF GatewayInv, CallInv, Consistent, ReceiveCall, NoCall
  <2>2. Follows(authorizations'[c], calls'[c])
    BY <1>1, <2>1 DEF GatewayInv, ReceiveCall, Refuse, Progress, Become, Pending, Follows
  <2> QED BY <1>1, <2>2, OnlyOneCall, AskOne
<1>2. ASSUME NEW c \in Calls, Authorize(c), UNCHANGED <<calls, inTransit, runs>>
      PROVE  AskInv'
  <2>1. /\ Follows(authorizations[c], calls[c]) /\ DOMAIN authorizations = Calls
        /\ calls'[c] = calls[c]
    BY <1>2 DEF AskInv, GatewayInv
  <2>2. ASSUME NEW adapter, ChooseAdapter(c, adapter)
        PROVE  Follows(authorizations'[c], calls[c])
    BY <2>1, <2>2 DEF ChooseAdapter, Become, Answer, Follows
  <2>3. ASSUME ReadSession(c)
        PROVE  Follows(authorizations'[c], calls[c])
    <3> DEFINE r == authorizations[c]
               found == {s \in sessions : s.id = r.id /\ Standing(s)}
    <3>1. CASE found = {}
      BY <2>1, <2>3, <3>1 DEF ReadSession, Become, Answer, Follows
    <3>2. CASE found # {}
      <4> PICK s : s = CHOOSE x \in found : TRUE
        OBVIOUS
      <4>1. s \in sessions /\ s.id = r.id
        BY <3>2
      <4>2. calls[c].token \in tokens /\ r.id = calls[c].token.id
        BY <2>1, <2>3 DEF Follows, ReadSession, GatewayInv, CallInv, Consistent
      <4>3. s.agent = calls[c].token.agent
        BY <4>1, <4>2 DEF SessionInv, StoredOK, Agree, Whole
      <4>4. authorizations'[c] = [kind |-> "agent", adapter |-> r.adapter, agent |-> s.agent,
                                  operation |-> r.operation]
        BY <2>1, <2>3, <3>2 DEF ReadSession, Become
      <4> QED BY <2>1, <4>3, <4>4 DEF Follows
    <3> QED BY <3>1, <3>2
  <2>4. ASSUME ReadAgent(c) \/ ReadBlueprint(c) \/ Evaluate(c)
        PROVE  Follows(authorizations'[c], calls[c])
    BY <2>1, <2>4 DEF ReadAgent, ReadBlueprint, Evaluate, Become, Answer, Follows
  <2>5. Follows(authorizations'[c], calls'[c])
    BY <1>2, <2>1, <2>2, <2>3, <2>4 DEF Authorize
  <2> QED BY <1>2, <2>5, OnlyOneCall, AskOne
<1>3. ASSUME NEW c \in Calls, GatewayAdvances(c) \/ RunTool(c)
      PROVE  AskInv'
  <2>1. Follows(authorizations[c], calls[c])
    BY DEF AskInv
  <2> DEFINE Keeps == /\ authorizations'[c] = authorizations[c] \/ authorizations'[c] = NotAsked
                      /\ calls[c].kind # "none" => /\ calls'[c].token = calls[c].token
                                                   /\ "token" \in DOMAIN calls'[c]
                      /\ calls[c].kind # "none" \/ calls'[c] = calls[c]
  <2>2. Keeps
    <3>1. ASSUME ActOnDecision(c) PROVE Keeps
      BY <2>1, <3>1 DEF GatewayInv, ActOnDecision, Authorized, Finish, Progress, Become, Follows
    <3>2. ASSUME Forward(c) \/ ClientLeaves(c) PROVE Keeps
      BY <2>1, <3>2 DEF GatewayInv, Forward, ClientLeaves, Finish, Progress, Become, Follows
    <3>3. ASSUME AuthorizationFails(c) PROVE Keeps
      BY <3>3 DEF GatewayInv, AuthorizationFails, Finish, Progress, Become
    <3>4. ASSUME Relay(c) \/ ForwardingFails(c) PROVE Keeps
      BY <3>4 DEF GatewayInv, Relay, ForwardingFails, Finish, Progress
    <3>5. ASSUME RunTool(c) PROVE Keeps
      BY <2>1, <3>5 DEF RunTool, Follows
    <3> QED BY <1>3, <3>1, <3>2, <3>3, <3>4, <3>5 DEF GatewayAdvances
  <2>3. Follows(authorizations'[c], calls'[c])
    BY <2>1, <2>2 DEF Follows, NotAsked
  <2> QED BY <1>3, <2>3, OnlyOneCall, AskOne
<1> QED BY <1>1, <1>2, <1>3 DEF GatewayNext

LEMMA AccessAsk == SessionInv /\ GatewayInv /\ AskInv /\ [AccessNext]_accessVars => AskInv'
<1> SUFFICES ASSUME SessionInv, GatewayInv, AskInv, [AccessNext]_accessVars
             PROVE  AskInv'
  OBVIOUS
<1>1. CASE ServeTools
  BY <1>1, AskStep DEF ServeTools
<1>2. CASE UNCHANGED gatewayVars
  BY <1>2, AskWaits, AccessIsApiStep
<1> QED BY <1>1, <1>2 DEF AccessNext, ServeApi, ExchangeTokens, accessVars

\* No adapter allows anything to an agent that was not active when its row was read.
LEMMA AllowNeedsActiveAgent ==
  ASSUME NEW r, NEW adapter, DecisionOf(adapter, InputOf(r)).allow
  PROVE  r.agentActive
<1>1. InputOf(r).agentActive = r.agentActive
  BY DEF InputOf
<1>2. CASE adapter = "opa"
  BY <1>1, <1>2 DEF DecisionOf, OpaDecision, RegoAllow
<1>3. CASE adapter # "opa"
  BY <1>1, <1>3 DEF DecisionOf, PythonDecision, Deny
<1> QED BY <1>2, <1>3

\* Whether a call of agent a may still run, from its authorization and the number
\* of its requests on their way to the tool server.
Past(au, n) ==
  \/ n > 0
  \/ au.kind \in {"blueprint", "evaluate"} /\ au.agentActive
  \/ au.kind = "answered" /\ au.decision = "allow"

LEMMA PastIsPastAgentCheck ==
  ASSUME NEW c, NEW a
  PROVE  /\ PastAgentCheck(c, a) <=>
              /\ calls[c].kind # "none" /\ calls[c].token.agent = a
              /\ Past(authorizations[c], inTransit[c])
         /\ PastAgentCheck(c, a)' <=>
              /\ calls'[c].kind # "none" /\ calls'[c].token.agent = a
              /\ Past(authorizations'[c], inTransit'[c])
BY DEF PastAgentCheck, Past

\* authorize takes no request of a revoked agent past the reading of its row.
LEMMA AuthorizeStops ==
  ASSUME GatewayInv, NEW c \in Calls, Follows(authorizations[c], calls[c]),
         Authorize(c), calls[c].kind # "none",
         agents[calls[c].token.agent].status = "revoked",
         ~Past(authorizations[c], inTransit[c])
  PROVE  ~Past(authorizations'[c], inTransit[c])
<1> DEFINE r == authorizations[c]
<1>1. DOMAIN authorizations = Calls /\ ~(inTransit[c] > 0)
  BY DEF GatewayInv, Past
<1>2. ASSUME NEW adapter, ChooseAdapter(c, adapter) \/ ReadSession(c)
      PROVE  ~Past(authorizations'[c], inTransit[c])
  BY <1>1, <1>2 DEF ChooseAdapter, ReadSession, Become, Answer, Past
<1>3. ASSUME ReadAgent(c)
      PROVE  ~Past(authorizations'[c], inTransit[c])
  <2>1. ~(agents[r.agent].status = "active")
    BY <1>3 DEF ReadAgent, Follows
  <2> QED BY <1>1, <1>3, <2>1 DEF ReadAgent, Become, Past
<1>4. ASSUME ReadBlueprint(c)
      PROVE  ~Past(authorizations'[c], inTransit[c])
  <2>1. ~r.agentActive
    BY <1>4 DEF ReadBlueprint, Past
  <2>2. authorizations'[c].kind = "evaluate" /\ authorizations'[c].agentActive = r.agentActive
    BY <1>1, <1>4 DEF ReadBlueprint, Become
  <2> QED BY <1>1, <2>1, <2>2 DEF Past
<1>5. ASSUME Evaluate(c)
      PROVE  ~Past(authorizations'[c], inTransit[c])
  <2>1. ~r.agentActive
    BY <1>5 DEF Evaluate, Past
  <2>2. ~DecisionOf(r.adapter, InputOf(r)).allow
    BY <2>1, AllowNeedsActiveAgent
  <2>3. Become(c, Answer("deny"))
    BY <1>5, <2>2 DEF Evaluate, OnOpaFailure
  <2> QED BY <1>1, <2>3 DEF Become, Answer, Past
<1> QED BY <1>2, <1>3, <1>4, <1>5 DEF Authorize

\* What a step of the gateway may do with call c once its agent is cut off.
Stopped(c, a) ==
  calls'[c].kind # "none" /\ calls'[c].token.agent = a =>
    ~Past(authorizations'[c], inTransit'[c]) /\ runs'[c] = runs[c]

LEMMA CutOffCall ==
  ASSUME GatewayInv, AskInv, GatewayNext, NEW a,
         agents[a].status = "revoked", \A c \in Calls : ~PastAgentCheck(c, a)
  PROVE  \A c \in Calls : Stopped(c, a)
<1>1. PICK c \in Calls :
        \/ \E t \in tokens, op \in CallOperations : ReceiveCall(c, t, op)
        \/ Authorize(c) /\ UNCHANGED <<calls, inTransit, runs>>
        \/ GatewayAdvances(c)
        \/ RunTool(c)
  BY DEF GatewayNext
<1>2. OnlyCall(c)
  BY <1>1, OnlyOneCall
<1>3. ASSUME NEW d \in Calls, d # c PROVE Stopped(d, a)
  BY <1>2, <1>3, PastIsPastAgentCheck DEF OnlyCall, Stopped
<1>4. /\ Follows(authorizations[c], calls[c]) /\ CallInv(c)
      /\ DOMAIN authorizations = Calls /\ DOMAIN calls = Calls
      /\ DOMAIN inTransit = Calls /\ DOMAIN runs = Calls
  BY DEF AskInv, GatewayInv
<1>5. calls[c].kind # "none" /\ calls[c].token.agent = a =>
        ~Past(authorizations[c], inTransit[c])
  BY PastIsPastAgentCheck
<1>6. ASSUME NEW t \in tokens, NEW op \in CallOperations, ReceiveCall(c, t, op)
      PROVE  Stopped(c, a)
  <2>1. authorizations[c].kind = "none" /\ inTransit[c] = 0
    BY <1>4, <1>6 DEF ReceiveCall, CallInv, Consistent, NoCall
  <2>2. /\ authorizations'[c].kind \in {"none", "probe"} /\ inTransit'[c] = 0
        /\ runs'[c] = runs[c]
    BY <1>4, <1>6, <2>1 DEF ReceiveCall, Refuse, Become
  <2> QED BY <2>2 DEF Stopped, Past
<1>7. ASSUME Authorize(c), UNCHANGED <<calls, inTransit, runs>>
      PROVE  Stopped(c, a)
  BY <1>4, <1>5, <1>7, AuthorizeStops DEF Stopped
<1>8. ASSUME GatewayAdvances(c)
      PROVE  Stopped(c, a)
  <2>1. ASSUME ActOnDecision(c)
        PROVE  Stopped(c, a)
    <3>1. /\ calls[c].kind # "none" /\ calls'[c].token = calls[c].token
          /\ runs' = runs /\ inTransit' = inTransit
      BY <1>4, <2>1 DEF ActOnDecision, Authorized, Progress, Finish, Follows
    <3>2. authorizations'[c] \in {authorizations[c], NotAsked}
      BY <1>4, <2>1 DEF ActOnDecision, Become
    <3> QED BY <1>5, <3>1, <3>2 DEF Stopped, Past, NotAsked
  <2>2. ASSUME Forward(c) \/ ClientLeaves(c)
        PROVE  Stopped(c, a)
    <3>1. /\ calls[c].kind # "none" /\ calls'[c].token = calls[c].token
          /\ runs' = runs
          /\ authorizations[c].kind = "answered" /\ authorizations[c].decision = "allow"
      BY <1>4, <2>2
      DEF Forward, ClientLeaves, Progress, Finish, Follows, CallInv, Consistent
    <3>2. Past(authorizations[c], inTransit[c])
      BY <3>1 DEF Past
    <3>3. authorizations'[c] = NotAsked
      BY <1>4, <2>2 DEF Forward, ClientLeaves, Become
    <3> QED BY <1>5, <3>1, <3>2, <3>3 DEF Stopped, Past, NotAsked
  <2>3. ASSUME AuthorizationFails(c)
        PROVE  Stopped(c, a)
    BY <1>4, <1>5, <2>3
    DEF AuthorizationFails, Finish, Progress, Become, Stopped, Past, NotAsked
  <2>4. ASSUME Relay(c) \/ ForwardingFails(c)
        PROVE  Stopped(c, a)
    BY <1>4, <1>5, <2>4 DEF Relay, ForwardingFails, Finish, Progress, Stopped
  <2> QED BY <1>8, <2>1, <2>2, <2>3, <2>4 DEF GatewayAdvances
<1>9. ASSUME RunTool(c)
      PROVE  Stopped(c, a)
  BY <1>4, <1>5, <1>9 DEF RunTool, Stopped, CallInv, Consistent, Past
<1> QED BY <1>1, <1>3, <1>6, <1>7, <1>8, <1>9

\* Only administrators' requests bear on whether a revocation has settled.
LEMMA AccessSettled ==
  ASSUME AgentRows, [AccessNext]_accessVars, NEW a \in Agents, Registry!Settled(a)
  PROVE  Registry!Settled(a)'
<1>1. ASSUME NEW w \in AdminWorkers, Administer(w)
      PROVE  Registry!Settled(a)'
  BY <1>1, HandleSettled DEF Administer
<1>2. ASSUME UNCHANGED <<agents, agentRequests>>
      PROVE  Registry!Settled(a)'
  BY <1>2 DEF Registry!Settled, Registry!Overwrites
<1> QED
  BY <1>1, <1>2
  DEF AccessNext, ServeApi, ServeTools, ExchangeTokens, ManageBlueprints, ServeSessions, Tick,
      accessVars, apiVars, tableVars, requestVars

LEMMA CutOffStep ==
  ASSUME GatewayInv, AskInv, AgentRows, [AccessNext]_accessVars,
         NEW a \in Agents, AgentCutOff(a)
  PROVE  /\ AgentCutOff(a)'
         /\ \A c \in Calls : calls'[c].kind # "none" /\ calls'[c].token.agent = a =>
              runs'[c] = runs[c]
<1>1. Registry!Settled(a) /\ \A c \in Calls : ~PastAgentCheck(c, a)
  BY DEF AgentCutOff
<1>2. agents[a].status = "revoked"
  BY <1>1 DEF Registry!Settled
<1>3. Registry!Settled(a)'
  BY <1>1, AccessSettled
<1>4. CASE ServeTools
  <2>1. \A c \in Calls : Stopped(c, a)
    BY <1>1, <1>2, <1>4, CutOffCall DEF ServeTools
  <2>2. \A c \in Calls : ~PastAgentCheck(c, a)'
    BY <2>1, PastIsPastAgentCheck DEF Stopped
  <2> QED BY <1>3, <2>1, <2>2 DEF AgentCutOff, Stopped
<1>5. CASE UNCHANGED gatewayVars
  <2>1. \A c \in Calls : ~PastAgentCheck(c, a)'
    BY <1>1, <1>5 DEF gatewayVars, PastAgentCheck
  <2> QED BY <1>3, <1>5, <2>1 DEF AgentCutOff, gatewayVars
<1> QED BY <1>4, <1>5 DEF AccessNext, ServeApi, ExchangeTokens, accessVars

\* A revoked agent runs no tool once the requests that overlapped its revocation
\* have drained: with whatever tokens, and however many calls are under way.
THEOREM CutOffAgentStaysOut == AccessSpec => CutOffAgentRunsNothing
<1>1. GatewayInv /\ AskInv /\ AgentRows /\ [AccessNext]_accessVars =>
        [\A a \in Agents : AgentCutOff(a) =>
           /\ AgentCutOff(a)'
           /\ \A c \in Calls : calls'[c].kind # "none" /\ calls'[c].token.agent = a =>
                runs'[c] = runs[c]]_accessVars
  BY CutOffStep
<1>2. AgentRows /\ [AccessNext]_accessVars => AgentRows'
  BY AccessIsApiStep, ApiRows
<1> QED
  BY <1>1, <1>2, AccessStart, AskStart, AccessSessions, AccessGateway, AccessAsk, PTL
  DEF AccessSpec, CutOffAgentRunsNothing

-----------------------------------------------------------------------------
(* Dead tokens.  A token is checked against the clock twice and against its  *)
(* session once; what has ended at that reading has ended for good.          *)

\* A session that ended stays ended; a token that was handed out gets no second row.
LEMMA StandingSession ==
  ASSUME SessionInv, TokenInv, SessionNext, NEW t \in tokens, WithoutStanding(t)
  PROVE  WithoutStanding(t)'
<1>1. PICK w \in SessionWorkers :
        \/ \E a \in Agents, e \in Evidence, d \in Delegations \cup {NoDelegation}, u \in RequestTtls :
             BeginSession(w, a, [evidence |-> e, delegation |-> d, ttl |-> u])
        \/ \E s \in sessions : BeginRevoke(w, s)
        \/ AdvanceSession(w)
        \/ FailSession(w)
  BY DEF SessionNext
<1> DEFINE r == sessionRequests[w]
           Coming(q) == q.kind = "commit" /\ q.row.id = t.id
<1>2. RequestOK(r) /\ ~Coming(NoSessionRequest)
  BY DEF SessionInv, NoSessionRequest
<1>3. ASSUME NEW q, Proceed(w, q), sessions' = sessions, ~Coming(r) => ~Coming(q)
      PROVE  WithoutStanding(t)'
  BY <1>3 DEF WithoutStanding, Stored, Proceed, SessionInv
<1>4. ASSUME NEW a, NEW ask, BeginSession(w, a, ask)
      PROVE  WithoutStanding(t)'
  BY <1>3, <1>4 DEF BeginSession
<1>5. ASSUME NEW s, BeginRevoke(w, s)
      PROVE  WithoutStanding(t)'
  BY <1>3, <1>5 DEF BeginRevoke
<1>6. ASSUME FailSession(w) \/ VerifyAttestation(w)
      PROVE  WithoutStanding(t)'
  BY <1>2, <1>3, <1>6 DEF FailSession, VerifyAttestation
<1>7. ASSUME FlushAttestation(w)
      PROVE  WithoutStanding(t)'
  <2>1. [r EXCEPT !.kind = "delegation"].kind # "commit"
    BY <1>2, <1>7 DEF RequestOK, IsRequest, FlushAttestation
  <2> QED BY <1>2, <1>3, <1>7, <2>1 DEF FlushAttestation
<1>8. ASSUME FlushSession(w)
      PROVE  WithoutStanding(t)'
  BY <1>2, <1>3, <1>8 DEF FlushSession
<1>9. ASSUME Respond(w)
      PROVE  WithoutStanding(t)'
  <2>1. [r EXCEPT !.kind = "commit"].row = r.row
    BY <1>2, <1>9 DEF Respond, RequestOK, IsRequest, Built
  <2>2. r.row.id # t.id
    BY <1>9 DEF Respond, TokenInv
  <2> QED BY <1>3, <1>9, <2>1, <2>2 DEF Respond
<1>10. ASSUME CommitSession(w)
       PROVE  WithoutStanding(t)'
  <2>1. CASE \E s \in sessions : s.id = t.id /\ s.revoked
    BY <1>10, <2>1 DEF CommitSession, WithoutStanding
  <2>2. CASE /\ ~Stored(t.id)
             /\ \A v \in SessionWorkers : ~Coming(sessionRequests[v])
    BY <1>2, <1>10, <2>2 DEF CommitSession, Proceed, SessionInv, Stored, WithoutStanding
  <2> QED BY <2>1, <2>2 DEF WithoutStanding
<1>11. ASSUME CommitRevoke(w)
       PROVE  WithoutStanding(t)'
  <2>1. \A s \in sessions : Revoked(s).id = s.id /\ Revoked(s).revoked
    <3> TAKE s \in sessions
    <3>1. IsRow(s)
      BY DEF SessionInv, StoredOK, RowOK
    <3>2. s \in [ id : {s.id}, agent : {s.agent}, delegation : {s.delegation}, nonce : {s.nonce},
                  issued : {s.issued}, expires : {s.expires}, revoked : {s.revoked} ]
      BY <3>1 DEF IsRow
    <3> QED BY <3>2 DEF Revoked
  <2>2. CASE \E s \in sessions : s.id = t.id /\ s.revoked
    BY <1>11, <2>1, <2>2 DEF CommitRevoke, WithoutStanding
  <2>3. CASE /\ ~Stored(t.id)
             /\ \A v \in SessionWorkers : ~Coming(sessionRequests[v])
    BY <1>2, <1>11, <2>1, <2>3 DEF CommitRevoke, Proceed, SessionInv, Stored, WithoutStanding
  <2> QED BY <2>2, <2>3 DEF WithoutStanding
<1> QED
  BY <1>1, <1>4, <1>5, <1>6, <1>7, <1>8, <1>9, <1>10, <1>11 DEF AdvanceSession

\* A session without standing answers 401.
LEMMA EndedSessionRefused ==
  ASSUME TokenInv, NEW t, WithoutStanding(t)
  PROVE  {s \in sessions : s.id = t.id /\ Standing(s)} = {}
BY DEF TokenInv, WithoutStanding, Stored, Standing

\* Token t cannot take authorization a, with n requests on the way, any further.
Refused(au, n, t) ==
  /\ ~(n > 0)
  /\ au.kind \notin {"agent", "blueprint", "evaluate"}
  /\ ~(au.kind = "answered" /\ au.decision = "allow")
  /\ au.kind = "session" => WithoutStanding(t)

LEMMA RefusedIsShut ==
  ASSUME NEW t
  PROVE  /\ TokenShut(t) <=>
              /\ WithoutStanding(t) \/ ~Valid(t)
              /\ \A c \in Calls : PresentedBy(c, t) => Refused(authorizations[c], inTransit[c], t)
         /\ TokenShut(t)' <=>
              /\ WithoutStanding(t)' \/ ~Valid(t)'
              /\ \A c \in Calls : PresentedBy(c, t)' => Refused(authorizations[c], inTransit[c], t)'
BY DEF TokenShut, PastSessionRead, Refused

\* authorize takes no request with a dead token past the reading of the session.
LEMMA AuthorizeRefuses ==
  ASSUME GatewayInv, TokenInv, NEW c \in Calls, Follows(authorizations[c], calls[c]),
         Authorize(c), calls[c].kind # "none",
         WithoutStanding(calls[c].token) \/ ~Valid(calls[c].token),
         Refused(authorizations[c], inTransit[c], calls[c].token)
  PROVE  Refused(authorizations'[c], inTransit[c], calls[c].token)
<1> DEFINE r == authorizations[c]
           t == calls[c].token
<1>1. DOMAIN authorizations = Calls
  BY DEF GatewayInv
<1>2. ASSUME NEW adapter, ChooseAdapter(c, adapter)
      PROVE  Refused(authorizations'[c], inTransit[c], t)
  <2>1. r.token = t
    BY <1>2 DEF ChooseAdapter, Follows
  <2> QED BY <1>1, <1>2, <2>1 DEF ChooseAdapter, Become, Answer, Refused
<1>3. ASSUME ReadSession(c)
      PROVE  Refused(authorizations'[c], inTransit[c], t)
  <2>1. r.id = t.id /\ WithoutStanding(t)
    BY <1>3 DEF ReadSession, Follows, Refused
  <2>2. {s \in sessions : s.id = r.id /\ Standing(s)} = {}
    BY <2>1, EndedSessionRefused
  <2>3. authorizations'[c] = Answer("unauthorized")
    BY <1>1, <1>3, <2>2 DEF ReadSession, Become
  <2> QED BY <2>3 DEF Answer, Refused
<1>4. ~ReadAgent(c) /\ ~ReadBlueprint(c) /\ ~Evaluate(c)
  BY DEF ReadAgent, ReadBlueprint, Evaluate, Refused
<1> QED BY <1>2, <1>3, <1>4 DEF Authorize

\* What a step of the gateway may do with call c once its token t is shut.
Unmoved(c, t) ==
  calls'[c].kind # "none" /\ calls'[c].token = t =>
    Refused(authorizations'[c], inTransit'[c], t) /\ runs'[c] = runs[c]

LEMMA ShutTokenCall ==
  ASSUME GatewayInv, AskInv, TokenInv, GatewayNext, NEW t, TokenShut(t)
  PROVE  \A c \in Calls : Unmoved(c, t)
<1>1. PICK c \in Calls :
        \/ \E u \in tokens, op \in CallOperations : ReceiveCall(c, u, op)
        \/ Authorize(c) /\ UNCHANGED <<calls, inTransit, runs>>
        \/ GatewayAdvances(c)
        \/ RunTool(c)
  BY DEF GatewayNext
<1>2. OnlyCall(c)
  BY <1>1, OnlyOneCall
<1>3. ASSUME NEW d \in Calls, d # c PROVE Unmoved(d, t)
  BY <1>2, <1>3, RefusedIsShut DEF OnlyCall, Unmoved, PresentedBy
<1>4. /\ Follows(authorizations[c], calls[c]) /\ CallInv(c)
      /\ DOMAIN authorizations = Calls /\ DOMAIN calls = Calls
      /\ DOMAIN inTransit = Calls /\ DOMAIN runs = Calls
  BY DEF AskInv, GatewayInv
<1>5. /\ calls[c].kind # "none" /\ calls[c].token = t => Refused(authorizations[c], inTransit[c], t)
      /\ WithoutStanding(t) \/ ~Valid(t)
  BY RefusedIsShut DEF PresentedBy
<1>6. ASSUME NEW u \in tokens, NEW op \in CallOperations, ReceiveCall(c, u, op)
      PROVE  Unmoved(c, t)
  <2>1. authorizations[c].kind = "none" /\ inTransit[c] = 0
    BY <1>4, <1>6 DEF ReceiveCall, CallInv, Consistent, NoCall
  <2>2. /\ authorizations'[c].kind \in {"none", "probe"} /\ inTransit'[c] = 0
        /\ runs'[c] = runs[c]
    BY <1>4, <1>6, <2>1 DEF ReceiveCall, Refuse, Become
  <2> QED BY <2>2 DEF Unmoved, Refused
<1>7. ASSUME Authorize(c), UNCHANGED <<calls, inTransit, runs>>
      PROVE  Unmoved(c, t)
  BY <1>4, <1>5, <1>7, AuthorizeRefuses DEF Unmoved
<1>8. ASSUME GatewayAdvances(c)
      PROVE  Unmoved(c, t)
  <2>1. ASSUME ActOnDecision(c)
        PROVE  Unmoved(c, t)
    <3>1. /\ calls[c].kind # "none" /\ calls'[c].token = calls[c].token
          /\ runs' = runs /\ inTransit' = inTransit
      BY <1>4, <2>1 DEF ActOnDecision, Authorized, Progress, Finish, Follows
    <3>2. authorizations'[c] \in {authorizations[c], NotAsked}
      BY <1>4, <2>1 DEF ActOnDecision, Become
    <3> QED BY <1>5, <3>1, <3>2 DEF Unmoved, Refused, NotAsked
  <2>2. ASSUME Forward(c) \/ ClientLeaves(c)
        PROVE  Unmoved(c, t)
    <3>1. /\ calls[c].kind # "none" /\ calls'[c].token = calls[c].token
          /\ runs' = runs
          /\ authorizations[c].kind = "answered" /\ authorizations[c].decision = "allow"
      BY <1>4, <2>2
      DEF Forward, ClientLeaves, Progress, Finish, Follows, CallInv, Consistent
    <3>2. ~Refused(authorizations[c], inTransit[c], t)
      BY <3>1 DEF Refused
    <3>3. authorizations'[c] = NotAsked
      BY <1>4, <2>2 DEF Forward, ClientLeaves, Become
    <3> QED BY <1>5, <3>1, <3>2, <3>3 DEF Unmoved, Refused, NotAsked
  <2>3. ASSUME AuthorizationFails(c)
        PROVE  Unmoved(c, t)
    BY <1>4, <1>5, <2>3
    DEF AuthorizationFails, Finish, Progress, Become, Unmoved, Refused, NotAsked
  <2>4. ASSUME Relay(c) \/ ForwardingFails(c)
        PROVE  Unmoved(c, t)
    BY <1>4, <1>5, <2>4 DEF Relay, ForwardingFails, Finish, Progress, Unmoved
  <2> QED BY <1>8, <2>1, <2>2, <2>3, <2>4 DEF GatewayAdvances
<1>9. ASSUME RunTool(c)
      PROVE  Unmoved(c, t)
  BY <1>4, <1>5, <1>9 DEF RunTool, Unmoved, CallInv, Consistent, Refused
<1> QED BY <1>1, <1>3, <1>6, <1>7, <1>8, <1>9

\* What has ended stays ended, whatever the API does.
LEMMA EndedStays ==
  ASSUME SessionInv, TokenInv, ServeApi, NEW t \in tokens, t.expires \in Int
  PROVE  /\ WithoutStanding(t) => WithoutStanding(t)'
         /\ ~Valid(t) => ~Valid(t)'
<1>1. UNCHANGED <<sessions, sessionRequests>> => WithoutStanding(t)' = WithoutStanding(t)
  BY DEF WithoutStanding, Stored
<1>2. SessionNext /\ WithoutStanding(t) => WithoutStanding(t)'
  BY StandingSession
<1>3. UNCHANGED now => Valid(t)' = Valid(t)
  BY DEF Valid
<1>4. Tick /\ ~Valid(t) => ~Valid(t)'
  BY DEF Tick, Valid, SessionInv
<1> QED
  BY <1>1, <1>2, <1>3, <1>4
  DEF ServeApi, Administer, ManageBlueprints, ServeSessions, Tick, tableVars, requestVars,
      sessionVars

LEMMA ShutTokenStep ==
  ASSUME SessionInv, TokenInv, GatewayInv, AskInv, ApiTypes, [AccessNext]_accessVars,
         NEW t \in tokens, TokenShut(t)
  PROVE  /\ TokenShut(t)'
         /\ \A c \in Calls : PresentedBy(c, t)' => runs'[c] = runs[c]
<1>1. t.expires \in Int
  BY DEF ApiTypes, SessionTypeOK, Token
<1>2. /\ WithoutStanding(t) \/ ~Valid(t)
      /\ \A c \in Calls : PresentedBy(c, t) => Refused(authorizations[c], inTransit[c], t)
  BY RefusedIsShut
<1>3. CASE ServeTools
  <2>1. \A c \in Calls : Unmoved(c, t)
    BY <1>3, ShutTokenCall DEF ServeTools
  <2>2. WithoutStanding(t)' = WithoutStanding(t) /\ Valid(t)' = Valid(t)
    BY <1>3 DEF ServeTools, apiVars, tableVars, requestVars, WithoutStanding, Stored, Valid
  <2>3. \A c \in Calls : PresentedBy(c, t)' => Refused(authorizations[c], inTransit[c], t)'
    BY <2>1, <2>2 DEF Unmoved, PresentedBy, Refused
  <2> QED BY <1>2, <2>1, <2>2, <2>3, RefusedIsShut DEF Unmoved, PresentedBy
<1>4. CASE ServeApi
  <2>1. /\ WithoutStanding(t) => WithoutStanding(t)'
        /\ ~Valid(t) => ~Valid(t)'
    BY <1>1, <1>4, EndedStays
  <2>2. UNCHANGED <<authorizations, calls, inTransit, runs>>
    BY <1>4 DEF ServeApi, gatewayVars
  <2>3. \A c \in Calls : PresentedBy(c, t)' => Refused(authorizations[c], inTransit[c], t)'
    BY <1>2, <2>1, <2>2 DEF PresentedBy, Refused
  <2> QED BY <1>2, <2>1, <2>2, <2>3, RefusedIsShut
<1>5. CASE UNCHANGED apiVars /\ UNCHANGED gatewayVars
  <2>1. UNCHANGED <<sessions, sessionRequests, now, authorizations, calls, inTransit, runs>>
    BY <1>5 DEF apiVars, tableVars, requestVars, gatewayVars
  <2>2. WithoutStanding(t)' = WithoutStanding(t) /\ Valid(t)' = Valid(t)
    BY <2>1 DEF WithoutStanding, Stored, Valid
  <2>3. \A c \in Calls : PresentedBy(c, t)' => Refused(authorizations[c], inTransit[c], t)'
    BY <1>2, <2>1, <2>2 DEF PresentedBy, Refused
  <2> QED BY <1>2, <2>1, <2>2, <2>3, RefusedIsShut
<1> QED BY <1>3, <1>4, <1>5 DEF AccessNext, ExchangeTokens, accessVars

\* A token that expired, whose session was revoked or was never committed, runs
\* nothing once the calls that overlapped its end have drained.
THEOREM DeadTokensStayOut == AccessSpec => DeadTokenRunsNothing
<1>1. SessionInv /\ TokenInv /\ GatewayInv /\ AskInv /\ ApiTypes /\ [AccessNext]_accessVars =>
        [\A t \in tokens : TokenShut(t) =>
           /\ TokenShut(t)'
           /\ \A c \in Calls : PresentedBy(c, t)' => runs'[c] = runs[c]]_accessVars
  BY ShutTokenStep
<1>2. AccessInit => TokenInv /\ ApiTypes
  BY TokenStart, ApiTypesStart DEF AccessInit, ApiInit
<1>3. SessionInv /\ TokenInv /\ [AccessNext]_accessVars => TokenInv'
  BY AccessIsApiStep, ApiTokens
<1>4. ApiTypes /\ [AccessNext]_accessVars => ApiTypes'
  BY AccessIsApiStep, ApiTypesStep
<1> QED
  BY <1>1, <1>2, <1>3, <1>4, AccessStart, AskStart, AccessSessions, AccessGateway, AccessAsk, PTL
  DEF AccessSpec, DeadTokenRunsNothing

-----------------------------------------------------------------------------
(* Inactive blueprints.  authorize reads the blueprint last, by the id in the*)
(* agent row it read before; no request moves an agent to another blueprint. *)

\* The blueprint that authorize looks up is the blueprint of the token's agent.
LooksUp(au, call) ==
  au.kind = "blueprint" => au.blueprint = agents[call.token.agent].blueprint

BlueprintAsked == \A c \in Calls : LooksUp(authorizations[c], calls[c])

LEMMA BlueprintAskedStep ==
  ASSUME GatewayInv, AskInv, ApiTypes, BoundInv, BlueprintAsked, [AccessNext]_accessVars
  PROVE  BlueprintAsked'
<1>1. Bound
  BY AccessIsApiStep, ApiBound
<1>2. ASSUME NEW c \in Calls, authorizations[c].kind # "none"
      PROVE  calls[c].token.agent \in Agents /\ calls[c].token \in tokens
  BY <1>2
  DEF GatewayInv, CallInv, Consistent, AskInv, Follows, ApiTypes, SessionTypeOK, Token
<1>3. CASE UNCHANGED gatewayVars
  <2>1. ASSUME NEW c \in Calls
        PROVE  LooksUp(authorizations[c], calls[c])'
    BY <1>1, <1>2, <1>3 DEF BlueprintAsked, LooksUp, gatewayVars, Bound
  <2> QED BY <1>3, <2>1 DEF BlueprintAsked
<1>4. CASE ServeTools
  <2>1. PICK c \in Calls :
          \/ \E t \in tokens, op \in CallOperations : ReceiveCall(c, t, op)
          \/ Authorize(c) /\ UNCHANGED <<calls, inTransit, runs>>
          \/ GatewayAdvances(c)
          \/ RunTool(c)
    BY <1>4 DEF ServeTools, GatewayNext
  <2>2. OnlyCall(c) /\ DOMAIN authorizations = Calls /\ agents' = agents
    BY <1>4, <2>1, OnlyOneCall DEF GatewayInv, ServeTools, apiVars, tableVars
  <2>3. LooksUp(authorizations[c], calls[c]) /\ Follows(authorizations[c], calls[c]) /\ CallInv(c)
    BY DEF BlueprintAsked, AskInv, GatewayInv
  <2>4. LooksUp(authorizations[c], calls[c])'
    <3>1. ASSUME NEW t, NEW op, ReceiveCall(c, t, op)
          PROVE  authorizations'[c].kind # "blueprint"
      <4>1. authorizations[c].kind = "none"
        BY <2>3, <3>1 DEF ReceiveCall, NoCall, CallInv, Consistent
      <4> QED BY <2>2, <3>1, <4>1 DEF ReceiveCall, Refuse, Become
    <3>2. ASSUME Authorize(c), UNCHANGED <<calls, inTransit, runs>>,
                 authorizations'[c].kind = "blueprint"
          PROVE  authorizations'[c].blueprint = agents[calls[c].token.agent].blueprint
      BY <2>2, <2>3, <3>2
      DEF Authorize, ChooseAdapter, ReadSession, ReadAgent, ReadBlueprint, Evaluate, Become,
          Answer, Follows
    <3>3. ASSUME GatewayAdvances(c) \/ RunTool(c), authorizations'[c].kind = "blueprint"
          PROVE  authorizations'[c] = authorizations[c] /\ calls'[c] = calls[c]
      BY <2>2, <2>3, <3>3
      DEF GatewayAdvances, ActOnDecision, Authorized, Forward, ClientLeaves, AuthorizationFails,
          Relay, ForwardingFails, RunTool, Finish, Progress, Become, NotAsked, CallInv, Consistent
    <3> QED BY <2>1, <2>2, <2>3, <3>1, <3>2, <3>3 DEF LooksUp
  <2> QED BY <2>2, <2>4 DEF BlueprintAsked, OnlyCall, LooksUp
<1> QED BY <1>3, <1>4 DEF AccessNext, ServeApi, ExchangeTokens, accessVars

\* No adapter allows anything under a blueprint that was not active when it was read.
LEMMA AllowNeedsActiveBlueprint ==
  ASSUME NEW r, NEW adapter, DecisionOf(adapter, InputOf(r)).allow
  PROVE  r.blueprintActive
<1>1. InputOf(r).blueprintActive = r.blueprintActive
  BY DEF InputOf
<1>2. CASE adapter = "opa"
  BY <1>1, <1>2 DEF DecisionOf, OpaDecision, RegoAllow
<1>3. CASE adapter # "opa"
  BY <1>1, <1>3 DEF DecisionOf, PythonDecision, Deny
<1> QED BY <1>2, <1>3

\* Whether a call may still run under its blueprint.
Through(au, n) ==
  \/ n > 0
  \/ au.kind = "evaluate" /\ au.blueprintActive
  \/ au.kind = "answered" /\ au.decision = "allow"

Under(call, b) == call.kind # "none" /\ agents[call.token.agent].blueprint = b

LEMMA ThroughIsPastBlueprintCheck ==
  ASSUME NEW c, NEW b
  PROVE  PastBlueprintCheck(c, b) <=> Under(calls[c], b) /\ Through(authorizations[c], inTransit[c])
BY DEF PastBlueprintCheck, Under, Through

LEMMA AuthorizeStopsUnder ==
  ASSUME GatewayInv, NEW c \in Calls, LooksUp(authorizations[c], calls[c]), Authorize(c),
         NEW b, Under(calls[c], b), blueprints[b].status # "active",
         ~Through(authorizations[c], inTransit[c])
  PROVE  ~Through(authorizations'[c], inTransit[c])
<1> DEFINE r == authorizations[c]
<1>1. DOMAIN authorizations = Calls /\ ~(inTransit[c] > 0)
  BY DEF GatewayInv, Through
<1>2. ASSUME NEW adapter, ChooseAdapter(c, adapter) \/ ReadSession(c) \/ ReadAgent(c)
      PROVE  ~Through(authorizations'[c], inTransit[c])
  BY <1>1, <1>2 DEF ChooseAdapter, ReadSession, ReadAgent, Become, Answer, Through
<1>3. ASSUME ReadBlueprint(c)
      PROVE  ~Through(authorizations'[c], inTransit[c])
  <2>1. r.blueprint = b
    BY <1>3 DEF ReadBlueprint, LooksUp, Under
  <2> QED BY <1>1, <1>3, <2>1 DEF ReadBlueprint, Become, Through
<1>4. ASSUME Evaluate(c)
      PROVE  ~Through(authorizations'[c], inTransit[c])
  <2>1. ~r.blueprintActive
    BY <1>4 DEF Evaluate, Through
  <2>2. ~DecisionOf(r.adapter, InputOf(r)).allow
    BY <2>1, AllowNeedsActiveBlueprint
  <2>3. Become(c, Answer("deny"))
    BY <1>4, <2>2 DEF Evaluate, OnOpaFailure
  <2> QED BY <1>1, <2>3 DEF Become, Answer, Through
<1> QED BY <1>2, <1>3, <1>4 DEF Authorize

\* What a step of the gateway may do with call c while its blueprint b is not active.
Withheld(c, b) ==
  Under(calls'[c], b) => ~Through(authorizations'[c], inTransit'[c]) /\ runs'[c] = runs[c]

LEMMA InactiveBlueprintCall ==
  ASSUME GatewayInv, AskInv, BlueprintAsked, GatewayNext, NEW b,
         blueprints[b].status # "active", \A c \in Calls : ~PastBlueprintCheck(c, b)
  PROVE  \A c \in Calls : Withheld(c, b)
<1>1. PICK c \in Calls :
        \/ \E t \in tokens, op \in CallOperations : ReceiveCall(c, t, op)
        \/ Authorize(c) /\ UNCHANGED <<calls, inTransit, runs>>
        \/ GatewayAdvances(c)
        \/ RunTool(c)
  BY DEF GatewayNext
<1>2. OnlyCall(c)
  BY <1>1, OnlyOneCall
<1>3. ASSUME NEW d \in Calls, d # c PROVE Withheld(d, b)
  BY <1>2, <1>3, ThroughIsPastBlueprintCheck DEF OnlyCall, Withheld
<1>4. /\ Follows(authorizations[c], calls[c]) /\ CallInv(c)
      /\ LooksUp(authorizations[c], calls[c])
      /\ DOMAIN authorizations = Calls /\ DOMAIN calls = Calls
      /\ DOMAIN inTransit = Calls /\ DOMAIN runs = Calls
  BY DEF AskInv, GatewayInv, BlueprintAsked
<1>5. Under(calls[c], b) => ~Through(authorizations[c], inTransit[c])
  BY ThroughIsPastBlueprintCheck
<1>6. ASSUME NEW t \in tokens, NEW op \in CallOperations, ReceiveCall(c, t, op)
      PROVE  Withheld(c, b)
  <2>1. authorizations[c].kind = "none" /\ inTransit[c] = 0
    BY <1>4, <1>6 DEF ReceiveCall, CallInv, Consistent, NoCall
  <2>2. /\ authorizations'[c].kind \in {"none", "probe"} /\ inTransit'[c] = 0
        /\ runs'[c] = runs[c]
    BY <1>4, <1>6, <2>1 DEF ReceiveCall, Refuse, Become
  <2> QED BY <2>2 DEF Withheld, Through
<1>7. ASSUME Authorize(c), UNCHANGED <<calls, inTransit, runs>>
      PROVE  Withheld(c, b)
  BY <1>4, <1>5, <1>7, AuthorizeStopsUnder DEF Withheld
<1>8. ASSUME GatewayAdvances(c)
      PROVE  Withheld(c, b)
  <2>1. ASSUME ActOnDecision(c)
        PROVE  Withheld(c, b)
    <3>1. /\ calls[c].kind # "none" /\ calls'[c].token = calls[c].token
          /\ runs' = runs /\ inTransit' = inTransit
      BY <1>4, <2>1 DEF ActOnDecision, Authorized, Progress, Finish, Follows
    <3>2. authorizations'[c] \in {authorizations[c], NotAsked}
      BY <1>4, <2>1 DEF ActOnDecision, Become
    <3> QED BY <1>5, <3>1, <3>2 DEF Withheld, Through, Under, NotAsked
  <2>2. ASSUME Forward(c) \/ ClientLeaves(c)
        PROVE  Withheld(c, b)
    <3>1. /\ calls[c].kind # "none" /\ calls'[c].token = calls[c].token
          /\ runs' = runs
          /\ authorizations[c].kind = "answered" /\ authorizations[c].decision = "allow"
      BY <1>4, <2>2
      DEF Forward, ClientLeaves, Progress, Finish, Follows, CallInv, Consistent
    <3>2. Through(authorizations[c], inTransit[c])
      BY <3>1 DEF Through
    <3>3. authorizations'[c] = NotAsked
      BY <1>4, <2>2 DEF Forward, ClientLeaves, Become
    <3> QED BY <1>5, <3>1, <3>2, <3>3 DEF Withheld, Through, Under, NotAsked
  <2>3. ASSUME AuthorizationFails(c)
        PROVE  Withheld(c, b)
    BY <1>4, <1>5, <2>3
    DEF AuthorizationFails, Finish, Progress, Become, Withheld, Under, Through, NotAsked
  <2>4. ASSUME Relay(c) \/ ForwardingFails(c)
        PROVE  Withheld(c, b)
    BY <1>4, <1>5, <2>4 DEF Relay, ForwardingFails, Finish, Progress, Withheld, Under
  <2> QED BY <1>8, <2>1, <2>2, <2>3, <2>4 DEF GatewayAdvances
<1>9. ASSUME RunTool(c)
      PROVE  Withheld(c, b)
  BY <1>4, <1>5, <1>9 DEF RunTool, Withheld, Under, CallInv, Consistent, Through
<1> QED BY <1>1, <1>3, <1>6, <1>7, <1>8, <1>9

LEMMA InactiveBlueprintStep ==
  ASSUME GatewayInv, AskInv, ApiTypes, BoundInv, BlueprintAsked, [AccessNext]_accessVars,
         NEW b \in Blueprints, blueprints[b].status # "active",
         \A c \in Calls : ~PastBlueprintCheck(c, b)
  PROVE  \A c \in Calls :
           /\ ~PastBlueprintCheck(c, b)'
           /\ calls'[c].kind # "none" /\ agents[calls'[c].token.agent].blueprint = b =>
                runs'[c] = runs[c]
<1>1. CASE ServeTools
  <2>1. \A c \in Calls : Withheld(c, b)
    BY <1>1, InactiveBlueprintCall DEF ServeTools
  <2>2. agents' = agents
    BY <1>1 DEF ServeTools, apiVars, tableVars
  <2>3. \A c \in Calls : ~PastBlueprintCheck(c, b)'
    BY <2>1, <2>2 DEF Withheld, Under, Through, PastBlueprintCheck
  <2> QED BY <2>1, <2>3 DEF Withheld, Under
<1>2. CASE UNCHANGED gatewayVars
  <2>1. Bound
    BY AccessIsApiStep, ApiBound
  <2>2. ASSUME NEW c \in Calls, PastBlueprintCheck(c, b)'
        PROVE  FALSE
    <3>1. calls[c].kind # "none" /\ UNCHANGED <<calls, authorizations, inTransit>>
      BY <1>2, <2>2 DEF PastBlueprintCheck, gatewayVars
    <3>2. calls[c].token.agent \in Agents
      BY <3>1 DEF AskInv, Follows, ApiTypes, SessionTypeOK, Token
    <3> QED BY <2>1, <2>2, <3>1, <3>2 DEF PastBlueprintCheck, Bound
  <2> QED BY <1>2, <2>2 DEF gatewayVars
<1> QED BY <1>1, <1>2 DEF AccessNext, ServeApi, ExchangeTokens, accessVars

\* A blueprint that is not active keeps all its agents from every tool, once the
\* calls that overlapped its deactivation have drained.
THEOREM InactiveBlueprintsRunNothing == AccessSpec => InactiveBlueprintRunsNothing
<1>1. GatewayInv /\ AskInv /\ ApiTypes /\ BoundInv /\ BlueprintAsked /\ [AccessNext]_accessVars =>
        [\A b \in Blueprints :
           /\ blueprints[b].status # "active"
           /\ \A w \in BlueprintWorkers :
                blueprintRequests[w].kind = "status" /\ blueprintRequests[w].blueprint = b =>
                  blueprintRequests[w].edited.status # "active"
           /\ \A c \in Calls : ~PastBlueprintCheck(c, b)
           => \A c \in Calls :
                /\ ~PastBlueprintCheck(c, b)'
                /\ calls'[c].kind # "none" /\ agents[calls'[c].token.agent].blueprint = b =>
                     runs'[c] = runs[c]]_accessVars
  BY InactiveBlueprintStep
<1>2. AccessInit => ApiTypes /\ BoundInv /\ BlueprintAsked
  BY ApiTypesStart, BoundStart
  DEF AccessInit, GatewayInit, AuthorizationInit, BlueprintAsked, LooksUp, NotAsked
<1>3. ApiTypes /\ [AccessNext]_accessVars => ApiTypes'
  BY AccessIsApiStep, ApiTypesStep
<1>4. BoundInv /\ ApiTypes /\ [AccessNext]_accessVars => BoundInv'
  BY AccessIsApiStep, ApiBound
<1>5. /\ GatewayInv /\ AskInv /\ ApiTypes /\ BoundInv /\ BlueprintAsked
      /\ [AccessNext]_accessVars
      => BlueprintAsked'
  BY BlueprintAskedStep
<1> QED
  BY <1>1, <1>2, <1>3, <1>4, <1>5, AccessStart, AskStart, AccessSessions, AccessGateway,
     AccessAsk, PTL
  DEF AccessSpec, InactiveBlueprintRunsNothing

-----------------------------------------------------------------------------
(* Types of the gateway and of the broker. *)

LEMMA NotAskedType == NotAsked \in Authorizing
BY DEF Authorizing

\* authorize keeps its progress well formed.
LEMMA AuthorizeTypes ==
  ASSUME ApiTypes, AuthorizationTypeOK, NEW c \in Calls, Authorize(c)
  PROVE  AuthorizationTypeOK'
<1> DEFINE r == authorizations[c]
<1>1. r \in Authorizing /\ DOMAIN authorizations = Calls
  BY DEF AuthorizationTypeOK
<1>2. ASSUME NEW q \in Authorizing, Become(c, q)
      PROVE  AuthorizationTypeOK'
  BY <1>2 DEF Become, AuthorizationTypeOK
<1>3. \A decision \in {"allow", "deny", "unauthorized"} : Answer(decision) \in Authorizing
  BY DEF Answer, Authorizing
<1>4. ASSUME NEW adapter \in Adapters, ChooseAdapter(c, adapter)
      PROVE  AuthorizationTypeOK'
  <2> DEFINE q == [kind |-> "session", adapter |-> adapter, id |-> r.token.id,
                   operation |-> r.operation]
  <2>1. r.token \in Token /\ r.operation \in STRING
    BY <1>1, <1>4 DEF ChooseAdapter, Authorizing, NotAsked
  <2>2. q \in Authorizing
    BY <2>1 DEF Authorizing, Token
  <2>3. Become(c, q) \/ Become(c, Answer("unauthorized"))
    BY <1>4 DEF ChooseAdapter
  <2> HIDE DEF q
  <2> QED BY <1>2, <1>3, <2>2, <2>3
<1>5. ASSUME ReadSession(c)
      PROVE  AuthorizationTypeOK'
  <2> DEFINE found == {s \in sessions : s.id = r.id /\ Standing(s)}
             q(s) == [kind |-> "agent", adapter |-> r.adapter, agent |-> s.agent,
                      operation |-> r.operation]
  <2>1. r.adapter \in Adapters /\ r.operation \in STRING
    BY <1>1, <1>5 DEF ReadSession, Authorizing, NotAsked
  <2>2. \A s \in sessions : s.agent \in Agents
    BY DEF ApiTypes, SessionTypeOK, SessionRow
  <2>3. \A s \in sessions : q(s) \in Authorizing
    BY <2>1, <2>2 DEF Authorizing
  <2>4. CASE found = {}
    BY <1>2, <1>3, <1>5, <2>4 DEF ReadSession
  <2>5. CASE found # {}
    <3>1. (CHOOSE s \in found : TRUE) \in sessions
      BY <2>5
    <3>2. Become(c, q(CHOOSE s \in found : TRUE))
      BY <1>5, <2>5 DEF ReadSession
    <3> HIDE DEF q, found
    <3> QED BY <1>2, <2>3, <3>1, <3>2
  <2> QED BY <2>4, <2>5
<1>6. ASSUME ReadAgent(c)
      PROVE  AuthorizationTypeOK'
  <2> DEFINE q == [kind |-> "blueprint", adapter |-> r.adapter,
                   blueprint |-> agents[r.agent].blueprint,
                   agentActive |-> agents[r.agent].status = "active",
                   operation |-> r.operation]
  <2>1. r.adapter \in Adapters /\ r.operation \in STRING /\ r.agent \in Agents
    BY <1>1, <1>6 DEF ReadAgent, Authorizing, NotAsked
  <2>2. agents[r.agent].blueprint \in Blueprints
    BY <2>1 DEF ApiTypes, AgentTypes
  <2>3. q \in Authorizing
    BY <2>1, <2>2 DEF Authorizing
  <2>4. Become(c, q)
    BY <1>6 DEF ReadAgent
  <2> HIDE DEF q
  <2> QED BY <1>2, <2>3, <2>4
<1>7. ASSUME ReadBlueprint(c)
      PROVE  AuthorizationTypeOK'
  <2> DEFINE q == [kind |-> "evaluate", adapter |-> r.adapter,
                   agentActive |-> r.agentActive,
                   blueprintActive |-> blueprints[r.blueprint].status = "active",
                   operation |-> r.operation]
  <2>1. r.adapter \in Adapters /\ r.operation \in STRING /\ r.agentActive \in BOOLEAN
    BY <1>1, <1>7 DEF ReadBlueprint, Authorizing, NotAsked
  <2>2. q \in Authorizing
    BY <2>1 DEF Authorizing
  <2>3. Become(c, q)
    BY <1>7 DEF ReadBlueprint
  <2> HIDE DEF q
  <2> QED BY <1>2, <2>2, <2>3
<1>8. ASSUME Evaluate(c)
      PROVE  AuthorizationTypeOK'
  BY <1>2, <1>3, <1>8 DEF Evaluate, OnOpaFailure
<1> QED BY <1>4, <1>5, <1>6, <1>7, <1>8 DEF Authorize

LEMMA GatewayTypes ==
  ASSUME ApiTypes, GatewayInv, AskInv, GatewayTypeOK, GatewayNext
  PROVE  GatewayTypeOK'
<1>1. PICK c \in Calls :
        \/ \E t \in tokens, op \in CallOperations : ReceiveCall(c, t, op)
        \/ Authorize(c) /\ UNCHANGED <<calls, inTransit, runs>>
        \/ GatewayAdvances(c)
        \/ RunTool(c)
  BY DEF GatewayNext
<1>2. /\ profile \in Profiles /\ authorizations \in [Calls -> Authorizing]
      /\ calls \in [Calls -> Call] /\ inTransit \in [Calls -> Nat] /\ runs \in [Calls -> Nat]
  BY DEF GatewayTypeOK, AuthorizationTypeOK
<1>3. calls[c] \in Call
  BY <1>2
<1>4. ASSUME NEW answer \in Answers, NEW t \in Token, NEW op \in CallOperations
      PROVE  [kind |-> "finished", token |-> t, operation |-> op, answer |-> answer] \in Call
  BY DEF Call
<1>5. ASSUME NEW answer \in Answers, Finish(c, answer),
             calls[c].kind \in {"authorizing", "reading", "forwarding"}
      PROVE  calls' \in [Calls -> Call]
  <2>1. calls[c].token \in Token /\ calls[c].operation \in CallOperations
    BY <1>3, <1>5 DEF Call, NoCall
  <2> QED BY <1>2, <1>4, <1>5, <2>1 DEF Finish, Progress
<1>6. ASSUME NEW t \in tokens, NEW op \in CallOperations, ReceiveCall(c, t, op)
      PROVE  GatewayTypeOK'
  <2>1. t \in Token /\ op \in STRING
    BY OperationAssumption DEF ApiTypes, SessionTypeOK
  <2>2. ASSUME NEW answer \in Answers, Refuse(c, t, op, answer)
        PROVE  GatewayTypeOK'
    BY <1>2, <1>4, <2>1, <2>2 DEF Refuse, Progress, GatewayTypeOK, AuthorizationTypeOK
  <2>3. ASSUME Progress(c, Pending("authorizing", t, op)),
               Become(c, [kind |-> "probe", token |-> t, operation |-> op]),
               UNCHANGED <<inTransit, runs>>
        PROVE  GatewayTypeOK'
    <3>1. Pending("authorizing", t, op) \in Call
      BY <2>1 DEF Pending, Call
    <3>2. [kind |-> "probe", token |-> t, operation |-> op] \in Authorizing
      BY <2>1 DEF Authorizing
    <3>3. calls' \in [Calls -> Call] /\ authorizations' \in [Calls -> Authorizing]
      BY <1>2, <2>3, <3>1, <3>2 DEF Progress, Become
    <3> QED BY <1>2, <2>3, <3>3 DEF Become, GatewayTypeOK, AuthorizationTypeOK
  <2> QED BY <1>6, <2>2, <2>3 DEF ReceiveCall, Answers
<1>7. ASSUME Authorize(c), UNCHANGED <<calls, inTransit, runs>>
      PROVE  GatewayTypeOK'
  BY <1>7, AuthorizeTypes DEF GatewayTypeOK
<1>8. ASSUME NEW kind \in {"reading", "forwarding"}, calls[c].kind \in {"authorizing", "reading"},
             Progress(c, [calls[c] EXCEPT !.kind = kind])
      PROVE  calls' \in [Calls -> Call]
  <2> DEFINE Waiting == [kind : {"authorizing", "reading", "forwarding"}, token : Token,
                         operation : CallOperations]
  <2>1. calls[c] \in Waiting
    BY <1>3, <1>8 DEF Call, NoCall
  <2>2. [calls[c] EXCEPT !.kind = kind] \in Waiting
    BY <1>8, <2>1
  <2>3. [calls[c] EXCEPT !.kind = kind] \in Call
    BY <2>2 DEF Call
  <2> QED BY <1>2, <1>8, <2>3 DEF Progress
<1>9. ASSUME ActOnDecision(c)
      PROVE  GatewayTypeOK'
  <2>1. /\ authorizations' \in [Calls -> Authorizing] /\ profile' \in Profiles
        /\ runs' \in [Calls -> Nat] /\ inTransit' \in [Calls -> Nat]
    BY <1>2, <1>9, NotAskedType DEF ActOnDecision, Become
  <2>2. calls[c].kind = "authorizing"
    BY <1>9 DEF ActOnDecision, Authorized
  <2>3. calls' \in [Calls -> Call]
    BY <1>5, <1>8, <1>9, <2>2 DEF ActOnDecision, Answers
  <2> QED BY <2>1, <2>3 DEF GatewayTypeOK, AuthorizationTypeOK
<1>10. ASSUME Forward(c) \/ ClientLeaves(c)
       PROVE  GatewayTypeOK'
  <2>1. /\ authorizations' \in [Calls -> Authorizing] /\ profile' \in Profiles
        /\ runs' \in [Calls -> Nat] /\ inTransit' \in [Calls -> Nat]
    BY <1>2, <1>10, NotAskedType DEF Forward, ClientLeaves, Become
  <2>2. calls' \in [Calls -> Call]
    BY <1>5, <1>8, <1>10 DEF Forward, ClientLeaves, Answers
  <2> QED BY <2>1, <2>2 DEF GatewayTypeOK, AuthorizationTypeOK
<1>11. ASSUME AuthorizationFails(c)
       PROVE  GatewayTypeOK'
  <2>1. authorizations' \in [Calls -> Authorizing] /\ profile' \in Profiles
    BY <1>2, <1>11, NotAskedType DEF AuthorizationFails, Become
  <2>2. calls' \in [Calls -> Call]
    BY <1>5, <1>11 DEF AuthorizationFails, Answers
  <2> QED BY <1>2, <1>11, <2>1, <2>2 DEF AuthorizationFails, GatewayTypeOK, AuthorizationTypeOK
<1>12. ASSUME Relay(c) \/ ForwardingFails(c)
       PROVE  GatewayTypeOK'
  <2>1. calls' \in [Calls -> Call]
    BY <1>5, <1>12 DEF Relay, ForwardingFails, Answers
  <2> QED BY <1>2, <1>12, <2>1 DEF Relay, ForwardingFails, GatewayTypeOK, AuthorizationTypeOK
<1>13. ASSUME RunTool(c)
       PROVE  GatewayTypeOK'
  BY <1>2, <1>13 DEF RunTool, GatewayTypeOK, AuthorizationTypeOK
<1> QED BY <1>1, <1>6, <1>7, <1>9, <1>10, <1>11, <1>12, <1>13 DEF GatewayAdvances

LEMMA BrokerTypes ==
  ASSUME now \in Int, BrokerTypeOK, BrokerNext
  PROVE  BrokerTypeOK'
<1>1. PICK x \in Exchangers :
        \/ \E id \in SessionIds : BeginExchange(x, id)
        \/ FlushLease(x) \/ CommitLease(x) \/ FailExchange(x)
  BY DEF BrokerNext
<1>2. NoExchange \in Exchange
  BY DEF Exchange
<1>3. exchanges[x].kind \in {"flush", "commit"} => exchanges[x].lease \in Lease
  BY DEF BrokerTypeOK, Exchange, NoExchange
<1>4. ASSUME NEW id \in SessionIds, BeginExchange(x, id)
      PROVE  BrokerTypeOK'
  <2>1. [session |-> id, issued |-> now, expires |-> now + LeaseTtl] \in Lease
    BY BrokerAssumption DEF Lease
  <2>2. [kind |-> "flush",
         lease |-> [session |-> id, issued |-> now, expires |-> now + LeaseTtl]] \in Exchange
    BY <2>1 DEF Exchange
  <2> QED BY <1>4, <2>2 DEF BeginExchange, BrokerTypeOK
<1>5. ASSUME FlushLease(x)
      PROVE  BrokerTypeOK'
  <2>1. [kind |-> "commit", lease |-> exchanges[x].lease] \in Exchange
    BY <1>3, <1>5 DEF FlushLease, Exchange
  <2> QED BY <1>2, <1>3, <1>5, <2>1 DEF FlushLease, HandOut, Close, BrokerTypeOK
<1>6. ASSUME CommitLease(x) \/ FailExchange(x)
      PROVE  BrokerTypeOK'
  BY <1>2, <1>3, <1>6 DEF CommitLease, FailExchange, Close, BrokerTypeOK
<1> QED BY <1>1, <1>4, <1>5, <1>6

LEMMA AccessTypesStep ==
  ASSUME SessionInv, ApiTypes, GatewayInv, AskInv, AccessTypeOK, [AccessNext]_accessVars
  PROVE  AccessTypeOK'
<1>1. UNCHANGED gatewayVars => GatewayTypeOK'
  BY DEF AccessTypeOK, gatewayVars, GatewayTypeOK, AuthorizationTypeOK
<1>2. UNCHANGED brokerVars => BrokerTypeOK'
  BY DEF AccessTypeOK, brokerVars, BrokerTypeOK
<1>3. ServeTools => GatewayTypeOK'
  BY GatewayTypes DEF AccessTypeOK, ServeTools
<1>4. ExchangeTokens => BrokerTypeOK'
  BY BrokerTypes DEF AccessTypeOK, ExchangeTokens, SessionInv
<1> QED
  BY <1>1, <1>2, <1>3, <1>4
  DEF AccessNext, ServeApi, ServeTools, ExchangeTokens, accessVars, AccessTypeOK

\* Calls, authorizations, exchanges, leases and credentials stay well formed.
THEOREM AccessTypes == AccessSpec => []AccessTypeOK
<1>1. AccessInit => ApiTypes /\ AccessTypeOK
  BY ApiTypesStart, NotAskedType
  DEF AccessInit, AccessTypeOK, GatewayInit, AuthorizationInit, GatewayTypeOK,
      AuthorizationTypeOK, Call, BrokerInit, BrokerTypeOK, Exchange
<1>2. ApiTypes /\ [AccessNext]_accessVars => ApiTypes'
  BY AccessIsApiStep, ApiTypesStep
<1> QED
  BY <1>1, <1>2, AccessTypesStep, AccessStart, AskStart, AccessSessions, AccessGateway,
     AccessAsk, PTL
  DEF AccessSpec
=============================================================================
