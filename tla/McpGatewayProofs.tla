--------------------------- MODULE McpGatewayProofs ----------------------------
(***************************************************************************)
(* Theorems about McpGateway for any number of calls, any operations and   *)
(* any deployment, and whatever the tables, tokens and clock do meanwhile. *)
(***************************************************************************)
EXTENDS McpGateway, TLAPS

\* The authorization is under way.
Asked == {"probe", "session", "agent", "blueprint", "evaluate"}

\* What authorize knows of a call: a is its progress, op the call's operation.
Sound(a, op) ==
  /\ a.kind \in Asked => a.operation = op
  /\ a.kind = "answered" /\ a.decision = "allow" => Entitled(op)

\* A call with its authorization a, and n requests on the way and m handled.
\* RunsEntitled and AnswersAreTrue are not inductive: what is forwarded next rests
\* on a decision made earlier, which must still be about this call's operation, and
\* which the gateway acts on once.
Consistent(a, call, n, m) ==
  /\ n \in Nat /\ m \in Nat
  /\ call.kind \in {"none", "authorizing", "reading", "forwarding", "finished"}
  /\ a.kind # "none" => call.kind \in {"authorizing", "reading"} /\ Sound(a, call.operation)
  /\ call.kind \in {"none", "authorizing", "reading"} => n + m = 0
  /\ call.kind = "reading" => a.kind = "answered" /\ a.decision = "allow"
  /\ call.kind = "forwarding" => n + m = 1
  /\ call.kind = "finished" =>
       /\ n + m <= 1
       /\ call.answer \in {"unauthorized", "denied", "gone"} => n + m = 0
       /\ call.answer \in {"relayed", "error"} => m = 1
  /\ n + m > 0 => Entitled(call.operation)

CallInv(c) == Consistent(authorizations[c], calls[c], inTransit[c], runs[c])

GatewayInv ==
  /\ DOMAIN authorizations = Calls /\ DOMAIN calls = Calls
  /\ DOMAIN inTransit = Calls /\ DOMAIN runs = Calls
  /\ \A c \in Calls : CallInv(c)

-----------------------------------------------------------------------------
(* The policies. *)

\* What either adapter allows, the session's scopes entitle to: the Rego policy
\* knows read operations only, the Python policy refuses writes to research agents
\* and wants the one scope the operation requires to survive.
LEMMA AllowedIsEntitled ==
  ASSUME NEW r, NEW adapter, DecisionOf(adapter, InputOf(r)).allow
  PROVE  Entitled(r.operation)
<1> DEFINE i == InputOf(r)
<1>1. /\ i.operation = r.operation /\ i.requested = profile.scopes
      /\ i.research = profile.research
  BY DEF InputOf
<1>2. CASE adapter = "opa"
  <2>1. RegoAllow(i)
    BY <1>2 DEF DecisionOf, OpaDecision
  <2>2. r.operation \in RegoOperations /\ RequiredScopes(r.operation) \subseteq profile.scopes
    BY <1>1, <2>1 DEF RegoAllow
  <2>3. r.operation \in Operations
    BY <2>2 DEF RegoOperations, Operations
  <2>4. RequiredScopes(r.operation) \cap WriteScopes = {}
    BY <2>2 DEF RegoOperations, RequiredScopes, WriteScopes
  <2> QED BY <2>2, <2>3, <2>4 DEF Entitled
<1>3. CASE adapter # "opa"
  <2>1. /\ i.operation \in Operations /\ ResearchOk(i)
        /\ PythonScopes(i) # {}
    BY <1>3 DEF DecisionOf, PythonDecision, Deny, Survives
  <2>2. PythonScopes(i) \subseteq i.requested \cap RequiredScopes(i.operation)
    BY DEF PythonScopes, UserLimited
  <2>3. \E s : RequiredScopes(i.operation) = {s}
    BY <2>1 DEF Operations, RequiredScopes
  <2>4. RequiredScopes(r.operation) \subseteq profile.scopes
    BY <1>1, <2>1, <2>2, <2>3
  <2> QED BY <1>1, <2>1, <2>4 DEF Entitled, ResearchOk
<1> QED BY <1>2, <1>3

\* The next await of authorize keeps to the operation it was asked about, and
\* ends in "allow" only for an operation the token's session is entitled to.
LEMMA AuthorizeSound ==
  ASSUME NEW c \in Calls, NEW op, authorizations[c].kind # "none" => Sound(authorizations[c], op),
         Authorize(c)
  PROVE  /\ authorizations[c].kind \in Asked
         /\ \E a : Become(c, a) /\ a.kind # "none" /\ Sound(a, op)
<1>1. ASSUME NEW adapter, ChooseAdapter(c, adapter)
      PROVE  authorizations[c].kind = "probe" /\ \E a : Become(c, a) /\ a.kind # "none" /\ Sound(a, op)
  BY <1>1 DEF ChooseAdapter, Sound, Asked, Answer
<1>2. ASSUME ReadSession(c)
      PROVE  authorizations[c].kind = "session" /\ \E a : Become(c, a) /\ a.kind # "none" /\ Sound(a, op)
  BY <1>2 DEF ReadSession, Sound, Asked, Answer
<1>3. ASSUME ReadAgent(c)
      PROVE  authorizations[c].kind = "agent" /\ \E a : Become(c, a) /\ a.kind # "none" /\ Sound(a, op)
  BY <1>3 DEF ReadAgent, Sound, Asked
<1>4. ASSUME ReadBlueprint(c)
      PROVE  authorizations[c].kind = "blueprint" /\ \E a : Become(c, a) /\ a.kind # "none" /\ Sound(a, op)
  BY <1>4 DEF ReadBlueprint, Sound, Asked
<1>5. ASSUME Evaluate(c)
      PROVE  authorizations[c].kind = "evaluate" /\ \E a : Become(c, a) /\ a.kind # "none" /\ Sound(a, op)
  <2> DEFINE r == authorizations[c]
  <2>1. r.kind = "evaluate" /\ r.operation = op
    BY <1>5 DEF Evaluate, Sound, Asked
  <2>2. CASE Become(c, Answer(IF DecisionOf(r.adapter, InputOf(r)).allow THEN "allow" ELSE "deny"))
    <3>1. CASE DecisionOf(r.adapter, InputOf(r)).allow
      <4>1. Entitled(op)
        BY <2>1, <3>1, AllowedIsEntitled
      <4>2. Sound(Answer("allow"), op) /\ Answer("allow").kind # "none"
        BY <4>1 DEF Sound, Answer, Asked
      <4> QED BY <2>1, <2>2, <3>1, <4>2
    <3>2. CASE ~DecisionOf(r.adapter, InputOf(r)).allow
      <4>1. Sound(Answer("deny"), op) /\ Answer("deny").kind # "none"
        BY DEF Sound, Answer, Asked
      <4> QED BY <2>1, <2>2, <3>2, <4>1
    <3> QED BY <3>1, <3>2
  <2>3. CASE Become(c, Answer(OnOpaFailure))
    <3>1. Sound(Answer(OnOpaFailure), op) /\ Answer(OnOpaFailure).kind # "none"
      BY DEF Sound, Answer, Asked, OnOpaFailure
    <3> QED BY <2>1, <2>3, <3>1
  <2> QED BY <1>5, <2>2, <2>3 DEF Evaluate
<1> QED BY <1>1, <1>2, <1>3, <1>4, <1>5 DEF Authorize, Asked

-----------------------------------------------------------------------------
(* The gateway. *)

\* A step of call c, which leaves the other calls and the deployment alone.
OnlyCall(c) ==
  /\ profile' = profile
  /\ DOMAIN authorizations' = Calls /\ DOMAIN calls' = Calls
  /\ DOMAIN inTransit' = Calls /\ DOMAIN runs' = Calls
  /\ \A d \in Calls \ {c} :
       /\ authorizations'[d] = authorizations[d] /\ calls'[d] = calls[d]
       /\ inTransit'[d] = inTransit[d] /\ runs'[d] = runs[d]

LEMMA OneCall ==
  ASSUME GatewayInv, NEW c \in Calls, OnlyCall(c), CallInv(c)'
  PROVE  GatewayInv'
<1>1. ASSUME NEW d \in Calls, d # c PROVE CallInv(d)'
  <2>1. CallInv(d)
    BY DEF GatewayInv
  <2> QED BY <1>1, <2>1 DEF CallInv, OnlyCall, Consistent, Sound, Entitled
<1> QED BY <1>1 DEF GatewayInv, OnlyCall

LEMMA GatewayStart == GatewayInit => GatewayInv
BY DEF GatewayInit, AuthorizationInit, GatewayInv, CallInv, Consistent, NotAsked, NoCall

LEMMA GatewayStep == GatewayInv /\ [GatewayNext]_gatewayVars => GatewayInv'
<1> SUFFICES ASSUME GatewayInv, [GatewayNext]_gatewayVars
             PROVE  GatewayInv'
  OBVIOUS
<1> USE DEF GatewayInv
<1>1. ASSUME NEW c \in Calls, NEW t, NEW op, ReceiveCall(c, t, op)
      PROVE  GatewayInv'
  <2>1. Consistent(authorizations[c], NoCall, inTransit[c], runs[c])
    BY <1>1 DEF CallInv, ReceiveCall
  <2>2. OnlyCall(c)
    BY <1>1 DEF ReceiveCall, Refuse, Progress, Become, OnlyCall
  <2>3. ASSUME \E answer \in {"unauthorized", "denied"} : Refuse(c, t, op, answer)
        PROVE  CallInv(c)'
    BY <2>1, <2>3 DEF CallInv, Consistent, Refuse, Progress, NoCall
  <2>4. ASSUME Progress(c, Pending("authorizing", t, op)),
               Become(c, [kind |-> "probe", token |-> t, operation |-> op]),
               UNCHANGED <<inTransit, runs>>
        PROVE  CallInv(c)'
    BY <2>1, <2>4 DEF CallInv, Consistent, Sound, Asked, Progress, Become, Pending, NoCall
  <2>5. CallInv(c)'
    BY <1>1, <2>3, <2>4 DEF ReceiveCall
  <2> QED BY <2>2, <2>5, OneCall
<1>2. ASSUME NEW c \in Calls, Authorize(c), UNCHANGED <<calls, inTransit, runs>>
      PROVE  GatewayInv'
  <2>1. CallInv(c)
    OBVIOUS
  <2>2. PICK a : Become(c, a) /\ a.kind # "none" /\ Sound(a, calls[c].operation)
    BY <1>2, <2>1, AuthorizeSound DEF CallInv, Consistent
  <2>3. authorizations[c].kind \in Asked
    BY <1>2, <2>1, AuthorizeSound DEF CallInv, Consistent
  <2>4. OnlyCall(c)
    BY <1>2, <2>2 DEF Become, OnlyCall
  <2>5. CallInv(c)'
    BY <1>2, <2>1, <2>2, <2>3 DEF CallInv, Consistent, Sound, Asked, Entitled, Become
  <2> QED BY <2>4, <2>5, OneCall
<1>3. ASSUME NEW c \in Calls, ActOnDecision(c)
      PROVE  GatewayInv'
  <2>1. CallInv(c)
    OBVIOUS
  <2>2. OnlyCall(c)
    BY <1>3 DEF ActOnDecision, Progress, Finish, Become, OnlyCall
  <2>3. calls[c].kind = "authorizing" /\ authorizations[c].kind = "answered"
        /\ inTransit[c] = 0 /\ runs[c] = 0
    BY <1>3, <2>1 DEF ActOnDecision, Authorized, CallInv, Consistent
  <2>4. ASSUME Permitted(authorizations[c].decision)
        PROVE  CallInv(c)'
    <3>1. /\ calls'[c] = [calls[c] EXCEPT !.kind = "reading"]
          /\ UNCHANGED <<profile, authorizations, inTransit, runs>>
      BY <1>3, <2>4 DEF ActOnDecision, Progress
    <3> QED BY <2>1, <2>3, <2>4, <3>1 DEF CallInv, Consistent, Sound, Permitted, Asked, Entitled
  <2>5. ASSUME ~Permitted(authorizations[c].decision)
        PROVE  CallInv(c)'
    BY <1>3, <2>3, <2>5 DEF ActOnDecision, Finish, Progress, Become, CallInv, Consistent, NotAsked
  <2>6. CallInv(c)'
    BY <2>4, <2>5
  <2> QED BY <2>2, <2>6, OneCall
<1>4. ASSUME NEW c \in Calls, Forward(c)
      PROVE  GatewayInv'
  <2>1. CallInv(c)
    OBVIOUS
  <2>2. OnlyCall(c)
    BY <1>4 DEF Forward, Progress, Become, OnlyCall
  <2>3. /\ inTransit[c] = 0 /\ runs[c] = 0
        /\ Entitled(calls[c].operation)
    BY <1>4, <2>1 DEF Forward, CallInv, Consistent, Sound
  <2>4. /\ calls'[c] = [calls[c] EXCEPT !.kind = "forwarding"]
        /\ inTransit'[c] = 1 /\ runs'[c] = 0 /\ authorizations'[c] = NotAsked
        /\ profile' = profile
    BY <1>4, <2>3 DEF Forward, Progress, Become
  <2>5. CallInv(c)'
    BY <2>3, <2>4 DEF CallInv, Consistent, NotAsked, Entitled
  <2> QED BY <2>2, <2>5, OneCall
<1>5. ASSUME NEW c \in Calls, ClientLeaves(c)
      PROVE  GatewayInv'
  <2>1. CallInv(c)
    OBVIOUS
  <2>2. OnlyCall(c)
    BY <1>5 DEF ClientLeaves, Finish, Progress, Become, OnlyCall
  <2>3. CallInv(c)'
    BY <1>5, <2>1 DEF ClientLeaves, Finish, Progress, Become, CallInv, Consistent, NotAsked
  <2> QED BY <2>2, <2>3, OneCall
<1>6. ASSUME NEW c \in Calls, AuthorizationFails(c)
      PROVE  GatewayInv'
  <2>1. CallInv(c)
    OBVIOUS
  <2>2. OnlyCall(c)
    BY <1>6 DEF AuthorizationFails, Finish, Progress, Become, OnlyCall
  <2>3. CallInv(c)'
    BY <1>6, <2>1 DEF AuthorizationFails, Finish, Progress, Become, CallInv, Consistent, NotAsked
  <2> QED BY <2>2, <2>3, OneCall
<1>7. ASSUME NEW c \in Calls, Relay(c) \/ ForwardingFails(c)
      PROVE  GatewayInv'
  <2>1. CallInv(c)
    OBVIOUS
  <2>2. OnlyCall(c)
    BY <1>7 DEF Relay, ForwardingFails, Finish, Progress, OnlyCall
  <2>3. /\ inTransit[c] \in Nat /\ runs[c] \in Nat /\ inTransit[c] + runs[c] = 1
        /\ authorizations[c].kind = "none"
        /\ Entitled(calls[c].operation)
    BY <1>7, <2>1 DEF Relay, ForwardingFails, CallInv, Consistent
  <2>4. /\ UNCHANGED <<profile, authorizations, inTransit, runs>>
        /\ calls'[c].kind = "finished" /\ calls'[c].operation = calls[c].operation
        /\ \/ calls'[c].answer \in {"relayed", "error"} /\ runs[c] > 0
           \/ calls'[c].answer = "unavailable"
    BY <1>7 DEF Relay, ForwardingFails, Finish, Progress
  <2>5. Entitled(calls[c].operation)'
    BY <2>3, <2>4 DEF Entitled
  <2>6. runs[c] > 0 => inTransit[c] + runs[c] = 1 /\ runs[c] = 1
    BY <2>3
  <2>7. CallInv(c)'
    BY <2>3, <2>4, <2>5, <2>6 DEF CallInv, Consistent
  <2> QED BY <2>2, <2>7, OneCall
<1>8. ASSUME NEW c \in Calls, RunTool(c)
      PROVE  GatewayInv'
  <2>1. CallInv(c)
    OBVIOUS
  <2>2. OnlyCall(c)
    BY <1>8 DEF RunTool, OnlyCall
  <2>3. CallInv(c)'
    BY <1>8, <2>1 DEF RunTool, CallInv, Consistent, Sound, Entitled
  <2> QED BY <2>2, <2>3, OneCall
<1>9. CASE UNCHANGED gatewayVars
  BY <1>9 DEF gatewayVars, CallInv, Consistent, Sound, Entitled
<1> QED
  BY <1>1, <1>2, <1>3, <1>4, <1>5, <1>6, <1>7, <1>8, <1>9 DEF GatewayNext, GatewayAdvances

\* A tool handles a request only if the token's session holds the scopes that the
\* operation requires, whichever adapter decided, however calls interleave and
\* whichever exchange fails, for every table of operations clients may name.
THEOREM ToolRunsEntitled == GatewaySpec => []RunsEntitled
<1>1. GatewayInv => RunsEntitled
  BY DEF GatewayInv, CallInv, Consistent, RunsEntitled, Forwarded
<1> QED BY <1>1, GatewayStart, GatewayStep, PTL DEF GatewaySpec

\* A refusal, or a client that leaves early, means the tool never sees the call; its
\* own response, and a 500, that it handled it once; anything else at most once: late
\* answers and timeouts included.
THEOREM GatewayAnswersTrue == GatewaySpec => []AnswersAreTrue
<1>1. GatewayInv => AnswersAreTrue
  BY DEF GatewayInv, CallInv, Consistent, AnswersAreTrue, Forwarded
<1> QED BY <1>1, GatewayStart, GatewayStep, PTL DEF GatewaySpec
=============================================================================
