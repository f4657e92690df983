------------------------------ MODULE McpGateway -------------------------------
(***************************************************************************)
(* The MCP gateway (apps/mcp_gateway): a tool call presents a session      *)
(* token; the gateway validates it, looks the operation up in its own tool *)
(* registry, asks the identity API, reads the rest of the client's request *)
(* and forwards what is allowed to the tool server, once.  Either HTTP     *)
(* exchange may fail or time out (httpx allows 10 s and 30 s for each phase*)
(* of it, not for the whole); the tool may then still receive the request, *)
(* and run it later.  The client sends its body as slowly as it likes: no  *)
(* timer bounds the time between the decision and the forwarding.          *)
(*                                                                         *)
(* An authorization the gateway has stopped waiting for writes nothing and *)
(* its answer goes nowhere, so it is dropped here.                         *)
(***************************************************************************)
EXTENDS Authorization

CONSTANT CallOperations    \* the operations that clients name
ASSUME OperationAssumption == CallOperations \subseteq STRING

VARIABLES
  calls,       \* each call, as the gateway sees it
  inTransit,   \* requests forwarded for the call that the tool server has not handled
  runs         \* how often the tool server has handled the call

gatewayVars == <<profile, authorizations, calls, inTransit, runs>>

\* TOOL_MAPPINGS
GatewayOperations == Operations \cup UnknownOperations

NoCall == [kind |-> "none"]

\* The tool's own, 401, 403, 502, 500; and none, to a client that has gone.
Answers == {"relayed", "unauthorized", "denied", "unavailable", "error", "gone"}

Call ==
  {NoCall}
    \cup [kind : {"authorizing", "reading", "forwarding"}, token : Token, operation : CallOperations]
    \cup [kind : {"finished"}, token : Token, operation : CallOperations, answer : Answers]

GatewayTypeOK ==
  /\ AuthorizationTypeOK
  /\ calls \in [Calls -> Call]
  /\ inTransit \in [Calls -> Nat]
  /\ runs \in [Calls -> Nat]

GatewayInit ==
  /\ AuthorizationInit
  /\ calls = [c \in Calls |-> NoCall]
  /\ inTransit = [c \in Calls |-> 0]
  /\ runs = [c \in Calls |-> 0]

Progress(c, call) == calls' = [calls EXCEPT ![c] = call]

Pending(kind, t, op) == [kind |-> kind, token |-> t, operation |-> op]

Finish(c, answer) ==
  Progress(c, [kind |-> "finished", token |-> calls[c].token,
               operation |-> calls[c].operation, answer |-> answer])

Refuse(c, t, op, answer) ==
  /\ Progress(c, [kind |-> "finished", token |-> t, operation |-> op, answer |-> answer])
  /\ UNCHANGED <<profile, authorizations, inTransit, runs>>

-----------------------------------------------------------------------------
\* authenticate, and the look-up at the head of authorize: 401, 403, or the
\* request to /v1/authorize goes out.
ReceiveCall(c, t, op) ==
  /\ calls[c] = NoCall
  /\ \/ ~Valid(t) /\ Refuse(c, t, op, "unauthorized")
     \/ Valid(t) /\ op \notin GatewayOperations /\ Refuse(c, t, op, "denied")
     \/ /\ Valid(t)
        /\ op \in GatewayOperations
        /\ Progress(c, Pending("authorizing", t, op))
        /\ Become(c, [kind |-> "probe", token |-> t, operation |-> op])
        /\ UNCHANGED <<inTransit, runs>>

Authorized(c) == calls[c].kind = "authorizing" /\ authorizations[c].kind = "answered"

PermittedUnless401(decision) == decision # "unauthorized"
\* main.py 66
Permitted(decision) == decision = "allow"

\* The decision arrives: the call is refused (a 401 of the identity API is passed
\* on), or the gateway, with the decision in hand, awaits the body of the request.
ActOnDecision(c) ==
  /\ Authorized(c)
  /\ LET decision == authorizations[c].decision
     IN  IF Permitted(decision)
           THEN /\ Progress(c, [calls[c] EXCEPT !.kind = "reading"])
                /\ UNCHANGED <<profile, authorizations>>
           ELSE /\ Finish(c, IF decision = "deny" THEN "denied" ELSE "unauthorized")
                /\ Become(c, NotAsked)
  /\ UNCHANGED <<inTransit, runs>>

\* The body is complete, and the request goes out to the tool server.  What its headers
\* and body say decides nothing; the token is taken out, and no credential put
\* in: authorize returns none.
Forward(c) ==
  /\ calls[c].kind = "reading"
  /\ Progress(c, [calls[c] EXCEPT !.kind = "forwarding"])
  /\ inTransit' = [inTransit EXCEPT ![c] = @ + 1]
  /\ Become(c, NotAsked)
  /\ UNCHANGED runs

\* The client goes before its body is complete: request.body() raises.
ClientLeaves(c) ==
  /\ calls[c].kind = "reading"
  /\ Finish(c, "gone")
  /\ Become(c, NotAsked)
  /\ UNCHANGED <<inTransit, runs>>

\* httpx.HTTPError, a timeout among them, or a 5xx of the identity API.
AuthorizationFails(c) ==
  /\ calls[c].kind = "authorizing"
  /\ Finish(c, "unavailable")
  /\ Become(c, NotAsked)
  /\ UNCHANGED <<inTransit, runs>>

\* The tool server handles a request, whether the gateway still waits or not.
RunTool(c) ==
  /\ inTransit[c] > 0
  /\ inTransit' = [inTransit EXCEPT ![c] = @ - 1]
  /\ runs' = [runs EXCEPT ![c] = @ + 1]
  /\ UNCHANGED <<profile, authorizations, calls>>

\* The tool server's response, whatever its status, is passed on; one that calls
\* itself JSON and is not makes response.json() raise.
Relay(c) ==
  /\ calls[c].kind = "forwarding"
  /\ runs[c] > 0
  /\ \E answer \in {"relayed", "error"} : Finish(c, answer)
  /\ UNCHANGED <<profile, authorizations, inTransit, runs>>

ForwardAgain(c) ==
  /\ calls[c].kind = "forwarding"
  /\ IF inTransit[c] + runs[c] < 2
       THEN inTransit' = [inTransit EXCEPT ![c] = @ + 1] /\ UNCHANGED calls
       ELSE Finish(c, "unavailable") /\ UNCHANGED inTransit
  /\ UNCHANGED <<profile, authorizations, runs>>

\* httpx.HTTPError, a timeout among them.
ForwardingFails(c) ==
  /\ calls[c].kind = "forwarding"
  /\ Finish(c, "unavailable")
  /\ UNCHANGED <<profile, authorizations, inTransit, runs>>

\* What the gateway's own event loop does next.
GatewayAdvances(c) ==
  \/ ActOnDecision(c)
  \/ Forward(c)
  \/ ClientLeaves(c)
  \/ AuthorizationFails(c)
  \/ Relay(c)
  \/ ForwardingFails(c)

GatewayNext ==
  \E c \in Calls :
    \/ \E t \in tokens, op \in CallOperations : ReceiveCall(c, t, op)
    \/ Authorize(c) /\ UNCHANGED <<calls, inTransit, runs>>
    \/ GatewayAdvances(c)
    \/ RunTool(c)

\* The gateway in any environment: the tables, tokens and clock are not its own.
GatewaySpec == GatewayInit /\ [][GatewayNext]_gatewayVars

-----------------------------------------------------------------------------
(* Properties. *)

\* What runs, or is on its way to the tool server, for call c.
Forwarded(c) == inTransit[c] + runs[c]

Entitled(op) ==
  /\ op \in Operations
  /\ RequiredScopes(op) \subseteq profile.scopes
  /\ profile.research => RequiredScopes(op) \cap WriteScopes = {}

\* A tool handles a request only if the token's session holds every scope the
\* operation requires, both tool tables know the operation, and it is no write
\* of a research agent: whichever adapter decided, and however OPA failed.
RunsEntitled ==
  \A c \in Calls : Forwarded(c) > 0 => Entitled(calls[c].operation)

\* The answer tells the client what happened: a refusal, or a client that left early,
\* means the tool never saw the call; the tool's own response and a 500 that it
\* handled it once; a 502 that it handled it at most once.  Not even a retry inside
\* the gateway is hidden.
AnswersAreTrue ==
  \A c \in Calls :
    /\ Forwarded(c) <= 1
    /\ calls[c].kind = "finished" =>
         /\ calls[c].answer \in {"unauthorized", "denied", "gone"} => Forwarded(c) = 0
         /\ calls[c].answer \in {"relayed", "error"} => runs[c] = 1
=============================================================================
