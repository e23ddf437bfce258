------------------------------- MODULE Gateway ------------------------------
(***************************************************************************)
(* A caller's request at the two doors of the system: the frontend of the    *)
(* hub, behind which a tether repeats it to the engine, and the standalone   *)
(* proxy beside an engine.  What is decided, in which order, and which       *)
(* header fields and which status cross each hop.  A process first checks    *)
(* its environment.  The doors keep no state between requests, so one        *)
(* request is followed; its bytes and the loss of a session are the modules  *)
(* StreamState and Tunnel, the choice of a session is Registry.              *)
(***************************************************************************)
EXTENDS Integers, Headers

CONSTANTS
    PlainFields,   \* end-to-end fields of callers and of the engine
    Statuses,      \* what the engine answers with
    Upstreams      \* upstream authorities an operator may configure

VARIABLES
    door,      \* "frontend" or "proxy"
    env,       \* the environment the processes are started in
    phase,     \* where the request is
    request,   \* the head the caller sent
    crossing,  \* the head on its way
    atEngine,  \* the head the engine was sent
    answer,    \* the head the engine answered with
    result     \* the head the caller is given

gatewayVars == <<door, env, phase, request, crossing, atEngine, answer, result>>

NoHead == [fields |-> {}, named |-> {}]
Settings == {"unset", "empty", "set"}

ProxyEnvs == [token : Settings, allow_no_auth : BOOLEAN, upstream : Upstreams]
HubEnvs == [token : Settings, state_dir : BOOLEAN, demo : Settings,
            credential : Settings, upstream : Upstreams]

\* loopback_authority: a literal loopback address or the name localhost, alone or
\* as an http URL; nothing is resolved.
Loopback(a) ==
    /\ a.scheme \in {"none", "http"} /\ a.extra = "none" /\ a.port # "invalid"
    /\ a.host \in {"loopback", "localhost"}

\* Without a token the proxy starts only if it is told to.
ProxyStarts_OpenByDefault == (env.token # "empty" \/ env.allow_no_auth) /\ Loopback(env.upstream)
ProxyStarts == (env.token = "set" \/ env.allow_no_auth) /\ Loopback(env.upstream)

\* The hub takes its registrations from a store or from one credential, not both,
\* and opens no frontend without a token.
HubStarts ==
    /\ IF env.state_dir THEN env.demo = "unset" ELSE env.demo = "set"
    /\ env.token = "set"

\* The tether wants a credential; an empty one is only refused by the hub.
TetherStarts == env.credential # "unset" /\ Loopback(env.upstream)

\* A head the callers' HTTP server hands on has at most one kind of framing.
Headed(fields, named) ==
    [fields |-> fields \cup (IF named = {} THEN {} ELSE {"connection"}), named |-> named]

Asked(head, bearer, path) == [head |-> head, bearer |-> bearer, path |-> path]

\* Callers that differ in whom and what they ask: "GET /healthz", "GET /-ring/health"
\* or anything else; and authorized ones that differ in the head they send.
Askers ==
    {Asked(Headed({"host"} \cup (IF bearer = "absent" THEN {} ELSE {"authorization"}), {}), bearer, path) :
        bearer \in {"absent", "scheme", "wrong", "right"},
        path \in {"healthz", "ring-health", "other"}}

Senders ==
    {Asked(Headed({"host", "authorization"} \cup plain \cup framing, named), "right", "other") :
        plain \in SUBSET (PlainFields \cup {"te", "expect"}),
        framing \in {{}, {"content-length"}, {"transfer-encoding"}},
        named \in SUBSET (PlainFields \cup {"content-length", "authorization"})}

Requests == Askers \cup Senders

\* `codings` is what the engine's Transfer-Encoding lists.
Answers ==
    {[status |-> status, codings |-> codings,
      head |-> Headed(plain \cup (IF codings = "none" THEN {"content-length"}
                                   ELSE {"transfer-encoding"}), named)] :
        status \in Statuses, codings \in {"none", "chunked", "other"},
        plain \in SUBSET (PlainFields \cup {"keep-alive"}), named \in SUBSET PlainFields}

NoRequest == Asked(NoHead, "absent", "none")
NoAnswer == [status |-> 0, codings |-> "none", head |-> NoHead]

GatewayInit ==
    /\ \/ door = "proxy" /\ env \in ProxyEnvs
       \/ door = "frontend" /\ env \in HubEnvs
    /\ phase = "starting" /\ request = NoRequest
    /\ crossing = NoHead /\ atEngine = NoHead /\ answer = NoAnswer /\ result = NoAnswer
-----------------------------------------------------------------------------
(* The doors *)

\* run_proxy, run_hub: a process that may not start opens no listener.
Opens ==
    /\ phase = "starting"
    /\ IF door = "proxy" THEN ProxyStarts ELSE HubStarts
    /\ phase' = "serving"
    /\ UNCHANGED <<door, env, request, crossing, atEngine, answer, result>>

Asks ==
    /\ phase = "serving"
    /\ request' \in Requests /\ phase' = "handling"
    /\ UNCHANGED <<door, env, crossing, atEngine, answer, result>>

\* The caller is answered.
Responds(status, head) ==
    /\ result' = [status |-> status, codings |-> "none", head |-> head]
    /\ phase' = "answered"

Authorized == request.bearer = "right"

Forward == 0

\* The order of handle's decisions in the frontend and in the proxy: the status
\* it answers itself, or Forward.
FrontendDecides ==
    IF request.path = "healthz" THEN 200 ELSE IF ~Authorized THEN 401 ELSE Forward

ProxyDecides ==
    IF env.token = "set" /\ ~Authorized THEN 401
    ELSE IF ~Loopback(env.upstream) THEN 503
    ELSE IF request.path = "ring-health" THEN 200
    ELSE Forward

Decides == IF door = "frontend" THEN FrontendDecides ELSE ProxyDecides

AnswersItself ==
    /\ phase = "handling" /\ Decides # Forward
    /\ Responds(Decides, NoHead)
    /\ UNCHANGED <<door, env, request, crossing, atEngine, answer>>

\* What forward_any may refuse with, and how the frontend says it.
RefusalStatus == [NoTether |-> 502, TetherGone |-> 502, TetherBusy |-> 503, Idhausted |-> 429]

RegistryRefuses ==
    /\ phase = "handling" /\ door = "frontend" /\ Decides = Forward
    /\ \E e \in DOMAIN RefusalStatus : Responds(RefusalStatus[e], NoHead)
    /\ UNCHANGED <<door, env, request, crossing, atEngine, answer>>

\* encode_request_head.
EncodeRequestHead_AlwaysOnly(head) == StripAlways(head)
EncodeRequestHead(head) == Strip(head)

RegistryForwards ==
    /\ phase = "handling" /\ door = "frontend" /\ Decides = Forward
    /\ TetherStarts /\ env.credential = "set"
    /\ crossing' = EncodeRequestHead(request.head) /\ phase' = "opened"
    /\ UNCHANGED <<door, env, request, atEngine, answer, result>>

\* rebuild_request: a fresh Host and what survived stripping.
ProxyForwards ==
    /\ phase = "handling" /\ door = "proxy" /\ Decides = Forward
    /\ atEngine' = [Strip(request.head) EXCEPT !.fields = @ \cup {"host"}]
    /\ phase' = "asked"
    /\ UNCHANGED <<door, env, request, crossing, answer, result>>
-----------------------------------------------------------------------------
(* The tether and the engine *)

\* forward_engine sets Host, drops Expect and regenerates the framing it lost.
EngineHead(head) ==
    LET fields == (Strip(head).fields \cup {"host"}) \ {"expect"}
    IN [fields |-> fields \cup (IF "content-length" \in fields THEN {} ELSE {"transfer-encoding"}),
        named |-> {}]

TetherForwards ==
    /\ phase = "opened"
    /\ atEngine' = EngineHead(crossing) /\ phase' = "asked"
    /\ UNCHANGED <<door, env, request, crossing, answer, result>>

EngineAnswers ==
    /\ phase = "asked"
    /\ answer' \in Answers /\ phase' = "replied"
    /\ UNCHANGED <<door, env, request, crossing, atEngine, result>>

\* No connection, no answer, or a session lost on the way.
Fails ==
    /\ phase \in {"opened", "asked"} \/ (phase \in {"replied", "returning"} /\ door = "frontend")
    /\ phase' = "failed"
    /\ UNCHANGED <<door, env, request, crossing, atEngine, answer, result>>

\* A transfer coding the tether does not undo would reach the caller unnamed.
TetherReturns ==
    /\ phase = "replied" /\ door = "frontend" /\ answer.codings # "other"
    /\ crossing' = Strip(answer.head) /\ phase' = "returning"
    /\ UNCHANGED <<door, env, request, atEngine, answer, result>>

\* caller_status_for, None being no head.
None == 0
CallerStatusFor_UnwrapOk(status) == IF status = None THEN 200 ELSE status
CallerStatusFor(status) == IF status = None THEN 502 ELSE status

FrontendReturns ==
    /\ phase = "returning"
    /\ Responds(CallerStatusFor(answer.status), StripAlways(crossing))
    /\ UNCHANGED <<door, env, request, crossing, atEngine, answer>>

\* stream_through: the proxy copies the head as it is.
ProxyReturns ==
    /\ phase = "replied" /\ door = "proxy"
    /\ Responds(answer.status, answer.head)
    /\ UNCHANGED <<door, env, request, crossing, atEngine, answer>>

Reports ==
    /\ phase = "failed"
    /\ Responds(IF door = "frontend" THEN CallerStatusFor(None) ELSE 502, NoHead)
    /\ UNCHANGED <<door, env, request, crossing, atEngine, answer>>

GatewayNext ==
    \/ Opens \/ Asks \/ AnswersItself \/ RegistryRefuses \/ RegistryForwards \/ ProxyForwards
    \/ TetherForwards \/ EngineAnswers \/ Fails \/ TetherReturns \/ FrontendReturns \/ ProxyReturns
    \/ Reports

GatewaySpec == GatewayInit /\ [][GatewayNext]_gatewayVars
-----------------------------------------------------------------------------
EndToEnd(head) == {name \in head.fields : ~IsHopByHop(name) /\ name \notin Named(head)}
Regenerated == {"host", "transfer-encoding"}
Reached == atEngine # NoHead

\* However many hops strip it, a head loses what belongs to the hop it came by
\* and nothing else: no field that Connection names crosses to the other side,
\* every end-to-end field does, and the engine is given exactly one framing
\* (headers.rs:28-69, hub.rs:849-861, tunnel.rs:478-492, 529, frontend.rs:255-261).
OnlyEndToEndCrosses ==
    /\ Reached =>
           atEngine.fields \ Regenerated =
               EndToEnd(request.head) \ (IF door = "frontend" THEN {"expect"} ELSE {})
    /\ Reached /\ door = "frontend" =>
           ("content-length" \in atEngine.fields) # ("transfer-encoding" \in atEngine.fields)
    /\ phase = "answered" /\ door = "frontend" =>
           result.head.fields \subseteq EndToEnd(answer.head)
    /\ phase = "answered" /\ result.status = answer.status /\ door = "frontend" =>
           result.head.fields \in {EndToEnd(answer.head), {}}

\* A caller is never told a success that no engine reported: a status below 400
\* is the engine's own, or a health check's (frontend.rs:236-252, 305-322).
AnswerIsTheEngines ==
    phase = "answered" /\ result.status < 400 =>
        \/ result.status = answer.status /\ result.head.fields \subseteq answer.head.fields
        \/ ~Reached /\ request.path \in {"healthz", "ring-health"}

\* The engine hears only of callers that presented the token the process was
\* started with, unless the operator of a proxy gave none and said so; what the
\* others are told does not depend on any tether (main.rs:128-146, 217-229;
\* proxy.rs:49-64, frontend.rs:213-229).
EngineIsGuarded ==
    /\ Reached =>
           /\ Loopback(env.upstream)
           /\ request.bearer = "right" \/ (door = "proxy" /\ env.token # "set" /\ env.allow_no_auth)
    /\ phase = "answered" /\ request.bearer # "right" /\ door = "frontend" =>
           result.status = (IF request.path = "healthz" THEN 200 ELSE 401)
=============================================================================
