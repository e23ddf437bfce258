----------------------------- MODULE EdgeProofs -----------------------------
(***************************************************************************)
(* The parts at the edges of the system.  What Gateway promises of a         *)
(* request, for any header fields, any statuses and any upstreams: the three *)
(* properties speak of the two ends of a request; the invariant adds what is *)
(* known of it in between.  And what Supervisor promises of its children,    *)
(* however many they are and whichever ignore their signals.                 *)
(***************************************************************************)
EXTENDS Gateway, Supervisor, TLAPS

Phases == {"starting", "serving", "handling", "opened", "asked", "replied", "returning",
           "failed", "answered"}

\* Every head on its way is one: a record of two sets of names.
IsHead(head) == head = [fields |-> head.fields, named |-> head.named]

HeadInv ==
    /\ door \in {"frontend", "proxy"} /\ phase \in Phases
    /\ IsHead(request.head) /\ IsHead(crossing) /\ IsHead(answer.head) /\ IsHead(result.head)

\* The request may go to this engine.
Permitted ==
    /\ Loopback(env.upstream)
    /\ request.bearer = "right" \/ (door = "proxy" /\ env.token # "set" /\ env.allow_no_auth)

\* A proxy that serves was allowed to; what is past the door was let in.
GuardInv ==
    /\ phase # "starting" /\ door = "proxy" => ProxyStarts
    /\ phase \in {"opened", "asked", "replied", "returning", "failed"} => Permitted
    /\ Reached => Permitted

\* Where the engine has not been asked yet, and what crosses the tunnel.
CrossingInv ==
    /\ phase \in {"starting", "serving", "handling", "opened"} => ~Reached
    /\ phase = "opened" => door = "frontend" /\ crossing = Strip(request.head)
    /\ phase = "returning" => door = "frontend" /\ crossing = Strip(answer.head)

GatewayInv ==
    HeadInv /\ GuardInv /\ CrossingInv /\ OnlyEndToEndCrosses /\ AnswerIsTheEngines /\ EngineIsGuarded
-----------------------------------------------------------------------------
(* The heads *)

\* What a hop passes on of a head (headers.rs:44-69).
LEMMA Stripped ==
    ASSUME NEW head, IsHead(head)
    PROVE  /\ IsHead(Strip(head)) /\ Strip(head).fields = EndToEnd(head)
           /\ IsHead(StripAlways(Strip(head))) /\ StripAlways(Strip(head)).fields = EndToEnd(head)
  <1>1. Strip(head) = [fields |-> head.fields \ (AlwaysStrip \cup Named(head)), named |-> {}]
    BY DEF Strip, IsHead
  <1>2. head.fields \ (AlwaysStrip \cup Named(head)) = EndToEnd(head)
    BY DEF EndToEnd, IsHopByHop
  <1>3. StripAlways(Strip(head)) = [fields |-> {name \in EndToEnd(head) : ~IsHopByHop(name)}, named |-> {}]
    BY <1>1, <1>2 DEF StripAlways
  <1>4. {name \in EndToEnd(head) : ~IsHopByHop(name)} = EndToEnd(head)
    BY DEF EndToEnd
  <1> QED
    BY <1>1, <1>2, <1>3, <1>4 DEF IsHead

\* Stripping twice changes nothing: what crossed the tunnel is what the caller sent.
LEMMA StrippedAgain ==
    ASSUME NEW head, IsHead(head)
    PROVE  Strip(Strip(head)) = Strip(head)
  <1>1. Strip(head) = [fields |-> EndToEnd(head), named |-> {}]
    BY Stripped DEF Strip, IsHead
  <1>2. "connection" \notin EndToEnd(head)
    BY DEF EndToEnd, IsHopByHop, AlwaysStrip
  <1>3. Named(Strip(head)) = {}
    BY <1>1 DEF Named
  <1>4. Strip(Strip(head)) = [fields |-> EndToEnd(head) \ AlwaysStrip, named |-> {}]
    BY <1>1, <1>3 DEF Strip
  <1>5. EndToEnd(head) \ AlwaysStrip = EndToEnd(head)
    BY DEF EndToEnd, IsHopByHop
  <1> QED
    BY <1>1, <1>4, <1>5

\* What forward_engine makes of a head that was stripped (tunnel.rs:478-492).
LEMMA Rebuilt ==
    ASSUME NEW head, IsHead(head)
    PROVE  LET fields == EngineHead(Strip(head)).fields
           IN /\ EngineHead(Strip(head)) # NoHead
              /\ fields \ Regenerated = EndToEnd(head) \ {"expect"}
              /\ ("content-length" \in fields) # ("transfer-encoding" \in fields)
  <1> DEFINE kept == (EndToEnd(head) \cup {"host"}) \ {"expect"}
             fields == kept \cup (IF "content-length" \in kept THEN {} ELSE {"transfer-encoding"})
  <1>1. Strip(Strip(head)).fields = EndToEnd(head)
    BY Stripped, StrippedAgain
  <1>2. EngineHead(Strip(head)) = [fields |-> fields, named |-> {}]
    BY <1>1 DEF EngineHead
  <1>3. "transfer-encoding" \notin kept /\ "host" \notin EndToEnd(head)
    BY DEF EndToEnd, IsHopByHop, AlwaysStrip
  <1>4. "transfer-encoding" \notin EndToEnd(head) /\ "host" \in fields
    BY DEF EndToEnd, IsHopByHop, AlwaysStrip
  <1>5. fields \ Regenerated = EndToEnd(head) \ {"expect"}
    BY <1>3, <1>4 DEF Regenerated
  <1>6. ("content-length" \in fields) # ("transfer-encoding" \in fields)
    BY <1>3
  <1>7. EngineHead(Strip(head)) # NoHead
    BY <1>2, <1>4 DEF NoHead
  <1> QED
    BY <1>2, <1>5, <1>6, <1>7
-----------------------------------------------------------------------------
(* The invariant *)

\* Nothing has been asked, so nothing has crossed.
LEMMA GatewayInvInitially == GatewayInit => GatewayInv
  <1> SUFFICES ASSUME GatewayInit PROVE GatewayInv
    OBVIOUS
  <1>1. HeadInv
    BY DEF GatewayInit, HeadInv, IsHead, Phases, NoRequest, Asked, NoAnswer, NoHead
  <1>2. ~Reached /\ phase = "starting"
    BY DEF GatewayInit, Reached
  <1> QED
    BY <1>1, <1>2 DEF GatewayInv, GuardInv, CrossingInv, OnlyEndToEndCrosses, AnswerIsTheEngines,
                      EngineIsGuarded

\* The heads callers and the engine may send.
LEMMA RequestsHaveHeads ==
    ASSUME NEW r \in Requests
    PROVE  IsHead(r.head)
  <1>1. CASE r \in Askers
    BY <1>1 DEF Askers, Asked, Headed, IsHead
  <1>2. CASE r \in Senders
    BY <1>2 DEF Senders, Asked, Headed, IsHead
  <1> QED
    BY <1>1, <1>2 DEF Requests

\* An answer of the engine carries a head.
LEMMA AnswersHaveHeads ==
    ASSUME NEW a \in Answers
    PROVE  IsHead(a.head)
  BY DEF Answers, Headed, IsHead

\* A step that answers nobody keeps what the answered are promised.
LEMMA UnansweredStep ==
    ASSUME phase' # "answered"
    PROVE  /\ AnswerIsTheEngines'
           /\ UNCHANGED <<door, request, atEngine>> /\ OnlyEndToEndCrosses => OnlyEndToEndCrosses'
           /\ GuardInv' => EngineIsGuarded'
  <1>1. AnswerIsTheEngines'
    BY DEF AnswerIsTheEngines
  <1>2. UNCHANGED <<door, request, atEngine>> /\ OnlyEndToEndCrosses => OnlyEndToEndCrosses'
    BY DEF OnlyEndToEndCrosses, Reached
  <1>3. GuardInv' => EngineIsGuarded'
    BY DEF GuardInv, EngineIsGuarded, Permitted, Reached
  <1> QED
    BY <1>1, <1>2, <1>3

\* A caller that opens a connection or asks has been answered nothing yet.
LEMMA StartKeepsInv ==
    ASSUME GatewayInv, Opens \/ Asks
    PROVE  GatewayInv'
  <1>1. CASE Opens
    <2>1. HeadInv' /\ CrossingInv'
      BY <1>1 DEF Opens, GatewayInv, HeadInv, CrossingInv, Reached, Phases
    <2>2. GuardInv'
      BY <1>1 DEF Opens, GatewayInv, GuardInv, CrossingInv, ProxyStarts, Reached
    <2>3. phase' # "answered" /\ UNCHANGED <<door, request, atEngine>> /\ OnlyEndToEndCrosses
      BY <1>1 DEF Opens, GatewayInv
    <2> QED
      BY <2>1, <2>2, <2>3, UnansweredStep DEF GatewayInv
  <1>2. CASE Asks
    <2>1. HeadInv'
      BY <1>2, RequestsHaveHeads DEF Asks, GatewayInv, HeadInv, Phases
    <2>2. ~Reached' /\ CrossingInv'
      BY <1>2 DEF Asks, GatewayInv, CrossingInv, Reached
    <2>3. GuardInv'
      BY <1>2, <2>2 DEF Asks, GatewayInv, GuardInv, ProxyStarts
    <2>4. phase' # "answered"
      BY <1>2 DEF Asks
    <2>5. OnlyEndToEndCrosses'
      BY <2>2, <2>4 DEF OnlyEndToEndCrosses
    <2> QED
      BY <2>1, <2>2, <2>3, <2>4, <2>5, UnansweredStep DEF GatewayInv
  <1> QED
    BY <1>1, <1>2

\* The doors' own answers: nothing was asked of the engine.
LEMMA RefusalKeepsInv ==
    ASSUME GatewayInv, AnswersItself \/ RegistryRefuses
    PROVE  GatewayInv'
  <1>1. /\ phase = "handling" /\ phase' = "answered" /\ ~Reached /\ ~Reached'
        /\ result'.head = NoHead /\ result'.head.fields = {}
        /\ UNCHANGED <<door, env, request, crossing, atEngine, answer>>
    BY DEF AnswersItself, RegistryRefuses, Responds, GatewayInv, CrossingInv, Reached, NoHead
  <1>2. HeadInv'
    BY <1>1 DEF GatewayInv, HeadInv, IsHead, Phases, NoHead
  <1>3. GuardInv' /\ CrossingInv'
    BY <1>1 DEF GatewayInv, GuardInv, CrossingInv, Permitted, ProxyStarts
  <1>4. OnlyEndToEndCrosses'
    BY <1>1 DEF OnlyEndToEndCrosses
  <1>5. CASE AnswersItself
    <2>1. result'.status = Decides /\ Decides # Forward
      BY <1>5 DEF AnswersItself, Responds
    <2>2. Decides \in {200, 401, 503} /\ (Decides = 200 => request.path \in {"healthz", "ring-health"})
      BY <2>1 DEF Decides, FrontendDecides, ProxyDecides, Authorized, Forward, Loopback
    <2>4. ~(401 < 400) /\ ~(503 < 400)
      OBVIOUS
    <2>5. AnswerIsTheEngines'
      BY <1>1, <2>1, <2>2, <2>4 DEF AnswerIsTheEngines
    <2>3. EngineIsGuarded'
      BY <1>1, <2>1 DEF EngineIsGuarded, Decides, FrontendDecides, Authorized, Forward
    <2> QED
      BY <1>2, <1>3, <1>4, <2>3, <2>5 DEF GatewayInv
  <1>6. CASE RegistryRefuses
    <2>1. result'.status \in {502, 503, 429}
      BY <1>6 DEF RegistryRefuses, Responds, RefusalStatus
    <2>2. door = "frontend" /\ Decides = Forward
      BY <1>6 DEF RegistryRefuses
    <2>3. request.bearer = "right"
      <3>1. FrontendDecides = 0
        BY <2>2 DEF Decides, Forward
      <3> QED
        BY <3>1 DEF FrontendDecides, Authorized, Forward
    <2>4. ~(result'.status < 400)
      BY <2>1
    <2>5. AnswerIsTheEngines'
      BY <1>1, <2>4 DEF AnswerIsTheEngines
    <2>6. EngineIsGuarded'
      BY <1>1, <2>3 DEF EngineIsGuarded
    <2> QED
      BY <1>2, <1>3, <1>4, <2>5, <2>6 DEF GatewayInv
  <1> QED
    BY <1>5, <1>6

\* What either door forwards is the stripped head.
LEMMA ForwardKeepsInv ==
    ASSUME GatewayInv, RegistryForwards \/ ProxyForwards
    PROVE  GatewayInv'
  <1>1. CASE RegistryForwards
    <2>1. /\ phase = "handling" /\ door = "frontend" /\ phase' = "opened"
          /\ crossing' = Strip(request.head) /\ Loopback(env.upstream)
          /\ UNCHANGED <<door, env, request, atEngine, answer, result>>
      BY <1>1 DEF RegistryForwards, EncodeRequestHead, TetherStarts
    <2>2. request.bearer = "right"
      <3>1. FrontendDecides = Forward
        BY <1>1, <2>1 DEF RegistryForwards, Decides
      <3> QED
        BY <3>1 DEF FrontendDecides, Authorized, Forward
    <2>3. HeadInv'
      BY <2>1, Stripped DEF GatewayInv, HeadInv, Phases
    <2>4. GuardInv' /\ CrossingInv'
      BY <2>1, <2>2 DEF GatewayInv, GuardInv, CrossingInv, Permitted, Reached
    <2> QED
      BY <2>1, <2>3, <2>4, UnansweredStep DEF GatewayInv
  <1>2. CASE ProxyForwards
    <2>1. /\ phase = "handling" /\ door = "proxy" /\ phase' = "asked"
          /\ atEngine' = [Strip(request.head) EXCEPT !.fields = @ \cup {"host"}]
          /\ UNCHANGED <<door, env, request, crossing, answer, result>>
      BY <1>2 DEF ProxyForwards
    <2>2. Permitted
      <3>1. ProxyDecides = Forward /\ ProxyStarts
        BY <1>2, <2>1 DEF ProxyForwards, Decides, GatewayInv, GuardInv
      <3> QED
        BY <2>1, <3>1 DEF ProxyDecides, ProxyStarts, Authorized, Permitted, Forward
    <2>3. atEngine'.fields = EndToEnd(request.head) \cup {"host"}
      BY <2>1, Stripped DEF GatewayInv, HeadInv, IsHead
    <2>4. "host" \notin EndToEnd(request.head) /\ "transfer-encoding" \notin EndToEnd(request.head)
      BY DEF EndToEnd, IsHopByHop, AlwaysStrip
    <2>5. atEngine'.fields \ Regenerated = EndToEnd(request.head)
      BY <2>3, <2>4 DEF Regenerated
    <2>6. OnlyEndToEndCrosses'
      BY <2>1, <2>5 DEF OnlyEndToEndCrosses, EndToEnd
    <2>7. HeadInv'
      BY <2>1 DEF GatewayInv, HeadInv, Phases
    <2>8. GuardInv' /\ CrossingInv'
      BY <2>1, <2>2 DEF GatewayInv, GuardInv, CrossingInv, Permitted, ProxyStarts
    <2> QED
      BY <2>1, <2>6, <2>7, <2>8, UnansweredStep DEF GatewayInv
  <1> QED
    BY <1>1, <1>2

\* The tether and the engine pass on heads they have stripped or made.
LEMMA EngineKeepsInv ==
    ASSUME GatewayInv, TetherForwards \/ EngineAnswers \/ TetherReturns
    PROVE  GatewayInv'
  <1>1. CASE TetherForwards
    <2>1. /\ phase = "opened" /\ door = "frontend" /\ phase' = "asked"
          /\ atEngine' = EngineHead(Strip(request.head))
          /\ UNCHANGED <<door, env, request, crossing, answer, result>>
      BY <1>1 DEF TetherForwards, GatewayInv, CrossingInv
    <2>2. OnlyEndToEndCrosses'
      BY <2>1, Rebuilt DEF OnlyEndToEndCrosses, EndToEnd, GatewayInv, HeadInv
    <2>3. HeadInv'
      BY <2>1 DEF GatewayInv, HeadInv, Phases
    <2>4. GuardInv' /\ CrossingInv'
      BY <2>1 DEF GatewayInv, GuardInv, CrossingInv, Permitted, ProxyStarts
    <2> QED
      BY <2>1, <2>2, <2>3, <2>4, UnansweredStep DEF GatewayInv
  <1>2. CASE EngineAnswers
    <2>1. /\ phase = "asked" /\ phase' = "replied" /\ answer' \in Answers
          /\ UNCHANGED <<door, env, request, crossing, atEngine, result>>
      BY <1>2 DEF EngineAnswers
    <2>2. HeadInv'
      BY <2>1, AnswersHaveHeads DEF GatewayInv, HeadInv, Phases
    <2>3. GuardInv' /\ CrossingInv'
      BY <2>1 DEF GatewayInv, GuardInv, CrossingInv, Permitted, ProxyStarts, Reached
    <2> QED
      BY <2>1, <2>2, <2>3, UnansweredStep DEF GatewayInv
  <1>3. CASE TetherReturns
    <2>1. /\ phase = "replied" /\ door = "frontend" /\ phase' = "returning"
          /\ crossing' = Strip(answer.head)
          /\ UNCHANGED <<door, env, request, atEngine, answer, result>>
      BY <1>3 DEF TetherReturns
    <2>2. HeadInv'
      BY <2>1, Stripped DEF GatewayInv, HeadInv, Phases
    <2>3. GuardInv' /\ CrossingInv'
      BY <2>1 DEF GatewayInv, GuardInv, CrossingInv, Permitted, ProxyStarts, Reached
    <2> QED
      BY <2>1, <2>2, <2>3, UnansweredStep DEF GatewayInv
  <1> QED
    BY <1>1, <1>2, <1>3

\* A failure is answered with a head of its own.
LEMMA FailureKeepsInv ==
    ASSUME GatewayInv, Fails \/ Reports
    PROVE  GatewayInv'
  <1>1. CASE Fails
    <2>1. /\ phase \in {"opened", "asked", "replied", "returning"} /\ phase' = "failed"
          /\ UNCHANGED <<door, env, request, crossing, atEngine, answer, result>>
      BY <1>1 DEF Fails
    <2>2. HeadInv'
      BY <2>1 DEF GatewayInv, HeadInv, Phases
    <2>3. GuardInv' /\ CrossingInv'
      BY <2>1 DEF GatewayInv, GuardInv, CrossingInv, Permitted, ProxyStarts, Reached
    <2> QED
      BY <2>1, <2>2, <2>3, UnansweredStep DEF GatewayInv
  <1>2. CASE Reports
    <2>1. /\ phase = "failed" /\ phase' = "answered"
          /\ result'.head = NoHead /\ result'.head.fields = {}
          /\ UNCHANGED <<door, env, request, crossing, atEngine, answer>>
      BY <1>2 DEF Reports, Responds, NoHead
    <2>2. result'.status = 502
      BY <1>2 DEF Reports, Responds, CallerStatusFor, None
    <2>3. HeadInv'
      BY <2>1 DEF GatewayInv, HeadInv, IsHead, Phases, NoHead
    <2>4. GuardInv' /\ CrossingInv'
      BY <2>1 DEF GatewayInv, GuardInv, CrossingInv, Permitted, ProxyStarts, Reached
    <2>5. OnlyEndToEndCrosses'
      BY <2>1 DEF GatewayInv, OnlyEndToEndCrosses, Reached
    <2>6. ~(result'.status < 400)
      BY <2>2
    <2>7. AnswerIsTheEngines'
      BY <2>6 DEF AnswerIsTheEngines
    <2>8. EngineIsGuarded'
      BY <2>1 DEF GatewayInv, GuardInv, EngineIsGuarded, Permitted, Reached
    <2> QED
      BY <2>3, <2>4, <2>5, <2>7, <2>8 DEF GatewayInv
  <1> QED
    BY <1>1, <1>2

\* What a door returns is the stripped answer.
LEMMA ReturnKeepsInv ==
    ASSUME GatewayInv, FrontendReturns \/ ProxyReturns
    PROVE  GatewayInv'
  <1>1. CASE FrontendReturns
    <2>1. /\ phase = "returning" /\ door = "frontend" /\ phase' = "answered"
          /\ crossing = Strip(answer.head)
          /\ result'.status = CallerStatusFor(answer.status)
          /\ result'.head = StripAlways(crossing)
          /\ UNCHANGED <<door, env, request, crossing, atEngine, answer>>
      BY <1>1 DEF FrontendReturns, Responds, GatewayInv, CrossingInv
    <2>2. IsHead(result'.head) /\ result'.head.fields = EndToEnd(answer.head)
      BY <2>1, Stripped DEF GatewayInv, HeadInv
    <2>3. result'.status = answer.status \/ result'.status = 502
      BY <2>1 DEF CallerStatusFor
    <2>4. HeadInv'
      BY <2>1, <2>2 DEF GatewayInv, HeadInv, Phases
    <2>5. GuardInv' /\ CrossingInv'
      BY <2>1 DEF GatewayInv, GuardInv, CrossingInv, Permitted, ProxyStarts, Reached
    <2>6. OnlyEndToEndCrosses'
      BY <2>1, <2>2 DEF GatewayInv, OnlyEndToEndCrosses, Reached, EndToEnd
    <2>7. ~(502 < 400) /\ EndToEnd(answer.head) \subseteq answer.head.fields
      BY DEF EndToEnd
    <2>8. AnswerIsTheEngines'
      BY <2>1, <2>2, <2>3, <2>7 DEF AnswerIsTheEngines
    <2>9. EngineIsGuarded'
      BY <2>1 DEF GatewayInv, GuardInv, EngineIsGuarded, Permitted, Reached
    <2> QED
      BY <2>4, <2>5, <2>6, <2>8, <2>9 DEF GatewayInv
  <1>2. CASE ProxyReturns
    <2>1. /\ phase = "replied" /\ door = "proxy" /\ phase' = "answered"
          /\ result'.status = answer.status /\ result'.head = answer.head
          /\ UNCHANGED <<door, env, request, crossing, atEngine, answer>>
      BY <1>2 DEF ProxyReturns, Responds
    <2>2. HeadInv'
      BY <2>1 DEF GatewayInv, HeadInv, Phases
    <2>3. GuardInv' /\ CrossingInv'
      BY <2>1 DEF GatewayInv, GuardInv, CrossingInv, Permitted, ProxyStarts, Reached
    <2>4. OnlyEndToEndCrosses'
      BY <2>1 DEF GatewayInv, OnlyEndToEndCrosses, Reached
    <2>5. AnswerIsTheEngines'
      BY <2>1 DEF AnswerIsTheEngines
    <2>6. EngineIsGuarded'
      BY <2>1 DEF GatewayInv, GuardInv, EngineIsGuarded, Permitted, Reached
    <2> QED
      BY <2>2, <2>3, <2>4, <2>5, <2>6 DEF GatewayInv
  <1> QED
    BY <1>1, <1>2

\* The invariant of the gateway.
LEMMA GatewayInvHolds == GatewaySpec => []GatewayInv
  <1>1. GatewayInv /\ [GatewayNext]_gatewayVars => GatewayInv'
    <2> SUFFICES ASSUME GatewayInv, [GatewayNext]_gatewayVars PROVE GatewayInv'
      OBVIOUS
    <2>1. CASE GatewayNext
      BY <2>1, StartKeepsInv, RefusalKeepsInv, ForwardKeepsInv, EngineKeepsInv, FailureKeepsInv,
         ReturnKeepsInv DEF GatewayNext
    <2>2. CASE UNCHANGED gatewayVars
      BY <2>2 DEF gatewayVars, GatewayInv, HeadInv, GuardInv, CrossingInv, OnlyEndToEndCrosses,
                  AnswerIsTheEngines, EngineIsGuarded, Permitted, ProxyStarts, Reached
    <2> QED
      BY <2>1, <2>2
  <1> QED
    BY <1>1, GatewayInvInitially, PTL DEF GatewaySpec
-----------------------------------------------------------------------------
\* Whatever the environment and the request, the engine only hears of a caller
\* that presented the token, or of anyone where the operator of a proxy said so.
THEOREM GuardedEngine == GatewaySpec => []EngineIsGuarded
  BY GatewayInvHolds, PTL DEF GatewayInv

\* Whatever fields a head has and Connection names, the hops strip those of the
\* hop and no other, and the engine is given one framing.
THEOREM HopsStripTheirOwn == GatewaySpec => []OnlyEndToEndCrosses
  BY GatewayInvHolds, PTL DEF GatewayInv

\* Whatever goes wrong on the way, a success the caller is told of is the
\* engine's own or a health check's.
THEOREM NoInventedSuccess == GatewaySpec => []AnswerIsTheEngines
  BY GatewayInvHolds, PTL DEF GatewayInv
-----------------------------------------------------------------------------
(* The supervisor.  A child that runs is in the list from the step after it  *)
(* was started, _stop found it alive, and its wait passes over nobody alive. *)

SupervisorTypes ==
    /\ pc \in {"start", "append", "poll", "terminate", "wait", "reap", "exited"}
    /\ at \in Nat \ {0}
    /\ children \in Seq(Children)
    /\ proc \in [Children -> {"absent", "running", "killed", "ended"}]
    /\ live \subseteq Children

\* Whoever is alive is in the list, but for the child just started.
ListInv ==
    /\ pc \in {"start", "append"} => at \in DOMAIN Order
    /\ pc \in {"start", "poll"} => \A c \in Children : Alive(c) => Listed(c)
    /\ pc = "append" => \A c \in Children : Alive(c) => Listed(c) \/ c = Order[at]
    /\ pc = "poll" => children # <<>>

\* Whoever is alive was found so by _stop; those it has passed do not run.
StopInv ==
    /\ pc \in {"terminate", "wait"} => \A c \in Children : Alive(c) => Listed(c) /\ c \in live
    /\ pc = "wait" => \A i \in DOMAIN children : i < at => proc[children[i]] # "running"
    /\ pc \in {"reap", "exited"} => \A c \in Children : proc[c] # "running"

SupervisorInv == SupervisorTypes /\ ListInv /\ StopInv

\* The invariant holds at first.
LEMMA SupervisorInit == Init => SupervisorInv
  <1> SUFFICES ASSUME Init PROVE SupervisorInv
    OBVIOUS
  <1>1. 1 \in DOMAIN Order
    BY SupervisorAssumption DEF Children
  <1> QED
    BY <1>1 DEF Init, SupervisorInv, SupervisorTypes, ListInv, StopInv, Alive, Listed

\* main returns with everyone who is alive in the list.
LEMMA MainReturnKeepsInv ==
    ASSUME SupervisorInv, pc \in {"start", "poll"}, children' = children, proc' = proc,
           pc' = "terminate", at' = 1,
           live' \subseteq Children, \A c \in Children : Listed(c) /\ Alive(c) => c \in live'
    PROVE  SupervisorInv'
  <1>1. SupervisorTypes'
    BY DEF SupervisorInv, SupervisorTypes
  <1>2. ListInv' /\ StopInv'
    BY DEF SupervisorInv, ListInv, StopInv, Alive, Listed
  <1> QED
    BY <1>1, <1>2 DEF SupervisorInv

\* A child that starts is one of the order.
LEMMA StartingKeepsInv ==
    ASSUME SupervisorInv, Starts
    PROVE  SupervisorInv'
  <1>1. CASE proc' = [proc EXCEPT ![Order[at]] = "running"] /\ pc' = "append" /\ UNCHANGED <<at, status, live>>
    <2>1. at \in DOMAIN Order /\ Order[at] \in Children
      BY DEF SupervisorInv, ListInv, Starts, Children
    <2>2. SupervisorTypes'
      BY <1>1, <2>1 DEF SupervisorInv, SupervisorTypes, Starts
    <2>3. \A c \in Children : c # Order[at] => proc'[c] = proc[c]
      BY <1>1, <2>1 DEF SupervisorInv, SupervisorTypes
    <2>4. \A c \in Children : Alive(c)' => Listed(c)' \/ c = Order[at]
      BY <2>3 DEF SupervisorInv, ListInv, Starts, Alive, Listed
    <2> QED
      BY <1>1, <2>1, <2>2, <2>4 DEF SupervisorInv, ListInv, StopInv
  <1>2. CASE Returns(2) /\ UNCHANGED proc
    <2>1. pc = "start" /\ children' = children /\ proc' = proc
      BY <1>2 DEF Starts
    <2>2. /\ pc' = "terminate" /\ at' = 1 /\ live' \subseteq Children
          /\ \A c \in Children : Listed(c) /\ Alive(c) => c \in live'
      BY <1>2 DEF Returns
    <2> QED
      BY <2>1, <2>2, MainReturnKeepsInv
  <1> QED
    BY <1>1, <1>2 DEF Starts

\* A child joins the ones that started before it.
LEMMA AppendKeepsInv ==
    ASSUME SupervisorInv, Appends
    PROVE  SupervisorInv'
  <1>1. /\ at \in DOMAIN Order /\ Order[at] \in Children /\ Order \in Seq(Children)
        /\ children \in Seq(Children)
    BY SupervisorAssumption DEF SupervisorInv, SupervisorTypes, ListInv, Appends, Children
  <1>2. /\ children' \in Seq(Children) /\ children' # <<>>
        /\ \A c \in Children : Listed(c) \/ c = Order[at] => Listed(c)'
    <2>1. children' = Append(children, Order[at])
      BY DEF Appends
    <2>2. /\ Append(children, Order[at]) \in Seq(Children) /\ Append(children, Order[at]) # <<>>
          /\ Len(Append(children, Order[at])) = Len(children) + 1
          /\ Append(children, Order[at])[Len(children) + 1] = Order[at]
          /\ \A i \in 1..Len(children) : Append(children, Order[at])[i] = children[i]
      BY <1>1
    <2>4. DOMAIN children = 1..Len(children) /\ Len(children) \in Nat
      BY <1>1
    <2>3. DOMAIN children' = 1..(Len(children) + 1)
      BY <1>1, <2>1, <2>2
    <2>5. \A i \in 1..Len(children) : i \in 1..(Len(children) + 1)
      BY <2>4
    <2>6. Len(children) + 1 \in 1..(Len(children) + 1)
      BY <2>4
    <2> QED
      BY <2>1, <2>2, <2>3, <2>4, <2>5, <2>6 DEF Listed
  <1>3. \A c \in Children : Alive(c)' => Listed(c)'
    BY <1>2 DEF SupervisorInv, ListInv, Appends, procVars, Alive
  <1>4. SupervisorTypes' /\ (pc' = "start" => at' \in DOMAIN Order)
    BY <1>1, <1>2 DEF SupervisorInv, SupervisorTypes, Appends, procVars
  <1> QED
    BY <1>2, <1>3, <1>4 DEF SupervisorInv, ListInv, StopInv, Appends

\* A poll only finds that a child has gone.
LEMMA PollKeepsInv ==
    ASSUME SupervisorInv, Polls
    PROVE  SupervisorInv'
  <1>1. CASE pc' = pc
    <2>1. at' = (at % Len(children)) + 1 /\ UNCHANGED <<pc, status, live, children, proc>> /\ pc = "poll"
      BY <1>1 DEF Polls, Returns, procVars
    <2>2. Len(children) \in Nat \ {0} /\ at \in Nat
      BY <2>1 DEF SupervisorInv, SupervisorTypes, ListInv
    <2>3. at' \in Nat \ {0}
      BY <2>1, <2>2
    <2> QED
      BY <2>1, <2>3 DEF SupervisorInv, SupervisorTypes, ListInv, StopInv, Alive, Listed
  <1>2. CASE pc' # pc
    <2>1. /\ pc = "poll" /\ children' = children /\ proc' = proc
          /\ pc' = "terminate" /\ at' = 1 /\ live' \subseteq Children
          /\ \A c \in Children : Listed(c) /\ Alive(c) => c \in live'
      BY <1>2 DEF Polls, Returns, procVars
    <2> QED
      BY <2>1, MainReturnKeepsInv
  <1> QED
    BY <1>1, <1>2

\* The stop goes through the children that were started.
LEMMA StoppingKeepsInv ==
    ASSUME SupervisorInv, Terminates \/ Waits \/ StartsReaping \/ Reaps \/ Exits
    PROVE  SupervisorInv'
  <1> USE DEF SupervisorInv
  <1>1. CASE Terminates
    BY <1>1 DEF SupervisorTypes, ListInv, StopInv, Terminates, Done, procVars, Alive, Listed
  <1>2. CASE Waits
    <2>1. /\ at \in DOMAIN children /\ Current \in Children /\ UNCHANGED <<pc, children, live>>
          /\ pc = "wait" /\ at' = at + 1 /\ Current = children[at]
      BY <1>2 DEF Waits, Done, Current, SupervisorTypes
    <2>2. /\ SupervisorTypes' /\ proc'[Current] # "running"
          /\ \A c \in Children : proc'[c] # proc[c] => proc[c] = "running" \/ proc[c] = "killed"
          /\ \A c \in Children : proc'[c] = "running" => proc[c] = "running"
      BY <1>2, <2>1 DEF Waits, SupervisorTypes, StopInv, Alive
    <2>3. \A c \in Children : Alive(c)' => Listed(c)' /\ c \in live'
      BY <2>1, <2>2 DEF StopInv, Alive, Listed
    <2>4. \A i \in DOMAIN children' : i < at' => proc'[children'[i]] # "running"
      BY <2>1, <2>2 DEF StopInv, SupervisorTypes
    <2> QED
      BY <2>1, <2>2, <2>3, <2>4 DEF ListInv, StopInv
  <1>3. CASE StartsReaping
    <2>1. \A i \in DOMAIN children : proc[children[i]] # "running"
      BY <1>3 DEF StartsReaping, Done, StopInv, SupervisorTypes
    <2>2. \A c \in Children : proc[c] # "running"
      BY <1>3, <2>1 DEF StartsReaping, StopInv, Alive, Listed
    <2> QED
      BY <1>3, <2>2 DEF StartsReaping, SupervisorTypes, ListInv, StopInv, procVars
  <1>4. CASE Reaps \/ Exits
    BY <1>4 DEF Reaps, Exits, SupervisorTypes, ListInv, StopInv, procVars
  <1> QED
    BY <1>1, <1>2, <1>3, <1>4

\* Signals, time and the children's own steps start nobody.
LEMMA OthersKeepInv ==
    ASSUME SupervisorInv,
           \/ Tick \/ \E s \in Signals : Signal(s)
           \/ \E c \in Children : Ends(c) \/ Ignores(c)
    PROVE  SupervisorInv'
  <1> USE DEF SupervisorInv
  <1>1. CASE UNCHANGED <<pc, at, children, proc, live>>
    BY <1>1 DEF SupervisorTypes, ListInv, StopInv, Alive, Listed
  <1>2. ASSUME NEW c \in Children, Ends(c) PROVE SupervisorInv'
    <2>1. /\ UNCHANGED <<pc, at, children, live>> /\ proc' = [proc EXCEPT ![c] = "ended"]
      BY <1>2 DEF Ends
    <2>2. SupervisorTypes' /\ \A x \in Children : proc'[x] \in {proc[x], "ended"}
      BY <2>1 DEF SupervisorTypes
    <2>3. \A x \in Children : Alive(x)' => Alive(x)
      BY <2>2 DEF Alive
    <2>4. \A x \in Children : Listed(x)' <=> Listed(x)
      BY <2>1 DEF Listed
    <2>5. ListInv'
      BY <2>1, <2>3, <2>4 DEF ListInv
    <2>6. \A i \in DOMAIN children : children[i] \in Children
      BY DEF SupervisorTypes
    <2> QED
      BY <2>1, <2>2, <2>3, <2>4, <2>5, <2>6 DEF StopInv
  <1> QED
    BY <1>1, <1>2 DEF Tick, Signal, Ignores, procVars

\* Every step of the supervisor keeps its invariant.
LEMMA SupervisorStep == SupervisorInv /\ [Next]_vars => SupervisorInv'
  <1> SUFFICES ASSUME SupervisorInv, [Next]_vars PROVE SupervisorInv'
    OBVIOUS
  <1>1. CASE UNCHANGED vars
    BY <1>1 DEF vars, procVars, SupervisorInv, SupervisorTypes, ListInv, StopInv, Alive, Listed
  <1>2. CASE Main
    BY <1>2, StartingKeepsInv, AppendKeepsInv, PollKeepsInv, StoppingKeepsInv DEF Main
  <1> QED
    BY <1>1, <1>2, OthersKeepInv DEF Next

\* When the supervisor has exited, no child is left that was not killed: _stop
\* finds all who are alive in the list, and passes none that still runs.
THEOREM NobodyIsLeft == Spec => []NoChildLeft
  <1>1. SupervisorInv => NoChildLeft
    BY DEF SupervisorInv, StopInv, NoChildLeft
  <1> QED
    BY <1>1, SupervisorInit, SupervisorStep, PTL DEF Spec
=============================================================================
