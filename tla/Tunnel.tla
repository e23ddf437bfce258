------------------------------- MODULE Tunnel -------------------------------
(***************************************************************************)
(* One tunnel session as a carrier of HTTP exchanges: the hub's session     *)
(* task and upload tasks (hub.rs:541-763, 1013-1159), the tether's session  *)
(* loop and its pumps (tunnel.rs:64-117, 232-559), the bounded queues       *)
(* between them and the engine.                                             *)
(*                                                                         *)
(* A direction of the connection is one FIFO of frames: the sender's writer *)
(* queue, whose capacity bounds it, and the socket behind it, which takes   *)
(* nothing more while the peer does not read.  When an end goes down its    *)
(* writer is aborted and loses a suffix of what it had queued.              *)
(*                                                                         *)
(* Registry models which session a request gets, StreamState how the tasks  *)
(* of the hub share one answer; here a stream of the hub is open, or was    *)
(* answered whole, cut, or left by its caller, in one step each.            *)
(***************************************************************************)
EXTENDS Naturals, Sequences, FiniteSets, SequencesExt

CONSTANTS
    Streams,        \* stream ids of the session; none is used twice
    RequestChunks,  \* bound on the chunks of a request body
    ResponseChunks, \* bound on the chunks of an answer
    MaxPings,       \* bound on the hub's PINGs
    MaxStreams,     \* 64 at the hub (hub.rs:541) and at the tether
    InputCapacity,  \* STREAM_INPUT_CAPACITY, 64
    DownCapacity,   \* the hub's command queue, 256
    UpCapacity      \* WS_WRITER_CAPACITY, 256

ASSUME CapacityAssumption ==
    {RequestChunks, ResponseChunks, MaxPings, MaxStreams, InputCapacity,
     DownCapacity, UpCapacity} \subseteq Nat

VARIABLES
    hub,       \* the hub's session: "up", "aborting" or "ended"
    stream,    \* each stream at the hub: "new", "open", "whole", "cut", "left"
    head,      \* whether its response head arrived
    got,       \* the response chunks handed to the caller
    upload,    \* its upload task: "idle", "sending", "finished" or "stopped"
    sent,      \* the request chunks it sent
    pings,     \* PINGs sent
    down, up,  \* the frames on their way to the tether and to the hub
    tether,    \* the tether's session: "up" or "ended"
    table,     \* its streams
    input,     \* the request chunks queued for each engine
    pump,      \* each pump, see Running
    taken,     \* the request chunks the engine read
    accepted,  \* the engine's view of the request: "open", "whole" or "cut"
    answered,  \* the engine's answer so far: its chunks, and whether it is whole
    completions \* pumps that completed and whose slot is not yet released

hubVars    == <<hub, stream, head, got, upload, sent, pings>>
engineVars == <<pump, taken, accepted, answered>>
tetherVars == <<tether, table, input, completions, engineVars>>
vars       == <<hubVars, down, up, tetherVars>>

\* A frame; `n` is its place in the body it belongs to: a stream's OPEN and
\* response head are 0, its chunks count from 1, and the end of the body comes
\* next.  The receivers use it for chunks only.  END with a reason is "Fail".
Frame(type, i, n) == [type |-> type, of |-> i, n |-> n]
Control(type)     == [type |-> type]
Body(n, complete) == [chunks |-> n, complete |-> complete]
HalfEnd == RequestChunks + 1   \* the empty chunk that ends a request body

Init ==
    /\ hub = "up" /\ tether = "up" /\ pings = 0
    /\ stream = [i \in Streams |-> "new"] /\ head = [i \in Streams |-> FALSE]
    /\ upload = [i \in Streams |-> "idle"] /\ sent = [i \in Streams |-> 0]
    /\ got = [i \in Streams |-> <<>>]
    /\ down = <<>> /\ up = <<>>
    /\ table = {} /\ completions = {}
    /\ input = [i \in Streams |-> <<>>]
    /\ pump = [i \in Streams |-> "none"] /\ taken = [i \in Streams |-> <<>>]
    /\ accepted = [i \in Streams |-> "open"]
    /\ answered = [i \in Streams |-> Body(0, FALSE)]

\* The hub's streams end, and the session with them (LiveSession::close); its
\* writer stops somewhere in the queue.
HubEnds ==
    /\ hub' = "ended"
    /\ stream' = [i \in Streams |-> IF stream[i] = "open" THEN "cut" ELSE stream[i]]
    /\ \E k \in 0..Len(down) : down' = SubSeq(down, 1, k)

\* Mutant: an END that does not fit is forgotten.
HubDrops_Forgets(i, status) ==
    /\ hub # "ended" /\ stream[i] = "open"
    /\ stream' = [stream EXCEPT ![i] = status]
    /\ IF Len(down) < DownCapacity
         THEN down' = Append(down, Frame("End", i, 0)) /\ UNCHANGED hub
         ELSE UNCHANGED <<hub, down>>

\* Another task of the hub ends an open stream and tells the tether.  A full
\* queue aborts the session, so that its teardown ends the engine's work.
HubDrops(i, status) ==
    /\ hub # "ended" /\ stream[i] = "open"
    /\ stream' = [stream EXCEPT ![i] = status]
    /\ IF Len(down) < DownCapacity
         THEN down' = Append(down, Frame("End", i, 0)) /\ UNCHANGED hub
         ELSE hub' = "aborting" /\ UNCHANGED down

-----------------------------------------------------------------------------
(* The hub: callers and their uploads. *)

\* Admission reserves the OPEN's place in the queue.
Open(i) ==
    /\ hub # "ended" /\ stream[i] = "new" /\ Len(down) < DownCapacity
    /\ Cardinality({j \in Streams : stream[j] = "open"}) < MaxStreams
    /\ stream' = [stream EXCEPT ![i] = "open"]
    /\ upload' = [upload EXCEPT ![i] = "sending"]
    /\ down' = Append(down, Frame("Open", i, 0))
    /\ UNCHANGED <<hub, head, got, sent, pings, up, tetherVars>>

\* The upload waits for room.  After the stream ended it may still send until
\* its abort takes effect.
UploadSends(i) ==
    /\ hub # "ended" /\ upload[i] = "sending" /\ Len(down) < DownCapacity
    /\ \/ /\ sent[i] < RequestChunks
          /\ sent' = [sent EXCEPT ![i] = @ + 1]
          /\ down' = Append(down, Frame("Data", i, sent[i] + 1))
          /\ UNCHANGED upload
       \/ /\ upload' = [upload EXCEPT ![i] = "finished"]
          /\ down' = Append(down, Frame("HalfEnd", i, sent[i] + 1))
          /\ UNCHANGED sent
    /\ UNCHANGED <<hub, stream, head, got, pings, up, tetherVars>>

\* The caller's body breaks off: the stream fails and the tether is told.
UploadFails(i) ==
    /\ upload[i] = "sending"
    /\ upload' = [upload EXCEPT ![i] = "stopped"]
    /\ HubDrops(i, "cut")
    /\ UNCHANGED <<head, got, sent, pings, up, tetherVars>>

\* Its abort takes effect, or the writer is gone.
UploadStops(i) ==
    /\ upload[i] = "sending" /\ (stream[i] # "open" \/ hub = "ended")
    /\ upload' = [upload EXCEPT ![i] = "stopped"]
    /\ UNCHANGED <<hub, stream, head, got, sent, pings, down, up, tetherVars>>

\* StreamGuard::drop before the end.
CallerLeaves(i) ==
    /\ HubDrops(i, "left")
    /\ UNCHANGED <<head, got, upload, sent, pings, up, tetherVars>>

-----------------------------------------------------------------------------
(* The hub: frames from the tether. *)

Arrives(type) == hub # "ended" /\ up # <<>> /\ Head(up).type = type /\ up' = Tail(up)

\* For a stream that is gone a head is ignored, and a chunk answered by an END.
HubHead ==
    /\ Arrives("RespHead")
    /\ LET i == Head(up).of
       IN  head' = [head EXCEPT ![i] = @ \/ stream[i] = "open"]
    /\ UNCHANGED <<hub, stream, got, upload, sent, pings, down, tetherVars>>

HubData ==
    /\ Arrives("Data")
    /\ LET i == Head(up).of
       IN  /\ stream[i] = "open" /\ head[i]
           /\ got' = [got EXCEPT ![i] = Append(@, Head(up).n)]
    /\ UNCHANGED <<hub, stream, head, upload, sent, pings, down, tetherVars>>

\* The caller's queue is full, no one waits for the chunk any more, or the head
\* is not one.  An END that does not fit ends the session.
HubRefuses ==
    /\ \/ Arrives("Data")
       \/ Arrives("RespHead") /\ stream[Head(up).of] = "open"
    /\ LET i == Head(up).of
       IN  IF Len(down) < DownCapacity
           THEN /\ stream' = [stream EXCEPT ![i] = IF @ = "open" THEN "cut" ELSE @]
                /\ down' = Append(down, Frame("End", i, 0))
                /\ UNCHANGED hub
           ELSE HubEnds
    /\ UNCHANGED <<head, got, upload, sent, pings, tetherVars>>

HubEnd ==
    /\ Arrives("End") \/ Arrives("Fail")
    /\ LET i == Head(up).of
           ending == IF Head(up).type = "End" THEN "whole" ELSE "cut"
       IN  stream' = [stream EXCEPT ![i] = IF @ = "open" THEN ending ELSE @]
    /\ UNCHANGED <<hub, head, got, upload, sent, pings, down, tetherVars>>

HubPong ==
    /\ Arrives("Pong")
    /\ UNCHANGED <<hubVars, down, tetherVars>>

\* The tick sends a PING; one that does not fit ends the session.
HubPings ==
    /\ hub # "ended" /\ pings < MaxPings
    /\ pings' = pings + 1
    /\ IF Len(down) < DownCapacity
         THEN down' = Append(down, Control("Ping")) /\ UNCHANGED <<hub, stream>>
         ELSE HubEnds
    /\ UNCHANGED <<head, got, upload, sent, up, tetherVars>>

\* The lease, a cancellation, silence, an error of the socket.
HubGivesUp ==
    /\ hub # "ended"
    /\ HubEnds
    /\ UNCHANGED <<head, got, upload, sent, pings, up, tetherVars>>

\* The session loop notices the abort.
HubAborts == hub = "aborting" /\ HubGivesUp

\* The socket is closed behind the last frame that came through.
HubSeesClose ==
    /\ hub # "ended" /\ tether # "up" /\ up = <<>>
    /\ HubEnds
    /\ UNCHANGED <<head, got, upload, sent, pings, up, tetherVars>>

HubReceives == HubHead \/ HubData \/ HubRefuses \/ HubEnd \/ HubPong

-----------------------------------------------------------------------------
(* The tether's session loop.  It never waits: what it cannot queue ends it. *)

Running(i) == pump[i] \in {"requesting", "answering", "ended", "failed"}

\* The engine's connection outlives the pump until its own abort takes effect.
Connected(i) == pump[i] \notin {"none", "refused"} /\ accepted[i] = "open"

\* serve_over after run_session: every pump is aborted, and so is the writer.
TetherEnds ==
    /\ tether' = "ended" /\ table' = {}
    /\ \E k \in 0..Len(up) : up' = SubSeq(up, 1, k)

\* try_send of a frame; the table loses `removed`.
TetherTells(frame, removed) ==
    IF Len(up) < UpCapacity
    THEN /\ up' = Append(up, frame) /\ table' = table \ removed
         /\ UNCHANGED tether
    ELSE TetherEnds

Comes(type) == tether = "up" /\ down # <<>> /\ Head(down).type = type /\ down' = Tail(down)

TetherOpen ==
    /\ Comes("Open")
    /\ LET i == Head(down).of
       IN  IF Cardinality(table) >= MaxStreams
           THEN /\ pump' = [pump EXCEPT ![i] = "refused"]
                /\ TetherTells(Frame("Fail", i, 0), {})
           ELSE /\ pump' = [pump EXCEPT ![i] = "requesting"]
                /\ table' = table \cup {i}
                /\ UNCHANGED <<tether, up>>
    /\ UNCHANGED <<hubVars, input, completions, taken, accepted, answered>>

\* Mutant: a chunk that does not fit is dropped and the stream goes on.
Enqueue_Drops(i, chunk) ==
    /\ input' = IF i \in table /\ accepted[i] = "open" /\ Len(input[i]) < InputCapacity
                THEN [input EXCEPT ![i] = Append(@, chunk)] ELSE input
    /\ UNCHANGED <<tether, table, up>>

\* Mutant: the hub is not told of the stream removed.
Enqueue_Silent(i, chunk) ==
    IF i \notin table \/ accepted[i] # "open"
    THEN UNCHANGED <<input, tether, table, up>>
    ELSE IF Len(input[i]) < InputCapacity
    THEN /\ input' = [input EXCEPT ![i] = Append(@, chunk)]
         /\ UNCHANGED <<tether, table, up>>
    ELSE /\ table' = table \ {i}
         /\ UNCHANGED <<input, tether, up>>

\* enqueue_stream_input.  A pump that no longer reads its input takes anything;
\* one whose queue is full is removed, and the hub told so.
Enqueue(i, chunk) ==
    IF i \notin table \/ accepted[i] # "open"
    THEN UNCHANGED <<input, tether, table, up>>
    ELSE IF Len(input[i]) < InputCapacity
    THEN /\ input' = [input EXCEPT ![i] = Append(@, chunk)]
         /\ UNCHANGED <<tether, table, up>>
    ELSE /\ UNCHANGED input
         /\ TetherTells(Frame("Fail", i, 0), {i})

TetherData ==
    /\ \/ Comes("Data") /\ Enqueue(Head(down).of, Head(down).n)
       \/ Comes("HalfEnd") /\ Enqueue(Head(down).of, HalfEnd)
    /\ UNCHANGED <<hubVars, completions, engineVars>>

TetherEnd ==
    /\ Comes("End")
    /\ table' = table \ {Head(down).of}
    /\ UNCHANGED <<hubVars, up, tether, input, completions, engineVars>>

TetherPing ==
    /\ Comes("Ping")
    /\ TetherTells(Control("Pong"), {})
    /\ UNCHANGED <<hubVars, input, completions, engineVars>>

\* A completed pump releases its slot.
TetherCompletion(i) ==
    /\ tether = "up" /\ i \in completions
    /\ completions' = completions \ {i} /\ table' = table \ {i}
    /\ UNCHANGED <<hubVars, down, up, tether, input, engineVars>>

\* The lease refresh, the heartbeat, an error of the socket.
TetherGivesUp ==
    /\ tether = "up"
    /\ TetherEnds
    /\ UNCHANGED <<hubVars, down, input, completions, engineVars>>

TetherSeesClose ==
    /\ tether = "up" /\ hub = "ended" /\ down = <<>>
    /\ TetherEnds
    /\ UNCHANGED <<hubVars, down, input, completions, engineVars>>

TetherReceives == TetherOpen \/ TetherData \/ TetherEnd \/ TetherPing

-----------------------------------------------------------------------------
(* A pump (forward_engine) and its engine, which is external. *)

PumpOnly == UNCHANGED <<hubVars, down, tether, table>>
Pump(i, from, to) == /\ pump[i] = from /\ pump' = [pump EXCEPT ![i] = to]
                     /\ PumpOnly

\* The pump's queue closes for good when its receiver is dropped.
Closes(i, how) == /\ accepted' = [accepted EXCEPT ![i] = how]
                  /\ input' = [input EXCEPT ![i] = <<>>]

\* The engine reads the request body.
EngineReads(i) ==
    /\ Connected(i) /\ input[i] # <<>>
    /\ IF Head(input[i]) = HalfEnd
         THEN Closes(i, "whole") /\ UNCHANGED taken
         ELSE /\ taken' = [taken EXCEPT ![i] = Append(@, Head(input[i]))]
              /\ input' = [input EXCEPT ![i] = Tail(@)]
              /\ UNCHANGED accepted
    /\ UNCHANGED <<up, completions, pump, answered>> /\ PumpOnly

\* The sender is gone before the HALF_END: an error, not the end of the body.
EngineSeesCut(i) ==
    /\ Connected(i) /\ i \notin table /\ input[i] = <<>>
    /\ Closes(i, "cut")
    /\ UNCHANGED <<up, completions, pump, taken, answered>> /\ PumpOnly

\* The engine reads no further: it needs no more, or its connection is dropped.
EngineStopsReading(i) ==
    /\ Connected(i)
    /\ Closes(i, "cut")
    /\ UNCHANGED <<up, completions, pump, taken, answered>> /\ PumpOnly

\* Frames of a pump wait for room in the writer's queue.
Queues(frame) == Len(up) < UpCapacity /\ up' = Append(up, frame)

EngineAnswers(i) ==
    /\ Pump(i, "requesting", "answering")
    /\ tether = "up" /\ Queues(Frame("RespHead", i, 0))
    /\ UNCHANGED <<completions, input, taken, accepted, answered>>

EngineSends(i) ==
    /\ Pump(i, "answering", "answering")
    /\ answered[i].chunks < ResponseChunks
    /\ answered' = [answered EXCEPT ![i] = Body(@.chunks + 1, FALSE)]
    /\ tether = "up" /\ Queues(Frame("Data", i, answered[i].chunks + 1))
    /\ UNCHANGED <<completions, input, taken, accepted>>

\* The answer is whole, or some step failed.
EngineEnds(i) ==
    /\ \/ /\ Pump(i, "answering", "ended")
          /\ answered' = [answered EXCEPT ![i] = Body(@.chunks, TRUE)]
       \/ /\ Pump(i, "requesting", "failed") \/ Pump(i, "answering", "failed")
          /\ UNCHANGED answered
    /\ UNCHANGED <<up, completions, input, taken, accepted>>

\* Mutant: no completion is reported.
PumpEnds_Silent(i) ==
    /\ \/ Pump(i, "ended", "done") /\ Queues(Frame("End", i, answered[i].chunks + 1))
       \/ Pump(i, "failed", "done") /\ Queues(Frame("Fail", i, 0))
    /\ tether = "up"
    /\ UNCHANGED <<completions, input, taken, accepted, answered>>

\* The END of the exchange, then the completion, in one poll of the task.
PumpEnds(i) ==
    /\ \/ Pump(i, "ended", "done") /\ Queues(Frame("End", i, answered[i].chunks + 1))
       \/ Pump(i, "failed", "done") /\ Queues(Frame("Fail", i, 0))
    /\ tether = "up"
    /\ completions' = completions \cup {i}
    /\ UNCHANGED <<input, taken, accepted, answered>>

\* Removing a stream from the table aborts its pump, at its next wait.
PumpAborts(i) ==
    /\ Running(i) /\ i \notin table
    /\ pump' = [pump EXCEPT ![i] = "aborted"]
    /\ UNCHANGED <<up, completions, input, taken, accepted, answered>> /\ PumpOnly

-----------------------------------------------------------------------------
HubStep ==
    \/ HubReceives \/ HubPings \/ HubGivesUp \/ HubSeesClose
    \/ \E i \in Streams : \/ Open(i) \/ UploadSends(i) \/ UploadFails(i)
                          \/ UploadStops(i) \/ CallerLeaves(i)

EngineStep(i) ==
    \/ EngineReads(i) \/ EngineSeesCut(i) \/ EngineStopsReading(i)
    \/ EngineAnswers(i) \/ EngineSends(i) \/ EngineEnds(i)

TetherStep ==
    \/ TetherReceives \/ TetherGivesUp \/ TetherSeesClose
    \/ \E i \in Streams : TetherCompletion(i) \/ EngineStep(i) \/ PumpEnds(i)
                          \/ PumpAborts(i)

Next == HubStep \/ TetherStep

Spec == Init /\ [][Next]_vars

\* The two session loops handle what arrives, and an aborted or finished pump
\* gets to run.  Callers, engines and the network owe nothing.
Fairness ==
    /\ WF_vars(HubReceives) /\ WF_vars(HubSeesClose) /\ WF_vars(HubAborts)
    /\ WF_vars(TetherReceives) /\ WF_vars(TetherSeesClose)
    /\ \A i \in Streams : /\ WF_vars(PumpAborts(i)) /\ WF_vars(PumpEnds(i))
                          /\ WF_vars(TetherCompletion(i))

FairSpec == Spec /\ Fairness

-----------------------------------------------------------------------------
(* Properties. *)

\* How a stream ended for its caller; one that the caller left was cut.
Outcome(i) == IF stream[i] \in {"new", "open"} THEN "open"
              ELSE IF stream[i] = "whole" THEN "whole" ELSE "cut"

\* Each stream implements the exchange: the caller's answer and the engine's
\* request are prefixes of what the other side sent, and neither ends cleanly
\* unless it is whole, whatever overflows, fails or is cut off on the way
\* (hub.rs:1115-1141, tunnel.rs:88-111, 387-397, 493-509).
Promise(i) == INSTANCE Exchange WITH
    request  <- Body(sent[i], upload[i] = "finished"),
    taken    <- taken[i],
    accepted <- accepted[i],
    response <- answered[i],
    got      <- got[i],
    outcome  <- Outcome(i)
ImplementsExchange ==
    /\ \A i \in Streams : Promise(i)!Init
    /\ [][\A i \in Streams : Promise(i)!Next \/ UNCHANGED Promise(i)!vars]_vars

\* A slot of the tether is never lost: a stream in its table has a pump that
\* runs, or one whose completion is waiting (tunnel.rs:284-287, 317-321).
SlotIsHeld ==
    \A i \in table : Running(i) \/ i \in completions

\* A stream that is over at the hub, because its caller left, its queue was full
\* or the session went down, does not keep its engine busy: its pump ends or is
\* aborted (hub.rs:734-763, tunnel.rs:61-67, 434-436).
AbandonedWorkStops ==
    \A i \in Streams : stream[i] \in {"cut", "left"} ~> ~Running(i)

\* A caller is not left waiting for a pump that is gone, be it finished, refused,
\* aborted for its full queue or lost with its session (hub.rs:1147-1159).
AnswerReachesCaller ==
    \A i \in Streams :
        pump[i] \in {"done", "aborted", "refused"} /\ stream[i] = "open"
            ~> stream[i] # "open"

\* docs/architecture.md:171-172, "the 64-stream limit is concurrent capacity rather
\* than a 64-request lifetime cap": a stream that the hub of a healthy session
\* admitted under the limit is not refused by the tether for the same limit.
AdmittedIsServed == hub = "up" => \A i \in Streams : pump[i] # "refused"
=============================================================================
