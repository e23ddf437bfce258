------------------------------- MODULE MCEdges ------------------------------
(***************************************************************************)
(* The parts at the edges of the system, which share no state: the doors of  *)
(* a request, the two codecs and the supervisor of the rental image.  A      *)
(* behaviour is one of them at work while the others stand still.            *)
(***************************************************************************)
EXTENDS Supervisor, Gateway, Frames, Chunked

MCOrder == <<"engine", "tether">>
MCCodes == {0, 1, -15}

Upstream(scheme, host, port, extra) ==
    [scheme |-> scheme, host |-> host, port |-> port, extra |-> extra]

MCUpstreams ==
    {Upstream("http", "loopback", "given", "none"), Upstream("none", "localhost", "none", "none"),
     Upstream("https", "loopback", "given", "none"), Upstream("http", "name", "given", "none"),
     Upstream("none", "wildcard", "given", "none"), Upstream("http", "loopback", "given", "userinfo"),
     Upstream("none", "loopback", "invalid", "none")}

\* Payloads around the cap, a lease written otherwise than the hub writes it, one
\* too large to parse, and bytes that could be the header of another frame.
MCPayloads == {<<>>, <<48>>, <<0, 49>>, <<43, 55>>, <<57, 57>>, <<1, 2, 3>>}

\* Chunk data that ends, or could be taken for, framing; one is of the largest size.
MCChunkData == {<<Zero>>, <<CR, LF>>, [i \in 1..11 |-> IF i = 3 THEN LF ELSE CR]}

NoGateway == door = "none" /\ env = "none" /\ phase = "none" /\ request = NoRequest
             /\ crossing = NoHead /\ atEngine = NoHead /\ answer = NoAnswer /\ result = NoAnswer
NoFrames == sent = [kind |-> "Ping"] /\ message = <<>> /\ shape = "none" /\ got = [is |-> "none"]
NoChunked == wire = <<>> /\ pushed = 0 /\ mode = "none" /\ remaining = 0 /\ buf = <<>> /\ out = <<>>
             /\ verdict = "none"
NoSupervisor ==
    /\ pc = "none" /\ at = 1 /\ children = <<>> /\ pending = {} /\ received = 0 /\ live = {}
    /\ proc = [c \in Children |-> "absent"] /\ code = [c \in Children |-> NoCode]
    /\ left = 0 /\ status = NoCode /\ signals = MaxSignals /\ heard = FALSE

EdgesInit ==
    \/ Init /\ NoGateway /\ NoFrames /\ NoChunked
    \/ GatewayInit /\ NoSupervisor /\ NoFrames /\ NoChunked
    \/ FramesInit /\ NoSupervisor /\ NoGateway /\ NoChunked
    \/ ChunkedInit /\ NoSupervisor /\ NoGateway /\ NoFrames

EdgesNext ==
    \/ Next /\ UNCHANGED <<gatewayVars, frameVars, chunkedVars>>
    \/ GatewayNext /\ UNCHANGED <<vars, frameVars, chunkedVars>>
    \/ FramesNext /\ UNCHANGED <<vars, gatewayVars, chunkedVars>>
    \/ ChunkedNext /\ UNCHANGED <<vars, gatewayVars, frameVars>>

edgesVars == <<vars, gatewayVars, frameVars, chunkedVars>>

EdgesSpec == EdgesInit /\ [][EdgesNext]_edgesVars /\ Fairness
=============================================================================
