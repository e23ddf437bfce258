------------------------------ MODULE Exchange ------------------------------
(***************************************************************************)
(* What a tunnel promises about one HTTP exchange, whatever happens to the  *)
(* connection: the engine gets the caller's body in order, and sees it end  *)
(* only if it has all of it; the caller gets the engine's answer in order,  *)
(* and sees it end cleanly only if it has all of it.  Either may be cut at  *)
(* any time; a cut is never mistaken for an end.                            *)
(***************************************************************************)
EXTENDS Naturals, Sequences

VARIABLES
    request,   \* what the caller sent of its body, and whether that is all
    taken,     \* what the engine took of it
    accepted,  \* how that ended: "open", "whole" or "cut"
    response,  \* what the engine answered, and whether that is all
    got,       \* what the caller got of it
    outcome    \* how that ended: "open", "whole" or "cut"

vars == <<request, taken, accepted, response, got, outcome>>

\* A body so far: its chunks, numbered, and whether it is complete.
Body(n, complete) == [chunks |-> n, complete |-> complete]
Chunks(body)      == [k \in 1..body.chunks |-> k]

Init ==
    /\ request = Body(0, FALSE) /\ taken = <<>> /\ accepted = "open"
    /\ response = Body(0, FALSE) /\ got = <<>> /\ outcome = "open"

\* One side produces a chunk, or ends its body.
Produces(body) ==
    /\ ~body.complete
    /\ body' \in {Body(body.chunks + 1, FALSE), Body(body.chunks, TRUE)}

CallerSends ==
    Produces(request) /\ UNCHANGED <<taken, accepted, response, got, outcome>>
EngineAnswers ==
    Produces(response) /\ UNCHANGED <<request, taken, accepted, got, outcome>>

\* The other side receives the next chunk, or learns that there is no more.
EngineTakes ==
    /\ accepted = "open" /\ Len(taken) < request.chunks
    /\ taken' = Append(taken, Len(taken) + 1)
    /\ UNCHANGED <<request, accepted, response, got, outcome>>
EngineSeesEnd ==
    /\ accepted = "open"
    /\ \/ accepted' = "whole" /\ request.complete /\ Len(taken) = request.chunks
       \/ accepted' = "cut"
    /\ UNCHANGED <<request, taken, response, got, outcome>>
CallerGets ==
    /\ outcome = "open" /\ Len(got) < response.chunks
    /\ got' = Append(got, Len(got) + 1)
    /\ UNCHANGED <<request, taken, accepted, response, outcome>>
CallerSeesEnd ==
    /\ outcome = "open"
    /\ \/ outcome' = "whole" /\ response.complete /\ Len(got) = response.chunks
       \/ outcome' = "cut"
    /\ UNCHANGED <<request, taken, accepted, response, got>>

Next == CallerSends \/ EngineAnswers \/ EngineTakes \/ EngineSeesEnd
        \/ CallerGets \/ CallerSeesEnd

Spec == Init /\ [][Next]_vars
=============================================================================
