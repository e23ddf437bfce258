----------------------------- MODULE StreamState ----------------------------
(***************************************************************************)
(* One forwarded request from the moment OPEN is queued: the state the     *)
(* four tasks that share it agree through (StreamState, StreamFailure and  *)
(* StreamGuard in cargo/src/hub.rs, TunnelBody in cargo/src/frontend.rs).  *)
(*                                                                         *)
(*   session  the tether's connection task, handling response frames       *)
(*   closer   whoever calls LiveSession::close: teardown, a successor,     *)
(*            or the control plane                                         *)
(*   upload   the task that copies the caller's body into the tunnel       *)
(*   caller   the frontend's task: installs the upload, waits for the      *)
(*            head, polls the body, drops the guard                        *)
(*                                                                         *)
(* The first three end the stream through `complete` or `fail`, which take *)
(* three separately atomic steps and may overlap.                          *)
(***************************************************************************)
EXTENDS Integers

CONSTANTS
  ChunkCapacity,    \* bound of the response queue (64 in the code)
  MaxData           \* DATA frames the tether sends, a bound of the model

ASSUME BoundsAssumption ==
  ChunkCapacity \in Nat \ {0} /\ MaxData \in Nat

VARIABLES
  registered,       \* the stream is in LiveSession.streams
  head, completed,  \* StreamState.head is Some, StreamState.completed
  outcome,          \* StreamFailure.outcome: 0, 1, 2 in the code
  handle,           \* StreamState.upload
  chunks, rx_open,  \* the response queue, and whether it accepts more
  frame,            \* the frame the session has looked its stream up for
  phase, verdict,   \* how far each ender is in complete() or fail()
  closed,           \* LiveSession.closed
  upload, cancelled,    \* the upload task, and whether abort() was called
  caller, result,   \* the frontend task, and what it told the caller
  waker, woken,     \* StreamFailure.waker, and a wake-up not yet polled for
  guard_end,        \* StreamGuard::drop queued an END
  sent, read, ended     \* history: DATA accepted, DATA delivered, clean END

Enders == {"session", "closer", "upload"}

shared  == <<registered, head, completed, outcome, handle>>
queueV  == <<chunks, rx_open, sent, read>>
enders  == <<phase, verdict>>
uploadV == <<upload, cancelled>>
callerV == <<caller, result, guard_end>>
wakeV   == <<waker, woken>>
vars == <<registered, head, completed, outcome, handle, chunks, rx_open,
          frame, phase, verdict, closed, upload, cancelled, caller, result,
          waker, woken, guard_end, sent, read, ended>>

(* start_forward has admitted the stream and spawned the upload.           *)
Init ==
  /\ registered = TRUE /\ head = FALSE /\ completed = FALSE
  /\ outcome = "none" /\ handle = "absent"
  /\ chunks = 0 /\ rx_open = TRUE /\ sent = 0 /\ read = 0
  /\ frame = "none" /\ closed = FALSE /\ ended = FALSE
  /\ phase = [a \in Enders |-> "idle"]
  /\ verdict = [a \in Enders |-> "none"]
  /\ upload = "running" /\ cancelled = FALSE
  /\ caller = "starting" /\ result = "none" /\ guard_end = FALSE
  /\ waker = FALSE /\ woken = FALSE

-----------------------------------------------------------------------------
(* complete() and fail(): mark `completed`, cancel the installed upload,   *)
(* publish the outcome and wake the caller.                                *)
Begins(a, v) ==
  /\ phase' = [phase EXCEPT ![a] = "mark"]
  /\ verdict' = [verdict EXCEPT ![a] = v]
Advances(a, from, to) ==
  /\ phase[a] = from
  /\ phase' = [phase EXCEPT ![a] = to]
  /\ UNCHANGED verdict

Mark_AtSettle(a) ==
  /\ Advances(a, "mark", "cancel")
  /\ UNCHANGED <<shared, queueV, frame, closed, uploadV, callerV, wakeV, ended>>
Mark(a) ==
  /\ Advances(a, "mark", "cancel")
  /\ completed' = TRUE
  /\ UNCHANGED <<registered, head, outcome, handle, queueV, frame, closed,
                 uploadV, callerV, wakeV, ended>>

Cancel(a) ==
  /\ Advances(a, "cancel", "settle")
  /\ IF handle = "installed"
     THEN handle' = "taken" /\ cancelled' = TRUE
     ELSE UNCHANGED <<handle, cancelled>>
  /\ UNCHANGED <<registered, head, completed, outcome, queueV, frame, closed,
                 upload, callerV, wakeV, ended>>

(* AtomicWaker::wake takes the waker it finds.                             *)
Wakes_OnFailure(v) ==
  IF v = "broken" THEN woken' = (woken \/ waker) /\ waker' = FALSE
  ELSE UNCHANGED wakeV
Wakes(v) == woken' = (woken \/ waker) /\ waker' = FALSE

Settle(a) ==
  /\ Advances(a, "settle", "settled")
  /\ outcome' = verdict[a]
  /\ Wakes(verdict[a])
  /\ ended' = (ended \/ verdict[a] = "clean")
  /\ UNCHANGED <<registered, head, completed, handle, queueV, frame, closed,
                 uploadV, callerV>>

-----------------------------------------------------------------------------
(* The session task.  It clones the stream out of the map, releases the    *)
(* map's lock and only then acts on it.                                    *)
NotCaller == UNCHANGED <<closed, uploadV, callerV, ended>>

Lookup(f) ==
  /\ frame = "none" /\ registered
  /\ frame' = f
  /\ UNCHANGED <<shared, queueV, enders, wakeV>> /\ NotCaller

GoodHead ==
  /\ frame = "head" /\ ~head /\ phase["session"] = "idle"
  /\ head' = TRUE /\ frame' = "none"
  /\ UNCHANGED <<registered, completed, outcome, handle, queueV, enders, wakeV>>
  /\ NotCaller

(* A send into the queue wakes a receiver that waits for it.               *)
Accepts == head /\ rx_open /\ chunks < ChunkCapacity
GoodData ==
  /\ frame = "data" /\ Accepts /\ phase["session"] = "idle"
  /\ frame' = "none"
  /\ chunks' = chunks + 1 /\ sent' = sent + 1
  /\ woken' = (woken \/ caller = "pending")
  /\ UNCHANGED <<shared, rx_open, read, enders, waker>> /\ NotCaller

(* A bad or second head, DATA that cannot be queued, END with a reason,    *)
(* and the clean END.                                                      *)
EndsStream ==
  /\ phase["session"] = "idle"
  /\ \/ frame = "head" /\ head /\ Begins("session", "broken")
     \/ frame = "bad_head" /\ Begins("session", "broken")
     \/ frame = "data" /\ ~Accepts /\ Begins("session", "broken")
     \/ frame = "error_end" /\ Begins("session", "broken")
     \/ frame = "clean_end" /\ Begins("session", "clean")
  /\ UNCHANGED <<shared, queueV, frame, wakeV>> /\ NotCaller

Removes ==
  /\ phase["session"] = "settled"
  /\ phase' = [phase EXCEPT !["session"] = "idle"]
  /\ registered' = FALSE /\ frame' = "none"
  /\ UNCHANGED <<head, completed, outcome, handle, queueV, verdict, wakeV>>
  /\ NotCaller

Receives ==
  \E f \in {"head", "bad_head", "data", "error_end", "clean_end"} :
    (f = "data" => sent < MaxData) /\ Lookup(f)
SessionStep == GoodHead \/ GoodData \/ EndsStream \/ Removes

(* LiveSession::close drains the map under its lock, then fails what it    *)
(* drained.                                                                *)
Drain ==
  /\ ~closed /\ closed' = TRUE
  /\ IF registered THEN Begins("closer", "broken") ELSE UNCHANGED enders
  /\ registered' = FALSE
  /\ UNCHANGED <<head, completed, outcome, handle, queueV, frame, uploadV,
                 callerV, wakeV, ended>>

-----------------------------------------------------------------------------
(* The upload task.  abort() takes effect where the task next awaits; it   *)
(* may be past its last one.                                               *)
UploadOnly == UNCHANGED <<shared, queueV, frame, closed, cancelled, callerV,
                          wakeV, ended>>

UploadEnds ==
  /\ upload = "running"
  /\ upload' \in {"sent", "broken"} \cup (IF cancelled THEN {"cancelled"} ELSE {})
  /\ UNCHANGED enders /\ UploadOnly

UploadChecks ==
  /\ upload = "broken"
  /\ IF completed
     THEN upload' = "done" /\ UNCHANGED enders
     ELSE upload' = "failing" /\ Begins("upload", "broken")
  /\ UploadOnly

(* END is offered to the command queue (module Registry has that queue).   *)
UploadTells ==
  /\ upload = "failing" /\ phase["upload"] = "settled"
  /\ upload' = "done"
  /\ UNCHANGED enders /\ UploadOnly

-----------------------------------------------------------------------------
(* The frontend task.                                                      *)
CallerOnly == UNCHANGED <<frame, enders, closed, upload, ended, sent>>
Moves(from, to) == caller = from /\ caller' = to

(* install_upload, under the lock finish_upload takes the handle under.    *)
Install_Unchecked ==
  /\ Moves("starting", "head")
  /\ handle' = "installed" /\ UNCHANGED cancelled
  /\ UNCHANGED <<registered, head, completed, outcome, chunks, rx_open, read,
                 result, guard_end, wakeV>>
  /\ CallerOnly
Install ==
  /\ Moves("starting", "head")
  /\ IF completed
     THEN cancelled' = TRUE /\ UNCHANGED handle
     ELSE handle' = "installed" /\ UNCHANGED cancelled
  /\ UNCHANGED <<registered, head, completed, outcome, chunks, rx_open, read,
                 result, guard_end, wakeV>>
  /\ CallerOnly

Reads == UNCHANGED <<shared, chunks, read, cancelled, guard_end>> /\ CallerOnly

(* Forwarded::head reads the head, then `completed`, every 2 ms.           *)
ReadHead ==
  /\ Moves("head", IF head THEN "poll" ELSE "no_head")
  /\ UNCHANGED <<rx_open, result, wakeV>> /\ Reads
ReadCompleted ==
  /\ Moves("no_head", IF completed THEN "dropping" ELSE "head")
  /\ result' = IF completed THEN "refused" ELSE result
  /\ UNCHANGED <<rx_open, wakeV>> /\ Reads

(* TunnelBody::poll_next: register the waker, look for failure, look for   *)
(* completion (which closes the queue), then take a chunk.                 *)
PollRegisters ==
  /\ Moves("poll", "poll_failed")
  /\ waker' = TRUE /\ woken' = FALSE
  /\ UNCHANGED <<rx_open, result>> /\ Reads
PollFailed ==
  /\ Moves("poll_failed",
           IF outcome = "broken" THEN "dropping" ELSE "poll_complete")
  /\ result' = IF outcome = "broken" THEN "interrupted" ELSE result
  /\ rx_open' = (rx_open /\ outcome # "broken")
  /\ UNCHANGED wakeV /\ Reads
PollComplete ==
  /\ Moves("poll_complete", "recv")
  /\ rx_open' = (rx_open /\ outcome # "clean")
  /\ UNCHANGED <<result, wakeV>> /\ Reads
RecvChunk ==
  /\ Moves("recv", "poll") /\ chunks > 0
  /\ chunks' = chunks - 1 /\ read' = read + 1
  /\ UNCHANGED <<shared, rx_open, cancelled, result, guard_end, wakeV>>
  /\ CallerOnly

(* poll_recv may also yield with chunks queued, having woken itself.       *)
Yields_Ends ==
  /\ Moves("recv", IF rx_open THEN "pending" ELSE "dropping") /\ chunks > 0
  /\ result' = IF rx_open THEN result ELSE "eof"
  /\ woken' = TRUE
  /\ UNCHANGED <<rx_open, waker>> /\ Reads
Yields ==
  /\ Moves("recv", "pending") /\ chunks > 0
  /\ woken' = TRUE
  /\ UNCHANGED <<rx_open, result, waker>> /\ Reads
RecvNothing ==
  /\ chunks = 0
  /\ Moves("recv", IF rx_open THEN "pending" ELSE "dropping")
  /\ result' = IF rx_open THEN result ELSE "eof"
  /\ UNCHANGED <<rx_open, wakeV>> /\ Reads
Repoll ==
  /\ woken /\ Moves("pending", "poll")
  /\ UNCHANGED <<rx_open, result, wakeV>> /\ Reads

Waiting == {"head", "no_head", "poll", "poll_failed", "poll_complete", "recv",
            "pending"}
Abandon ==
  /\ caller \in {"head", "poll", "pending"}
  /\ caller' = "dropping" /\ result' = "abandoned"
  /\ UNCHANGED <<rx_open, wakeV>> /\ Reads

(* StreamGuard::drop: cancel the upload, unregister, and tell the tether   *)
(* unless the answer was over.                                             *)
DropUnregisters ==
  /\ Moves("dropping", "drop_checks")
  /\ cancelled' = TRUE /\ registered' = FALSE /\ rx_open' = FALSE
  /\ UNCHANGED <<head, completed, outcome, handle, chunks, read, result,
                 guard_end, wakeV>>
  /\ CallerOnly
DropTells ==
  /\ Moves("drop_checks", "gone")
  /\ guard_end' = ~completed
  /\ UNCHANGED <<shared, chunks, rx_open, read, cancelled, result, wakeV>>
  /\ CallerOnly

CallerStep ==
  \/ Install \/ ReadHead \/ ReadCompleted \/ PollRegisters \/ PollFailed
  \/ PollComplete \/ RecvChunk \/ Yields \/ RecvNothing \/ Repoll
  \/ DropUnregisters \/ DropTells
EnderStep(a) == Mark(a) \/ Cancel(a) \/ Settle(a)

Next ==
  \/ \E a \in Enders : EnderStep(a)
  \/ Receives \/ SessionStep \/ Drain
  \/ UploadEnds \/ UploadChecks \/ UploadTells
  \/ CallerStep \/ Abandon

(* Tasks that can run do run, and a caller that is there keeps reading.    *)
(* The tether, the closer and the caller's body owe nothing.               *)
Spec == Init /\ [][Next]_vars
FairSpec ==
  /\ Spec
  /\ \A a \in Enders : WF_vars(EnderStep(a))
  /\ WF_vars(SessionStep) /\ WF_vars(CallerStep) /\ SF_vars(RecvChunk)
  /\ WF_vars(UploadChecks \/ UploadTells)

-----------------------------------------------------------------------------
(* A caller sees its body end cleanly only if the tether ended the stream  *)
(* cleanly and every chunk it sent was delivered: no interleaving of the   *)
(* terminal signal, the queue and the poll truncates a response            *)
(* (TunnelBody::poll_next).                                                *)
CleanEofMeansWholeBody == result = "eof" => ended /\ read = sent

(* The guard of a response that was delivered to its end, or that failed,  *)
(* never tells the tether to abort: only an abandoned one does             *)
(* (StreamGuard::drop reads `completed`, which enders set first).          *)
NormalEndIsNotAborted == guard_end => result = "abandoned"

(* Once a stream is over and its enders are through, its upload is stopped *)
(* or told to stop, even if it ended before its upload was installed       *)
(* (install_upload, finish_upload).                                        *)
UploadIsStopped ==
  /\ completed /\ caller # "starting"
  /\ \A a \in Enders : phase[a] \in {"idle", "settled"}
  => cancelled \/ upload # "running"

(* A caller that keeps reading learns of the end of its stream, whichever  *)
(* task ended it and however the wake-ups fall (StreamFailure, AtomicWaker *)
(* and the channel's own waker).                                           *)
CallerLearnsOfTheEnd == completed ~> caller = "gone"

(* What docs/invariants.md says of the head: a response that arrived whole *)
(* is not reported to the caller as no answer at all.                      *)
RealAnswerIsNotRefused == ~(result = "refused" /\ head /\ ended)

(* What docs/architecture.md says of a clean END: once it was handled, the *)
(* caller's response is completed, not interrupted.                        *)
CleanEndIsNotInterrupted ==
  [][ended /\ result' = "interrupted" => result = "interrupted"]_vars
=============================================================================
