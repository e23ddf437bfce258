---------------------------- MODULE StreamProofs ----------------------------
(***************************************************************************)
(* The safety of one forwarded request, for a response queue of any size   *)
(* and any number of DATA frames.  Four tasks share the state and every    *)
(* step of complete() and fail() is one that another task may come         *)
(* between, so each invariant says what holds between two such steps.      *)
(***************************************************************************)
EXTENDS StreamState, TLAPS

\* The frontend is past its last poll.
Over == caller \in {"dropping", "drop_checks", "gone"}

\* What there is to each part of the state.
Flags ==
  /\ registered \in BOOLEAN /\ head \in BOOLEAN /\ completed \in BOOLEAN
  /\ rx_open \in BOOLEAN /\ closed \in BOOLEAN /\ cancelled \in BOOLEAN
  /\ guard_end \in BOOLEAN /\ ended \in BOOLEAN

StreamTypes ==
  /\ sent \in Nat /\ read \in Nat /\ chunks \in Nat
  /\ outcome \in {"none", "broken", "clean"}
  /\ handle \in {"absent", "installed", "taken"}
  /\ phase \in [Enders -> {"idle", "mark", "cancel", "settle", "settled"}]
  /\ verdict \in [Enders -> {"none", "broken", "clean"}]
  /\ upload \in {"running", "sent", "broken", "cancelled", "failing", "done"}
  /\ caller \in Waiting \cup {"starting", "dropping", "drop_checks", "gone"}
  /\ result \in {"none", "eof", "interrupted", "refused", "abandoned"}

\* `completed` is the first thing an ender publishes: whoever sees a later
\* step of it also sees the mark.
MarkedFirst ==
  /\ \A a \in Enders : phase[a] \in {"cancel", "settle", "settled"} => completed
  /\ outcome # "none" => completed
  /\ ended => completed
  /\ outcome = "clean" => ended

\* An ender starts its steps once: no second call finds it half way.
StartsOnce ==
  /\ ~closed => phase["closer"] = "idle"
  /\ upload \in {"running", "broken"} => phase["upload"] = "idle"

\* Every chunk accepted is delivered or still queued, and the queue of a
\* caller that still polls is closed only by a clean END.
NothingIsLost ==
  /\ sent = read + chunks
  /\ ~rx_open => ended \/ Over
  /\ result = "eof" => ended /\ chunks = 0 /\ ~rx_open

\* The caller has a result exactly when it is over, and all but an
\* abandoned one come from a completed stream.
ResultIsLast ==
  /\ Over <=> result # "none"
  /\ result \in {"eof", "interrupted", "refused"} => completed
  /\ guard_end => result = "abandoned"

\* The upload's handle is with the stream until somebody cancels it.
HandleIsHeld ==
  /\ handle = "absent" => caller = "starting" \/ cancelled
  /\ handle = "taken" => cancelled
  /\ handle = "installed" /\ completed =>
       cancelled \/ \E a \in Enders : phase[a] = "cancel"

Agreed ==
  StreamTypes /\ MarkedFirst /\ StartsOnce /\ NothingIsLost /\ ResultIsLast
  /\ HandleIsHeld

StreamInv == Flags /\ Agreed
-----------------------------------------------------------------------------
\* Nothing has been sent or seen.
LEMMA AgreedInit == Init => Agreed
  BY BoundsAssumption
  DEF Init, Agreed, StreamTypes, MarkedFirst, StartsOnce, NothingIsLost,
      ResultIsLast, HandleIsHeld, Over, Enders, Waiting

\* The flags stay flags: a lemma of its own, for it needs nothing else.
LEMMA FlagsStep == Flags /\ [Next]_vars => Flags'
  <1> SUFFICES ASSUME Flags, [Next]_vars
               PROVE  Flags'
    OBVIOUS
  <1> USE DEF Flags, shared, queueV, enders, uploadV, callerV, wakeV
  <1>1. CASE \E a \in Enders : Mark(a)
    BY <1>1, Zenon DEF Mark, Advances
  <1>2. CASE \E a \in Enders : Cancel(a)
    BY <1>2, Zenon DEF Cancel, Advances
  <1>3. CASE \E a \in Enders : Settle(a)
    BY <1>3, Zenon DEF Settle, Advances, Wakes
  <1>4. CASE Receives
    BY <1>4, Zenon DEF Receives, Lookup, NotCaller
  <1>5. CASE GoodHead
    BY <1>5, Zenon DEF GoodHead, NotCaller
  <1>6. CASE GoodData
    BY <1>6, Zenon DEF GoodData, NotCaller, Accepts
  <1>7. CASE EndsStream
    BY <1>7, Zenon DEF EndsStream, Begins, NotCaller
  <1>8. CASE Removes
    BY <1>8, Zenon DEF Removes, NotCaller
  <1>9. CASE Drain
    BY <1>9, Zenon DEF Drain, Begins
  <1>10. CASE UploadEnds
    BY <1>10, Zenon DEF UploadEnds, UploadOnly
  <1>11. CASE UploadChecks
    BY <1>11, Zenon DEF UploadChecks, UploadOnly, Begins
  <1>12. CASE UploadTells
    BY <1>12, Zenon DEF UploadTells, UploadOnly
  <1>13. CASE Install
    BY <1>13, Zenon DEF Install, Moves, CallerOnly
  <1>14. CASE ReadHead
    BY <1>14, Zenon DEF ReadHead, Moves, CallerOnly, Reads
  <1>15. CASE ReadCompleted
    BY <1>15, Zenon DEF ReadCompleted, Moves, CallerOnly, Reads
  <1>16. CASE PollRegisters
    BY <1>16, Zenon DEF PollRegisters, Moves, CallerOnly, Reads
  <1>17. CASE PollFailed
    BY <1>17, Zenon DEF PollFailed, Moves, CallerOnly, Reads
  <1>18. CASE PollComplete
    BY <1>18, Zenon DEF PollComplete, Moves, CallerOnly, Reads
  <1>19. CASE RecvChunk
    BY <1>19, Zenon DEF RecvChunk, Moves, CallerOnly
  <1>20. CASE Yields
    BY <1>20, Zenon DEF Yields, Moves, CallerOnly, Reads
  <1>21. CASE RecvNothing
    BY <1>21, Zenon DEF RecvNothing, Moves, CallerOnly, Reads
  <1>22. CASE Repoll
    BY <1>22, Zenon DEF Repoll, Moves, CallerOnly, Reads
  <1>23. CASE DropUnregisters
    BY <1>23, Zenon DEF DropUnregisters, Moves, CallerOnly
  <1>24. CASE DropTells
    BY <1>24, Zenon DEF DropTells, Moves, CallerOnly
  <1>25. CASE Abandon
    BY <1>25, Zenon DEF Abandon, CallerOnly, Reads
  <1>26. CASE UNCHANGED vars
    BY <1>26, Zenon DEF vars
  <1> QED
    BY <1>1, <1>2, <1>3, <1>4, <1>5, <1>6, <1>7, <1>8, <1>9, <1>10, <1>11, <1>12, <1>13,
       <1>14, <1>15, <1>16, <1>17, <1>18, <1>19, <1>20, <1>21, <1>22, <1>23, <1>24, <1>25,
       <1>26
    DEF Next, EnderStep, SessionStep, CallerStep

\* No flag is set.
LEMMA FlagsInit == Init => Flags
  BY Zenon DEF Init, Flags

\* Every step keeps the invariant, one action at a time.
LEMMA AgreedStep == Flags /\ Agreed /\ [Next]_vars => Agreed'
  <1> SUFFICES ASSUME Flags, Agreed, [Next]_vars
               PROVE  Agreed'
    OBVIOUS
  <1> USE DEF Agreed, StreamTypes, MarkedFirst, StartsOnce, NothingIsLost,
              ResultIsLast, HandleIsHeld, Over, Enders, Waiting,
              shared, queueV, enders, uploadV, callerV, wakeV
  <1>1. CASE \E a \in Enders : Mark(a)
    BY <1>1 DEF Mark, Advances
  <1>2. CASE \E a \in Enders : Cancel(a)
    <2>1. StreamTypes'
      BY <1>2 DEF Cancel, Advances
    <2>2. MarkedFirst'
      BY <1>2 DEF Cancel, Advances
    <2>3. StartsOnce'
      BY <1>2 DEF Cancel, Advances
    <2>4. NothingIsLost'
      BY <1>2 DEF Cancel, Advances
    <2>5. ResultIsLast'
      BY <1>2 DEF Cancel, Advances
    <2>6. HandleIsHeld'
      BY <1>2 DEF Cancel, Advances
    <2> QED
      BY <2>1, <2>2, <2>3, <2>4, <2>5, <2>6
  <1>3. CASE \E a \in Enders : Settle(a)
    BY <1>3 DEF Flags, Settle, Advances, Wakes
  <1>4. CASE Receives
    BY <1>4 DEF Receives, Lookup, NotCaller
  <1>5. CASE GoodHead
    BY <1>5 DEF GoodHead, NotCaller
  <1>6. CASE GoodData
    BY <1>6 DEF GoodData, NotCaller, Accepts
  <1>7. CASE EndsStream
    BY <1>7 DEF EndsStream, Begins, NotCaller
  <1>8. CASE Removes
    <2>1. StreamTypes'
      BY <1>8 DEF Removes, NotCaller
    <2>2. MarkedFirst'
      BY <1>8 DEF Removes, NotCaller
    <2>3. StartsOnce'
      BY <1>8 DEF Removes, NotCaller
    <2>4. NothingIsLost'
      BY <1>8 DEF Removes, NotCaller
    <2>5. ResultIsLast'
      BY <1>8 DEF Removes, NotCaller
    <2>6. HandleIsHeld'
      BY <1>8 DEF Removes, NotCaller
    <2> QED
      BY <2>1, <2>2, <2>3, <2>4, <2>5, <2>6
  <1>9. CASE Drain
    <2>1. StreamTypes'
      BY <1>9 DEF Drain, Begins
    <2>2. MarkedFirst'
      BY <1>9 DEF Drain, Begins
    <2>3. StartsOnce'
      BY <1>9 DEF Drain, Begins
    <2>4. NothingIsLost'
      BY <1>9 DEF Drain, Begins
    <2>5. ResultIsLast'
      BY <1>9 DEF Drain, Begins
    <2>6. HandleIsHeld'
      BY <1>9 DEF Drain, Begins
    <2> QED
      BY <2>1, <2>2, <2>3, <2>4, <2>5, <2>6
  <1>10. CASE UploadEnds
    BY <1>10 DEF UploadEnds, UploadOnly
  <1>11. CASE UploadChecks
    BY <1>11 DEF UploadChecks, UploadOnly, Begins
  <1>12. CASE UploadTells
    BY <1>12 DEF UploadTells, UploadOnly
  <1>13. CASE Install
    <2>1. StreamTypes'
      BY <1>13 DEF Install, Moves, CallerOnly
    <2>2. MarkedFirst'
      BY <1>13 DEF Install, Moves, CallerOnly
    <2>3. StartsOnce'
      BY <1>13 DEF Install, Moves, CallerOnly
    <2>4. NothingIsLost'
      BY <1>13 DEF Install, Moves, CallerOnly
    <2>5. ResultIsLast'
      BY <1>13 DEF Install, Moves, CallerOnly
    <2>6. HandleIsHeld'
      BY <1>13 DEF Install, Moves, CallerOnly
    <2> QED
      BY <2>1, <2>2, <2>3, <2>4, <2>5, <2>6
  <1>14. CASE ReadHead
    BY <1>14 DEF ReadHead, Moves, CallerOnly, Reads
  <1>15. CASE ReadCompleted
    BY <1>15 DEF ReadCompleted, Moves, CallerOnly, Reads
  <1>16. CASE PollRegisters
    BY <1>16 DEF PollRegisters, Moves, CallerOnly, Reads
  <1>17. CASE PollFailed
    BY <1>17 DEF PollFailed, Moves, CallerOnly, Reads
  <1>18. CASE PollComplete
    BY <1>18 DEF PollComplete, Moves, CallerOnly, Reads
  <1>19. CASE RecvChunk
    BY <1>19 DEF RecvChunk, Moves, CallerOnly
  <1>20. CASE Yields
    BY <1>20 DEF Yields, Moves, CallerOnly, Reads
  <1>21. CASE RecvNothing
    BY <1>21 DEF RecvNothing, Moves, CallerOnly, Reads
  <1>22. CASE Repoll
    BY <1>22 DEF Repoll, Moves, CallerOnly, Reads
  <1>23. CASE DropUnregisters
    <2>1. StreamTypes'
      BY <1>23 DEF DropUnregisters, Moves, CallerOnly
    <2>2. MarkedFirst'
      BY <1>23 DEF DropUnregisters, Moves, CallerOnly
    <2>3. StartsOnce'
      BY <1>23 DEF DropUnregisters, Moves, CallerOnly
    <2>4. NothingIsLost'
      BY <1>23 DEF DropUnregisters, Moves, CallerOnly
    <2>5. ResultIsLast'
      BY <1>23 DEF DropUnregisters, Moves, CallerOnly
    <2>6. HandleIsHeld'
      BY <1>23 DEF DropUnregisters, Moves, CallerOnly
    <2> QED
      BY <2>1, <2>2, <2>3, <2>4, <2>5, <2>6
  <1>24. CASE DropTells
    BY <1>24 DEF Flags, DropTells, Moves, CallerOnly
  <1>25. CASE Abandon
    BY <1>25 DEF Abandon, CallerOnly, Reads
  <1>26. CASE UNCHANGED vars
    BY <1>26 DEF vars
  <1> QED
    BY <1>1, <1>2, <1>3, <1>4, <1>5, <1>6, <1>7, <1>8, <1>9, <1>10, <1>11, <1>12, <1>13,
       <1>14, <1>15, <1>16, <1>17, <1>18, <1>19, <1>20, <1>21, <1>22, <1>23, <1>24, <1>25,
       <1>26
    DEF Next, EnderStep, SessionStep, CallerStep

-----------------------------------------------------------------------------
\* The four tasks of a request keep to the invariant.
THEOREM StreamIsSafe == Spec => []StreamInv
  <1>1. Init => StreamInv
    BY FlagsInit, AgreedInit DEF StreamInv
  <1>2. StreamInv /\ [Next]_vars => StreamInv'
    BY FlagsStep, AgreedStep DEF StreamInv
  <1> QED
    BY <1>1, <1>2, PTL DEF Spec

\* No interleaving of the enders, the queue and the poll truncates a response:
\* a clean end of the body is a clean END after every chunk.
THEOREM CleanEof == Spec => []CleanEofMeansWholeBody
  <1>1. StreamInv => CleanEofMeansWholeBody
    BY DEF StreamInv, Agreed, StreamTypes, NothingIsLost, CleanEofMeansWholeBody
  <1> QED
    BY <1>1, StreamIsSafe, PTL

\* The guard tells the tether to abort only what the caller abandoned.
THEOREM NormalEnd == Spec => []NormalEndIsNotAborted
  <1>1. StreamInv => NormalEndIsNotAborted
    BY DEF StreamInv, Agreed, ResultIsLast, NormalEndIsNotAborted
  <1> QED
    BY <1>1, StreamIsSafe, PTL

\* Once a stream is over its upload is stopped, whichever of install_upload
\* and finish_upload came first.
THEOREM UploadStops == Spec => []UploadIsStopped
  <1>1. StreamInv => UploadIsStopped
    BY DEF StreamInv, Agreed, StreamTypes, HandleIsHeld, UploadIsStopped
  <1> QED
    BY <1>1, StreamIsSafe, PTL
=============================================================================
