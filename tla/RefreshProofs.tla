--------------------------- MODULE RefreshProofs ---------------------------
(***************************************************************************)
(* The safety of Refresh, for any number of workers and of changes and any  *)
(* pause and limit.  The invariant follows the age of what is held: while a *)
(* timer runs, the age of the version in use and the time left add up to a  *)
(* bound, because a tick adds to the one what it takes from the other.      *)
(***************************************************************************)
EXTENDS Refresh, TLAPS

\* Which workers are busy: none while the monitor sleeps, the one it waits for
\* otherwise.
WorkerInv ==
    IF monitor = "sleeping" THEN \A w \in Workers : worker[w] = "idle"
    ELSE /\ worker[read] # "idle"
         /\ \A w \in Workers \ {read} : worker[w] = "idle"

\* The running timer and the versions no one has superseded yet.
TimeInv ==
    /\ monitor = "sleeping" => timer <= SleepTicks
    /\ monitor = "waiting" => timer <= LimitTicks
    /\ \A v \in Versions : v >= version => age[v] = 0

\* What the worker read was current when it read, within this wait.
SeenInv ==
    monitor = "waiting" /\ worker[read] \in {"read", "done"} =>
        /\ age[seen[read]] + timer <= LimitTicks
        /\ seen[read] >= cleared_at

\* What the hub holds.
HeldInv ==
    /\ cleared_at <= version
    /\ monitor = "draining" => registry = Cleared
    /\ registry # Cleared =>
         /\ registry >= cleared_at
         /\ monitor = "sleeping" => age[registry] + timer <= LimitTicks + SleepTicks
         /\ monitor = "waiting" => age[registry] + timer <= 2 * LimitTicks + SleepTicks

RefreshInv == TypeOK /\ WorkerInv /\ TimeInv /\ SeenInv /\ HeldInv

-----------------------------------------------------------------------------
\* The initial state: nothing is superseded, no worker runs (main.rs:200-205).
LEMMA InitInv == Init => RefreshInv
  BY BoundAssumption, TimeAssumption, ClearedAssumption
  DEF Init, RefreshInv, TypeOK, WorkerInv, TimeInv, SeenInv, HeldInv, Versions

\* A change of the store leaves every age alone: the version it supersedes
\* starts at zero.
LEMMA CommitInv == RefreshInv /\ Commit => RefreshInv'
  BY BoundAssumption, TimeAssumption, ClearedAssumption
  DEF Commit, hubVars, workerVars, RefreshInv, TypeOK, WorkerInv, TimeInv, SeenInv,
      HeldInv, Versions

\* A tick takes one from the timer and adds at most one to each age.
LEMMA TickInv == RefreshInv /\ Tick => RefreshInv'
<1> SUFFICES ASSUME RefreshInv, Tick PROVE RefreshInv'
  OBVIOUS
<1>1. /\ timer' \in Nat
      /\ timer' <= timer
      /\ monitor # "draining" => timer' = timer - 1
  BY DEF Tick, RefreshInv, TypeOK
<1>2. /\ age' \in [Versions -> Nat]
      /\ \A v \in Versions : age'[v] <= age[v] + 1
      /\ \A v \in Versions : v >= version => age'[v] = age[v]
  BY DEF Tick, RefreshInv, TypeOK, Versions
<1>3. UNCHANGED <<version, registry, cleared_at, monitor, read, worker, seen>>
  BY DEF Tick, hubVars, workerVars
<1>4. TypeOK'
  BY <1>1, <1>2, <1>3 DEF RefreshInv, TypeOK
<1>5. WorkerInv'
  BY <1>3 DEF RefreshInv, WorkerInv
<1>6. TimeInv'
  BY <1>1, <1>2, <1>3, TimeAssumption DEF RefreshInv, TypeOK, TimeInv, Versions
<1>7. SeenInv'
  <2> SUFFICES ASSUME monitor = "waiting", worker[read] \in {"read", "done"}
               PROVE /\ age'[seen[read]] + timer' <= LimitTicks
                     /\ seen[read] >= cleared_at
    BY <1>3 DEF SeenInv
  <2>1. seen[read] \in Versions
    BY DEF RefreshInv, TypeOK
  <2>2. age[seen[read]] \in Nat /\ timer \in Nat
    BY <2>1 DEF RefreshInv, TypeOK
  <2> QED
    BY <1>1, <1>2, <2>1, <2>2, TimeAssumption DEF RefreshInv, SeenInv
<1>8. HeldInv'
  <2>1. registry \in Versions => age[registry] \in Nat /\ age'[registry] \in Nat
    BY <1>2 DEF RefreshInv, TypeOK
  <2>2. registry # Cleared => registry \in Versions
    BY DEF RefreshInv, TypeOK
  <2> QED
    BY <1>1, <1>2, <1>3, <2>1, <2>2, TimeAssumption DEF RefreshInv, TypeOK, HeldInv
<1> QED
  BY <1>4, <1>5, <1>6, <1>7, <1>8 DEF RefreshInv

\* A worker reads the version that is newest at that moment; whatever else it
\* does, what it read stays (main.rs:277-279).
LEMMA WorkerStepInv ==
  ASSUME NEW w \in Workers, RefreshInv, Snapshot(w) \/ Return(w) \/ Fail(w)
  PROVE  RefreshInv'
<1>1. /\ UNCHANGED <<version, age, registry, cleared_at, monitor, timer, read>>
      /\ worker[w] # "idle"
      /\ \E to \in {"read", "done", "failed"} : worker' = [worker EXCEPT ![w] = to]
  BY DEF Snapshot, Return, Fail, Works, storeVars, hubVars
<1>2. monitor # "sleeping" /\ w = read
  BY <1>1 DEF RefreshInv, TypeOK, WorkerInv
<1>3. TypeOK'
  BY <1>1 DEF Snapshot, Return, Fail, RefreshInv, TypeOK
<1>4. WorkerInv'
  BY <1>1, <1>2 DEF RefreshInv, TypeOK, WorkerInv
<1>5. TimeInv' /\ HeldInv'
  BY <1>1 DEF RefreshInv, TimeInv, HeldInv
<1>6. SeenInv'
  <2>1. CASE Snapshot(w)
    <3>1. seen'[read] = version
      BY <1>2, <2>1 DEF Snapshot, RefreshInv, TypeOK
    <3>2. version \in Versions /\ age[version] = 0
      BY BoundAssumption DEF RefreshInv, TypeOK, TimeInv, Versions
    <3> QED
      BY <1>1, <3>1, <3>2, TimeAssumption
      DEF RefreshInv, TypeOK, TimeInv, HeldInv, SeenInv, Versions
  <2>2. CASE Return(w)
    BY <1>1, <1>2, <2>2 DEF Return, Works, RefreshInv, SeenInv
  <2>3. CASE Fail(w)
    BY <1>1, <1>2, <2>3 DEF Fail, Works, RefreshInv, TypeOK, SeenInv
  <2> QED
    BY <2>1, <2>2, <2>3
<1> QED
  BY <1>3, <1>4, <1>5, <1>6 DEF RefreshInv

\* A wait begins when the pause is over, so what is in use is at most a pause
\* and a limit old (main.rs:275-279).
LEMMA SpawnInv == RefreshInv /\ Spawn => RefreshInv'
<1> SUFFICES ASSUME RefreshInv, Spawn PROVE RefreshInv'
  OBVIOUS
<1>1. PICK w \in Workers : worker' = [worker EXCEPT ![w] = "reading"] /\ read' = w
  BY DEF Spawn
<1>2. /\ monitor = "sleeping" /\ monitor' = "waiting"
      /\ timer = 0 /\ timer' = LimitTicks
      /\ UNCHANGED <<version, age, registry, cleared_at, seen>>
  BY DEF Spawn, storeVars, hubVars
<1>3. TypeOK'
  BY <1>1, <1>2, TimeAssumption DEF RefreshInv, TypeOK
<1>4. WorkerInv' /\ SeenInv'
  BY <1>1, <1>2 DEF RefreshInv, TypeOK, WorkerInv, SeenInv
<1>5. TimeInv'
  BY <1>2, TimeAssumption DEF RefreshInv, TimeInv
<1>6. HeldInv'
  BY <1>2, TimeAssumption DEF RefreshInv, TypeOK, HeldInv
<1> QED
  BY <1>3, <1>4, <1>5, <1>6 DEF RefreshInv

\* A wait or a drain that ends frees the only busy worker.
LEMMA CollectInv ==
  ASSUME RefreshInv, monitor # "sleeping", Collect, SleepNow, UNCHANGED read
  PROVE  WorkerInv' /\ SeenInv'
  BY DEF Collect, SleepNow, RefreshInv, TypeOK, WorkerInv, SeenInv

\* A snapshot in time is as old as the wait is long (main.rs:281).
LEMMA ApplyInv == RefreshInv /\ Apply => RefreshInv'
<1> SUFFICES ASSUME RefreshInv, Apply PROVE RefreshInv'
  OBVIOUS
<1>1. WorkerInv' /\ SeenInv'
  BY CollectInv DEF Apply
<1>2. /\ registry' = seen[read] /\ seen[read] \in Versions
      /\ monitor = "waiting" /\ worker[read] = "done"
      /\ monitor' = "sleeping" /\ timer' = SleepTicks
      /\ UNCHANGED <<version, age, cleared_at, read, seen>>
  BY DEF Apply, SleepNow, storeVars, RefreshInv, TypeOK
<1>3. TypeOK'
  BY <1>2, TimeAssumption DEF Apply, Collect, RefreshInv, TypeOK
<1>4. TimeInv'
  BY <1>2, TimeAssumption DEF RefreshInv, TimeInv
<1>5. HeldInv'
  <2>1. age[seen[read]] \in Nat /\ timer \in Nat /\ age[seen[read]] + timer <= LimitTicks
    BY <1>2 DEF RefreshInv, TypeOK, SeenInv
  <2> QED
    BY <1>2, <2>1, TimeAssumption DEF RefreshInv, SeenInv, HeldInv
<1> QED
  BY <1>1, <1>3, <1>4, <1>5 DEF RefreshInv

\* A failure and a timeout leave nothing to be stale (main.rs:282-288).
LEMMA ClearInv == RefreshInv /\ (ReadFailed \/ TimeOut) => RefreshInv'
<1> SUFFICES ASSUME RefreshInv, ReadFailed \/ TimeOut PROVE RefreshInv'
  OBVIOUS
<1>1. CASE ReadFailed
  <2>1. WorkerInv' /\ SeenInv'
    BY <1>1, CollectInv DEF ReadFailed
  <2>2. TypeOK' /\ TimeInv' /\ HeldInv'
    BY <1>1, TimeAssumption, ClearedAssumption
    DEF ReadFailed, Clear, Collect, SleepNow, storeVars, RefreshInv, TypeOK, TimeInv,
        HeldInv, Versions
  <2> QED
    BY <2>1, <2>2 DEF RefreshInv
<1>2. CASE TimeOut
  BY <1>2, ClearedAssumption
  DEF TimeOut, Clear, storeVars, workerVars, RefreshInv, TypeOK, WorkerInv, TimeInv,
      SeenInv, HeldInv, Versions
<1> QED
  BY <1>1, <1>2

\* The late result is dropped: the hub still holds nothing (main.rs:291).
LEMMA DrainedInv == RefreshInv /\ Drained => RefreshInv'
<1> SUFFICES ASSUME RefreshInv, Drained PROVE RefreshInv'
  OBVIOUS
<1>1. WorkerInv' /\ SeenInv'
  BY CollectInv DEF Drained
<1>2. TypeOK' /\ TimeInv' /\ HeldInv'
  BY TimeAssumption
  DEF Drained, Collect, SleepNow, storeVars, hubVars, RefreshInv, TypeOK, TimeInv, HeldInv
<1> QED
  BY <1>1, <1>2 DEF RefreshInv

\* The invariant holds throughout.
THEOREM RefreshInvariant == Spec => []RefreshInv
<1>1. RefreshInv /\ [Next]_vars => RefreshInv'
  <2> SUFFICES ASSUME RefreshInv, [Next]_vars PROVE RefreshInv'
    OBVIOUS
  <2>1. CASE Commit
    BY <2>1, CommitInv
  <2>2. CASE Tick
    BY <2>2, TickInv
  <2>3. CASE MonitorStep
    BY <2>3, SpawnInv, ApplyInv, ClearInv, DrainedInv DEF MonitorStep
  <2>4. ASSUME NEW w \in Workers, Snapshot(w) \/ Return(w) \/ Fail(w) PROVE RefreshInv'
    BY <2>4, WorkerStepInv
  <2>5. CASE UNCHANGED vars
    BY <2>5
    DEF vars, storeVars, hubVars, workerVars, RefreshInv, TypeOK, WorkerInv, TimeInv,
        SeenInv, HeldInv
  <2> QED
    BY <2>1, <2>2, <2>3, <2>4, <2>5 DEF Next
<1> QED
  BY InitInv, <1>1, PTL DEF Spec

\* Whatever the hub authorizes by was superseded at most a pause and two limits
\* ago (main.rs:275-292).
THEOREM FreshOrNothing == Spec => []StalenessBounded
<1>1. RefreshInv => StalenessBounded
  <2> SUFFICES ASSUME RefreshInv, registry # Cleared PROVE age[registry] <= Horizon
    BY DEF StalenessBounded
  <2>1. age[registry] \in Nat /\ timer \in Nat
    BY DEF RefreshInv, TypeOK
  <2> QED
    BY <2>1, TimeAssumption DEF RefreshInv, TypeOK, HeldInv, Horizon
<1> QED
  BY <1>1, RefreshInvariant, PTL

\* A read that missed its limit is never applied, and readers do not pile up
\* (main.rs:268, 286-291).
THEOREM LateReadsAreDropped == Spec => []LateResultIsDropped
<1>1. RefreshInv => LateResultIsDropped
  BY DEF RefreshInv, WorkerInv, HeldInv, LateResultIsDropped, OneReader
<1> QED
  BY <1>1, RefreshInvariant, PTL
=============================================================================
