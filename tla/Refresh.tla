------------------------------ MODULE Refresh ------------------------------
(***************************************************************************)
(* The monitor that keeps the hub's registrations in step with the durable  *)
(* store (main.rs:268-294).  Every 500 ms it starts a blocking worker that  *)
(* opens the store and takes a snapshot, and waits for it for two seconds.  *)
(* A snapshot replaces the registrations; a failure clears them; a timeout  *)
(* clears them and waits for the same worker, whose result is dropped.      *)
(*                                                                         *)
(* The store is a sequence of committed versions (that a snapshot is one of *)
(* them is AdminStore's SnapshotIsCommitted), and what the hub does with a  *)
(* snapshot is Registry's ReplaceRecords.  Time advances in ticks of half a *)
(* second; a timer that has run out is served before the next tick.         *)
(***************************************************************************)
EXTENDS Naturals, FiniteSets

CONSTANTS
    Workers,     \* blocking workers
    MaxVersion,  \* bound on the number of committed changes
    SleepTicks,  \* the pause between two reads: 1 in the code
    LimitTicks,  \* the time a read may take: 4 in the code
    Cleared      \* the registry holds no registrations

ASSUME BoundAssumption == MaxVersion \in Nat
ASSUME TimeAssumption == SleepTicks \in Nat /\ LimitTicks \in Nat
ASSUME ClearedAssumption == Cleared \notin Nat

VARIABLES
    version,     \* the newest committed version of the store
    age,         \* for each version, the ticks since a newer one was committed
    registry,    \* the version the hub authorizes by, or Cleared
    cleared_at,  \* the version that was newest at the last clear
    monitor,     \* "sleeping", "waiting" or "draining"
    timer,       \* ticks left of the monitor's timer
    read,        \* the worker it waits for
    worker,      \* each worker: "idle", "reading", "read", "done" or "failed"
    seen         \* the version each worker read

storeVars  == <<version, age>>
hubVars    == <<registry, cleared_at>>
workerVars == <<worker, seen>>
vars == <<storeVars, hubVars, monitor, timer, read, workerVars>>

Versions == 0..MaxVersion

\* The longest a superseded version can stay in use, and a cap on ages above it.
Horizon == SleepTicks + 2 * LimitTicks
AgeCap  == Horizon + 1

\* The hub loads a snapshot before it starts the monitor.
Init ==
    /\ version = 0 /\ age = [v \in Versions |-> 0]
    /\ registry = 0 /\ cleared_at = 0
    /\ monitor = "sleeping" /\ timer = SleepTicks
    /\ read \in Workers
    /\ worker = [w \in Workers |-> "idle"] /\ seen = [w \in Workers |-> 0]

\* An administrator's change.
Commit ==
    /\ version < MaxVersion
    /\ version' = version + 1
    /\ UNCHANGED <<age, hubVars, monitor, timer, read, workerVars>>

Tick ==
    /\ monitor = "draining" \/ timer > 0
    /\ timer' = IF timer > 0 THEN timer - 1 ELSE 0
    /\ age' = [v \in Versions |->
                 IF v < version /\ age[v] < AgeCap THEN age[v] + 1 ELSE age[v]]
    /\ UNCHANGED <<version, hubVars, monitor, read, workerVars>>

-----------------------------------------------------------------------------
(* The blocking worker: Store::open and Store::snapshot. *)

Works(w, from, to) == /\ worker[w] = from
                      /\ worker' = [worker EXCEPT ![w] = to]
                      /\ UNCHANGED <<storeVars, hubVars, monitor, timer, read>>

Snapshot(w) == /\ Works(w, "reading", "read")
               /\ seen' = [seen EXCEPT ![w] = version]

Return(w) == Works(w, "read", "done") /\ UNCHANGED seen

\* Any error, or a panic of the worker.
Fail(w) == /\ Works(w, "reading", "failed") \/ Works(w, "read", "failed")
           /\ UNCHANGED seen

Finished(w) == worker[w] \in {"done", "failed"}

-----------------------------------------------------------------------------
(* The monitor. *)

Spawn ==
    /\ monitor = "sleeping" /\ timer = 0
    /\ \E w \in Workers :
         /\ worker[w] = "idle"
         /\ worker' = [worker EXCEPT ![w] = "reading"]
         /\ read' = w
    /\ monitor' = "waiting" /\ timer' = LimitTicks
    /\ UNCHANGED <<storeVars, hubVars, seen>>

Clear    == registry' = Cleared /\ cleared_at' = version
Collect  == worker' = [worker EXCEPT ![read] = "idle"]
SleepNow == monitor' = "sleeping" /\ timer' = SleepTicks

\* replace_records with the snapshot.
Apply ==
    /\ monitor = "waiting" /\ worker[read] = "done"
    /\ registry' = seen[read] /\ UNCHANGED cleared_at
    /\ Collect /\ SleepNow
    /\ UNCHANGED <<storeVars, read, seen>>

\* Mutant: an error keeps the registrations.
ReadFailed_KeepsRecords ==
    /\ monitor = "waiting" /\ worker[read] = "failed"
    /\ UNCHANGED hubVars
    /\ Collect /\ SleepNow
    /\ UNCHANGED <<storeVars, read, seen>>

ReadFailed ==
    /\ monitor = "waiting" /\ worker[read] = "failed"
    /\ Clear
    /\ Collect /\ SleepNow
    /\ UNCHANGED <<storeVars, read, seen>>

\* Mutant: a timeout keeps the registrations.
TimeOut_KeepsRecords ==
    /\ monitor = "waiting" /\ timer = 0 /\ ~Finished(read)
    /\ monitor' = "draining"
    /\ UNCHANGED <<storeVars, hubVars, timer, read, workerVars>>

\* timeout() looks at the worker first, so a result in time is not lost.
TimeOut ==
    /\ monitor = "waiting" /\ timer = 0 /\ ~Finished(read)
    /\ Clear
    /\ monitor' = "draining"
    /\ UNCHANGED <<storeVars, timer, read, workerVars>>

\* Mutant: the late result is applied after all.
Drained_Applies ==
    /\ monitor = "draining" /\ Finished(read)
    /\ registry' = IF worker[read] = "done" THEN seen[read] ELSE registry
    /\ Collect /\ SleepNow
    /\ UNCHANGED <<storeVars, cleared_at, read, seen>>

\* read.await: the late result is dropped.
Drained ==
    /\ monitor = "draining" /\ Finished(read)
    /\ Collect /\ SleepNow
    /\ UNCHANGED <<storeVars, hubVars, read, seen>>

MonitorStep == Spawn \/ Apply \/ ReadFailed \/ TimeOut \/ Drained

Next ==
    \/ Commit \/ Tick \/ MonitorStep
    \/ \E w \in Workers : Snapshot(w) \/ Return(w) \/ Fail(w)

Spec == Init /\ [][Next]_vars

\* Time passes and a monitor that can run runs; a worker may hang for ever.
FairSpec == Spec /\ WF_vars(Tick) /\ WF_vars(MonitorStep)

-----------------------------------------------------------------------------
(* Properties. *)

\* Every variable has its type.
TypeOK ==
    /\ version \in Versions /\ age \in [Versions -> Nat]
    /\ registry \in Versions \cup {Cleared} /\ cleared_at \in Versions
    /\ monitor \in {"sleeping", "waiting", "draining"}
    /\ timer \in Nat
    /\ read \in Workers
    /\ worker \in [Workers -> {"idle", "reading", "read", "done", "failed"}]
    /\ seen \in [Workers -> Versions]

\* Authority is fresh or absent: the hub never authorizes by a version that was
\* superseded more than 0.5 + 2 * 2 seconds ago, however slow, stuck or broken
\* the store is (main.rs:275-292).
StalenessBounded == registry # Cleared => age[registry] <= Horizon

\* Workers that hang do not accumulate: a new one is started only when the one
\* before has ended.
OneReader ==
    \A v, w \in Workers : worker[v] # "idle" /\ worker[w] # "idle" => v = w

\* A read that missed its limit is neither applied nor abandoned: whatever the hub
\* holds was read after the last clear, and there is one reader (main.rs:268,
\* 286-292).
LateResultIsDropped == (registry # Cleared => registry >= cleared_at) /\ OneReader

\* A committed change takes effect, or authorization is cleared, even if no
\* read ever succeeds again.
ChangeTakesEffect ==
    \A v \in 1..MaxVersion :
        version >= v ~> (registry = Cleared \/ registry >= v)
=============================================================================
