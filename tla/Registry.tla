------------------------------ MODULE Registry ------------------------------
(***************************************************************************)
(* The hub's authority: the credential tables, the live tether sessions    *)
(* and the admission of caller requests (cargo/src/hub.rs).                *)
(*                                                                         *)
(* Four kinds of threads meet in `Registry`: an administrator changing the *)
(* records, one connection task per tether (`handle_tether`), one task per *)
(* caller request (`forward_any`), and the response guards the callers     *)
(* drop.  One action is one critical section of the code, so every point   *)
(* where a mutex is released and taken again is an interleaving point.     *)
(*                                                                         *)
(* The `routing` mutex is held across several actions by exactly three     *)
(* operations; each leaves a trace of what it still has to do:             *)
(*   revoking   # NoId    `revoke` has disabled the record, not yet        *)
(*                        evicted the session                              *)
(*   superseded # NoConn  `attach` has installed a session, not yet        *)
(*                        cancelled this predecessor; the two record       *)
(*                        tables are locked as well                        *)
(*   reserving  # NoReq   `forward` holds an OPEN permit, not yet admitted *)
(***************************************************************************)
EXTENDS Integers, FiniteSets

CONSTANTS
  Ids,              \* registration ids
  Creds,            \* credentials; a digest is as good as its credential
  Conns,            \* accepted tether connections, one task each
  Requests,         \* caller requests
  NoId, NoConn, NoReq, NoTether,
  Rank,             \* lexical order of the ids
  ExpiryOf,         \* the expiry a credential was issued with (durable mode)
  Snapshots,        \* what the durable store may contain
  Durable,          \* durable state, or the explicit in-memory registrations
  Lease,            \* Registry.lease
  Second,           \* one second, in clock units
  MaxTime,          \* bound of the clock
  MaxConcurrentStreams, MaxStreamId, CommandCapacity

Never == 0          \* Tether.expires_at = None; a persisted expiry is positive

Records == [hash: Creds, active: BOOLEAN, expires_at: Nat]
StreamIds == 1..MaxStreamId
NoStreams == [i \in StreamIds |-> NoReq]

(* A store holds at most one record per credential (256 random bits) and a *)
(* credential keeps the expiry it was issued with.                         *)
ASSUME ValuesAssumption ==
  /\ NoId \notin Ids /\ NoConn \notin Conns /\ NoReq \notin Requests
  /\ NoTether \notin Records
  /\ Rank \in [Ids -> Nat] /\ \A a, b \in Ids : Rank[a] = Rank[b] => a = b
ASSUME StoreAssumption ==
  /\ ExpiryOf \in [Creds -> Nat \ {Never}]
  /\ Durable \in BOOLEAN
  /\ Snapshots \subseteq [Ids -> Records \cup {NoTether}]
  /\ \A s \in Snapshots : \A a, b \in Ids :
        s[a] # NoTether =>
          /\ s[a].expires_at = ExpiryOf[s[a].hash]
          /\ s[b] # NoTether /\ s[b].hash = s[a].hash => a = b
ASSUME BoundsAssumption ==
  /\ Lease \in Nat \ {0} /\ Second \in Nat \ {0} /\ MaxTime \in Nat
  /\ MaxConcurrentStreams \in Nat \ {0}
  /\ MaxStreamId \in Nat \ {0} /\ CommandCapacity \in Nat \ {0}

VARIABLES
  now,
  by_credential, by_id, live, next_generation,       \* struct Registry
  revoking, superseded, reserving,                   \* who holds `routing`
  pc, cred, started, tid, deadline, revoked,         \* handle_tether locals
  generation, closed, abort, silent, streams, next_id,   \* LiveSession
  queued, tx_closed,                                 \* its command channel
  rstate, sess, sid, told,                           \* one entry per request
  last_event                                         \* operator event channel

clockVars   == <<now>>
tableVars   == <<by_credential, by_id>>
routingVars == <<revoking, superseded, reserving>>
taskVars    == <<pc, cred, started, tid, deadline, revoked>>
identVars   == <<generation, next_generation>>
chanVars    == <<queued, tx_closed>>
requestVars == <<rstate, sess, sid, told>>
vars == <<now, by_credential, by_id, live, next_generation, revoking,
          superseded, reserving, pc, cred, started, tid, deadline, revoked,
          generation, closed, abort, silent, streams, next_id, queued,
          tx_closed, rstate, sess, sid, told, last_event>>

-----------------------------------------------------------------------------
(* The mutexes.                                                            *)
RoutingFree == revoking = NoId /\ superseded = NoConn /\ reserving = NoReq
TablesFree  == superseded = NoConn

(* Tether::remaining and the queries built on it.                          *)
Unexpired(t) == t.expires_at = Never \/ t.expires_at > now
Usable(t)    == t # NoTether /\ t.active /\ Unexpired(t)
IsActive(id) == Usable(by_id[id])

Lesser(a, b) == IF a < b THEN a ELSE b

(* The lease `authorize` grants: never longer than the record has left.    *)
GrantedTtl_IgnoresExpiry(t) == Lease
GrantedTtl(t) ==
  IF t.expires_at = Never THEN Lease ELSE Lesser(Lease, t.expires_at - now)
Authorizes(t) ==
  Usable(t) /\ (t.expires_at = Never \/ t.expires_at - now >= Second)

(* `attach` repeats the decision against the tables as they are now.       *)
StillAuthorized(c) ==
  /\ Usable(by_id[tid[c]])
  /\ by_id[tid[c]].hash = cred[c]
  /\ by_credential[cred[c]] = tid[c]

(* LiveSession.streams, and the room its command channel has left once the *)
(* reserved permit is counted.                                             *)
Carried(c) == {streams[c][i] : i \in StreamIds} \ {NoReq}
Load(c) == Cardinality({i \in StreamIds : streams[c][i] # NoReq})
Permits(c) == IF reserving # NoReq /\ sess[reserving] = c THEN 1 ELSE 0
SlotFree(c) == ~tx_closed[c] /\ queued[c] + Permits(c) < CommandCapacity

-----------------------------------------------------------------------------
Init ==
  /\ now = 0
  /\ IF Durable
     THEN by_id \in Snapshots
     ELSE by_id = [id \in Ids |-> NoTether]
  /\ by_credential =
       [k \in Creds |->
          IF \E id \in Ids : by_id[id] # NoTether /\ by_id[id].hash = k
          THEN CHOOSE id \in Ids : by_id[id] # NoTether /\ by_id[id].hash = k
          ELSE NoId]
  /\ live = [id \in Ids |-> NoConn]
  /\ next_generation = 1
  /\ revoking = NoId /\ superseded = NoConn /\ reserving = NoReq
  /\ pc = [c \in Conns |-> "idle"]
  /\ cred \in [Conns -> Creds]
  /\ started = [c \in Conns |-> 0]
  /\ tid = [c \in Conns |-> NoId]
  /\ deadline = [c \in Conns |-> 0]
  /\ revoked = [c \in Conns |-> FALSE]
  /\ generation = [c \in Conns |-> 0]
  /\ closed = [c \in Conns |-> FALSE]
  /\ abort = [c \in Conns |-> FALSE]
  /\ silent = [c \in Conns |-> FALSE]
  /\ streams = [c \in Conns |-> NoStreams]
  /\ next_id = [c \in Conns |-> 1]
  /\ queued = [c \in Conns |-> 0]
  /\ tx_closed = [c \in Conns |-> FALSE]
  /\ rstate = [r \in Requests |-> "new"]
  /\ sess = [r \in Requests |-> NoConn]
  /\ sid = [r \in Requests |-> 0]
  /\ told = {}
  /\ last_event = [id \in Ids |-> "none"]

Tick ==
  /\ now < MaxTime
  /\ now' = now + 1
  /\ UNCHANGED <<tableVars, live, identVars, routingVars, taskVars, closed,
                 abort, silent, streams, next_id, chanVars, requestVars,
                 last_event>>

-----------------------------------------------------------------------------
(* Control plane.  LiveSession::close marks the session closed and fails   *)
(* every stream it carried, under the lock `admit` takes.                  *)
Closes_Unmarked(S) ==
  /\ closed' = closed
  /\ streams' = [c \in Conns |-> IF c \in S THEN NoStreams ELSE streams[c]]
  /\ rstate' = [r \in Requests |->
                  IF \E c \in S : r \in Carried(c) THEN "failed" ELSE rstate[r]]
Closes_Quietly(S) ==
  /\ closed' = [c \in Conns |-> closed[c] \/ c \in S]
  /\ streams' = [c \in Conns |-> IF c \in S THEN NoStreams ELSE streams[c]]
  /\ rstate' = rstate
Closes(S) ==
  /\ closed' = [c \in Conns |-> closed[c] \/ c \in S]
  /\ streams' = [c \in Conns |-> IF c \in S THEN NoStreams ELSE streams[c]]
  /\ rstate' = [r \in Requests |->
                  IF \E c \in S : r \in Carried(c) THEN "failed" ELSE rstate[r]]

(* Every eviction closes the session and then signals its task.            *)
Evicts_Unsignalled(S) == Closes(S) /\ abort' = abort
Evicts(S) ==
  /\ Closes(S)
  /\ abort' = [c \in Conns |-> abort[c] \/ c \in S]

Unaffected == UNCHANGED <<now, identVars, taskVars, silent, next_id,
                          chanVars, sess, sid, told, last_event>>

Register(id, k) ==
  /\ ~Durable /\ RoutingFree
  /\ by_id' = [by_id EXCEPT
                 ![id] = [hash |-> k, active |-> TRUE, expires_at |-> Never]]
  /\ by_credential' =
       [x \in Creds |->
          IF x = k THEN id
          ELSE IF /\ by_id[id] # NoTether
                  /\ x = by_id[id].hash
                  /\ by_credential[x] = id
               THEN NoId ELSE by_credential[x]]
  /\ live' = [live EXCEPT ![id] = NoConn]
  /\ Evicts({live[id]} \ {NoConn})
  /\ UNCHANGED routingVars
  /\ Unaffected

(* Tether.active = false.                                                  *)
Disabled(t) == [hash |-> t.hash, active |-> FALSE, expires_at |-> t.expires_at]

(* `revoke` releases by_id before it takes `live`; routing stays held.     *)
Revoke(id) ==
  /\ ~Durable /\ RoutingFree
  /\ by_id[id] # NoTether
  /\ by_id' = [by_id EXCEPT ![id] = Disabled(@)]
  /\ revoking' = id
  /\ UNCHANGED <<by_credential, live, superseded, reserving, closed, abort,
                 streams, rstate>>
  /\ Unaffected

EvictRevoked ==
  /\ revoking # NoId
  /\ live' = [live EXCEPT ![revoking] = NoConn]
  /\ Evicts({live[revoking]} \ {NoConn})
  /\ revoking' = NoId
  /\ UNCHANGED <<tableVars, superseded, reserving>>
  /\ Unaffected

(* A snapshot keeps exactly the sessions whose registration it leaves      *)
(* usable and unchanged.  `clear_records` is the empty snapshot.           *)
KeptBy_Usable(s, id) == by_id[id] # NoTether /\ Usable(s[id])
KeptBy(s, id) ==
  /\ by_id[id] # NoTether
  /\ Usable(s[id])
  /\ s[id].hash = by_id[id].hash
  /\ s[id].expires_at = by_id[id].expires_at

NoRecords == [id \in Ids |-> NoTether]

ReplaceRecords(s) ==
  /\ Durable /\ RoutingFree
  /\ by_id' = s
  /\ by_credential' =
       [k \in Creds |->
          IF \E id \in Ids : s[id] # NoTether /\ s[id].hash = k
          THEN CHOOSE id \in Ids : s[id] # NoTether /\ s[id].hash = k
          ELSE NoId]
  /\ live' = [id \in Ids |-> IF KeptBy(s, id) THEN live[id] ELSE NoConn]
  /\ Evicts({live[id] : id \in {i \in Ids : ~KeptBy(s, i)}} \ {NoConn})
  /\ UNCHANGED routingVars
  /\ Unaffected

ControlPlane ==
  \/ \E id \in Ids, k \in Creds : Register(id, k)
  \/ \E id \in Ids : Revoke(id)
  \/ EvictRevoked
  \/ \E s \in Snapshots \cup {NoRecords} : ReplaceRecords(s)

-----------------------------------------------------------------------------
(* The connection task of a tether, up to its session loop.                *)
Goes(c, from, to) == pc[c] = from /\ pc' = [pc EXCEPT ![c] = to]

Handshaking == UNCHANGED <<now, tableVars, revoking, reserving, revoked,
                           silent, next_id, chanVars, sess, sid, told>>
SameStreams == UNCHANGED <<closed, abort, streams, rstate>>

(* The client presents its credential; the lease counts from here.         *)
Hello(c) ==
  /\ Goes(c, "idle", "hello")
  /\ started' = [started EXCEPT ![c] = now]
  /\ UNCHANGED <<live, identVars, superseded, cred, tid, deadline, last_event>>
  /\ Handshaking /\ SameStreams

Authorize(c) ==
  /\ TablesFree
  /\ LET id == by_credential[cred[c]] IN
     IF id # NoId /\ Authorizes(by_id[id])
     THEN /\ Goes(c, "hello", "authorized")
          /\ tid' = [tid EXCEPT ![c] = id]
          /\ deadline' =
               [deadline EXCEPT ![c] = started[c] + GrantedTtl(by_id[id])]
     ELSE Goes(c, "hello", "done") /\ UNCHANGED <<tid, deadline>>
  /\ UNCHANGED <<live, identVars, superseded, cred, started, last_event>>
  /\ Handshaking /\ SameStreams

(* The socket fails while WELCOME is being written.                        *)
WelcomeFails(c) ==
  /\ Goes(c, "authorized", "done")
  /\ UNCHANGED <<live, identVars, superseded, cred, started, tid, deadline,
                 last_event>>
  /\ Handshaking /\ SameStreams

(* Writing WELCOME may take long, so `attach` decides again.               *)
AttachRefused(c) ==
  /\ RoutingFree
  /\ Goes(c, "authorized", "done")
  /\ ~StillAuthorized(c)
  /\ UNCHANGED <<live, identVars, superseded, cred, started, tid, deadline,
                 last_event>>
  /\ Handshaking /\ SameStreams

Attach(c) ==
  /\ RoutingFree /\ pc[c] = "authorized" /\ StillAuthorized(c)
  /\ Goes(c, "authorized",
          IF live[tid[c]] = NoConn THEN "attached" ELSE "attaching")
  /\ superseded' = live[tid[c]]
  /\ live' = [live EXCEPT ![tid[c]] = c]
  /\ generation' = [generation EXCEPT ![c] = next_generation]
  /\ next_generation' = next_generation + 1
  /\ UNCHANGED <<cred, started, tid, deadline, last_event>>
  /\ Handshaking /\ SameStreams

CancelPredecessor(c) ==
  /\ Goes(c, "attaching", "attached")
  /\ Evicts({superseded})
  /\ superseded' = NoConn
  /\ UNCHANGED <<live, identVars, cred, started, tid, deadline, last_event>>
  /\ Handshaking

AnnounceUp(c) ==
  /\ Goes(c, "attached", "serving")
  /\ last_event' = [last_event EXCEPT ![tid[c]] = "Up"]
  /\ UNCHANGED <<live, identVars, superseded, cred, started, tid, deadline>>
  /\ Handshaking /\ SameStreams

-----------------------------------------------------------------------------
(* The session loop.  Every way out of it leads to the same teardown.      *)
LoopOnly == UNCHANGED <<now, tableVars, live, identVars, routingVars, cred,
                        started, tid, deadline, closed, abort, next_id, sess,
                        sid, last_event>>
SameRequests == UNCHANGED <<streams, rstate, told>>

Stops(c, r) ==
  /\ Goes(c, "serving", "closing")
  /\ revoked' = [revoked EXCEPT ![c] = r]

LeaseExpires_WhenIdle(c) ==
  /\ now >= deadline[c] /\ Load(c) = 0 /\ Stops(c, FALSE)
  /\ UNCHANGED <<silent, chanVars>> /\ LoopOnly /\ SameRequests
LeaseExpires(c) ==
  /\ now >= deadline[c] /\ Stops(c, FALSE)
  /\ UNCHANGED <<silent, chanVars>> /\ LoopOnly /\ SameRequests

Cancelled(c) ==
  /\ abort[c] /\ TablesFree /\ Stops(c, ~IsActive(tid[c]))
  /\ UNCHANGED <<silent, chanVars>> /\ LoopOnly /\ SameRequests

(* The 5 s tick, by outcome.                                               *)
Ticks(c) == pc[c] = "serving" /\ TablesFree

TickFindsInactive(c) ==
  /\ Ticks(c) /\ ~IsActive(tid[c]) /\ Stops(c, TRUE)
  /\ UNCHANGED <<silent, chanVars>> /\ LoopOnly /\ SameRequests

TickFindsSilent(c) ==
  /\ Ticks(c) /\ IsActive(tid[c]) /\ silent[c] /\ Stops(c, FALSE)
  /\ UNCHANGED <<silent, chanVars>> /\ LoopOnly /\ SameRequests

(* try_send of one frame: it enters the queue, or the loop ends.           *)
SendsOrStops_Ignored(c) ==
  /\ pc[c] = "serving"
  /\ queued' = IF SlotFree(c) THEN [queued EXCEPT ![c] = @ + 1] ELSE queued
  /\ UNCHANGED <<pc, revoked, tx_closed>>
SendsOrStops(c) ==
  /\ pc[c] = "serving"
  /\ IF SlotFree(c)
     THEN queued' = [queued EXCEPT ![c] = @ + 1] /\ UNCHANGED <<pc, revoked>>
     ELSE Stops(c, FALSE) /\ UNCHANGED queued
  /\ UNCHANGED tx_closed

TickPings(c) ==
  /\ Ticks(c) /\ IsActive(tid[c]) /\ ~silent[c]
  /\ SendsOrStops(c)
  /\ UNCHANGED silent /\ LoopOnly /\ SameRequests

(* The tether sends PING; the loop answers PONG.                           *)
AnswersPing(c) ==
  /\ SendsOrStops(c)
  /\ UNCHANGED silent /\ LoopOnly /\ SameRequests

(* The peer goes away, breaks the protocol or says GOAWAY, or the writer   *)
(* task has ended.                                                         *)
PeerGone(c) ==
  /\ Stops(c, FALSE)
  /\ UNCHANGED <<silent, chanVars>> /\ LoopOnly /\ SameRequests

WriterClosed(c) == tx_closed[c] /\ PeerGone(c)

(* last_seen is now further back than TETHER_SILENCE; a PONG resets it.    *)
GoesSilent(c) ==
  /\ pc[c] = "serving" /\ ~silent[c]
  /\ silent' = [silent EXCEPT ![c] = TRUE]
  /\ UNCHANGED <<pc, revoked, chanVars>> /\ LoopOnly /\ SameRequests

Pong(c) ==
  /\ pc[c] = "serving" /\ silent[c]
  /\ silent' = [silent EXCEPT ![c] = FALSE]
  /\ UNCHANGED <<pc, revoked, chanVars>> /\ LoopOnly /\ SameRequests

(* The writer task, aborted (at some later moment) by the loop's end.      *)
HasWriter(c) ==
  /\ pc[c] \in {"serving", "closing", "detaching", "reporting", "done"}
  /\ generation[c] # 0 /\ ~tx_closed[c]

WriterSends(c) ==
  /\ HasWriter(c) /\ queued[c] > 0
  /\ queued' = [queued EXCEPT ![c] = @ - 1]
  /\ UNCHANGED <<pc, revoked, silent, tx_closed>> /\ LoopOnly /\ SameRequests

WriterDies(c) ==
  /\ HasWriter(c)
  /\ tx_closed' = [tx_closed EXCEPT ![c] = TRUE]
  /\ queued' = [queued EXCEPT ![c] = 0]
  /\ UNCHANGED <<pc, revoked, silent>> /\ LoopOnly /\ SameRequests

Teardown == UNCHANGED <<now, tableVars, identVars, routingVars, cred, started,
                        tid, deadline, revoked, silent, next_id, chanVars,
                        sess, sid, told>>

Close(c) ==
  /\ Goes(c, "closing", "detaching")
  /\ Closes({c})
  /\ UNCHANGED <<live, abort, last_event>> /\ Teardown

(* `detach` compares generations, not ids.                                 *)
OwnsEntry_ById(c) == live[tid[c]] # NoConn
OwnsEntry(c) ==
  live[tid[c]] # NoConn /\ generation[live[tid[c]]] = generation[c]

Detach(c) ==
  /\ Goes(c, "detaching", "reporting")
  /\ live' = IF OwnsEntry(c) THEN [live EXCEPT ![tid[c]] = NoConn] ELSE live
  /\ UNCHANGED last_event /\ Teardown /\ SameStreams

ReportEnd_UnlessEvicted(c) ==
  /\ Goes(c, "reporting", "done")
  /\ last_event' = IF abort[c] THEN last_event
                   ELSE [last_event EXCEPT ![tid[c]] = "Down"]
  /\ UNCHANGED live /\ Teardown /\ SameStreams
ReportEnd(c) ==
  /\ Goes(c, "reporting", "done")
  /\ last_event' =
       [last_event EXCEPT ![tid[c]] = IF revoked[c] THEN "Revoked" ELSE "Down"]
  /\ UNCHANGED live /\ Teardown /\ SameStreams

Handshake(c) ==
  \/ Hello(c) \/ Authorize(c) \/ WelcomeFails(c) \/ AttachRefused(c)
  \/ Attach(c) \/ CancelPredecessor(c) \/ AnnounceUp(c)
SessionLoop(c) ==
  \/ LeaseExpires(c) \/ Cancelled(c) \/ TickFindsInactive(c)
  \/ TickFindsSilent(c) \/ TickPings(c) \/ AnswersPing(c) \/ PeerGone(c)
  \/ WriterClosed(c) \/ GoesSilent(c) \/ Pong(c) \/ WriterSends(c)
  \/ WriterDies(c)
TeardownStep(c) == Close(c) \/ Detach(c) \/ ReportEnd(c)

-----------------------------------------------------------------------------
(* Caller requests.  The caller's task reserves a session under `routing`, *)
(* then admits the stream; the answer, the upload and the caller's own     *)
(* departure race from there on.  `told` collects the requests whose end   *)
(* the tether knows: it sent the END, or one was queued for it.            *)
RequestOnly == UNCHANGED <<now, tableVars, live, identVars, revoking,
                           superseded, pc, cred, started, tid, deadline,
                           revoked, closed, silent, last_event>>

(* reserve_route: the sessions worth trying, and those with room.          *)
Candidates ==
  {id \in Ids : /\ live[id] # NoConn /\ Usable(by_id[id])
               /\ ~closed[live[id]] /\ ~tx_closed[live[id]]
               /\ ~silent[live[id]]}
Exhausted(i) == i > MaxStreamId
HasRoom(c) == /\ Load(c) < MaxConcurrentStreams
              /\ ~Exhausted(next_id[c])
              /\ SlotFree(c)
Before(a, b) == \/ Load(live[a]) < Load(live[b])
                \/ Load(live[a]) = Load(live[b]) /\ Rank[a] < Rank[b]

Holds(r, c) ==
  /\ rstate' = [rstate EXCEPT ![r] = "reserved"]
  /\ sess' = [sess EXCEPT ![r] = c]
  /\ reserving' = r
Refuses(r, why) ==
  /\ rstate' = [rstate EXCEPT ![r] = why]
  /\ UNCHANGED <<sess, reserving>>
Reserving == UNCHANGED <<abort, streams, next_id, chanVars, sid, told>>

ForwardAny(r) ==
  /\ RoutingFree /\ rstate[r] = "new"
  /\ LET open == {id \in Candidates : HasRoom(live[id])} IN
     \/ \E id \in open : /\ \A other \in open \ {id} : Before(id, other)
                         /\ Holds(r, live[id])
     \/ open = {} /\ Candidates # {} /\ Refuses(r, "TetherBusy")
     \/ Candidates = {} /\ Refuses(r, "NoTether")
  /\ RequestOnly /\ Reserving

(* `forward` names its tether, and looks neither at `closed` nor at the    *)
(* silence; it finds out when it admits the stream.                        *)
Forward(r, id) ==
  /\ RoutingFree /\ rstate[r] = "new"
  /\ LET c == live[id] IN
     \/ c = NoConn /\ Refuses(r, "NoTether")
     \/ c # NoConn /\ ~IsActive(id) /\ Refuses(r, "Revoked")
     \/ c # NoConn /\ IsActive(id) /\ tx_closed[c] /\ Refuses(r, "TetherGone")
     \/ /\ c # NoConn /\ IsActive(id) /\ ~tx_closed[c] /\ ~SlotFree(c)
        /\ Refuses(r, "TetherBusy")
     \/ c # NoConn /\ IsActive(id) /\ SlotFree(c) /\ Holds(r, c)
  /\ RequestOnly /\ Reserving

(* Ids are handed out once each, and LiveSession::admit is the last word.  *)
StreamIdFor_FirstFree(c) ==
  IF Carried(c) = {} THEN 1 ELSE next_id[c]
StreamIdFor(c) == next_id[c]
Refused_WhenFull(c) == Load(c) >= MaxConcurrentStreams
Refused(c) == closed[c] \/ Load(c) >= MaxConcurrentStreams

(* start_forward up to the OPEN.  The id is spent even if `admit` refuses. *)
Admit(r) ==
  /\ reserving = r
  /\ reserving' = NoReq
  /\ LET c == sess[r]
         i == StreamIdFor(c)
     IN IF Exhausted(i)
        THEN /\ rstate' = [rstate EXCEPT ![r] = "Idhausted"]
             /\ UNCHANGED <<streams, next_id, queued, sid>>
        ELSE
          /\ next_id' = [next_id EXCEPT ![c] = i + 1]
          /\ IF Refused(c)
             THEN /\ rstate' = [rstate EXCEPT
                        ![r] = IF closed[c] THEN "TetherGone" ELSE "TetherBusy"]
                  /\ UNCHANGED <<streams, queued, sid>>
             ELSE /\ rstate' = [rstate EXCEPT ![r] = "inflight"]
                  /\ sid' = [sid EXCEPT ![r] = i]
                  /\ streams' = [streams EXCEPT ![c] = [@ EXCEPT ![i] = r]]
                  /\ queued' = IF tx_closed[c] THEN queued
                               ELSE [queued EXCEPT ![c] = @ + 1]
  /\ UNCHANGED <<abort, tx_closed, sess, told>> /\ RequestOnly

(* An upload chunk or HALF_END; the upload waits while the queue is full.  *)
UploadSends(r) ==
  /\ rstate[r] = "inflight" /\ SlotFree(sess[r])
  /\ queued' = [queued EXCEPT ![sess[r]] = @ + 1]
  /\ UNCHANGED <<reserving, abort, streams, next_id, tx_closed, requestVars>>
  /\ RequestOnly

(* try_send of END outside the session loop: a full queue aborts the       *)
(* session, a closed one means it is over already.                         *)
SendsEndOrAborts(r) ==
  LET c == sess[r] IN
  /\ queued' = IF SlotFree(c) THEN [queued EXCEPT ![c] = @ + 1] ELSE queued
  /\ told' = IF SlotFree(c) THEN told \cup {r} ELSE told
  /\ abort' = IF ~SlotFree(c) /\ ~tx_closed[c]
              THEN [abort EXCEPT ![c] = TRUE] ELSE abort

(* The caller's body breaks; the stream stays registered.                  *)
UploadFails(r) ==
  /\ rstate[r] = "inflight"
  /\ rstate' = [rstate EXCEPT ![r] = "failed"]
  /\ SendsEndOrAborts(r)
  /\ UNCHANGED <<reserving, streams, next_id, tx_closed, sess, sid>>
  /\ RequestOnly

(* StreamGuard::drop, with the answer over or before that.                 *)
Unregister(c, i) ==
  streams' = [streams EXCEPT ![c] = [@ EXCEPT ![i] = NoReq]]

Drop(r) ==
  /\ rstate[r] \in {"inflight", "completed", "failed"}
  /\ Unregister(sess[r], sid[r])
  /\ \/ /\ rstate[r] # "inflight"
        /\ rstate' = [rstate EXCEPT ![r] = "released"]
        /\ UNCHANGED <<abort, queued, told>>
     \/ /\ rstate[r] = "inflight"
        /\ rstate' = [rstate EXCEPT ![r] = "abandoned"]
        /\ SendsEndOrAborts(r)
  /\ UNCHANGED <<reserving, next_id, tx_closed, sess, sid>> /\ RequestOnly

-----------------------------------------------------------------------------
(* Response frames the session loop handles for a stream it still carries, *)
(* END first: `ok` is the clean END with an empty reason.                  *)
FrameOnly == UNCHANGED <<now, tableVars, live, identVars, routingVars, cred,
                         started, tid, deadline, closed, abort, silent,
                         next_id, sess, sid, last_event>>

End(c, i, ok) ==
  LET r == streams[c][i] IN
  /\ pc[c] = "serving" /\ r # NoReq
  /\ rstate' = [rstate EXCEPT ![r] = IF ok THEN "completed" ELSE "failed"]
  /\ told' = told \cup {r}
  /\ Unregister(c, i)
  /\ UNCHANGED <<pc, revoked, chanVars>> /\ FrameOnly

(* A bad or repeated RESP_HEAD, DATA before the head, or DATA the caller's *)
(* queue has no room for: fail the stream and tell the tether.             *)
Reject(c, i) ==
  LET r == streams[c][i] IN
  /\ r # NoReq
  /\ rstate' = [rstate EXCEPT ![r] = "failed"]
  /\ told' = IF SlotFree(c) THEN told \cup {r} ELSE told
  /\ Unregister(c, i)
  /\ SendsOrStops(c) /\ FrameOnly

(* DATA for a stream that is gone is answered with an END of its own.      *)
LateData(c) ==
  /\ \E i \in StreamIds : i < next_id[c] /\ streams[c][i] = NoReq
  /\ SendsOrStops(c)
  /\ UNCHANGED <<streams, rstate, told>> /\ FrameOnly

Inbound(c) ==
  \/ LateData(c)
  \/ \E i \in StreamIds : Reject(c, i) \/ \E ok \in BOOLEAN : End(c, i, ok)

Routing(r) ==
  ForwardAny(r) \/ (\E id \in Ids : Forward(r, id)) \/ Admit(r)
Stream(r) == UploadSends(r) \/ UploadFails(r) \/ Drop(r)

Next ==
  \/ Tick
  \/ ControlPlane
  \/ \E c \in Conns :
       Handshake(c) \/ SessionLoop(c) \/ TeardownStep(c) \/ Inbound(c)
  \/ \E r \in Requests : Routing(r) \/ Stream(r)

(* The hub's own tasks run to their next wait and notice a signal that was *)
(* sent.  Nothing is asked of the administrator, the callers, the tethers  *)
(* or the network.                                                         *)
TaskFairness ==
  /\ WF_vars(EvictRevoked)
  /\ \A r \in Requests : WF_vars(Admit(r))
  /\ \A c \in Conns :
       /\ WF_vars(Authorize(c)) /\ WF_vars(CancelPredecessor(c))
       /\ WF_vars(AnnounceUp(c)) /\ WF_vars(Cancelled(c))
       /\ WF_vars(TickFindsInactive(c)) /\ WF_vars(WriterClosed(c))
       /\ WF_vars(Close(c)) /\ WF_vars(Detach(c)) /\ WF_vars(ReportEnd(c))

(* Besides, time passes and a lease that has run out is noticed.           *)
Fairness ==
  /\ TaskFairness /\ WF_vars(Tick)
  /\ \A c \in Conns : WF_vars(LeaseExpires(c))

Spec == Init /\ [][Next]_vars
FairSpec == Spec /\ Fairness

-----------------------------------------------------------------------------
(* Properties.                                                             *)
TaskStates == {"idle", "hello", "authorized", "attaching", "attached",
               "serving", "closing", "detaching", "reporting", "done"}
RequestStates == {"new", "reserved", "inflight", "completed", "failed",
                  "abandoned", "released", "NoTether", "TetherBusy",
                  "TetherGone", "Revoked", "Idhausted"}

(* Every variable has its type, and whoever holds `routing` holds it alone *)
(* (Registry::routing is a Mutex).                                         *)
TypeOK ==
  /\ now \in 0..MaxTime
  /\ by_credential \in [Creds -> Ids \cup {NoId}]
  /\ by_id \in [Ids -> Records \cup {NoTether}]
  /\ live \in [Ids -> Conns \cup {NoConn}]
  /\ next_generation \in Nat \ {0}
  /\ revoking \in Ids \cup {NoId}
  /\ superseded \in Conns \cup {NoConn}
  /\ reserving \in Requests \cup {NoReq}
  /\ pc \in [Conns -> TaskStates]
  /\ cred \in [Conns -> Creds]
  /\ started \in [Conns -> Nat]
  /\ tid \in [Conns -> Ids \cup {NoId}]
  /\ deadline \in [Conns -> Nat]
  /\ revoked \in [Conns -> BOOLEAN]
  /\ generation \in [Conns -> Nat]
  /\ closed \in [Conns -> BOOLEAN]
  /\ abort \in [Conns -> BOOLEAN]
  /\ silent \in [Conns -> BOOLEAN]
  /\ streams \in [Conns -> [StreamIds -> Requests \cup {NoReq}]]
  /\ next_id \in [Conns -> 1..(MaxStreamId + 1)]
  /\ queued \in [Conns -> 0..CommandCapacity]
  /\ tx_closed \in [Conns -> BOOLEAN]
  /\ rstate \in [Requests -> RequestStates]
  /\ sess \in [Requests -> Conns \cup {NoConn}]
  /\ sid \in [Requests -> 0..MaxStreamId]
  /\ told \subseteq Requests
  /\ last_event \in [Ids -> {"none", "Up", "Down", "Revoked"}]

Attached == {"attaching", "attached", "serving", "closing", "detaching"}

(* The routing table only names sessions whose credential is the one the   *)
(* registry holds for that id now, and active (or being revoked at this    *)
(* moment): rotation, revocation and a slow WELCOME leave no session       *)
(* routed under an old decision (`attach`, `replace_records`, `revoke`).   *)
LiveIsAuthorized ==
  \A id \in Ids : live[id] # NoConn =>
    /\ tid[live[id]] = id
    /\ by_id[id] # NoTether
    /\ by_id[id].hash = cred[live[id]]
    /\ by_id[id].active \/ revoking = id

(* The routing table only names sessions whose task has still to detach:   *)
(* no request is routed to a session nobody serves (`detach`).             *)
RoutedSessionHasTask ==
  \A id \in Ids : live[id] # NoConn => pc[live[id]] \in Attached

(* A session that was not closed is the one its id routes to, or the one   *)
(* `attach` is about to cancel: a tunnel never stays up unroutable, which  *)
(* is what an exiting predecessor's `detach` would otherwise cause.        *)
NoUnroutableSession ==
  \A c \in Conns : pc[c] \in Attached /\ ~closed[c] =>
    live[tid[c]] = c \/ superseded = c

(* A caller waiting for its answer is registered with a session that is    *)
(* not closed and whose task has still to run `close`: no caller is parked *)
(* on a session that ended while it was being admitted (`admit`, `close`). *)
NoParkedCaller ==
  \A r \in Requests : rstate[r] = "inflight" =>
    /\ sid[r] \in StreamIds /\ streams[sess[r]][sid[r]] = r
    /\ ~closed[sess[r]]
    /\ pc[sess[r]] \in Attached \ {"detaching"}

(* Two requests on one session never share a stream id, not even after one *)
(* of them is over: a late frame of the first cannot reach the second      *)
(* (LiveSession::next_id).                                                 *)
NoAliasing ==
  \A r, q \in Requests :
    r # q /\ sid[r] # 0 /\ sess[r] = sess[q] => sid[r] # sid[q]

(* A lease never outlives the credential it was granted for, however long  *)
(* the handshake takes (`authorize`, authorization_started).               *)
LeaseWithinExpiry ==
  \A c \in Conns : Durable => deadline[c] <= ExpiryOf[cred[c]]

(* Once a stream is over, its tether learned of it or loses the session:   *)
(* no engine stream is left running for a caller that is gone              *)
(* (StreamGuard::drop, the upload task, the RESP_HEAD and DATA arms).      *)
TetherLearnsTheEnd ==
  \A r \in Requests :
    rstate[r] \in {"completed", "failed", "abandoned", "released"} =>
      \/ r \in told
      \/ LET c == sess[r]
         IN abort[c] \/ closed[c] \/ tx_closed[c] \/ pc[c] = "closing"

(* A request enters a session only while the registry's record for that    *)
(* session's id is active and holds its credential, and while the session  *)
(* is not closed: selection and admission are one step with respect to     *)
(* the control plane (`routing`, `forward_any`).                           *)
AdmitsUnderAuthority ==
  \A r \in Requests :
    rstate[r] # "inflight" /\ rstate'[r] = "inflight" =>
      LET c == sess'[r]
          t == by_id[tid[c]]
      IN /\ ~closed[c]
         /\ t # NoTether /\ t.active /\ t.hash = cred[c]
AdmittedUnderAuthority == [][AdmitsUnderAuthority]_vars

(* A session its id no longer routes to ends, without waiting for its      *)
(* lease: rotation, revocation and a successor cancel it (`abort_tx`).     *)
DisplacedSessionEnds ==
  \A c \in Conns : pc[c] = "serving" /\ live[tid[c]] # c ~> pc[c] = "done"

(* A session ends once its lease has run out, whatever it is carrying      *)
(* (lease_deadline); MaxTime is as far as the clock goes.                  *)
LeaseEndsSession ==
  \A c \in Conns :
    pc[c] = "serving" /\ deadline[c] <= MaxTime ~> pc[c] = "done"

(* A caller whose session was cancelled or lost its writer gets an outcome.*)
CallerAnswered ==
  \A r \in Requests :
    rstate[r] = "inflight" /\ (abort[sess[r]] \/ tx_closed[sess[r]])
      ~> rstate[r] # "inflight"

(* A tether whose last event is Up has a session that will report its end: *)
(* however sessions of one id are replaced, revoked or lost, the event log *)
(* never ends in Up for a tether that is gone (TetherEvent).               *)
LossIsReported ==
  \A id \in Ids : last_event[id] = "Up" =>
    \E c \in Conns :
      tid[c] = id /\ pc[c] \in {"serving", "closing", "detaching", "reporting"}
=============================================================================
