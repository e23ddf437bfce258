# Anvil Ring: a formal model

This directory specifies Anvil Ring in TLA+. The hub (`cargo/src/hub.rs`)
accepts outbound tunnels ("tethers") from GPU machines, decides which tethers
are authorized, and forwards callers' HTTP requests over them. The modules
here model that program as its source has it, TLC checks them on small
instances, and TLAPS proves the central safety properties for instances of
any size. Line numbers below are those of the files under `cargo/src` unless
another directory is named.

## The system and its parts

| Part | State it keeps | Operations | Module |
| --- | --- | --- | --- |
| Hub registry and session authority, `hub.rs` | `by_id`, `by_credential`, `live`, `next_generation`; per session `streams`, `next_id`, `closed`, generation, command queue, abort signal | `register`, `revoke`, `replace_records`, `clear_records`, `authorize`, `attach`, `detach`, `forward`, `forward_any`; the task `handle_tether` | `Registry` (complete) |
| One forwarded request, `hub.rs:149-188, 512-618, 717-839` | head, response queue (64), `completed`, `response_finished`, outcome watch, upload task | session arms for RESP_HEAD / DATA / END, upload task, `head`, `poll_next`, `StreamGuard::drop` | `StreamState` (complete) |
| Caller frontend, `frontend.rs` | none across requests | health, authorization, forward, status mapping, body relay | `Gateway` (decisions and heads), `StreamState` (body and head wait) |
| Tether client, `tunnel.rs` | per-session stream table, bounded queues, timers, backoff | connect, HELLO, OPEN / DATA / HALF_END / END, pumps, heartbeat, lease refresh | `Tunnel` with the hub's end of the session, `Heartbeat` (reconnecting and timers), `Gateway` (heads) |
| Durable administration, `admin.rs` | SQLite store, credential files | init, register, rotate, revoke, list, audit, snapshot | `AdminStore` (all that write, and `snapshot`) |
| Registration refresh, `main.rs:252-310` | last snapshot, pending read | every 500 ms read the store, 2 s timeout, clear on failure | `Refresh` (complete) |
| Frame codec, `frames.rs` | none | encode, decode, one frame per message | `Frames` (complete) |
| Chunked decoder, `chunked.rs` | mode, bytes left of the chunk, buffer | `push`, `feed_eof` | `Chunked` (complete) |
| Header filter, `headers.rs` | none | strip hop-by-hop | `Headers` (complete) |
| Standalone proxy, `proxy.rs` | none | authorization, target check, relay | `Gateway` (complete) |
| Container supervisor, `deploy/entrypoint.py` | two children, the signal received | start, signal, stop, reap | `Supervisor` (complete) |
| Task ownership, `tasks.rs` | a join handle | abort on drop | inside `Registry` (the writer task) and `Tunnel` (pumps, uploads) |
| CLI and wiring, `main.rs`, `cli.py` | none | environment checks, then pure I/O | `Gateway` (what a process requires to start), `Refresh` |
| Egress probe, scripts | none | diagnostics, packaging | not modelled |

### How they interact

An administrator (or the refresh monitor, in durable mode) changes the records
while tethers connect, sessions end and callers are routed. The threads meet in
`Registry`, which has four mutexes. `routing` serialises the control plane,
`attach` and the two forwards; `by_id`, `by_credential` and `live` protect one
table each; a session's `streams` is locked on its own. `authorize`, `detach`
and `is_active` do not take `routing`, so they interleave with its holders.
A session task talks to its writer through a bounded command channel, to the
control plane through an abort watch, and to each caller through that stream's
`StreamState`, which is shared by four tasks without a lock around it as a whole.

In durable mode the records come from a SQLite store that administrative
processes change (`AdminStore`) and a monitor inside the hub reads twice a second
(`Refresh`), ending in the `ReplaceRecords` of `Registry`. At the other end of the
socket the tether's session loop hands each stream to a pump task of its own,
which talks to the engine (`Tunnel`). Both ends watch each other by timers of their
own, which know nothing of the peer's (`Heartbeat`). A request passes up to three
programs on its way, each of which decides and strips for itself (`Gateway`).

The guarantees fit together as follows. A revocation committed to the store is what
the hub authorizes by, or nothing is, within 4.5 s (`StalenessBounded` of `Refresh`,
`SnapshotIsCommitted` of `AdminStore`); at that moment the session of the old
credential leaves the routing table and no further request enters it
(`LiveIsAuthorized`, `AdmittedUnderAuthority` of `Registry`), and it ends
(`DisplacedSessionEnds`). What it carries is then cut off visibly: the engine stops
and the caller never takes it for a whole answer (`AbandonedWorkStops`,
`ImplementsExchange` of `Tunnel`, `CleanEofMeansWholeBody` of `StreamState`). A tether
that vanishes instead of being revoked leaves the routing table by `RoutedLoopAnswers`
of `Heartbeat`.

### What is hard here

* An old session and its successor are both running: exits, events and
  unregistrations of the first may come after the second is installed.
* The decision to authorize is used after WELCOME was written, which may block.
* A session is chosen for a request and then closed before the request enters.
* A bounded queue is full when an END must be sent: the engine stream must not
  run on for a caller who left.
* A response's head, chunks, completion, failure and the caller's departure are
  seen by different tasks in different orders.
* Timers (lease, silence, tick) race with all of the above.
* The end of an answer, the completion of its pump, the caller's departure and an
  overflow are four messages about one stream, on two queues, in any order.
* Two processes change the store, one is killed between delivering a credential
  and committing it, and the hub reads in between.
* A store read hangs: authority must not outlive it, nor its result come late.
* One direction of a connection dies silently, or the tether's loop is stuck while
  its pumps go on writing; each end must notice by its own timers.
* A header field is dropped at one hop because Connection names it, and must not
  come back, or be lost, at the next.
* Bytes arrive cut anywhere, and data looks like framing.
* A signal reaches the supervisor between two lines of `main`.

`PROJECT.json` lists these and the other hazards at the line where each bites.

## `Registry`: authority, sessions, admission

One action is one critical section, so every release of a mutex is an
interleaving point. Three operations hold `routing` over more than one action,
and each leaves a trace of what it still has to do:

| Variable | Set by | Meaning |
| --- | --- | --- |
| `revoking` | `Revoke` | the record is disabled (`hub.rs:343-352`), the session not yet evicted |
| `superseded` | `Attach` | the new session is installed, its predecessor not yet cancelled (`:402-409`); the two record tables are locked too |
| `reserving` | `ForwardAny`, `Forward` | an OPEN permit is held, `admit` is still ahead |

| State | Code |
| --- | --- |
| `by_id`, `by_credential`, `live`, `next_generation` | the fields of `Registry`; `NoTether` and `NoConn` are absent keys |
| `pc[c]`, `cred`, `started`, `tid`, `deadline`, `revoked` | where the task `handle_tether` of connection `c` is, and its locals |
| `generation`, `closed`, `abort`, `streams`, `next_id` | that connection's `LiveSession` |
| `silent[c]` | `last_seen` is further back than `TETHER_SILENCE` |
| `queued`, `tx_closed` | the command channel: frames in it, and whether the writer has gone |
| `rstate`, `sess`, `sid` | a caller's request: what became of it, its session, its stream id |
| `told` | history: the tether has been (or will be) told that this stream is over |
| `last_event` | the last operator event queued for each id |

The actions follow the code: `Register`, `Revoke` + `EvictRevoked`,
`ReplaceRecords` (with `clear_records` as the empty snapshot); `Hello`,
`Authorize`, `WelcomeFails`, `AttachRefused`, `Attach`, `CancelPredecessor`,
`AnnounceUp`; the arms of the session loop (`LeaseExpires`, `Cancelled`, the
four outcomes of the tick, `AnswersPing`, `Pong`, `PeerGone`, `WriterClosed`)
and its inbound frames (`End`, `Reject`, `LateData`); the teardown `Close`,
`Detach`, `ReportEnd`; and the request's `ForwardAny`, `Forward`, `Admit`,
`UploadSends`, `UploadFails`, `Drop`.

Abstractions, and why they are faithful:

* Frames are counted, not carried; what matters of the command queue is whether
  it has room, and `told` remembers the ENDs.
* A connection and a request are used once. A tether that reconnects is another
  member of `Conns`.
* A permit taken under `routing` counts against the queue (`Permits`), as a
  Tokio `OwnedPermit` does.
* `LiveSession::close` is one step here although it drains under the lock and
  fails the drained streams after it; `StreamState` splits the two.
* The mutation of a record and the eviction that follows it are one action
  where the code holds the session table in between, and two in `revoke`.
* `Load` is read at once for all sessions in `reserve_route`. The other threads
  that change it can move a session's load between two reads, which yields
  another choice among the same candidates; no property depends on which of
  them is chosen.
* One clock serves both the wall clock of expiries and the monotonic clock of
  leases. `Second` keeps apart the whole second `authorize` asks for and the
  instant `attach` asks for.
* A credential stands for its SHA-256; distinct credentials have distinct hashes.

### What is stated

* `LiveIsAuthorized`: a session in the routing table has the credential that
  the record holds now, and the record is active (or is being revoked at this
  moment). Rotation, revocation, moving a credential to another id, and a
  WELCOME that took long are the ways to break it.
* `NoUnroutableSession`: a session that was not closed is routed to, across
  successions in any order. (The converse, `RoutedSessionHasTask`, is a lemma of the
  proofs.)
* `LossIsReported`: an operator who read Up last for an id has a session there that
  is served, or whose end is still to be reported.
* `NoParkedCaller`: a request in flight is in the table of a session that is
  not closed and whose task has `close` ahead of it.
* `NoAliasing`: no two requests of a session ever have the same stream id.
* `AdmittedUnderAuthority` (an action property): the step that admits a request
  finds the record active and holding the session's credential.
* `LeaseWithinExpiry`: a lease ends no later than the credential.
* `TetherLearnsTheEnd`: a stream that is over was reported to its tether, or
  its session is ending.
* Liveness: `DisplacedSessionEnds`, `LeaseEndsSession`, `CallerAnswered`.

## `StreamState`: one answer, four tasks

The session task, the upload task, the caller's task and whoever closes the
session share one `StreamState`. Each action is one atomic operation or one
locked section: `completed` and `response_finished` are separate stores, the
outcome is a watch that any of the enders overwrites, and the head and
`completed` are two reads. Chunks are numbered; the queue is bounded by
`Capacity`. The upload's abort takes effect when its task next suspends.

* `CleanEofMeansWholeBody`: if the caller's body ends cleanly, every chunk the
  session queued was delivered before it.
* `NormalEndIsNotAborted`: dropping the guard after a normal end does not send
  the tether an abort.
* `UploadIsStopped`: once the stream is over, the upload task is done or was
  cancelled, even if the stream ended before the task was installed.
* `CallerLearnsOfTheEnd` (liveness): no wake-up is lost.

## `AdminStore`: the durable registrations

Each administrator is one process running one command, as a machine of phases:
open, begin, draft, create the output file, write it, commit, done. SQLite is
external; what the code relies on is modelled: `BEGIN IMMEDIATE` takes the one
write lock, a commit waits for readers or gives up, and a process that dies leaves
its transaction undone. A process may be killed in any phase. Power loss is left
out: the code's `sync_all` calls are for that, and a model of it would be one of
the file system.

What a failure leaves depends on where it happens, and the code has three places where it
is not undone. The empty file that `init` has just created stays when its mode cannot be set or it
cannot be synchronized (`admin.rs:91-93`, `CreateFails`); a later `init` and every `open` then
fail until somebody removes it. The result is written to standard output after the commit
(`admin.rs:512-514`): where that fails, on a closed pipe or a full disk, the command fails with its
change committed and its credential file or database kept (`Report`). And a removal that
fails is ignored (`:107, 471`); the model takes `RemoveOutput` and `RemoveDatabase` to succeed.

| State | Code |
| --- | --- |
| `database` | which file is at the path: the one a given `init` created, or none |
| `stored[n]`, `draft[a]` | committed schema, rows and audit log; the same within an open transaction |
| `files` | the output paths: absent, partly written or whole, and whose credential |
| `result[a]` | what the command reported, if it lived to |
| `view[r]`, `unread[r]` | a reader's snapshot while it steps through the rows |

A credential is named by the process that issued it: 256 fresh random bits are never drawn
twice. What is stated: a committed credential was delivered, whatever failed or crashed, and
a failed command leaves a file only if its credential was committed, so that what failed was
the report, while a crash may leave any (`DeliveryMatchesOutcome`); every row is what the
latest events of the audit log about its id say (`AuditExplainsRows`); what was reported as
made is in the log of the store the command opened, and however a command ended, its event
is in that log only and once (`OutcomeIsTrue`), so that after a failure of uncertain outcome
the log tells, as `docs/adr/0007-durable-hub-administration.md:56-60` has the operator do; a
store whose `init` succeeded is not removed by another `init` (`InitializedStays`); a
credential that was revoked or replaced never comes back (`RetiredStaysRetired`); a snapshot
is of one committed store (`SnapshotIsCommitted`); the limit above which every snapshot
fails is never exceeded (`StoreStaysReadable`).

## `Refresh`: how fast the store takes effect

The monitor sleeps, spawns a blocking read, waits for it up to a limit, then
applies it or clears the registrations; after a timeout it waits for the worker
without a limit. Versions of the store are numbered, `age[v]` counts the ticks
since version `v` was superseded, and each worker reads the version of the moment
and returns it at any later time, or never. A tick is half a second; the code's
values are one tick of sleep and four of limit. The model takes the hub's own
timers to be on time: a tick waits for a monitor that is due.

* `StalenessBounded`: the hub authorizes by nothing that was superseded more than
  `SleepTicks + 2 * LimitTicks` ago, 4.5 s with the code's values: a read may be
  as old as the limit when it is applied, and stays in force for a sleep and
  another limit. The bound is tight: with one tick less TLC finds a violation.
* `LateResultIsDropped`: a read that timed out is never applied, and no second one
  starts while it hangs, so reads do not pile up.
* `ChangeTakesEffect` (liveness): a committed change takes effect, or authorization
  is cleared, although the store itself owes nothing.

## `Tunnel` and `Exchange`: what a session carries

`Tunnel` is one session: the hub's end, the two directions of the connection, the
tether's loop, one pump for each stream, and the engine, which is external.

| State | Code |
| --- | --- |
| `stream`, `head`, `got`, `upload`, `sent` | the hub's side of each stream: its ending, response head, chunks handed to the caller, upload task |
| `down`, `up` | the frames under way, from the sender's writer queue to the peer's loop |
| `table`, `input`, `completions` | the tether's `streams`, each `StreamHandle`'s queue, `PumpCompletions` |
| `pump`, `taken`, `accepted`, `answered` | `forward_engine`: where it is, what the engine read of the request, how that ended, what the engine answered |

The session loops use `try_send` and never wait; uploads and pumps use `send` and
do. An abort (of a pump, of an upload, of the session by `abort_tx`) takes effect
some time after it was asked for, and the task may take more steps until then.
When an end goes down its writer is aborted, and a suffix of what it queued is
lost. The tether's own PINGs and the hub's PONGs, which go the same way as the
PINGs modelled, are left out: all they add is another reason for `HubGivesUp` and
`TetherGivesUp`, which may happen at any time. A stream id is used once, as
`NoAliasing` of `Registry` justifies. A frame carries its place in the body (`n`) in
place of its payload: nothing in the code looks at it, and order and loss are stated
in its terms.

`Exchange` is what that is for: caller and engine each receive a prefix of what the
other sent, in order, and see a clean end only if they received all of it.
`ImplementsExchange` says that every stream of `Tunnel` implements it, with the
mapping of `Promise`. It is the conjunction of the streams' `Promise(i)!Spec`, with
the initial states and the steps gathered under one box, the form TLC checks.

`SlotIsHeld`: a stream in the tether's table has a running pump or a completion
under way, so no slot is leaked. `AbandonedWorkStops` and `AnswerReachesCaller`
(liveness): the engine stops for a stream that is over at the hub, and no caller
waits for a pump that is gone.

A `try_send` that fails on a congested session ends it with every stream it
carries. `docs/architecture.md:158-159` documents that, so it is no finding; that
nothing is left behind is part of the two liveness properties.

## `Heartbeat`: who notices what, and when

`Tunnel` lets a session end at any time; `Heartbeat` says when it does. It has the
loop of `run_client` with its backoff, the handshake, the timers of `run_session` and
those of `handle_tether`, on one clock.

| State | Code |
| --- | --- |
| `phase`, `wait`, `backoff` | where `run_client` stands, what is left of its sleep or timeout, the next sleep |
| `ping_tick`, `dead`, `lease_tick` | the timers of the tether's `Heartbeat` and of `serve_over` |
| `session`, `current` | does the hub serve a session of this tether, and over the connection the tether uses (a tether that redials leaves a session behind) |
| `last_seen`, `tick`, `last_ping`, `lease_deadline` | the locals of `handle_tether` |
| `toHub`, `toTether` | frames under way, each with its age |
| `clean`, `why`, `apart`, `answered`, `outage` | history, in whose terms the properties are stated |

Faults, at most `MaxFaults` in a behaviour: a direction of the connection delivers
nothing any more (the peer is told nothing), the hub is out of reach, the registration
is withdrawn, the tether's loop is stuck or comes back, either process restarts (and
its socket says so, or does not), a credential about to expire gets a short lease.
`DurationsAssumption`, `MarginAssumption` and `RecoveryAssumption` name what the timers
must satisfy for the properties to hold; the code's values satisfy them for a network
that delivers in less than 10 s.

* `HealthySessionRefreshes`: a session no fault touched ends by the tether's refresh,
  never by a liveness timer or by the hub's deadline. A lease so short that a quarter of
  it, or what it exceeds the floor of 5 s by, is no longer than a frame travels is
  excepted: the hub ends such a session first.
* `HalfOpenSessionEnds`: neither end stays in a session the other left, longer than
  `PING_TIMEOUT` at the tether, `TETHER_SILENCE` and a tick at the hub, each counted from
  the last frame of the other that still arrives, so up to a `Delay` more.
* `RoutedLoopAnswers`: the hub routes only to a tether whose loop answered lately. Only
  a PONG counts; a stuck loop whose pumps still send DATA would pass otherwise.
* `OutageBounded`: once nothing is wrong any more, service is back within
  `OutageLimit`: the slower end's timer, the longest sleep, and a handshake.

## `Gateway` and `Headers`: decisions and heads

`Gateway` follows one request through either door, since neither keeps state from
one to the next: `door` is the frontend with the hub and a tether behind it, or the
standalone proxy. `env` is what the processes were started with, and they open no
listener unless they may (`ProxyStarts`, `HubStarts`, `TetherStarts`). `Decides` is the
order of the handler's decisions; `Strip` of `Headers` is applied where the code
applies it: by `encode_request_head` or `rebuild_request`, by `forward_engine` in
both directions, and by the frontend, which only drops the fixed list. A head is a set
of names and the names its Connection field lists. `Upstreams` are records of the parts
`loopback_authority` looks at.

* `OnlyEndToEndCrosses`: however often a head is stripped, what arrives is what is
  end-to-end, and the engine is given exactly one framing.
* `AnswerIsTheEngines`: a success the caller sees was the engine's, or a health check's.
* `EngineIsGuarded`: the engine hears only of callers that presented the token, or of
  all where a proxy has none and its operator said so; and what others are told does not
  depend on a tether.

The standalone proxy is bound by the first only on the way to the engine:
`stream_through` copies the head of the engine's answer as it is (`proxy.rs:129-144`),
hop-by-hop fields with it, unlike the other return paths; hyper regenerates the
framing. `headers.rs:30-34` and `docs/operator-guide.md:147` read as if it were stripped.

## `Frames`: the codec

`Encode` and `Decode` work on bytes. A frame the writers send is put into a message,
which then arrives whole, cut short, with more behind it, or with a byte of its header
changed; `ReadMessage` is the check both ends make. Integers keep their widths: two
bytes of stream id, four of length.

* `ReadAsWritten`: a frame within the cap is read as it was written; a cut or an
  oversized one is refused; what a corrupted one is read as is what its bytes say, and a
  control frame never carries a stream id.

It also records what the reader forgives: the payload of a PING or PONG is ignored, a
lease may have a plus sign and leading zeros, and bytes after the frame are dropped.
`encode` does not check the cap, so a frame above it is refused by the peer; what keeps
the writers below it is the size of the chunks hyper hands them.

## `Chunked`: the chunked decoder

The wire of a chunked body is generated with a mark on each byte, data or framing,
that the decoder does not see; the decoder gets it in pieces of any length, and the
input may end after any of them. A chunk may be spoilt: a size that is no number, one
that a `usize` does not hold, or bytes other than CRLF after the data. `Pass` is one turn of
the loop of `push`. The engine is taken to write no sign and no white space about a size,
which the code would accept.

* `DecodesExactly`: what is handed on is the data given so far, whatever the split; the
  end is reported at the last chunk and nowhere else; a wrong wire as soon as it can be
  known; an end of input inside a chunk is never a whole body.

`chunked.rs:23-24` says "A partial chunk is *not* emitted early", while the Body arm
(`:109-130`) hands on what is there. `feed_eof` takes an input that stops between two chunks for whole, without a
last chunk: `EndsWhole` is the code's. An error loses what the same `push` decoded
before it. After an error the mode is `Done`, so a further `push` or `feed_eof` would
report success (`:76, 142-146`); the model's caller stops at the first error or end, as
the tests do. The hub and the tether use hyper; this decoder is a retained helper, which nothing in
the running system calls.

## `Supervisor`: the rental container

Two children are started, listed and polled; when one is over, the other is told to
terminate, waited for within a shared grace period, killed and reaped. Python runs a
signal handler between any two steps, so `Signal` is enabled everywhere.

* `NoChildLeft`: when the supervisor exits, no child is left that was not killed.
* `ContainerEnds` (liveness): the container ends when a child does, or when it is told
  to once both are listed. A signal that arrives before a child is listed does not reach
  it, and one that arrives before either is listed is lost: `forward_signal` only
  remembers its number.

## The runs

| Run | Instance | What it shows |
| --- | --- | --- |
| `durable` | 2 ids, 2 credentials, 2 connections, 4 snapshots, clock 0..3 | `LiveIsAuthorized`, `LeaseWithinExpiry`, `NoUnroutableSession`, `LossIsReported`, `DisplacedSessionEnds` while registrations are added, revoked, rotated, moved and expire |
| `forward` | all of `Next` with fairness, 1 connection, 2 requests, 1 stream id, limits of 2 | `NoParkedCaller`, `NoAliasing`, `TetherLearnsTheEnd`, `AdmittedUnderAuthority`, `LeaseEndsSession`, `CallerAnswered` |
| `stream` | 2 chunks, queue of 1, with fairness | the properties of `StreamState` |
| `stream_head` | 1 chunk, queue of 1 | violates `RealAnswerIsNotRefused` |
| `stream_interrupted` | the same | violates `CleanEndIsNotInterrupted` |
| `admin` | 4 processes, 1 reader, 2 ids, 2 outputs, a limit of 1 registration | the properties of `AdminStore` |
| `refresh` | 2 changes, 2 workers, the code's sleep and limit, with fairness | the properties of `Refresh` |
| `tunnel` | 1 stream, 2 request chunks, 1 response chunk, 1 PING, queues of 1, with fairness | `ImplementsExchange`, `AbandonedWorkStops`, `AnswerReachesCaller`, `SlotIsHeld` |
| `tunnel_served` | 2 streams, 1 slot | violates `AdmittedIsServed` |
| `heartbeat` | small timers in the order of the code's, up to 2 faults | the properties of `Heartbeat` |
| `backoff` | the same, no fault | violates `BackoffResets` |
| `edges` | both doors, every frame and body up to the bounds, two children | the properties of `Gateway`, `Frames`, `Chunked` and `Supervisor` |

`durable` runs `DisplacementSpec`, the control plane and the session lifecycle
without frames, a restriction of `Next` written in `MCRegistry`; `forward` runs `Next`
itself. `edges` runs four small systems side by side: they share no state, so a
behaviour of `MCEdges` is one of them at work while the others stand still, and its
fairness is that of `Supervisor`.

The bounds are the smallest at which the interesting case happens. Two
connections give a session and its successor; what more of them could do to each
other is the matter of the theorems. Two ids let a credential move. `durable` has a
lease longer than what one credential has left, so the cut of the lease is reached,
and no fairness for the clock, so that a displaced session must end without its
lease. In `forward` the second request finds the one stream id used up, whether the first is still
open or over, and the OPEN of a stream, its END and the ENDs that late DATA asks for exceed the queue
of two. Streams of one session that are open together, or a second id after a first, are not in
this run (with two ids it takes three requests, which is more than five minutes' work); the
theorems about `Registry` have them. So have they the two steps of `revoke`, which `durable`
leaves out: it changes the records by snapshots, as the hub in durable mode does, and `forward` has
both steps in `Next`.
`MaxTime`, `MaxStreamId` and `CommandCapacity` are bounds in the guards; the
code's values are 65535 ids and 256 frames. Nothing in the model depends on
them beyond reaching the limit, and the proofs hold for any values.
Symmetry is used in `admin` only, whose properties are all safety.

In `Tunnel` the queues are one frame long, so each overflows at once, and two chunks
and the HALF_END exceed an input of one. Order and loss need two chunks. Streams
share the FIFOs, the table and nothing else, and two of them on one slot are enough
for one to meet what the other left; with one stream no OPEN is ever refused, so
that `AnswerReachesCaller` covers a refusal is only argued, not run. `tunnel` has one slot and one
chunk of an answer, so the order within an answer, and a slot that another stream waits for, are
the matter of `TunnelImplementsExchange` and `SlotHeld`. In `AdminStore`
four processes initialize, register, revoke and rotate one registration, or race to
do the same one of these. In `Refresh` the lengths are the code's own, and two
changes let a version be superseded twice while a read hangs.

In `Heartbeat` a frame travels for at most one tick. The tether PINGs every 2 and gives up
after 4, dials for at most 2 and sleeps 1 or 2; the hub looks and PINGs every tick, and its
limit is 4. These keep the order of the code's timers (10 s, 25 s, 10 s, 1 s to 30 s; 5 s, 10 s,
45 s) but not their proportions, which only make the run longer; the theorems are for
any durations under the assumptions. A lease of 21 ends after every other timer had its
turn, one of 1 before any. Two faults are enough for one to undo another (out of reach and back, stuck and
back), or for a second to hit the recovery from the first. In `Gateway` one more
end-to-end field than the code knows by name is enough, since a field is looked at only
through its membership in two sets; the theorems are for any. `Frames` has payloads around a cap
of two bytes, leases of one and two digits, one that is too large, and header bytes that turn each
kind into each other. In `Chunked` two chunks of one, two or eleven bytes, with sizes written in
three ways, give every pair of a split and a place; eleven stands for `usize::MAX`, so a size of
twelve is the first that does not fit. In `Supervisor` the grace period is three ticks, and one child ignores signals.

A stream, a tunnel session, an administrative command, a request, a message and a container really
stop, so these runs do not check for deadlock. The others do: an idle registry,
monitor or tether still has actions of its own or of its environment.

### Fairness

`Fairness` asks for what a Tokio runtime and the code's own timers give: a task
that can run runs to its next wait (`Authorize`, `CancelPredecessor`,
`AnnounceUp`, `Admit`, `EvictRevoked`, `Close`, `Detach`, `ReportEnd`), a timer
that has elapsed and a signal that was sent are noticed (`LeaseExpires`,
`Cancelled`, `TickFindsInactive`, `WriterClosed`; `select!` picks among ready
branches at random, so none is starved), and time passes (`Tick`). All are weak.
`TaskFairness`, which `durable` uses, is that without time and leases.
Nothing is asked of administrators, callers, tethers or the network.
`StreamState` needs strong fairness for one step, the receive of a queued chunk:
Tokio's cooperative budget may make it yield a finite number of times.
`Refresh` asks for time and for the monitor's own steps, `Tunnel` for the two
session loops (a frame that arrived, a socket that closed, an abort that was
asked for, a completion) and for pumps that are done or aborted. Neither asks
anything of the store, the engine, the callers or the network. `Supervisor` asks for
the steps of `main`, for time while it waits, and that a child acts on a signal unless
it is one that may ignore it. `Heartbeat` needs no fairness: its clock does not pass a
timer that has fired or a frame that is due (`OnTime`), and its properties are bounds.

### Findings

* `stream_head`: `Forwarded::head` reads the head, then `completed`
  (`hub.rs:782`). If the response head and its END are handled between the two
  reads, it reports that there is no head, and the caller gets 502 for an
  answer that arrived whole, against `docs/invariants.md:83`.
* `stream_interrupted`: `fail` overwrites the outcome of `complete`
  (`hub.rs:597`), so an END that was handled cleanly may be seen as an
  interruption, against `docs/architecture.md:175`.
* `tunnel_served`: a stream's slot is free at the hub when its END arrives, at the
  tether when the completion sent after the END is handled (`tunnel.rs:317, 395-396`).
  With every slot in use, a request admitted in between is answered `overloaded`
  (`tunnel.rs:378`), against `docs/architecture.md:155, 171`. The window is a
  round trip long, so it takes a loop that is busy with other frames.

* `backoff`: `run_client` doubles the delay whenever `serve_over` returns, whether it
  served for hours or not at all, and nothing sets it back (`tunnel.rs:183-194`),
  against `docs/operator-guide.md:128-130`. As a lease refresh ends a session too, after
  a few of them every refresh is an outage of 30 s.

Met on the way, and stated here without a run:

* A replaced session reports Down when its task exits (`hub.rs:1167`), after its
  successor reported Up, so the event log of an id that is up may end in Down. No doc
  promises an order between two sessions; `LossIsReported` states the direction that
  matters.
* `pong_deadline` is never set (`tunnel.rs:671`), so `overdue` never fires and the
  comment at `tunnel.rs:652-655` describes what only `dead` does.
* `run_client` "Only returns on a fatal config error" by its doc, but a hub URL that
  cannot be dialed is retried for ever.
* The tether ignores a Text message, the hub ends the session over one.

## The proofs

All proofs about `Registry` hold for any sets of ids, credentials, connections and requests, any
snapshots satisfying `StoreAssumption`, and any positive bounds.

| Theorem | Module | Property |
| --- | --- | --- |
| `TypeCorrect` | `RegistryProofs` | `TypeOK` |
| `RoutingIsAuthorized` | `RegistryProofs` | `LiveIsAuthorized` |
| `NoSessionUnroutable` | `RegistryProofs` | `NoUnroutableSession` |
| `LeaseBounded` | `RegistryProofs` | `LeaseWithinExpiry` |
| `NoCallerParked`, `StreamIdsUnique` | `RegistryProofs` | `NoParkedCaller`, `NoAliasing` |
| `AdmissionIsAuthorized` | `RegistryProofs` | `AdmittedUnderAuthority` |
| `TetherLearns`, `LossReported` | `RegistryProofs` | `TetherLearnsTheEnd`, `LossIsReported` |
| `CleanEof`, `NormalEnd`, `UploadStops` | `StreamProofs` | `CleanEofMeansWholeBody`, `NormalEndIsNotAborted`, `UploadIsStopped` |
| `SlotHeld` | `TunnelProofs` | `SlotIsHeld` |
| `TunnelImplementsExchange` | `TunnelProofs` | `ImplementsExchange`: `Tunnel` refines `Exchange` |
| `Delivery`, `AuditExplains`, `Outcomes` | `AdminStoreProofs` | `DeliveryMatchesOutcome`, `AuditExplainsRows`, `OutcomeIsTrue` |
| `Initialized`, `Snapshots`, `StaysReadable` | `AdminStoreProofs` | `InitializedStays`, `SnapshotIsCommitted`, `StoreStaysReadable` |
| `RetiredForGood` | `AdminStoreProofs` | `RetiredStaysRetired` (an action property) |
| `FreshOrNothing` | `RefreshProofs` | `StalenessBounded` |
| `LateReadsAreDropped` | `RefreshProofs` | `LateResultIsDropped` |
| `LoopAnswers`, `HalfOpenEnds` | `HeartbeatProofs` | `RoutedLoopAnswers`, `HalfOpenSessionEnds` |
| `RefreshComesFirst` | `HeartbeatProofs` | `HealthySessionRefreshes` |
| `OutageEnds` | `HeartbeatProofs` | `OutageBounded` |
| `GuardedEngine`, `HopsStripTheirOwn`, `NoInventedSuccess` | `EdgeProofs` | `EngineIsGuarded`, `OnlyEndToEndCrosses`, `AnswerIsTheEngines` |
| `NobodyIsLeft` | `EdgeProofs` | `NoChildLeft` |
| `FramesAreReadAsWritten` | `CodecProofs` | `ReadAsWritten` |
| `ChunkedBodiesAreDecodedExactly` | `CodecProofs` | `DecodesExactly` |

`RegistryInvariant`, `StreamIsSafe`, `TunnelIsSafe` and `StoreIsSafe` state the inductive
invariants these come from.

Assumptions: the "no value" constants are not members of their sets, `Rank`
tells ids apart, bounds are positive (`ValuesAssumption`, `BoundsAssumption`),
and a store holds at most one record per credential, each with the expiry that
credential was issued with (`StoreAssumption`: a credential is 256 fresh random
bits, `admin.rs:248-253`, so two records never share a hash, and a rotation
always issues a fresh one). The response queue of `StreamState` has room for a chunk
(`BoundsAssumption`), the capacities of `Tunnel` are numbers. The supervisor starts at least one child
(`SupervisorAssumption`). Of the durations of `Heartbeat`: all are positive and the sleeps,
leases and dials are in their order (`DurationsAssumption`); a PING is answered before either
end gives up, with a network that takes `Delay` each way (`MarginAssumption`); a dial takes no
longer than the slower end's timer, and the hub's lease is renewed before it ends
(`RecoveryAssumption`; `CONNECT_TIMEOUT` is 10 s of 45, a lease 900 s). A payload is a sequence of
bytes whose length fits the length field, a stream id fits its two bytes (`WriterAssumption`), and
a lease has no more than the 20 digits of a `u64` (`LeaseAssumption`); caps and edited bytes are
numbers (`ReaderAssumption`). An engine's chunk has at least one byte, as an empty one would be the
last, and its length fits a `usize` (`EngineAssumption`); `MaxSize` is a number (`DecoderAssumption`).

The argument for `Registry`, layer by layer:

1. `TypeInv` adds three facts to the types. A task past an accepted HELLO names
   a registration (`TidInv`). A permit is for a session with room (`PermitInv`);
   without it the OPEN of `Admit`, which tests nothing, could overflow the
   queue. `routing` has one holder (`MutexInv`).
2. `RouteInv` is inductive given the types: whatever changes a record takes the
   session out of the table in the same critical section, or leaves `revoking`
   behind; `Detach` removes exactly its own entry because the entry it finds has
   its generation.
3. `OwnerInv` needs that generations are distinct and non-zero exactly for
   sessions that attached (`GenerationInv`). Then the entry `Detach` removes is
   the task's own, and no successor becomes unroutable. `ClosedInv` records that
   a task past `close` is closed.
4. `StreamInv` relates the two views of a stream: a table entry is where its
   request says it is (`TableInv`), ids are below `next_id` (`IdInv`), and a
   reserved request is on a session that attached (`HeldInv`). An admitted
   request then finds an empty slot, on a session that is not closed and
   therefore, by `ClosedInv`, has `close` ahead of it. `AttachInv` (one
   `attach` at a time) says whom `CancelPredecessor` closes.
5. `AdmissionIsAuthorized` combines them: while `reserving` is set nobody is
   superseded or being revoked, so an unclosed session is the routed one, and a
   routed one is authorized.
6. A stream that is over was told to the tether, or its session is ending (`EndInv`), and
   a session that is ending never recovers (`EndingStays`). A queue without room is no
   exception, since failing to send an END is what ends the session. `LossReported`: a session
   that announced itself stays one that will report its end, until it does.

`StreamProofs` holds for any queue and any number of chunks. Four tasks publish pieces of one
state in some order, and each conjunct of `StreamInv` is one such order: `completed` before
the outcome (`MarkedFirst`), each ender once (`StartsOnce`), no chunk between the queue and
the reader (`NothingIsLost`), no result before an end (`ResultIsLast`), and a task handle that
is with the stream or was cancelled, whichever of installing and ending came first
(`HandleIsHeld`).

`TunnelProofs` holds for any streams, slots, bodies and capacities. The properties are about
what arrived; the invariant is about what travels. The frames of a body in a channel form a
run: in order, without a gap, from where the receiver is (`Runs`), unless the receiver no
longer listens (`RequestRuns`, `AnswerRuns`). Dropping a frame from the front, adding the
next at the end and losing a suffix keep runs, and these are all a channel does. What is
read next is then the next chunk, and an end that is read is the end of all that was
sent, which is what the steps of `Exchange` demand. Each action of `Tunnel` is mapped to
a step of the streams' exchanges or a stutter of them.

`AdminStoreProofs` holds for any processes, readers and output files. A store changes in
one step, a commit, and what it writes was computed from what is still there, because the
write lock excludes every other transaction on that inode (`Drafts`). An inode has one
creator, which alone removes it, and only when it fails (`Inodes`); a creator that failed may
also have left it. Each event of a log is of one process that may have committed in that store, and
is the only one of it; and a process past its commit has its event there, whether or not it could
report it (`Logs`). So the latest event about an id explains its row and a retired credential has
no process left to bring it back. A file is of the process whose credential it holds, whole
before the commit may start, and of a process that failed only if its event is in the
log (`Outputs`).

`RefreshProofs` holds for any workers and any number of changes, any sleep and any
limit. `StalenessBounded` is not inductive: it says nothing of how long what the hub
holds may stay, nor of a result still to be applied. While a timer runs, the age of
the version in use and the time left have a constant bound, because a tick takes
from the one what it adds to the other (`HeldInv`); the same holds for the version
the awaited worker saw (`SeenInv`), which is what `Apply` hands over. `WorkerInv`
says that only the awaited worker is busy, `TimeInv` bounds the timers.

`HeartbeatProofs` holds for any durations and any number of faults. A timer property is
made inductive by saying what two clocks add up to. `AnswerInv`: a PONG that travels is
no younger than the tether's last answer. `ApartInv`: how long an end has been alone, plus
what its timer has left, is its limit, and whatever still arrives was sent before the other
left. `ConnectionInv`: a connection begins with HELLO and WELCOME. `HealthyInv`: in a
session no fault touched, the PING, or the PONG, that will set a timer back is on its way and
arrives before the timer fires, and `lease_tick` is ahead of `lease_deadline` by more than the
lease can travel. Trying to prove these showed what `MarginAssumption` must say (that twice the
delay is less than `PING_TIMEOUT`: a WELCOME comes a round trip after HELLO) and that
the bound of `HalfOpenSessionEnds` includes the last frame's delay.

`OutageEnds` is a potential argument: what an outage has lasted plus what the tether's
place can still take at the worst never exceeds `OutageLimit` (`RecoveryInv`). A tick moves one
unit from the second to the first; every other step leaves at most as much to come. The
places are a sleep or a dial (`Idle`), a handshake that goes on (`Greeted`), and a connection
whose end is not known yet (`Lost`): its end travels, or a timer of either end runs. The last
needs `ToldInv`, that a connection which still delivers has told the tether what the hub
did, and the invariant of the healthy session, since a session that has just come back must
not end by a timer at once. As a fault sets `outage` back to 0, it is the last one that counts.

`EdgeProofs` holds for any header fields, statuses and upstreams. The properties of `Gateway`
speak of the two ends of a request; `CrossingInv` says what is in the tunnel between
them, and `GuardInv` that whatever is past the door was let in by the environment the
process checked when it started. That heads stripped at several hops lose nothing more
is `StrippedAgain`: `Strip` leaves no Connection field, so a second one finds nothing
named. For `Supervisor` it has any children and grace period: whoever is alive is listed, or about
to be, before `main` may go on to stop (`ListInv`), and none that the stop has passed runs
(`StopInv`).

`CodecProofs` holds for any payloads, streams, leases and cap, and for any chunks in any number,
split in any way. It is an induction over data. The library states induction with an operator as a
parameter, which the provers cannot instantiate, so it is stated here with sets: a property is
the set of the values that have it, and `Induct`, `SeqInduct` and `RankInduct` say that a set closed
under the step is everything (from `WFMin`, that a non-empty set has a minimal element). A
recursive function is a `CHOOSE` of a solution of its equation, and `Recursion` and `SeqRecursion`
build one, which is what permits using the equation (`DecimalIs`, `NumberIs`, `HexOfIs`,
`HexValueIs`, `DataInIs`, `WireOfIs`, `LoopIs`).

For `Frames` the message is followed byte by byte. What is read from a whole frame, or one with more
behind it, is the frame (`ReadsWritten`, with `LeaseRoundTrip` for the digits of a lease and
`BigEndianOf` for the header); a cut one is an error (`CutShort`); and whatever was read, the bytes
it was read from say so (`ReadsWhatIsThere`), which covers every corruption.

For `Chunked` the invariant may not speak of chunks, since the decoder does not see them. `Framed`
says what can be seen at a place of a wire: where a chunk begins a line follows whose last byte is
marked by what the size is worth, and where data end two bytes follow. Prepending a chunk keeps this
(`FramedChunk`), so every body an engine writes has it. A decoder is `Reading` such a wire when what
it took ends at the place its mode is for, what it holds is what comes next, and what it handed on
is the data before that place. One pass goes on `Reading` further along, or has `Finished` or
`Failed` at a byte marked so (`SizeFits`, `BodyFits`, `CrLfFits`); the loop does because every pass
leaves less to do (`PassDescends`, the reason it ends at all). A decoder that waits has taken
every data byte it was given, and its mode tells a whole body from one cut short (`AtRest`).
`DecodesExactly` follows at every end of a `push` and at the end of input.

Trying to prove it made one case explicit: a size that no `usize` holds is an error like one
that is no number, and a chunk of that length does not exist; `Spoilt` has both.

The type invariants of `Registry` and `Refresh` are part of what is proved, and no
run repeats them.

Every invariant and action property a passing run checks is a theorem, and so is the refinement.
Only model-checked is all liveness: `DisplacedSessionEnds`, `LeaseEndsSession`, `CallerAnswered`,
`CallerLearnsOfTheEnd`, `ChangeTakesEffect`, `AbandonedWorkStops`, `AnswerReachesCaller` and
`ContainerEnds`. Fairness and ENABLED are outside the prover's reach.

## Not modelled

* Power loss in `AdminStore`: the code's `sync_all` calls are for that, and the model
  would be one of the file system.
* `list` and `audit` of `admin.rs`: they read one table in one transaction and print it.
* SQLite, hyper, Tokio, the WebSocket library and the engine, except for what the code
  relies on, marked external in `PROJECT.json`.
* Argument parsing of `cli.py` and `main.rs`, the logging, and the egress probe:
  sequential, without state.
* `parse_response_head` of `tunnel.rs`: kept for its tests only.
* The packaging, soak and gate scripts and `buffering_canary.rs`: tools outside the
  running system.

## What is left

`Refresh` with `Registry` and `AdminStore` in one module: an abstract "revocation takes
effect" specification, from the commit to the end of the session, refined by the composition,
in place of the argument under "How they interact". Each of its links is a theorem already.
