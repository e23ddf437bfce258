------------------------------ MODULE Heartbeat -----------------------------
(***************************************************************************)
(* The clocks of one tether and its hub: the reconnect loop with its        *)
(* backoff, the lease refresh, the liveness frames of both ends and the     *)
(* timers that decide a peer is gone.  The network delivers in order and    *)
(* within Delay, or a direction of the connection is cut for good; either   *)
(* process may restart, the loop of the tether may be stuck while its pumps *)
(* still send, and the hub may be out of reach or withdraw the              *)
(* registration.  Queues and streams are Tunnel, the registry is Registry.  *)
(***************************************************************************)
EXTENDS Integers, Sequences

CONSTANTS
    PingInterval,       \* tether: PING_INTERVAL
    PingTimeout,        \* tether: PING_TIMEOUT
    RefreshFloor,       \* tether: the least delay of a lease refresh
    ConnectTimeout,     \* tether: CONNECT_TIMEOUT
    BackoffMin,         \* tether: BACKOFF_MIN
    BackoffMax,         \* tether: BACKOFF_MAX
    TetherTick,         \* hub: TETHER_TICK
    TetherPingInterval, \* hub: TETHER_PING_INTERVAL
    TetherSilence,      \* hub: TETHER_SILENCE
    Lease,              \* hub: the lease of a registration that does not expire
    ShortLease,         \* hub: the lease of a credential about to expire
    Delay,              \* the longest a frame travels
    MaxFaults           \* faults in one behaviour

ASSUME DurationsAssumption ==
    /\ {PingInterval, PingTimeout, RefreshFloor, ConnectTimeout, BackoffMin, BackoffMax,
        TetherTick, TetherPingInterval, TetherSilence, Lease, ShortLease, Delay} \subseteq Nat \ {0}
    /\ MaxFaults \in Nat
    /\ BackoffMin <= BackoffMax
    /\ ShortLease <= Lease
    /\ Delay < ConnectTimeout

\* The timers leave room for the round trip of a healthy network.
ASSUME MarginAssumption ==
    /\ 2 * Delay < PingTimeout
    /\ TetherPingInterval + TetherTick + Delay < PingTimeout
    /\ TetherPingInterval + TetherTick + 2 * Delay <= TetherSilence

VARIABLES
    phase,          \* where run_client stands
    wait,           \* what is left of its sleep or timeout
    hindered,       \* the dial met a hub that was out of reach
    backoff,        \* the next sleep
    ping_tick,      \* what is left of hb.ping_tick
    dead,           \* what is left of hb.dead
    lease_tick,     \* what is left of lease_tick
    session,        \* does handle_tether serve a session of this tether
    current,        \* ... over the connection the tether uses
    last_seen,      \* age of the last PONG
    tick,           \* what is left of the hub's tick
    last_ping,      \* age of the hub's last PING
    lease_deadline, \* what is left of the lease
    granted,        \* the lease in WELCOME
    toHub,          \* frames to the hub
    toTether,       \* frames to the tether
    cut,            \* directions of the connection that deliver nothing
    reach,          \* can a new connection be made
    active,         \* is the registration active
    wedged,         \* the tether's loop does not run
    faults,         \* faults so far
    clean,          \* no fault touched the session
    why,            \* how a session without faults ended
    apart,          \* how long only one end has been in the session
    answered,       \* how long ago the tether's loop last answered
    outage          \* how long service has been missing though nothing is wrong

tetherVars == <<phase, wait, hindered, backoff, ping_tick, dead, lease_tick>>
hubVars == <<session, current, last_seen, tick, last_ping, lease_deadline, granted>>
netVars == <<toHub, toTether, cut>>
envVars == <<reach, active, wedged, faults>>
ghostVars == <<clean, why, apart, answered, outage>>
vars == <<tetherVars, hubVars, netVars, envVars, ghostVars>>

Lesser(a, b) == IF a < b THEN a ELSE b
Greater(a, b) == IF a < b THEN b ELSE a
Less(a) == IF a = 0 THEN 0 ELSE a - 1
More(a, limit) == Lesser(a + 1, limit)

\* serve_over refreshes at three quarters of the lease, not before five seconds.
RefreshAfter(lease) == Greater((lease * 3) \div 4, RefreshFloor)

\* A quarter of the lease is longer than a frame travels.
Renewable(lease) == 4 * Delay < lease /\ RefreshFloor + Delay < lease

Connected == phase \in {"hello", "serving"}
InSession == phase = "serving"
AtHub == session = "serving"
Working == InSession /\ AtHub /\ current /\ cut = {} /\ ~wedged
Calm == reach /\ active /\ ~wedged

\* reserve_route's test of a session.
Routable == AtHub /\ last_seen <= TetherSilence

Put(ch, kind) == Append(ch, [kind |-> kind, age |-> 0])

\* What the hub writes reaches the tether only over the connection it uses.
ToTether(kind) == IF current /\ Connected THEN Put(toTether, kind) ELSE toTether

Init ==
    /\ phase = "dialing" /\ wait = ConnectTimeout /\ hindered = FALSE /\ backoff = BackoffMin
    /\ ping_tick = 0 /\ dead = 0 /\ lease_tick = 0
    /\ session = "none" /\ current = FALSE /\ last_seen = 0 /\ tick = 0
    /\ last_ping = 0 /\ lease_deadline = 0 /\ granted = Lease
    /\ toHub = <<>> /\ toTether = <<>> /\ cut = {}
    /\ reach = TRUE /\ active = TRUE /\ wedged = FALSE /\ faults = 0
    /\ clean = TRUE /\ why = "none" /\ apart = 0 /\ answered = 0 /\ outage = 0

\* History: the first reason a session without faults ended for.
Ended(reason) == why' = IF clean /\ why = "none" THEN reason ELSE why
-----------------------------------------------------------------------------
(* The reconnect loop of the tether *)

\* serve_over or dial returned: sleep, and double the next sleep.
Sleeps_Uncapped ==
    /\ phase' = "sleeping" /\ wait' = backoff
    /\ backoff' = 2 * backoff
    /\ hindered' = FALSE
    /\ ping_tick' = 0 /\ dead' = 0 /\ lease_tick' = 0
Sleeps ==
    /\ phase' = "sleeping" /\ wait' = backoff
    /\ backoff' = Lesser(2 * backoff, BackoffMax)
    /\ hindered' = FALSE
    /\ ping_tick' = 0 /\ dead' = 0 /\ lease_tick' = 0

\* The session ends at the tether.  The writer is aborted with it: what was
\* queued last may not be written before the socket closes.
TetherLeaves(reason, last) ==
    /\ Sleeps
    /\ toHub' = Put(toHub, "Close") \/ (last # "none" /\ toHub' = Put(Put(toHub, last), "Close"))
    /\ toTether' = <<>>
    /\ Ended(reason) /\ apart' = 0
    /\ UNCHANGED <<hubVars, cut, envVars, clean, answered, outage>>

Dials ==
    /\ phase = "sleeping" /\ wait = 0
    /\ phase' = "dialing" /\ wait' = ConnectTimeout /\ hindered' = ~reach
    /\ UNCHANGED <<backoff, ping_tick, dead, lease_tick, hubVars, netVars, envVars, ghostVars>>

DialFails ==
    /\ phase = "dialing"
    /\ wait = 0 \/ ~reach
    /\ Sleeps
    /\ UNCHANGED <<hubVars, netVars, envVars, ghostVars>>

\* A new connection; a session the hub still holds runs on over the old one.
DialSucceeds ==
    /\ phase = "dialing" /\ reach
    /\ phase' = "hello" /\ wait' = PingTimeout /\ hindered' = FALSE
    /\ toHub' = Put(<<>>, "Hello") /\ toTether' = <<>> /\ cut' = {}
    /\ current' = FALSE
    /\ UNCHANGED <<backoff, ping_tick, dead, lease_tick, session, last_seen, tick, last_ping,
                   lease_deadline, granted, envVars, ghostVars>>

HelloTimesOut ==
    /\ phase = "hello" /\ wait = 0
    /\ TetherLeaves("dead", "none")

\* Any frame but WELCOME ends the handshake.
TetherHandshake ==
    /\ phase = "hello" /\ toTether # <<>> /\ "toTether" \notin cut
    /\ \/ /\ Head(toTether).kind = "Welcome"
          /\ phase' = "serving" /\ wait' = 0
          /\ lease_tick' = RefreshAfter(granted)
          /\ ping_tick' = PingInterval /\ dead' = PingTimeout
          /\ toTether' = Tail(toTether)
          /\ apart' = 0
          /\ UNCHANGED <<hindered, backoff, hubVars, toHub, cut, envVars, clean, why, answered,
                         outage>>
       \/ Head(toTether).kind # "Welcome" /\ TetherLeaves("closed", "none")
-----------------------------------------------------------------------------
(* run_session *)

LoopRuns == InSession /\ ~wedged

LeaseTick == LoopRuns /\ lease_tick = 0 /\ TetherLeaves("refresh", "GoAway")

PingTick_Resets ==
    /\ LoopRuns /\ ping_tick = 0
    /\ toHub' = Put(toHub, "Ping")
    /\ ping_tick' = PingInterval /\ dead' = PingTimeout
    /\ UNCHANGED <<phase, wait, hindered, backoff, lease_tick, hubVars, toTether, cut, envVars,
                   ghostVars>>
PingTick ==
    /\ LoopRuns /\ ping_tick = 0
    /\ toHub' = Put(toHub, "Ping")
    /\ ping_tick' = PingInterval
    /\ UNCHANGED <<phase, wait, hindered, backoff, dead, lease_tick, hubVars, toTether, cut,
                   envVars, ghostVars>>

DeadFires == LoopRuns /\ dead = 0 /\ TetherLeaves("dead", "none")

\* Heartbeat::reset.
Reset_KeepsDead == ping_tick' = PingInterval /\ dead' = dead
Reset == ping_tick' = PingInterval /\ dead' = PingTimeout

TetherReceives ==
    /\ LoopRuns /\ toTether # <<>> /\ "toTether" \notin cut
    /\ LET kind == Head(toTether).kind
       IN \/ kind \in {"Close", "GoAway", "Welcome"} /\ TetherLeaves("closed", "none")
          \/ /\ kind \in {"Ping", "Pong", "Data"}
             /\ Reset
             /\ toTether' = Tail(toTether)
             /\ toHub' = IF kind = "Ping" THEN Put(toHub, "Pong") ELSE toHub
             /\ answered' = IF kind = "Ping" THEN 0 ELSE answered
             /\ UNCHANGED <<phase, wait, hindered, backoff, lease_tick, hubVars, cut, envVars,
                            clean, why, apart, outage>>

\* A pump writes DATA, whether the loop runs or not.
PumpWrites ==
    /\ InSession /\ toHub = <<>>
    /\ toHub' = Put(toHub, "Data")
    /\ UNCHANGED <<tetherVars, hubVars, toTether, cut, envVars, ghostVars>>

Tether ==
    \/ Dials \/ DialFails \/ DialSucceeds \/ HelloTimesOut \/ TetherHandshake
    \/ LeaseTick \/ PingTick \/ DeadFires \/ TetherReceives \/ PumpWrites
-----------------------------------------------------------------------------
(* handle_tether *)

HubLeaves(reason) ==
    /\ session' = "none" /\ current' = FALSE
    /\ last_seen' = 0 /\ tick' = 0 /\ last_ping' = 0 /\ lease_deadline' = 0
    /\ toTether' = ToTether("Close")
    /\ Ended(reason) /\ apart' = 0
    /\ UNCHANGED <<tetherVars, granted, cut, envVars, clean, answered, outage>>

\* authorize, WELCOME and attach; the session it displaces is cancelled.
Greets(lease) ==
    /\ toHub # <<>> /\ "toHub" \notin cut /\ Head(toHub).kind = "Hello" /\ active
    /\ lease = Lease \/ faults < MaxFaults
    /\ faults' = IF lease = Lease THEN faults ELSE faults + 1
    /\ toHub' = Tail(toHub)
    /\ toTether' = IF Connected THEN Put(toTether, "Welcome") ELSE toTether
    /\ session' = "serving" /\ current' = TRUE /\ last_seen' = 0
    /\ tick' = TetherTick /\ last_ping' = TetherPingInterval
    /\ lease_deadline' = lease /\ granted' = lease
    /\ clean' = (cut = {} /\ Connected) /\ why' = "none" /\ apart' = 0 /\ answered' = 0
    /\ outage' = IF lease = Lease THEN outage ELSE 0
    /\ UNCHANGED <<tetherVars, cut, reach, active, wedged>>

Refuses ==
    /\ toHub # <<>> /\ "toHub" \notin cut /\ Head(toHub).kind = "Hello" /\ ~active
    /\ toHub' = Tail(toHub) /\ toTether' = IF Connected THEN Put(Put(toTether, "GoAway"), "Close") ELSE toTether
    /\ UNCHANGED <<tetherVars, hubVars, cut, envVars, ghostVars>>

LeaseDeadline == AtHub /\ lease_deadline = 0 /\ HubLeaves("expired") /\ UNCHANGED toHub

HubTick ==
    /\ AtHub /\ tick = 0
    /\ \/ ~active /\ HubLeaves("closed") /\ UNCHANGED toHub
       \/ active /\ last_seen > TetherSilence /\ HubLeaves("silent") /\ UNCHANGED toHub
       \/ /\ active /\ last_seen <= TetherSilence
          /\ tick' = TetherTick
          /\ IF last_ping >= TetherPingInterval
               THEN last_ping' = 0 /\ toTether' = ToTether("Ping")
               ELSE UNCHANGED <<last_ping, toTether>>
          /\ UNCHANGED <<tetherVars, session, current, last_seen, lease_deadline, granted, toHub,
                         cut, envVars, ghostVars>>

\* frame_proves_liveness: only a PONG does.
ProvesLiveness_Traffic(kind) == kind # "Close"
ProvesLiveness(kind) == kind = "Pong"

HubReceives ==
    /\ AtHub /\ current /\ toHub # <<>> /\ "toHub" \notin cut
    /\ toHub' = Tail(toHub)
    /\ LET kind == Head(toHub).kind
       IN \/ kind \in {"Close", "GoAway"} /\ HubLeaves("closed")
          \/ /\ kind \in {"Ping", "Pong", "Data"}
             /\ last_seen' = IF ProvesLiveness(kind) THEN 0 ELSE last_seen
             /\ toTether' = IF kind = "Ping" THEN ToTether("Pong") ELSE toTether
             /\ UNCHANGED <<tetherVars, session, current, tick, last_ping, lease_deadline, granted,
                            cut, envVars, ghostVars>>

\* Nobody reads a connection whose session is over.
HubDrops ==
    /\ toHub # <<>> /\ "toHub" \notin cut /\ Head(toHub).kind # "Hello" /\ ~(AtHub /\ current)
    /\ toHub' = Tail(toHub)
    /\ UNCHANGED <<tetherVars, hubVars, toTether, cut, envVars, ghostVars>>

\* A caller's upload, or the END of one that left.
HubWrites ==
    /\ AtHub /\ current /\ Connected /\ toTether = <<>>
    /\ toTether' = Put(toTether, "Data")
    /\ UNCHANGED <<tetherVars, hubVars, toHub, cut, envVars, ghostVars>>

Hub ==
    \/ \E lease \in {ShortLease, Lease} : Greets(lease)
    \/ Refuses \/ LeaseDeadline \/ HubTick \/ HubReceives \/ HubDrops \/ HubWrites
-----------------------------------------------------------------------------
(* Faults, and time *)

Fault == faults < MaxFaults /\ faults' = faults + 1 /\ outage' = 0

\* Only a session that has not ended yet is spoilt by a fault.
Spoils == clean' = (clean /\ why # "none")

Cut(d) ==
    /\ Fault /\ Spoils /\ d \notin cut /\ cut' = cut \cup {d}
    /\ UNCHANGED <<tetherVars, hubVars, toHub, toTether, reach, active, wedged, why, apart, answered>>

ReachChanges ==
    /\ Fault /\ reach' = ~reach
    /\ hindered' = (hindered \/ (phase = "dialing" /\ reach))
    /\ UNCHANGED <<phase, wait, backoff, ping_tick, dead, lease_tick, hubVars, netVars, active,
                   wedged, clean, why, apart, answered>>

ActiveChanges ==
    /\ Fault /\ Spoils /\ active' = ~active
    /\ UNCHANGED <<tetherVars, hubVars, netVars, reach, wedged, why, apart, answered>>

WedgeChanges ==
    /\ Fault /\ Spoils /\ InSession /\ wedged' = ~wedged
    /\ apart' = 0
    /\ UNCHANGED <<tetherVars, hubVars, netVars, reach, active, why, answered>>

\* The peer of a process that dies is told by a reset, or by nothing at all.
HubRestarts ==
    /\ Fault /\ Spoils
    /\ session' = "none" /\ current' = FALSE
    /\ last_seen' = 0 /\ tick' = 0 /\ last_ping' = 0 /\ lease_deadline' = 0
    /\ toHub' = <<>>
    /\ \/ toTether' = (IF Connected THEN Put(toTether, "Close") ELSE toTether) /\ UNCHANGED cut
       \/ cut' = {"toHub", "toTether"} /\ UNCHANGED toTether
    /\ apart' = 0
    /\ UNCHANGED <<tetherVars, granted, reach, active, wedged, why, answered>>

TetherRestarts ==
    /\ Fault /\ Spoils
    /\ phase' = "dialing" /\ wait' = ConnectTimeout /\ hindered' = ~reach /\ backoff' = BackoffMin
    /\ ping_tick' = 0 /\ dead' = 0 /\ lease_tick' = 0 /\ wedged' = FALSE
    /\ toTether' = <<>>
    /\ \/ toHub' = Put(toHub, "Close") /\ UNCHANGED cut
       \/ cut' = {"toHub", "toTether"} /\ UNCHANGED toHub
    /\ apart' = 0
    /\ UNCHANGED <<hubVars, reach, active, why, answered>>

Faulty ==
    \/ \E d \in {"toHub", "toTether"} : Cut(d)
    \/ ReachChanges \/ ActiveChanges \/ WedgeChanges \/ HubRestarts \/ TetherRestarts

\* Loops that run are not late, and frames that can arrive do within Delay.
OnTime ==
    /\ phase \in {"sleeping", "dialing", "hello"} => wait > 0
    /\ phase = "dialing" => hindered \/ wait > ConnectTimeout - Delay
    /\ LoopRuns => ping_tick > 0 /\ dead > 0 /\ lease_tick > 0
    /\ AtHub => tick > 0 /\ lease_deadline > 0
    /\ "toHub" \notin cut => \A i \in DOMAIN toHub : toHub[i].age < Delay
    /\ "toTether" \notin cut /\ ~wedged => \A i \in DOMAIN toTether : toTether[i].age < Delay

Aged(ch) == [i \in DOMAIN ch |-> [ch[i] EXCEPT !.age = More(@, Delay)]]

\* A dial takes no longer than noticing that a peer is gone, and the hub's own
\* lease is worth renewing.
ASSUME RecoveryAssumption ==
    /\ ConnectTimeout <= Greater(PingTimeout, TetherSilence + TetherTick + Delay)
    /\ Renewable(Lease)

\* The longest service is missing once nothing is wrong any more: the slower of
\* the two ends notices, the tether sleeps its longest sleep, and a new session
\* takes a connection, a HELLO and a WELCOME.
OutageLimit ==
    Greater(PingTimeout, TetherSilence + TetherTick + Delay) + BackoffMax + 3 * Delay

Tick ==
    /\ OnTime
    /\ wait' = Less(wait) /\ ping_tick' = Less(ping_tick) /\ dead' = Less(dead)
    /\ lease_tick' = Less(lease_tick)
    /\ tick' = Less(tick) /\ lease_deadline' = Less(lease_deadline)
    /\ last_seen' = IF AtHub THEN last_seen + 1 ELSE 0
    /\ last_ping' = IF AtHub THEN last_ping + 1 ELSE 0
    /\ toHub' = Aged(toHub) /\ toTether' = Aged(toTether)
    /\ apart' = IF wedged THEN apart
                ELSE IF InSession = AtHub THEN 0
                ELSE More(apart, TetherSilence + TetherTick + PingTimeout + 2 * Delay)
    /\ answered' = More(answered, TetherSilence + Delay + 1)
    /\ outage' = IF Working \/ ~Calm THEN 0 ELSE More(outage, OutageLimit + 1)
    /\ UNCHANGED <<phase, hindered, backoff, session, current, granted, cut, envVars, clean, why>>

Next == Tether \/ Hub \/ Faulty \/ Tick

Spec == Init /\ [][Next]_vars
-----------------------------------------------------------------------------
\* A session no fault touched ends by the tether's own refresh, before the hub's
\* deadline and never by a liveness timer of either end, unless the credential
\* was about to expire (tunnel.rs:275-278, 322-351; hub.rs:1015, 1034).
HealthySessionRefreshes ==
    \/ why \in {"none", "refresh"}
    \/ why = "expired" /\ ~Renewable(granted)

\* Neither end stays in a session the other has left: the tether notices within
\* PING_TIMEOUT, the hub within TETHER_SILENCE and a tick, and either after the
\* delay of the last frame that still came (hub.rs:1034-1041, tunnel.rs:349).
HalfOpenSessionEnds ==
    apart <= IF AtHub THEN TetherSilence + TetherTick + Delay ELSE PingTimeout + Delay

\* The hub routes only to a tether whose loop answered lately, though its pumps
\* may go on sending (hub.rs:50-53, 482, 1182).
RoutedLoopAnswers ==
    Routable => answered <= TetherSilence + Delay

\* Once nothing is wrong any more service comes back in bounded time, whatever
\* the tether went through before (tunnel.rs:177-193).
OutageBounded == outage <= OutageLimit

\* The operator guide of a tether that was connected: it "resets the delay after
\* a successful session" (operator-guide.md:128-130; tunnel.rs:183-194).
BackoffResets ==
    [][phase = "serving" /\ phase' = "sleeping" => wait' = BackoffMin]_vars
=============================================================================
