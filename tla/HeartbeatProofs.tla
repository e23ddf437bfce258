--------------------------- MODULE HeartbeatProofs ---------------------------
(***************************************************************************)
(* That the hub routes only to a tether that answered lately, that neither  *)
(* end stays long in a session the other has left, and that a session no    *)
(* fault touched ends by the tether's refresh alone, for all durations that *)
(* leave room for a round trip; and that service comes back in bounded time. *)
(***************************************************************************)
EXTENDS Heartbeat, TLAPS

Kinds == {"Hello", "Welcome", "Ping", "Pong", "Data", "Close", "GoAway"}
Frame == [kind : Kinds, age : 0..Delay]

\* What a session in service is made of.
Live == {"Ping", "Pong", "Data"}

\* The frames of a channel, and those behind the first.
On(ch) == {ch[i] : i \in DOMAIN ch}
Behind(ch) == {ch[i] : i \in DOMAIN ch \ {1}}
HubBound == {toHub[i] : i \in DOMAIN toHub}
TetherBound == {toTether[i] : i \in DOMAIN toTether}
TetherRest == {toTether[i] : i \in DOMAIN toTether \ {1}}

Types ==
    /\ phase \in {"sleeping", "dialing", "hello", "serving"}
    /\ wait \in Nat /\ backoff \in Nat
    /\ ping_tick \in Nat /\ dead \in 0..PingTimeout /\ lease_tick \in Nat
    /\ session \in {"none", "serving"}
    /\ last_seen \in Nat /\ tick \in Nat /\ last_ping \in Nat /\ lease_deadline \in Nat
    /\ granted \in Nat
    /\ toHub \in Seq(Frame) /\ toTether \in Seq(Frame)
    /\ cut \subseteq {"toHub", "toTether"}
    /\ apart \in Nat /\ answered \in Nat

\* The tether answered when it sent a PONG that still travels, and the hub last
\* heard one that had travelled for at most Delay.
AnswerInv ==
    /\ "toHub" \notin cut => \A f \in HubBound : f.kind = "Pong" => answered <= f.age
    /\ AtHub => answered <= last_seen + Delay

\* What an end still hears after the other left was sent before.
ApartInv ==
    /\ wedged => InSession /\ apart = 0
    /\ (InSession <=> AtHub) => apart = 0
    /\ AtHub => last_seen + tick <= TetherSilence + TetherTick
    /\ AtHub /\ ~InSession =>
         /\ apart <= last_seen + Delay
         /\ "toHub" \notin cut => \A f \in HubBound : f.kind = "Pong" => apart <= f.age
    /\ InSession /\ ~AtHub =>
         /\ apart + dead <= PingTimeout + Delay
         /\ "toTether" \notin cut => \A f \in TetherBound : f.kind \in Live => apart <= f.age

\* The frames of a connection begin with HELLO and WELCOME.
ConnectionInv ==
    /\ current => AtHub
    /\ phase = "hello" /\ toHub # <<>> =>
         /\ Len(toHub) = 1 /\ toHub[1].kind = "Hello" /\ toTether = <<>> /\ ~current
         /\ "toHub" \notin cut => wait + toHub[1].age >= PingTimeout
    /\ phase = "serving" => \A f \in HubBound : f.kind \in Live

\* The longest the hub goes without a PING.
PingPeriod == TetherPingInterval + TetherTick

\* A session no fault has touched: before it begins, ...
Unbegun ==
    /\ session = "none" /\ toTether = <<>>
    /\ phase # "serving" /\ (phase = "hello" <=> toHub # <<>>)

\* ... while WELCOME travels, ...
Welcomed ==
    /\ phase = "hello" /\ toHub = <<>> /\ toTether # <<>>
    /\ toTether[1].kind = "Welcome"
    /\ \A f \in TetherRest : f.kind = "Ping"
    /\ wait + Delay + toTether[1].age >= PingTimeout
    /\ lease_deadline + toTether[1].age >= granted

\* ... and when both serve it: the tether's timer was last set after the last
\* PING, or by what came before the frames that travel.
Served ==
    /\ phase = "serving"
    /\ \A f \in TetherBound : f.kind \in Live
    /\ Renewable(granted) => lease_tick < lease_deadline
    /\ toTether = <<>> => dead + last_ping >= PingTimeout
    /\ toTether # <<>> => dead + PingPeriod + toTether[1].age >= PingTimeout

\* The hub's last PONG is no older than its last PING, than a PING that travels,
\* or than the PONG to one.
Heard ==
    \/ last_seen <= last_ping
    \/ \E f \in TetherBound : f.kind = "Ping" /\ last_seen <= PingPeriod + f.age
    \/ \E f \in HubBound : f.kind = "Pong" /\ last_seen <= PingPeriod + Delay + f.age

Begun ==
    /\ AtHub /\ current /\ (Welcomed \/ Served)
    /\ last_ping + tick <= PingPeriod
    /\ Heard

Healthy == clean /\ why = "none"
HealthyInv == Healthy => cut = {} /\ active /\ ~wedged /\ (Unbegun \/ Begun)

HeartInv == Types /\ AnswerInv /\ ApartInv /\ ConnectionInv /\ HealthyInv /\ HealthySessionRefreshes
-----------------------------------------------------------------------------
(* Channels *)

\* The invariant speaks of durations.
LEMMA Durations ==
    /\ PingInterval \in Nat /\ PingTimeout \in Nat /\ RefreshFloor \in Nat
    /\ ConnectTimeout \in Nat /\ BackoffMin \in Nat /\ BackoffMax \in Nat
    /\ TetherTick \in Nat /\ TetherPingInterval \in Nat /\ TetherSilence \in Nat
    /\ Lease \in Nat /\ ShortLease \in Nat /\ Delay \in Nat /\ Delay > 0
    /\ PingPeriod \in Nat
    /\ PingPeriod + Delay < PingTimeout /\ PingPeriod + 2 * Delay <= TetherSilence
    /\ 2 * Delay < PingTimeout
  BY DurationsAssumption, MarginAssumption DEF PingPeriod

\* A frame just written has not travelled.
LEMMA New ==
    ASSUME NEW k \in Kinds
    PROVE  /\ [kind |-> k, age |-> 0] \in Frame
           /\ [kind |-> k, age |-> 0].kind = k /\ [kind |-> k, age |-> 0].age = 0
  BY Durations DEF Frame

\* A frame that is written goes last and is new.
LEMMA Puts ==
    ASSUME NEW ch \in Seq(Frame), NEW k \in Kinds
    PROVE  /\ Put(ch, k) \in Seq(Frame) /\ Put(ch, k) # <<>> /\ Len(Put(ch, k)) = Len(ch) + 1
           /\ On(Put(ch, k)) = On(ch) \cup {[kind |-> k, age |-> 0]}
           /\ ch = <<>> => Put(ch, k)[1] = [kind |-> k, age |-> 0] /\ Behind(Put(ch, k)) = {}
           /\ ch # <<>> => /\ Put(ch, k)[1] = ch[1]
                           /\ Behind(Put(ch, k)) = Behind(ch) \cup {[kind |-> k, age |-> 0]}
  <1> DEFINE new == [kind |-> k, age |-> 0]
  <1>1. new \in Frame
    BY Durations DEF Frame
  <1> HIDE DEF new
  <1>2. Put(ch, k) = Append(ch, new)
    BY DEF Put, new
  <1> DEFINE q == Append(ch, new)
             n == Len(ch)
  <1>3. q \in Seq(Frame) /\ q # <<>> /\ Len(q) = n + 1 /\ n \in Nat /\ q[n + 1] = new
    BY <1>1
  <1>4. /\ DOMAIN ch = 1..n /\ DOMAIN q = 1..(n + 1)
        /\ \A i \in 1..n : q[i] = ch[i]
    BY <1>1
  <1> HIDE DEF q, n
  <1>5. {q[i] : i \in 1..(n + 1)} = {ch[i] : i \in 1..n} \cup {new}
    <2>1. 1..(n + 1) = 1..n \cup {n + 1}
      BY <1>3
    <2> QED
      BY <2>1, <1>3, <1>4
  <1>6. ch = <<>> => q[1] = new /\ Behind(q) = {}
    BY <1>3, <1>4 DEF n, Behind
  <1>7. ch # <<>> => 1 \in 1..n
    BY <1>3 DEF n
  <1>8. ch # <<>> => {q[i] : i \in 1..(n + 1) \ {1}} = {ch[i] : i \in 1..n \ {1}} \cup {new}
    <2> SUFFICES ASSUME 1 \in 1..n
                 PROVE  {q[i] : i \in 1..(n + 1) \ {1}} = {ch[i] : i \in 1..n \ {1}} \cup {new}
      BY <1>7
    <2>1. 1..(n + 1) \ {1} = (1..n \ {1}) \cup {n + 1}
      BY <1>3
    <2> QED
      BY <2>1, <1>3, <1>4
  <1>9. On(q) = On(ch) \cup {new} /\ (ch # <<>> => Behind(q) = Behind(ch) \cup {new})
    BY <1>4, <1>5, <1>8 DEF On, Behind
  <1>10. Put(ch, k) = q
    BY <1>2 DEF q
  <1> QED
    BY <1>3, <1>4, <1>6, <1>7, <1>9, <1>10 DEF new, n

\* The first frame is read, the others stay.
LEMMA Reads ==
    ASSUME NEW ch \in Seq(Frame), ch # <<>>
    PROVE  /\ Head(ch) = ch[1] /\ ch[1] \in Frame /\ On(ch) = {ch[1]} \cup Behind(ch)
           /\ Tail(ch) \in Seq(Frame) /\ On(Tail(ch)) = Behind(ch)
           /\ Tail(ch) # <<>> => Tail(ch)[1] \in Behind(ch)
           /\ Len(ch) = 1 => Tail(ch) = <<>>
  <1> DEFINE n == Len(ch)
             t == Tail(ch)
  <1>1. /\ n \in Nat /\ 1 \in 1..n /\ DOMAIN ch = 1..n /\ t \in Seq(Frame) /\ Len(t) = n - 1
        /\ DOMAIN t = 1..(n - 1) /\ \A i \in 1..(n - 1) : t[i] = ch[i + 1]
    OBVIOUS
  <1>2. Head(ch) = ch[1] /\ ch[1] \in Frame
    BY <1>1
  <1> HIDE DEF n, t
  <1>3. On(ch) = {ch[1]} \cup Behind(ch)
    BY <1>1 DEF On, Behind
  <1>4. {t[i] : i \in 1..(n - 1)} = {ch[i] : i \in 1..n \ {1}}
    <2>1. ASSUME NEW i \in 1..(n - 1) PROVE i + 1 \in 1..n \ {1} /\ t[i] = ch[i + 1]
      BY <1>1
    <2>2. ASSUME NEW i \in 1..n \ {1} PROVE i - 1 \in 1..(n - 1) /\ t[i - 1] = ch[i]
      BY <1>1
    <2> QED
      BY <2>1, <2>2
  <1>5. On(t) = Behind(ch)
    BY <1>1, <1>4 DEF On, Behind
  <1>6. t # <<>> => t[1] \in On(t)
    BY <1>1 DEF On
  <1>7. n = 1 => t = <<>>
    BY <1>1
  <1> QED
    BY <1>1, <1>2, <1>3, <1>5, <1>6, <1>7 DEF n, t

\* Frames grow older together, up to the longest they travel.
Older(f) == [f EXCEPT !.age = More(@, Delay)]

\* A frame ages by one at most, and by one while it is on time.
LEMMA Ages ==
    ASSUME NEW f \in Frame
    PROVE  /\ Older(f) \in Frame /\ Older(f).kind = f.kind
           /\ Older(f).age <= f.age + 1 /\ f.age <= Older(f).age
           /\ f.age < Delay => Older(f).age = f.age + 1
  BY Durations DEF Older, Frame, More, Lesser

\* Time ages every frame of a channel and moves none.
LEMMA Grows ==
    ASSUME NEW ch \in Seq(Frame)
    PROVE  /\ Aged(ch) \in Seq(Frame) /\ Len(Aged(ch)) = Len(ch) /\ (Aged(ch) = <<>> <=> ch = <<>>)
           /\ On(Aged(ch)) = {Older(f) : f \in On(ch)}
           /\ Behind(Aged(ch)) = {Older(f) : f \in Behind(ch)}
           /\ ch # <<>> => Aged(ch)[1] = Older(ch[1])
  <1>1. Aged(ch) = [i \in DOMAIN ch |-> Older(ch[i])]
    BY DEF Aged, Older
  <1>2. DOMAIN ch = 1..Len(ch) /\ Len(ch) \in Nat /\ \A i \in DOMAIN ch : Older(ch[i]) \in Frame
    BY Ages
  <1>3. Aged(ch) \in Seq(Frame) /\ Len(Aged(ch)) = Len(ch) /\ DOMAIN Aged(ch) = DOMAIN ch
    BY <1>1, <1>2
  <1>4. \A i \in DOMAIN ch : Aged(ch)[i] = Older(ch[i])
    BY <1>1
  <1>5. ch # <<>> => 1 \in DOMAIN ch
    BY <1>2
  <1>6. On(Aged(ch)) = {Older(f) : f \in On(ch)} /\ Behind(Aged(ch)) = {Older(f) : f \in Behind(ch)}
    BY <1>3, <1>4 DEF On, Behind
  <1>7. Aged(ch) = <<>> <=> ch = <<>>
    BY <1>2, <1>3
  <1> QED
    BY <1>3, <1>4, <1>5, <1>6, <1>7
\* The frames of the two channels.
LEMMA Bound ==
    ASSUME Types
    PROVE  /\ HubBound = On(toHub) /\ TetherBound = On(toTether) /\ TetherRest = Behind(toTether)
           /\ \A f \in HubBound \cup TetherBound : f \in Frame /\ f.age \in 0..Delay
           /\ TetherRest \subseteq TetherBound
           /\ toHub # <<>> => toHub[1] \in HubBound
           /\ toTether # <<>> => toTether[1] \in TetherBound
  <1>1. HubBound = On(toHub) /\ TetherBound = On(toTether) /\ TetherRest = Behind(toTether)
    BY DEF HubBound, TetherBound, TetherRest, On, Behind
  <1>2. toHub \in Seq(Frame) /\ toTether \in Seq(Frame)
    BY DEF Types
  <1>3. \A f \in HubBound \cup TetherBound : f \in Frame
    BY <1>2 DEF HubBound, TetherBound
  <1>4. \A f \in Frame : f.age \in 0..Delay
    BY DEF Frame
  <1>5. TetherRest \subseteq TetherBound
    BY DEF TetherRest, TetherBound
  <1>6. (toHub # <<>> => toHub[1] \in HubBound) /\ (toTether # <<>> => toTether[1] \in TetherBound)
    BY <1>2 DEF HubBound, TetherBound
  <1> QED
    BY <1>1, <1>3, <1>4, <1>5, <1>6

\* What a write, and what a read, does to the frames of a channel.
LEMMA HubPut ==
    ASSUME Types, NEW k \in Kinds, toHub' = Put(toHub, k)
    PROVE  /\ toHub' \in Seq(Frame) /\ toHub' # <<>>
           /\ HubBound' = HubBound \cup {[kind |-> k, age |-> 0]}
  <1>1. toHub \in Seq(Frame)
    BY DEF Types
  <1>2. HubBound = On(toHub) /\ HubBound' = On(toHub')
    BY DEF HubBound, On
  <1> QED
    BY <1>1, <1>2, Puts

\* What the hub writes goes behind what already travels to the tether.
LEMMA TetherPut ==
    ASSUME Types, NEW k \in Kinds, toTether' = Put(toTether, k)
    PROVE  /\ toTether' \in Seq(Frame) /\ toTether' # <<>>
           /\ TetherBound' = TetherBound \cup {[kind |-> k, age |-> 0]}
           /\ toTether = <<>> => toTether'[1] = [kind |-> k, age |-> 0] /\ TetherRest' = {}
           /\ toTether # <<>> => /\ toTether'[1] = toTether[1]
                                 /\ TetherRest' = TetherRest \cup {[kind |-> k, age |-> 0]}
  <1>1. toTether \in Seq(Frame)
    BY DEF Types
  <1>2. /\ TetherBound = On(toTether) /\ TetherBound' = On(toTether')
        /\ TetherRest = Behind(toTether) /\ TetherRest' = Behind(toTether')
    BY DEF TetherBound, TetherRest, On, Behind
  <1> QED
    BY <1>1, <1>2, Puts

\* The hub reads the first of the frames, and the others remain.
LEMMA HubRead ==
    ASSUME Types, toHub # <<>>, toHub' = Tail(toHub)
    PROVE  /\ toHub' \in Seq(Frame) /\ Head(toHub) = toHub[1] /\ toHub[1] \in Frame
           /\ HubBound = {toHub[1]} \cup HubBound'
           /\ Len(toHub) = 1 => toHub' = <<>>
  <1>1. toHub \in Seq(Frame)
    BY DEF Types
  <1>2. HubBound = On(toHub) /\ HubBound' = On(toHub')
    BY DEF HubBound, On
  <1> QED
    BY <1>1, <1>2, Reads

\* The tether reads the first of the frames, and the others remain.
LEMMA TetherRead ==
    ASSUME Types, toTether # <<>>, toTether' = Tail(toTether)
    PROVE  /\ toTether' \in Seq(Frame) /\ Head(toTether) = toTether[1] /\ toTether[1] \in Frame
           /\ TetherBound = {toTether[1]} \cup TetherRest /\ TetherBound' = TetherRest
           /\ toTether' # <<>> => toTether'[1] \in TetherRest
  <1>1. toTether \in Seq(Frame)
    BY DEF Types
  <1>2. /\ TetherBound = On(toTether) /\ TetherBound' = On(toTether')
        /\ TetherRest = Behind(toTether)
    BY DEF TetherBound, TetherRest, On, Behind
  <1> QED
    BY <1>1, <1>2, Reads

\* A lease that can be renewed is renewed in time, WELCOME's journey included.
LEMMA Renews ==
    ASSUME NEW lease \in Nat
    PROVE  /\ RefreshAfter(lease) \in Nat
           /\ Renewable(lease) => RefreshAfter(lease) + Delay < lease
  <1>1. Delay \in Nat /\ RefreshFloor \in Nat
    BY Durations
  <1>2. (lease * 3) \div 4 \in Nat /\ 4 * ((lease * 3) \div 4) <= lease * 3
    OBVIOUS
  <1> QED
    BY <1>1, <1>2 DEF RefreshAfter, Greater, Renewable

\* Nothing is connected and nothing travels.
LEMMA HeartInit == Init => HeartInv
  <1> SUFFICES ASSUME Init PROVE HeartInv
    OBVIOUS
  <1>1. Types
    BY Durations DEF Init, Types
  <1>2. HubBound = {} /\ TetherBound = {}
    BY DEF Init, HubBound, TetherBound
  <1>3. AnswerInv /\ ApartInv /\ ConnectionInv
    BY <1>2 DEF Init, AnswerInv, ApartInv, ConnectionInv, AtHub, InSession
  <1>4. HealthyInv /\ HealthySessionRefreshes
    BY DEF Init, HealthyInv, HealthySessionRefreshes, Unbegun
  <1> QED
    BY <1>1, <1>3, <1>4 DEF HeartInv
-----------------------------------------------------------------------------
(* The steps of the tether *)

\* A session that ends at the tether.
LEMMA TetherLeavesKeeps ==
    ASSUME HeartInv, Connected, ~wedged, NEW reason, NEW last \in {"none", "GoAway"},
           TetherLeaves(reason, last), Healthy => reason = "refresh"
    PROVE  HeartInv'
  <1> USE DEF HeartInv
  <1>1. /\ phase' = "sleeping" /\ wait' = backoff /\ dead' = 0 /\ ping_tick' = 0 /\ lease_tick' = 0
        /\ backoff' \in Nat
        /\ toTether' = <<>> /\ apart' = 0 /\ UNCHANGED <<hubVars, cut, envVars, clean, answered>>
        /\ why' = IF Healthy THEN reason ELSE why
    BY Durations DEF TetherLeaves, Sleeps, Ended, Healthy, Lesser, Types
  <1>2. /\ toHub' \in Seq(Frame)
        /\ \A f \in HubBound' : f \in Frame /\ (f.kind = "Pong" => f \in HubBound)
    <2>1. CASE toHub' = Put(toHub, "Close")
      <3>1. "Close" \in Kinds
        BY DEF Kinds
      <3>2. toHub' \in Seq(Frame) /\ HubBound' = HubBound \cup {[kind |-> "Close", age |-> 0]}
        BY <2>1, <3>1, HubPut
      <3> QED
        BY <3>2, <3>1, Bound, New
    <2>2. CASE last # "none" /\ toHub' = Put(Put(toHub, last), "Close")
      <3>1. "Close" \in Kinds /\ last \in Kinds /\ last # "Pong" /\ toHub \in Seq(Frame)
        BY <2>2 DEF Kinds, Types
      <3>2. Put(toHub, last) \in Seq(Frame) /\ On(Put(toHub, last)) = On(toHub) \cup {[kind |-> last, age |-> 0]}
        BY <3>1, Puts
      <3>3. /\ Put(Put(toHub, last), "Close") \in Seq(Frame)
            /\ On(Put(Put(toHub, last), "Close")) = On(Put(toHub, last)) \cup {[kind |-> "Close", age |-> 0]}
        BY <3>1, <3>2, Puts
      <3>4. HubBound = On(toHub) /\ HubBound' = On(toHub')
        BY DEF HubBound, On
      <3>5. HubBound' = HubBound \cup {[kind |-> last, age |-> 0], [kind |-> "Close", age |-> 0]}
        BY <2>2, <3>2, <3>3, <3>4
      <3>6. "Close" # "Pong"
        OBVIOUS
      <3>7. \A f \in HubBound' : f \in HubBound \/ (f \in Frame /\ f.kind # "Pong")
        BY <3>1, <3>5, <3>6, New
      <3> QED
        BY <2>2, <3>3, <3>7, Bound
    <2> QED
      BY <2>1, <2>2 DEF TetherLeaves
  <1>3. Types'
    BY <1>1, <1>2, Durations DEF Types, hubVars
  <1>4. AnswerInv'
    BY <1>1, <1>2 DEF AnswerInv, AtHub, hubVars
  <1>5. ApartInv'
    <2>1. ~wedged' /\ ~InSession' /\ (AtHub' <=> AtHub)
      BY <1>1 DEF InSession, AtHub, hubVars, envVars
    <2>2. \A f \in HubBound' : 0 <= f.age
      BY <1>2, Durations DEF Frame
    <2>3. last_seen' = last_seen /\ tick' = tick
      BY <1>1 DEF hubVars
    <2>4. AtHub' => last_seen' + tick' <= TetherSilence + TetherTick
      BY <2>1, <2>3 DEF ApartInv
    <2>5. apart' <= last_seen' + Delay
      BY <1>1, <2>3, Durations DEF Types
    <2> QED
      BY <1>1, <2>1, <2>2, <2>4, <2>5 DEF ApartInv
  <1>6. ConnectionInv'
    BY <1>1 DEF ConnectionInv, AtHub, hubVars
  <1>7. ~Healthy' /\ HealthySessionRefreshes'
    BY <1>1 DEF Healthy, HealthySessionRefreshes, hubVars
  <1> QED
    BY <1>3, <1>4, <1>5, <1>6, <1>7 DEF HealthyInv

\* The tether without a connection.
LEMMA IdleKeeps ==
    ASSUME HeartInv, phase \in {"sleeping", "dialing"}, phase' \in {"sleeping", "dialing"},
           wait' \in Nat, backoff' \in Nat, ping_tick' \in Nat, dead' \in 0..PingTimeout,
           lease_tick' \in Nat, UNCHANGED <<hubVars, netVars, envVars, ghostVars>>
    PROVE  HeartInv'
  <1> USE DEF HeartInv
  <1>1. HubBound' = HubBound /\ TetherBound' = TetherBound
    BY DEF HubBound, TetherBound, netVars
  <1>2. Types'
    BY DEF Types, hubVars, netVars, ghostVars
  <1>3. AnswerInv'
    BY <1>1 DEF AnswerInv, AtHub, hubVars, netVars, ghostVars
  <1>4. ~InSession /\ ~InSession' /\ (AtHub' <=> AtHub)
    BY DEF InSession, AtHub, hubVars
  <1>5. ApartInv'
    BY <1>1, <1>4 DEF ApartInv, hubVars, netVars, envVars, ghostVars
  <1>6. ConnectionInv'
    BY <1>4 DEF ConnectionInv, hubVars
  <1>7. Healthy' <=> Healthy
    BY DEF Healthy, ghostVars
  <1>8. HealthyInv'
    <2> SUFFICES ASSUME Healthy PROVE HealthyInv'
      BY <1>7 DEF HealthyInv
    <2>1. cut' = {} /\ active' /\ ~wedged' /\ Unbegun
      BY DEF HealthyInv, Begun, Welcomed, Served, netVars, envVars
    <2>2. Unbegun'
      BY <2>1 DEF Unbegun, hubVars, netVars
    <2> QED
      BY <2>1, <2>2 DEF HealthyInv
  <1>9. HealthySessionRefreshes'
    BY DEF HealthySessionRefreshes, ghostVars, hubVars
  <1> QED
    BY <1>2, <1>3, <1>5, <1>6, <1>8, <1>9

\* A new connection carries nothing but HELLO.
LEMMA DialSucceedsKeeps ==
    ASSUME HeartInv, DialSucceeds
    PROVE  HeartInv'
  <1> USE DEF HeartInv
  <1>1. "Hello" \in Kinds /\ <<>> \in Seq(Frame) /\ "Hello" # "Pong"
    BY DEF Kinds
  <1>2. On(<<>>) = {}
    BY DEF On
  <1>3. /\ toHub' \in Seq(Frame) /\ toHub' # <<>> /\ Len(toHub') = 1
        /\ toHub'[1] = [kind |-> "Hello", age |-> 0]
        /\ HubBound' = {[kind |-> "Hello", age |-> 0]}
    <2>1. toHub' = Put(<<>>, "Hello") /\ HubBound' = On(toHub')
      BY DEF DialSucceeds, HubBound, On
    <2>2. Len(<<>>) + 1 = 1
      OBVIOUS
    <2>3. /\ Put(<<>>, "Hello") \in Seq(Frame) /\ Put(<<>>, "Hello") # <<>>
          /\ Len(Put(<<>>, "Hello")) = Len(<<>>) + 1
          /\ On(Put(<<>>, "Hello")) = On(<<>>) \cup {[kind |-> "Hello", age |-> 0]}
          /\ Put(<<>>, "Hello")[1] = [kind |-> "Hello", age |-> 0]
      BY <1>1, Puts
    <2> QED
      BY <1>2, <2>1, <2>2, <2>3
  <1>4. toHub'[1].kind = "Hello" /\ toHub'[1].age = 0 /\ \A f \in HubBound' : f.kind # "Pong"
    BY <1>1, <1>3, New
  <1>5. /\ phase = "dialing" /\ phase' = "hello" /\ wait' = PingTimeout /\ toTether' = <<>>
        /\ cut' = {} /\ ~current'
        /\ UNCHANGED <<backoff, ping_tick, dead, lease_tick, session, last_seen, tick, last_ping,
                       lease_deadline, granted, active, wedged, ghostVars>>
    BY DEF DialSucceeds, envVars
  <1>6. Types'
    BY <1>3, <1>5, Durations DEF Types, ghostVars
  <1>7. ~InSession /\ ~InSession' /\ (AtHub' <=> AtHub)
    BY <1>5 DEF InSession, AtHub
  <1>8. AnswerInv'
    BY <1>4, <1>5, <1>7 DEF AnswerInv, ghostVars
  <1>9. ApartInv'
    BY <1>4, <1>5, <1>7 DEF ApartInv, ghostVars
  <1>10. ConnectionInv'
    <2>1. wait' + toHub'[1].age >= PingTimeout
      BY <1>4, <1>5, Durations
    <2> QED
      BY <1>3, <1>4, <1>5, <2>1 DEF ConnectionInv
  <1>11. HealthyInv'
    <2> SUFFICES ASSUME Healthy PROVE HealthyInv'
      BY <1>5 DEF HealthyInv, Healthy, ghostVars
    <2>1. active' /\ ~wedged' /\ session = "none"
      BY <1>5 DEF HealthyInv, Begun, Welcomed, Served, Unbegun
    <2>2. Unbegun'
      BY <1>3, <1>5, <2>1 DEF Unbegun
    <2> QED
      BY <1>5, <2>1, <2>2 DEF HealthyInv
  <1>12. HealthySessionRefreshes'
    BY <1>5 DEF HealthySessionRefreshes, ghostVars
  <1> QED
    BY <1>6, <1>8, <1>9, <1>10, <1>11, <1>12

\* No HELLO and no WELCOME of a healthy connection is that late.
LEMMA HelloTimesOutKeeps ==
    ASSUME HeartInv, HelloTimesOut
    PROVE  HeartInv'
  <1>1. TetherLeaves("dead", "none") /\ phase = "hello" /\ wait = 0
    BY DEF HelloTimesOut
  <1>2. ~wedged /\ Connected
    BY <1>1 DEF HeartInv, ApartInv, InSession, Connected
  <1>3. ~Healthy
    <2> SUFFICES ASSUME Healthy PROVE FALSE
      OBVIOUS
    <2>1. cut = {} /\ (Unbegun \/ Begun)
      BY DEF HeartInv, HealthyInv
    <2>2. CASE Unbegun
      <3>1. toHub # <<>> /\ "toHub" \notin cut
        BY <1>1, <2>1, <2>2 DEF Unbegun
      <3>2. wait + toHub[1].age >= PingTimeout
        BY <1>1, <3>1 DEF HeartInv, ConnectionInv
      <3>3. toHub[1].age \in 0..Delay
        BY <3>1, Bound DEF HeartInv
      <3> QED
        BY <1>1, <3>2, <3>3, Durations
    <2>3. CASE Begun
      <3>1. toTether # <<>> /\ wait + Delay + toTether[1].age >= PingTimeout
        BY <1>1, <2>3 DEF Begun, Welcomed, Served
      <3>2. toTether[1].age \in 0..Delay
        BY <3>1, Bound DEF HeartInv
      <3> QED
        BY <1>1, <3>1, <3>2, Durations
    <2> QED
      BY <2>1, <2>2, <2>3
  <1> QED
    BY <1>1, <1>2, <1>3, TetherLeavesKeeps

\* WELCOME leaves the lease longer than what is left before its refresh.
LEMMA HandshakeKeeps ==
    ASSUME HeartInv, TetherHandshake
    PROVE  HeartInv'
  <1> USE DEF HeartInv
  <1>1. phase = "hello" /\ toTether # <<>> /\ ~wedged /\ Connected /\ toHub = <<>>
    BY DEF TetherHandshake, ApartInv, InSession, Connected, ConnectionInv
  <1>2. CASE Head(toTether).kind # "Welcome" /\ TetherLeaves("closed", "none")
    <2>1. ~Healthy
      <3> SUFFICES ASSUME Healthy PROVE FALSE
        OBVIOUS
      <3>1. Begun /\ Welcomed
        BY <1>1 DEF HealthyInv, Unbegun, Begun, Served
      <3>2. Head(toTether) = toTether[1]
        BY <1>1, Reads DEF Types
      <3> QED
        BY <1>2, <3>1, <3>2 DEF Welcomed
    <2> QED
      BY <1>1, <1>2, <2>1, TetherLeavesKeeps
  <1>3. CASE Head(toTether).kind = "Welcome" /\ phase' = "serving"
    <2>1. /\ phase' = "serving" /\ wait' = 0 /\ lease_tick' = RefreshAfter(granted)
          /\ ping_tick' = PingInterval /\ dead' = PingTimeout /\ toTether' = Tail(toTether)
          /\ apart' = 0 /\ UNCHANGED <<backoff, hubVars, toHub, cut, envVars, clean, why, answered>>
      BY <1>3 DEF TetherHandshake, TetherLeaves, Sleeps
    <2>2. /\ toTether' \in Seq(Frame) /\ TetherBound' = TetherRest
          /\ TetherBound = {toTether[1]} \cup TetherRest
          /\ (toTether' # <<>> => toTether'[1] \in TetherRest)
      BY <1>1, <2>1, TetherRead
    <2>3. HubBound' = HubBound /\ HubBound = {}
      BY <1>1, <2>1 DEF HubBound
    <2>4. \A f \in TetherBound' : f.age \in 0..Delay
      BY <2>2, Bound
    <2>5. Types'
      BY <2>1, <2>2, Renews, Durations DEF Types, hubVars
    <2>6. AnswerInv'
      BY <2>1, <2>3 DEF AnswerInv, AtHub, hubVars
    <2>7. InSession' /\ ~wedged' /\ (AtHub' <=> AtHub) /\ last_seen' = last_seen /\ tick' = tick
      BY <1>1, <2>1 DEF InSession, AtHub, hubVars, envVars
    <2>8. ApartInv'
      <3>1. apart' + dead' <= PingTimeout + Delay /\ \A f \in TetherBound' : apart' <= f.age
        BY <2>1, <2>4, Durations
      <3>2. AtHub' => last_seen' + tick' <= TetherSilence + TetherTick
        BY <2>7 DEF ApartInv
      <3> QED
        BY <2>1, <2>7, <3>1, <3>2 DEF ApartInv
    <2>9. ConnectionInv'
      BY <2>1, <2>3, <2>7 DEF ConnectionInv, hubVars
    <2>10. HealthyInv'
      <3> SUFFICES ASSUME Healthy PROVE HealthyInv'
        BY <2>1 DEF HealthyInv, Healthy
      <3>1. Begun /\ Welcomed /\ cut = {} /\ active /\ ~wedged
        BY <1>1 DEF HealthyInv, Unbegun, Begun, Served
      <3>2. \A f \in TetherRest : f.kind = "Ping"
        BY <3>1 DEF Welcomed
      <3>3. \A f \in TetherBound' : f.kind \in Live
        BY <2>2, <3>2 DEF Live
      <3>4. Renewable(granted)' => lease_tick' < lease_deadline'
        <4>1. granted' = granted /\ lease_deadline' = lease_deadline
          BY <2>1 DEF hubVars
        <4>2. toTether[1].age \in 0..Delay /\ lease_deadline + toTether[1].age >= granted
          BY <1>1, <3>1, Bound DEF Welcomed
        <4>3. Renewable(granted) => RefreshAfter(granted) + Delay < granted /\ RefreshAfter(granted) \in Nat
          BY Renews DEF Types
        <4>4. Renewable(granted)' <=> Renewable(granted)
          BY <4>1 DEF Renewable
        <4> QED
          BY <2>1, <4>1, <4>2, <4>3, <4>4, Durations DEF Types
      <3>5. Served'
        <4>1. dead' + last_ping' >= PingTimeout /\ (toTether' # <<>> => dead' + PingPeriod + toTether'[1].age >= PingTimeout)
          <5>1. last_ping' \in Nat
            BY <2>5 DEF Types
          <5>2. toTether' # <<>> => toTether'[1].age \in 0..Delay
            BY <2>2, <2>4
          <5>3. ASSUME NEW n \in Nat PROVE PingTimeout + n >= PingTimeout
            BY Durations
          <5>4. ASSUME NEW a \in 0..Delay PROVE PingTimeout + PingPeriod + a >= PingTimeout
            BY Durations
          <5> QED
            BY <2>1, <5>1, <5>2, <5>3, <5>4
        <4> QED
          BY <2>1, <3>3, <3>4, <4>1 DEF Served
      <3>6. Heard'
        <4>1. last_seen' = last_seen /\ last_ping' = last_ping
          BY <2>1 DEF hubVars
        <4>2. \A f \in TetherBound : f.kind = "Ping" => f \in TetherBound'
          BY <2>2, <3>1 DEF Welcomed
        <4> QED
          BY <2>3, <3>1, <4>1, <4>2 DEF Begun, Heard
      <3>7. Begun'
        BY <2>1, <2>7, <3>1, <3>5, <3>6 DEF Begun, hubVars
      <3> QED
        BY <2>1, <3>1, <3>7 DEF HealthyInv, envVars
    <2>11. HealthySessionRefreshes'
      BY <2>1 DEF HealthySessionRefreshes, hubVars
    <2> QED
      BY <2>5, <2>6, <2>8, <2>9, <2>10, <2>11
  <1> QED
    BY <1>2, <1>3 DEF TetherHandshake

\* A healthy session the tether serves is one the hub serves.
LEMMA HealthyServes ==
    ASSUME HeartInv, Healthy, InSession
    PROVE  cut = {} /\ active /\ ~wedged /\ Begun /\ Served
  BY DEF HeartInv, HealthyInv, Unbegun, Begun, Welcomed, InSession

\* PINGs and pumped DATA prove nothing to the hub, and disturb nothing.
LEMMA WriteKeeps ==
    ASSUME HeartInv, InSession, NEW k \in {"Ping", "Data"}, toHub' = Put(toHub, k), ping_tick' \in Nat,
           UNCHANGED <<phase, wait, hindered, backoff, dead, lease_tick, hubVars, toTether, cut, envVars,
                       ghostVars>>
    PROVE  HeartInv'
  <1> USE DEF HeartInv
  <1>1. k \in Kinds /\ k \in Live /\ k # "Pong"
    BY DEF Kinds, Live
  <1>2. toHub' \in Seq(Frame) /\ HubBound' = HubBound \cup {[kind |-> k, age |-> 0]}
    BY <1>1, HubPut
  <1>3. /\ \A f \in HubBound' : f.kind = "Pong" => f \in HubBound
        /\ (\A f \in HubBound : f.kind \in Live) => (\A f \in HubBound' : f.kind \in Live)
    BY <1>1, <1>2, New
  <1>4. TetherBound' = TetherBound
    BY DEF TetherBound
  <1>5. Types'
    BY <1>2 DEF Types, hubVars, ghostVars
  <1>6. /\ InSession' /\ (AtHub' <=> AtHub) /\ (wedged' <=> wedged) /\ last_seen' = last_seen /\ tick' = tick
        /\ phase = "serving" /\ phase' = "serving"
    BY DEF InSession, AtHub, hubVars, envVars
  <1>7. AnswerInv'
    BY <1>3, <1>6 DEF AnswerInv, ghostVars
  <1>8. ApartInv'
    BY <1>4, <1>6 DEF ApartInv, ghostVars
  <1>9. ConnectionInv'
    BY <1>3, <1>6 DEF ConnectionInv, hubVars
  <1>10. HealthyInv'
    <2> SUFFICES ASSUME Healthy PROVE HealthyInv'
      BY DEF HealthyInv, Healthy, ghostVars
    <2>1. cut = {} /\ active /\ ~wedged /\ Begun /\ Served
      BY HealthyServes
    <2>2. Served'
      BY <2>1, <1>4, <1>6 DEF Served, Renewable, hubVars
    <2>3. Heard'
      BY <2>1, <1>2, <1>4 DEF Begun, Heard, hubVars
    <2>4. Begun'
      BY <2>1, <2>2, <2>3, <1>6 DEF Begun, hubVars
    <2> QED
      BY <2>1, <2>4 DEF HealthyInv, envVars
  <1>11. HealthySessionRefreshes'
    BY DEF HealthySessionRefreshes, ghostVars, hubVars
  <1> QED
    BY <1>5, <1>7, <1>8, <1>9, <1>10, <1>11

\* PINGs come too often for the tether's timer.
LEMMA DeadFiresKeeps ==
    ASSUME HeartInv, DeadFires
    PROVE  HeartInv'
  <1>1. TetherLeaves("dead", "none") /\ dead = 0 /\ ~wedged /\ Connected /\ InSession
    BY DEF DeadFires, LoopRuns, InSession, Connected
  <1>2. ~Healthy
    <2> SUFFICES ASSUME Healthy PROVE FALSE
      OBVIOUS
    <2>1. Begun /\ Served
      BY <1>1, HealthyServes
    <2>2. last_ping + tick <= PingPeriod /\ last_ping \in Nat /\ tick \in Nat
      BY <2>1 DEF Begun, HeartInv, Types
    <2>3. toTether # <<>> => toTether[1].age \in 0..Delay
      BY Bound DEF HeartInv
    <2> QED
      BY <1>1, <2>1, <2>2, <2>3, Durations DEF Served
  <1> QED
    BY <1>1, <1>2, TetherLeavesKeeps

\* A frame the loop reads is answered, or ends the session with a reason.
LEMMA TetherReceivesKeeps ==
    ASSUME HeartInv, TetherReceives
    PROVE  HeartInv'
  <1> USE DEF HeartInv
  <1>1. /\ InSession /\ ~wedged /\ Connected /\ toTether # <<>> /\ "toTether" \notin cut
        /\ Head(toTether) = toTether[1] /\ toTether[1] \in TetherBound
    BY Bound, Reads DEF TetherReceives, LoopRuns, InSession, Connected, Types
  <1>2. CASE toTether[1].kind \in {"Close", "GoAway", "Welcome"} /\ TetherLeaves("closed", "none")
    <2>1. ~Healthy
      BY <1>1, <1>2, HealthyServes DEF Served, Live
    <2> QED
      BY <1>1, <1>2, <2>1, TetherLeavesKeeps
  <1>3. CASE toTether[1].kind \in Live /\ Reset /\ toTether' = Tail(toTether)
    <2>1. /\ dead' = PingTimeout /\ ping_tick' = PingInterval /\ toTether' = Tail(toTether)
          /\ UNCHANGED <<phase, wait, backoff, lease_tick, hubVars, cut, envVars, clean, why, apart>>
      BY <1>1, <1>3 DEF TetherReceives, TetherLeaves, Sleeps, Reset, Live, LoopRuns, InSession
    <2>2. \/ /\ toTether[1].kind = "Ping" /\ toHub' = Put(toHub, "Pong") /\ answered' = 0
          \/ /\ toTether[1].kind # "Ping" /\ toHub' = toHub /\ answered' = answered
      <3>1. /\ toHub' = IF toTether[1].kind = "Ping" THEN Put(toHub, "Pong") ELSE toHub
            /\ answered' = IF toTether[1].kind = "Ping" THEN 0 ELSE answered
        BY <1>1, <1>3 DEF TetherReceives, TetherLeaves, Sleeps, LoopRuns, InSession, Live
      <3> QED
        BY <3>1
    <2>3. "Pong" \in Kinds /\ "Pong" \in Live
      BY DEF Kinds, Live
    <2>4. /\ toTether' \in Seq(Frame) /\ TetherBound' = TetherRest
          /\ TetherBound = {toTether[1]} \cup TetherRest
          /\ (toTether' # <<>> => toTether'[1] \in TetherRest)
      BY <1>1, <2>1, TetherRead
    <2>5. /\ toHub' \in Seq(Frame) /\ HubBound \subseteq HubBound'
          /\ toTether[1].kind = "Ping" => [kind |-> "Pong", age |-> 0] \in HubBound'
          /\ \A f \in HubBound' : f \in HubBound \/ (f \in Frame /\ f.kind = "Pong")
      <3>1. CASE toTether[1].kind = "Ping" /\ toHub' = Put(toHub, "Pong")
        BY <3>1, <2>3, HubPut, New
      <3>2. CASE toTether[1].kind # "Ping" /\ toHub' = toHub
        BY <3>2 DEF HubBound, Types
      <3> QED
        BY <2>2, <3>1, <3>2
    <2>6. Types'
      BY <2>1, <2>2, <2>4, <2>5, Durations DEF Types, hubVars
    <2>7. /\ InSession' /\ (AtHub' <=> AtHub) /\ (wedged' <=> wedged) /\ last_seen' = last_seen /\ tick' = tick
          /\ phase = "serving" /\ phase' = "serving" /\ last_ping' = last_ping
      BY <1>1, <2>1 DEF InSession, AtHub, hubVars, envVars
    <2>8. AnswerInv'
      <3>1. CASE answered' = 0
        <4>1. \A f \in HubBound' : f.age \in 0..Delay
          <5>1. \A f \in Frame : f.age \in 0..Delay
            BY DEF Frame
          <5> QED
            BY <5>1, <2>5, Bound
        <4>2. 0 <= last_seen + Delay
          BY Durations DEF Types
        <4> QED
          BY <3>1, <4>1, <4>2, <2>7, Durations DEF AnswerInv
      <3>2. CASE toHub' = toHub /\ answered' = answered
        BY <3>2, <2>1, <2>7 DEF AnswerInv, HubBound
      <3> QED
        BY <2>2, <3>1, <3>2
    <2>9. ApartInv'
      <3>1. ~AtHub => apart <= toTether[1].age /\ toTether[1].age \in 0..Delay
        BY <1>1, <1>3, Bound DEF ApartInv
      <3>2. ~AtHub => apart' + dead' <= PingTimeout + Delay
        BY <3>1, <2>1, Durations DEF Types
      <3> QED
        BY <1>1, <2>1, <2>4, <2>7, <3>2 DEF ApartInv
    <2>10. ConnectionInv'
      BY <2>1, <2>3, <2>5, <2>7 DEF ConnectionInv, hubVars
    <2>11. HealthyInv'
      <3> SUFFICES ASSUME Healthy PROVE HealthyInv'
        BY <2>1 DEF HealthyInv, Healthy
      <3>1. cut = {} /\ active /\ ~wedged /\ Begun /\ Served
        BY <1>1, HealthyServes
      <3>2. Served'
        <4>1. toTether' # <<>> => toTether'[1].age \in 0..Delay
          BY <2>4, Bound
        <4>2. ASSUME NEW n \in Nat PROVE PingTimeout + n >= PingTimeout
          BY Durations
        <4>3. ASSUME NEW a \in 0..Delay PROVE PingTimeout + PingPeriod + a >= PingTimeout
          BY Durations
        <4>4. last_ping' \in Nat
          BY <2>6 DEF Types
        <4>5. Renewable(granted)' => lease_tick' < lease_deadline'
          BY <2>1, <3>1 DEF Served, Renewable, hubVars
        <4>6. \A f \in TetherBound' : f.kind \in Live
          BY <2>4, <3>1 DEF Served
        <4> QED
          BY <2>1, <2>7, <4>1, <4>2, <4>3, <4>4, <4>5, <4>6 DEF Served
      <3>3. Heard'
        <4>1. CASE last_seen <= last_ping
          BY <4>1, <2>7 DEF Heard
        <4>2. ASSUME NEW f \in TetherBound, f.kind = "Ping", last_seen <= PingPeriod + f.age PROVE Heard'
          <5>1. CASE f \in TetherBound'
            BY <5>1, <4>2, <2>7 DEF Heard
          <5>2. CASE f = toTether[1]
            <6>1. f.age \in 0..Delay
              BY Bound
            <6>2. last_seen <= PingPeriod + Delay + 0
              BY <4>2, <6>1, Durations DEF Types
            <6> DEFINE p == [kind |-> "Pong", age |-> 0]
            <6>3. p \in HubBound' /\ p.kind = "Pong" /\ p.age = 0
              BY <5>2, <4>2, <2>5
            <6> HIDE DEF p
            <6> QED
              BY <6>2, <6>3, <2>7 DEF Heard
          <5> QED
            BY <5>1, <5>2, <2>4
        <4>3. ASSUME NEW f \in HubBound, f.kind = "Pong", last_seen <= PingPeriod + Delay + f.age PROVE Heard'
          BY <4>3, <2>5, <2>7 DEF Heard
        <4> QED
          BY <3>1, <4>1, <4>2, <4>3 DEF Begun, Heard
      <3>4. Begun'
        BY <3>1, <3>2, <3>3, <2>1, <2>7 DEF Begun, hubVars
      <3> QED
        BY <3>1, <3>4, <2>1 DEF HealthyInv, envVars
    <2>12. HealthySessionRefreshes'
      BY <2>1 DEF HealthySessionRefreshes, hubVars
    <2> QED
      BY <2>6, <2>8, <2>9, <2>10, <2>11, <2>12
  <1> QED
    BY <1>1, <1>2, <1>3 DEF TetherReceives, Live

\* Every step of the tether keeps the invariant.
LEMMA TetherKeeps ==
    ASSUME HeartInv, Tether
    PROVE  HeartInv'
  <1>1. CASE Dials
    BY <1>1, IdleKeeps, Durations DEF Dials, HeartInv, Types
  <1>2. CASE DialFails
    BY <1>2, IdleKeeps, Durations DEF DialFails, Sleeps, Lesser, HeartInv, Types
  <1>3. CASE LeaseTick
    BY <1>3, TetherLeavesKeeps DEF LeaseTick, LoopRuns, InSession, Connected
  <1>4. CASE PingTick
    BY <1>4, WriteKeeps, Durations DEF PingTick, LoopRuns
  <1>5. CASE PumpWrites
    <2>1. ping_tick' \in Nat
      BY <1>5 DEF PumpWrites, tetherVars, HeartInv, Types
    <2> QED
      BY <1>5, <2>1, WriteKeeps DEF PumpWrites, tetherVars
  <1> QED
    BY <1>1, <1>2, <1>3, <1>4, <1>5, DialSucceedsKeeps, HelloTimesOutKeeps, HandshakeKeeps,
       DeadFiresKeeps, TetherReceivesKeeps DEF Tether
-----------------------------------------------------------------------------
(* The steps of the hub *)

\* A session that ends at the hub.
LEMMA HubLeavesKeeps ==
    ASSUME HeartInv, AtHub, NEW reason, HubLeaves(reason),
           toHub' = toHub \/ (toHub # <<>> /\ toHub' = Tail(toHub)),
           Healthy => reason = "expired" /\ ~Renewable(granted)
    PROVE  HeartInv'
  <1> USE DEF HeartInv
  <1>1. /\ session' = "none" /\ ~current' /\ last_seen' = 0 /\ tick' = 0 /\ last_ping' = 0
        /\ lease_deadline' = 0 /\ apart' = 0
        /\ toTether' = IF current /\ Connected THEN Put(toTether, "Close") ELSE toTether
        /\ UNCHANGED <<tetherVars, granted, cut, envVars, clean, answered>>
        /\ why' = IF Healthy THEN reason ELSE why
    BY DEF HubLeaves, ToTether, Ended, Healthy
  <1>2. toHub' \in Seq(Frame) /\ HubBound' \subseteq HubBound
    <2>1. CASE toHub' = toHub
      BY <2>1 DEF HubBound, Types
    <2>2. CASE toHub # <<>> /\ toHub' = Tail(toHub)
      BY <2>2, HubRead
    <2> QED
      BY <2>1, <2>2
  <1>3. "Close" \in Kinds
    BY DEF Kinds
  <1>4. toTether' \in Seq(Frame)
    BY <1>1, <1>3, TetherPut DEF Types
  <1>5. Types'
    BY <1>1, <1>2, <1>4 DEF Types, tetherVars
  <1>6. ~AtHub' /\ (InSession' <=> InSession) /\ (wedged' <=> wedged)
    BY <1>1 DEF AtHub, InSession, tetherVars, envVars
  <1>7. AnswerInv'
    BY <1>1, <1>2, <1>6 DEF AnswerInv
  <1>8. ApartInv'
    <2>1. \A f \in TetherBound' : 0 <= f.age
      <3>1. \A f \in Frame : 0 <= f.age
        BY Durations DEF Frame
      <3> QED
        BY <1>4, <3>1 DEF TetherBound
    <2>2. dead' <= PingTimeout + Delay /\ dead' \in Nat
      BY <1>1, Durations DEF Types, tetherVars
    <2>3. wedged' => InSession'
      BY <1>6 DEF ApartInv
    <2> QED
      BY <1>1, <1>6, <2>1, <2>2, <2>3 DEF ApartInv
  <1>9. ConnectionInv'
    <2>1. ASSUME phase' = "hello", toHub' # <<>> PROVE toHub' = toHub /\ toTether' = toTether /\ ~current
      <3>1. toHub # <<>> /\ phase = "hello"
        BY <1>1, <2>1 DEF tetherVars
      <3>2. Len(toHub) = 1 /\ ~current
        BY <3>1 DEF ConnectionInv
      <3> QED
        BY <1>1, <2>1, <3>1, <3>2, HubRead
    <2> QED
      BY <1>1, <1>2, <2>1 DEF ConnectionInv, tetherVars
  <1>10. ~Healthy' /\ HealthySessionRefreshes'
    BY <1>1 DEF Healthy, HealthySessionRefreshes, Renewable
  <1> QED
    BY <1>5, <1>7, <1>8, <1>9, <1>10 DEF HealthyInv

\* A HELLO comes from a tether that is not in a session.
LEMMA HelloComes ==
    ASSUME HeartInv, toHub # <<>>, Head(toHub).kind = "Hello", toHub' = Tail(toHub)
    PROVE  /\ ~InSession /\ ~wedged /\ toHub' \in Seq(Frame) /\ HubBound' \subseteq HubBound
           /\ phase = "hello" =>
                /\ toHub' = <<>> /\ toTether = <<>> /\ ~current
                /\ "toHub" \notin cut => wait + Delay >= PingTimeout
  <1> USE DEF HeartInv
  <1>1. /\ toHub' \in Seq(Frame) /\ HubBound' \subseteq HubBound /\ toHub[1] \in HubBound
        /\ toHub[1].kind = "Hello" /\ (Len(toHub) = 1 => toHub' = <<>>)
    BY HubRead, Bound
  <1>2. ~InSession /\ ~wedged
    BY <1>1 DEF InSession, ConnectionInv, ApartInv, Live
  <1>3. phase = "hello" /\ "toHub" \notin cut => wait + Delay >= PingTimeout
    <2>1. toHub[1].age \in 0..Delay
      BY <1>1, Bound
    <2> QED
      BY <2>1, Durations DEF ConnectionInv, Types
  <1> QED
    BY <1>1, <1>2, <1>3 DEF ConnectionInv

\* A greeting starts a session both ends know the age of.
LEMMA GreetsKeeps ==
    ASSUME HeartInv, NEW lease \in {ShortLease, Lease}, Greets(lease)
    PROVE  HeartInv'
  <1> USE DEF HeartInv
  <1>1. /\ toHub # <<>> /\ "toHub" \notin cut /\ Head(toHub).kind = "Hello" /\ toHub' = Tail(toHub)
        /\ toTether' = IF Connected THEN Put(toTether, "Welcome") ELSE toTether
        /\ session' = "serving" /\ current' /\ last_seen' = 0 /\ tick' = TetherTick
        /\ last_ping' = TetherPingInterval /\ lease_deadline' = lease /\ granted' = lease
        /\ why' = "none" /\ apart' = 0 /\ answered' = 0 /\ active
        /\ UNCHANGED <<tetherVars, cut, active, wedged>>
    BY DEF Greets
  <1>2. clean' => cut = {} /\ Connected
    BY DEF Greets
  <1>3. /\ ~InSession /\ ~wedged /\ toHub' \in Seq(Frame)
        /\ phase = "hello" =>
             /\ toHub' = <<>> /\ toTether = <<>> /\ wait + Delay >= PingTimeout
    BY <1>1, HelloComes
  <1>4. AtHub' /\ ~InSession' /\ ~wedged' /\ lease \in Nat
    BY <1>1, <1>3, Durations DEF AtHub, InSession, tetherVars
  <1>5. "Welcome" \in Kinds
    BY DEF Kinds
  <1>6. toTether' \in Seq(Frame)
    BY <1>1, <1>5, TetherPut DEF Types
  <1>7. Types'
    BY <1>1, <1>3, <1>4, <1>6, Durations DEF Types, tetherVars
  <1>8. \A f \in HubBound' : f.age \in 0..Delay
    <2>1. \A f \in Frame : f.age \in 0..Delay
      BY DEF Frame
    <2> QED
      BY <1>3, <2>1 DEF HubBound
  <1>9. AnswerInv' /\ ApartInv'
    BY <1>1, <1>4, <1>8, Durations DEF AnswerInv, ApartInv
  <1>10. ConnectionInv'
    BY <1>1, <1>3, <1>4 DEF ConnectionInv, InSession, tetherVars
  <1>11. HealthyInv'
    <2> SUFFICES ASSUME clean' PROVE HealthyInv'
      BY DEF HealthyInv, Healthy
    <2>1. phase = "hello" /\ cut = {}
      BY <1>2, <1>3 DEF Connected, InSession
    <2>2. /\ toTether' # <<>> /\ toTether'[1] = [kind |-> "Welcome", age |-> 0] /\ TetherRest' = {}
      BY <1>1, <1>3, <1>5, <2>1, TetherPut DEF Connected
    <2>3. toTether'[1].kind = "Welcome" /\ toTether'[1].age = 0
      BY <2>2
    <2>4. wait + Delay + 0 >= PingTimeout /\ lease + 0 >= lease
      BY <1>3, <1>4, <2>1, Durations DEF Types
    <2>5. Welcomed'
      BY <1>1, <1>3, <2>1, <2>2, <2>3, <2>4 DEF Welcomed, tetherVars
    <2>6. Heard' /\ last_ping' + tick' <= PingPeriod
      BY <1>1, Durations DEF Heard, PingPeriod
    <2>7. Begun'
      BY <1>1, <1>4, <2>5, <2>6 DEF Begun
    <2> QED
      BY <1>1, <1>4, <2>1, <2>7 DEF HealthyInv
  <1>12. HealthySessionRefreshes'
    BY <1>1 DEF HealthySessionRefreshes
  <1> QED
    BY <1>7, <1>9, <1>10, <1>11, <1>12

\* A refusal starts no session.
LEMMA RefusesKeeps ==
    ASSUME HeartInv, Refuses
    PROVE  HeartInv'
  <1> USE DEF HeartInv
  <1>1. /\ toHub # <<>> /\ Head(toHub).kind = "Hello" /\ ~active /\ toHub' = Tail(toHub)
        /\ toTether' = IF Connected THEN Put(Put(toTether, "GoAway"), "Close") ELSE toTether
        /\ UNCHANGED <<tetherVars, hubVars, cut, envVars, ghostVars>>
    BY DEF Refuses
  <1>2. /\ ~InSession /\ ~wedged /\ toHub' \in Seq(Frame) /\ HubBound' \subseteq HubBound
        /\ phase = "hello" => toHub' = <<>>
    BY <1>1, HelloComes
  <1>3. toTether' \in Seq(Frame)
    <2>1. "GoAway" \in Kinds /\ "Close" \in Kinds /\ toTether \in Seq(Frame)
      BY DEF Kinds, Types
    <2> QED
      BY <1>1, <2>1, Puts
  <1>4. Types'
    BY <1>1, <1>2, <1>3 DEF Types, tetherVars, hubVars, ghostVars
  <1>5. ~InSession' /\ ~wedged' /\ (AtHub' <=> AtHub)
    BY <1>1, <1>2 DEF InSession, AtHub, tetherVars, hubVars, envVars
  <1>6. AnswerInv'
    BY <1>1, <1>2, <1>5 DEF AnswerInv, hubVars, ghostVars
  <1>7. ApartInv'
    BY <1>1, <1>2, <1>5 DEF ApartInv, hubVars, ghostVars
  <1>8. ConnectionInv'
    BY <1>1, <1>2, <1>5 DEF ConnectionInv, InSession, tetherVars, hubVars
  <1>9. ~Healthy /\ ~Healthy'
    BY <1>1 DEF HealthyInv, Healthy, ghostVars
  <1>10. HealthySessionRefreshes'
    BY <1>1 DEF HealthySessionRefreshes, hubVars, ghostVars
  <1> QED
    BY <1>4, <1>6, <1>7, <1>8, <1>9, <1>10 DEF HealthyInv

\* A session that can be renewed is refreshed before the hub's deadline.
LEMMA LeaseDeadlineKeeps ==
    ASSUME HeartInv, LeaseDeadline
    PROVE  HeartInv'
  <1>1. AtHub /\ lease_deadline = 0 /\ HubLeaves("expired") /\ toHub' = toHub
    BY DEF LeaseDeadline
  <1>2. Healthy => ~Renewable(granted)
    <2> SUFFICES ASSUME Healthy, Renewable(granted) PROVE FALSE
      OBVIOUS
    <2>1. Begun
      BY <1>1 DEF HeartInv, HealthyInv, Unbegun, AtHub
    <2>2. CASE Welcomed
      <3>1. toTether[1].age \in 0..Delay /\ granted \in Nat /\ lease_deadline + toTether[1].age >= granted
        BY <2>2, Bound DEF HeartInv, Welcomed, Types
      <3> QED
        BY <1>1, <3>1, Durations DEF Renewable
    <2>3. CASE Served
      BY <1>1, <2>3 DEF Served, HeartInv, Types
    <2> QED
      BY <2>1, <2>2, <2>3 DEF Begun
  <1> QED
    BY <1>1, <1>2, HubLeavesKeeps

\* A frame of the session behind those that travel.
LEMMA ServedPut ==
    ASSUME HeartInv, Served, last_ping <= PingPeriod, NEW k \in Live, toTether' = Put(toTether, k),
           UNCHANGED <<phase, lease_tick, lease_deadline, granted, dead>>
    PROVE  Served'
  <1>1. k \in Kinds
    BY DEF Kinds, Live
  <1>2. /\ toTether' # <<>> /\ TetherBound' = TetherBound \cup {[kind |-> k, age |-> 0]}
        /\ toTether = <<>> => toTether'[1] = [kind |-> k, age |-> 0]
        /\ toTether # <<>> => toTether'[1] = toTether[1]
    BY <1>1, TetherPut DEF HeartInv
  <1>3. \A f \in TetherBound' : f.kind \in Live
    BY <1>1, <1>2, New DEF Served
  <1>4. dead' + PingPeriod + toTether'[1].age >= PingTimeout
    <2>1. CASE toTether = <<>>
      <3>1. toTether'[1].age = 0
        BY <1>2, <2>1
      <3>2. dead + PingPeriod + 0 >= PingTimeout
        BY <2>1, Durations DEF Served, HeartInv, Types
      <3> QED
        BY <3>1, <3>2
    <2>2. CASE toTether # <<>>
      BY <1>2, <2>2 DEF Served
    <2> QED
      BY <2>1, <2>2
  <1>5. Renewable(granted)' => lease_tick' < lease_deadline'
    BY DEF Served, Renewable
  <1> QED
    BY <1>2, <1>3, <1>4, <1>5 DEF Served

\* PONGs come too often for the hub's timer.
LEMMA HealthyIsHeard ==
    ASSUME HeartInv, Healthy, AtHub
    PROVE  /\ cut = {} /\ active /\ ~wedged /\ Begun
           /\ last_ping \in Nat /\ last_ping <= PingPeriod /\ last_seen <= TetherSilence
  <1>1. cut = {} /\ active /\ ~wedged /\ Begun
    BY DEF HeartInv, HealthyInv, Unbegun, AtHub
  <1>2. last_ping \in Nat /\ last_ping <= PingPeriod /\ last_seen \in Nat
    BY <1>1, Durations DEF Begun, HeartInv, Types
  <1>3. CASE last_seen <= last_ping
    BY <1>1, <1>2, <1>3, Durations
  <1>4. ASSUME NEW f \in HubBound \cup TetherBound, last_seen <= PingPeriod + Delay + f.age
        PROVE last_seen <= TetherSilence
    <2>1. f.age \in 0..Delay
      BY Bound DEF HeartInv
    <2> QED
      BY <1>2, <1>4, <2>1, Durations
  <1>5. ASSUME NEW f \in TetherBound, last_seen <= PingPeriod + f.age
        PROVE last_seen <= TetherSilence
    <2>1. f.age \in 0..Delay
      BY Bound DEF HeartInv
    <2> QED
      BY <1>2, <1>5, <2>1, Durations
  <1> QED
    BY <1>1, <1>2, <1>3, <1>4, <1>5 DEF Begun, Heard

\* A tick finds the tether silent only once it has been, or asks it again.
LEMMA HubTickKeeps ==
    ASSUME HeartInv, HubTick
    PROVE  HeartInv'
  <1> USE DEF HeartInv
  <1>1. AtHub /\ tick = 0
    BY DEF HubTick
  <1>2. CASE ~active /\ HubLeaves("closed") /\ UNCHANGED toHub
    BY <1>1, <1>2, HealthyIsHeard, HubLeavesKeeps
  <1>3. CASE active /\ last_seen > TetherSilence /\ HubLeaves("silent") /\ UNCHANGED toHub
    <2>1. ~Healthy
      <3> SUFFICES ASSUME Healthy PROVE FALSE
        OBVIOUS
      <3>1. last_seen <= TetherSilence
        BY <1>1, HealthyIsHeard
      <3> QED
        BY <1>3, <3>1, Durations DEF Types
    <2> QED
      BY <1>1, <1>3, <2>1, HubLeavesKeeps
  <1>4. CASE /\ active /\ last_seen <= TetherSilence /\ tick' = TetherTick
             /\ IF last_ping >= TetherPingInterval
                  THEN last_ping' = 0 /\ toTether' = ToTether("Ping")
                  ELSE UNCHANGED <<last_ping, toTether>>
             /\ UNCHANGED <<tetherVars, session, current, last_seen, lease_deadline, granted, toHub,
                            cut, envVars, ghostVars>>
    <2>1. /\ (AtHub' <=> AtHub) /\ (InSession' <=> InSession) /\ (wedged' <=> wedged)
          /\ last_seen' = last_seen /\ HubBound' = HubBound /\ phase' = phase
      BY <1>4 DEF AtHub, InSession, tetherVars, envVars, HubBound
    <2>2. "Ping" \in Kinds /\ "Ping" \in Live
      BY DEF Kinds, Live
    <2>3. \/ toTether' = Put(toTether, "Ping") /\ current /\ Connected /\ last_ping' = 0
          \/ toTether' = toTether /\ ~(current /\ Connected) /\ last_ping' = 0
          \/ toTether' = toTether /\ last_ping' = last_ping /\ last_ping < TetherPingInterval
      BY <1>4, Durations DEF ToTether, Types
    <2>4. toTether' \in Seq(Frame) /\ last_ping' \in Nat
      <3>1. CASE toTether' = Put(toTether, "Ping") /\ last_ping' = 0
        BY <2>2, <3>1, TetherPut
      <3>2. CASE toTether' = toTether /\ (last_ping' = 0 \/ last_ping' = last_ping)
        BY <3>2 DEF Types
      <3> QED
        BY <2>3, <3>1, <3>2
    <2>5. Types'
      BY <1>4, <2>4, Durations DEF Types, tetherVars, ghostVars
    <2>6. AnswerInv'
      BY <1>4, <2>1 DEF AnswerInv, ghostVars
    <2>7. ApartInv'
      <3>1. last_seen' + tick' <= TetherSilence + TetherTick
        BY <1>4, <2>1, Durations DEF Types
      <3> QED
        BY <1>1, <1>4, <2>1, <3>1 DEF ApartInv, ghostVars
    <2>8. ConnectionInv'
      <3>1. phase = "hello" /\ toHub # <<>> => toTether' = toTether
        BY <2>3 DEF ConnectionInv
      <3> QED
        BY <1>4, <2>1, <3>1 DEF ConnectionInv, tetherVars
    <2>9. HealthyInv'
      <3> SUFFICES ASSUME Healthy PROVE HealthyInv'
        BY <1>4 DEF HealthyInv, Healthy, ghostVars
      <3>1. /\ cut = {} /\ active /\ ~wedged /\ Begun
            /\ last_ping \in Nat /\ last_ping <= PingPeriod
        BY <1>1, HealthyIsHeard
      <3>2. current /\ Connected
        BY <3>1 DEF Begun, Welcomed, Served, Connected
      <3>3. last_ping' + tick' <= PingPeriod
        BY <1>4, <2>3, <3>1, Durations DEF PingPeriod
      <3>4. CASE toTether' = Put(toTether, "Ping") /\ last_ping' = 0
        <4>1. /\ toTether' # <<>> /\ TetherBound' = TetherBound \cup {[kind |-> "Ping", age |-> 0]}
              /\ toTether # <<>> =>
                   /\ toTether'[1] = toTether[1]
                   /\ TetherRest' = TetherRest \cup {[kind |-> "Ping", age |-> 0]}
          BY <2>2, <3>4, TetherPut
        <4>2. ASSUME Welcomed PROVE Welcomed'
          <5>1. \A f \in TetherRest' : f.kind = "Ping"
            BY <2>2, <4>1, <4>2, New DEF Welcomed
          <5> QED
            BY <1>4, <4>1, <4>2, <5>1 DEF Welcomed, tetherVars
        <4>3. ASSUME Served PROVE Served'
          <5>1. UNCHANGED <<phase, lease_tick, lease_deadline, granted, dead>>
            BY <1>4 DEF tetherVars
          <5> QED
            BY <2>2, <3>1, <3>4, <4>3, <5>1, ServedPut
        <4>4. Heard'
          <5> DEFINE p == [kind |-> "Ping", age |-> 0]
          <5>1. p \in TetherBound' /\ p.kind = "Ping" /\ p.age = 0
            BY <4>1
          <5> HIDE DEF p
          <5>2. last_seen <= last_ping => last_seen' <= PingPeriod + 0
            BY <2>1, <3>1, Durations DEF Types
          <5> QED
            BY <2>1, <3>1, <4>1, <5>1, <5>2 DEF Begun, Heard
        <4> QED
          BY <1>1, <1>4, <2>1, <3>1, <3>3, <4>2, <4>3, <4>4 DEF Begun, HealthyInv, envVars
      <3>5. CASE toTether' = toTether /\ last_ping' = last_ping
        <4>1. TetherBound' = TetherBound /\ TetherRest' = TetherRest
          BY <3>5 DEF TetherBound, TetherRest
        <4>2. (Welcomed => Welcomed') /\ (Served => Served') /\ Heard'
          BY <1>4, <2>1, <3>1, <3>5, <4>1 DEF Welcomed, Served, Renewable, Heard, Begun, tetherVars
        <4> QED
          BY <1>1, <1>4, <2>1, <3>1, <3>3, <4>2 DEF Begun, HealthyInv, envVars
      <3> QED
        BY <2>3, <3>2, <3>4, <3>5
    <2>10. HealthySessionRefreshes'
      BY <1>4 DEF HealthySessionRefreshes, ghostVars
    <2> QED
      BY <2>5, <2>6, <2>7, <2>8, <2>9, <2>10
  <1> QED
    BY <1>2, <1>3, <1>4 DEF HubTick

\* Only a PONG makes the tether one that answered.
LEMMA HubReceivesKeeps ==
    ASSUME HeartInv, HubReceives
    PROVE  HeartInv'
  <1> USE DEF HeartInv
  <1>1. /\ AtHub /\ current /\ toHub # <<>> /\ "toHub" \notin cut /\ toHub' = Tail(toHub)
        /\ phase # "hello"
    BY DEF HubReceives, ConnectionInv
  <1>2. /\ toHub' \in Seq(Frame) /\ Head(toHub) = toHub[1] /\ toHub[1].age \in 0..Delay
        /\ HubBound = {toHub[1]} \cup HubBound'
    BY <1>1, HubRead, Bound
  <1>3. CASE toHub[1].kind \in {"Close", "GoAway"} /\ HubLeaves("closed")
    <2>1. ~Healthy
      <3> SUFFICES ASSUME Healthy PROVE FALSE
        OBVIOUS
      <3>1. phase = "serving"
        BY <1>1, HealthyIsHeard DEF Begun, Welcomed, Served
      <3> QED
        BY <1>2, <1>3, <3>1 DEF ConnectionInv, Live
    <2> QED
      BY <1>1, <1>3, <2>1, HubLeavesKeeps
  <1>4. CASE /\ toHub[1].kind \in {"Ping", "Pong", "Data"}
             /\ last_seen' = IF ProvesLiveness(toHub[1].kind) THEN 0 ELSE last_seen
             /\ toTether' = IF toHub[1].kind = "Ping" THEN ToTether("Pong") ELSE toTether
             /\ UNCHANGED <<tetherVars, session, current, tick, last_ping, lease_deadline, granted,
                            cut, envVars, ghostVars>>
    <2>1. /\ (AtHub' <=> AtHub) /\ (InSession' <=> InSession) /\ (wedged' <=> wedged)
          /\ phase' = phase
      BY <1>4 DEF AtHub, InSession, tetherVars, envVars
    <2>2. "Pong" \in Kinds /\ "Pong" \in Live
      BY DEF Kinds, Live
    <2>3. toTether' = Put(toTether, "Pong") \/ toTether' = toTether
      BY <1>4 DEF ToTether
    <2>4. toTether' \in Seq(Frame)
      BY <2>2, <2>3, TetherPut DEF Types
    <2>5. \/ toHub[1].kind = "Pong" /\ last_seen' = 0
          \/ toHub[1].kind # "Pong" /\ last_seen' = last_seen
      BY <1>4 DEF ProvesLiveness
    <2>6. Types'
      BY <1>2, <1>4, <2>4, <2>5 DEF Types, tetherVars, ghostVars
    <2>7. AnswerInv'
      <3>1. CASE toHub[1].kind = "Pong" /\ last_seen' = 0
        <4>1. answered <= Delay
          BY <1>1, <1>2, <3>1, Durations DEF AnswerInv, Types
        <4>2. answered' <= last_seen' + Delay
          BY <1>4, <3>1, <4>1, Durations DEF ghostVars
        <4> QED
          BY <1>2, <1>4, <4>2 DEF AnswerInv, ghostVars
      <3>2. CASE last_seen' = last_seen
        BY <1>1, <1>2, <1>4, <2>1, <3>2 DEF AnswerInv, ghostVars
      <3> QED
        BY <2>5, <3>1, <3>2
    <2>8. ApartInv'
      <3>1. last_seen' + tick' <= TetherSilence + TetherTick
        BY <1>1, <1>4, <2>5, Durations DEF ApartInv, Types
      <3>2. ~InSession => apart' <= last_seen' + Delay
        <4>1. CASE toHub[1].kind = "Pong" /\ last_seen' = 0 /\ ~InSession
          <5>1. apart <= Delay
            <6>1. apart <= toHub[1].age
              BY <1>1, <1>2, <4>1 DEF ApartInv
            <6>2. apart \in Int /\ Delay \in Int
              BY Durations DEF Types
            <6> QED
              BY <6>1, <6>2, <1>2
          <5> QED
            BY <1>4, <4>1, <5>1, Durations DEF ghostVars
        <4> QED
          BY <1>1, <1>4, <2>5, <4>1 DEF ApartInv, ghostVars
      <3> QED
        BY <1>1, <1>2, <1>4, <2>1, <3>1, <3>2 DEF ApartInv, ghostVars
    <2>9. ConnectionInv'
      BY <1>1, <1>2, <1>4, <2>1 DEF ConnectionInv
    <2>10. HealthyInv'
      <3> SUFFICES ASSUME Healthy PROVE HealthyInv'
        BY <1>4 DEF HealthyInv, Healthy, ghostVars
      <3>1. /\ cut = {} /\ active /\ ~wedged /\ Begun
            /\ last_ping \in Nat /\ last_ping <= PingPeriod
        BY <1>1, HealthyIsHeard
      <3>2. Served
        BY <1>1, <3>1 DEF Begun, Welcomed
      <3>3. Served' /\ TetherBound \subseteq TetherBound'
        <4>1. CASE toTether' = Put(toTether, "Pong")
          <5>1. UNCHANGED <<phase, lease_tick, lease_deadline, granted, dead>>
            BY <1>4 DEF tetherVars
          <5> QED
            BY <2>2, <3>1, <3>2, <4>1, <5>1, ServedPut, TetherPut
        <4>2. CASE toTether' = toTether
          <5>1. TetherBound' = TetherBound
            BY <4>2 DEF TetherBound
          <5> QED
            BY <1>4, <3>2, <4>2, <5>1 DEF Served, Renewable, tetherVars
        <4> QED
          BY <2>3, <4>1, <4>2
      <3>4. Heard'
        <4>1. CASE toHub[1].kind = "Pong" /\ last_seen' = 0
          BY <1>4, <3>1, <4>1, Durations DEF Heard
        <4>2. CASE toHub[1].kind # "Pong" /\ last_seen' = last_seen
          BY <1>2, <1>4, <3>1, <3>3, <4>2 DEF Begun, Heard
        <4> QED
          BY <2>5, <4>1, <4>2
      <3>5. Begun'
        BY <1>1, <1>4, <2>1, <3>1, <3>3, <3>4 DEF Begun
      <3> QED
        BY <1>4, <3>1, <3>5 DEF HealthyInv, envVars
    <2>11. HealthySessionRefreshes'
      BY <1>4 DEF HealthySessionRefreshes, ghostVars
    <2> QED
      BY <2>6, <2>7, <2>8, <2>9, <2>10, <2>11
  <1> QED
    BY <1>2, <1>3, <1>4 DEF HubReceives

\* What nobody reads changes no session.
LEMMA HubDropsKeeps ==
    ASSUME HeartInv, HubDrops
    PROVE  HeartInv'
  <1> USE DEF HeartInv
  <1>1. /\ toHub # <<>> /\ toHub' = Tail(toHub) /\ Head(toHub).kind # "Hello" /\ ~(AtHub /\ current)
        /\ UNCHANGED <<tetherVars, hubVars, toTether, cut, envVars, ghostVars>>
    BY DEF HubDrops
  <1>2. toHub' \in Seq(Frame) /\ HubBound' \subseteq HubBound /\ phase # "hello"
    BY <1>1, HubRead DEF ConnectionInv
  <1>3. /\ (AtHub' <=> AtHub) /\ (InSession' <=> InSession) /\ (wedged' <=> wedged) /\ phase' = phase
        /\ TetherBound' = TetherBound
    BY <1>1 DEF AtHub, InSession, tetherVars, hubVars, envVars, TetherBound
  <1>4. Types'
    BY <1>1, <1>2 DEF Types, tetherVars, hubVars, ghostVars
  <1>5. AnswerInv'
    BY <1>1, <1>2, <1>3 DEF AnswerInv, hubVars, ghostVars
  <1>6. ApartInv'
    BY <1>1, <1>2, <1>3 DEF ApartInv, hubVars, tetherVars, ghostVars
  <1>7. ConnectionInv'
    BY <1>1, <1>2, <1>3 DEF ConnectionInv, hubVars
  <1>8. ~Healthy /\ ~Healthy'
    BY <1>1, <1>2 DEF HealthyInv, Begun, Unbegun, Healthy, ghostVars
  <1>9. HealthySessionRefreshes'
    BY <1>1 DEF HealthySessionRefreshes, hubVars, ghostVars
  <1> QED
    BY <1>4, <1>5, <1>6, <1>7, <1>8, <1>9 DEF HealthyInv

\* DATA to the tether proves the hub is there.
LEMMA HubWritesKeeps ==
    ASSUME HeartInv, HubWrites
    PROVE  HeartInv'
  <1> USE DEF HeartInv
  <1>1. /\ AtHub /\ current /\ Connected /\ toTether = <<>> /\ toTether' = Put(toTether, "Data")
        /\ UNCHANGED <<tetherVars, hubVars, toHub, cut, envVars, ghostVars>>
    BY DEF HubWrites
  <1>2. "Data" \in Kinds /\ "Data" \in Live
    BY DEF Kinds, Live
  <1>3. toTether' \in Seq(Frame) /\ TetherBound \subseteq TetherBound'
    BY <1>1, <1>2, TetherPut
  <1>4. /\ AtHub' /\ (InSession' <=> InSession) /\ (wedged' <=> wedged) /\ phase' = phase
        /\ HubBound' = HubBound
    BY <1>1 DEF AtHub, InSession, tetherVars, hubVars, envVars, HubBound
  <1>5. Types'
    BY <1>1, <1>3 DEF Types, tetherVars, hubVars, ghostVars
  <1>6. AnswerInv'
    BY <1>1, <1>4 DEF AnswerInv, hubVars, ghostVars
  <1>7. ApartInv'
    BY <1>1, <1>4 DEF ApartInv, hubVars, ghostVars
  <1>8. ConnectionInv'
    BY <1>1, <1>4 DEF ConnectionInv, hubVars
  <1>9. HealthyInv'
    <2> SUFFICES ASSUME Healthy PROVE HealthyInv'
      BY <1>1 DEF HealthyInv, Healthy, ghostVars
    <2>1. /\ cut = {} /\ active /\ ~wedged /\ Begun
          /\ last_ping \in Nat /\ last_ping <= PingPeriod
      BY <1>1, HealthyIsHeard
    <2>2. Served
      BY <1>1, <2>1 DEF Begun, Welcomed
    <2>3. UNCHANGED <<phase, lease_tick, lease_deadline, granted, dead>>
      BY <1>1 DEF tetherVars, hubVars
    <2>4. Served'
      BY <1>1, <1>2, <2>1, <2>2, <2>3, ServedPut
    <2>5. Heard'
      BY <1>1, <1>3, <1>4, <2>1 DEF Begun, Heard, hubVars
    <2>6. Begun'
      BY <1>1, <1>4, <2>1, <2>4, <2>5 DEF Begun, hubVars
    <2> QED
      BY <1>1, <2>1, <2>6 DEF HealthyInv, envVars
  <1>10. HealthySessionRefreshes'
    BY <1>1 DEF HealthySessionRefreshes, hubVars, ghostVars
  <1> QED
    BY <1>5, <1>6, <1>7, <1>8, <1>9, <1>10

\* Every step of the hub keeps the invariant.
LEMMA HubKeeps ==
    ASSUME HeartInv, Hub
    PROVE  HeartInv'
  BY GreetsKeeps, RefusesKeeps, LeaseDeadlineKeeps, HubTickKeeps, HubReceivesKeeps, HubDropsKeeps,
     HubWritesKeeps DEF Hub
-----------------------------------------------------------------------------
(* Faults *)

\* A fault that spoils a session leaves nothing to show of it.
LEMMA SpoilsKeeps ==
    ASSUME HeartInv, Spoils, UNCHANGED <<why, granted>>
    PROVE  HealthyInv' /\ HealthySessionRefreshes'
  <1>1. ~Healthy'
    BY DEF Spoils, Healthy
  <1>2. HealthySessionRefreshes'
    BY DEF HeartInv, HealthySessionRefreshes, Renewable
  <1> QED
    BY <1>1, <1>2 DEF HealthyInv

\* A fault of the network spoils the session it touches.
LEMMA NetworkFaultKeeps ==
    ASSUME HeartInv,
           \/ \E d \in {"toHub", "toTether"} : Cut(d)
           \/ ReachChanges
           \/ ActiveChanges
    PROVE  HeartInv'
  <1> USE DEF HeartInv
  <1>1. /\ UNCHANGED <<phase, wait, backoff, ping_tick, dead, lease_tick, hubVars, toHub, toTether,
                       wedged, why, apart, answered>>
        /\ cut \subseteq cut' /\ cut' \subseteq {"toHub", "toTether"}
    BY DEF Cut, ReachChanges, ActiveChanges, netVars, tetherVars, Types
  <1>2. /\ (AtHub' <=> AtHub) /\ (InSession' <=> InSession) /\ HubBound' = HubBound
        /\ TetherBound' = TetherBound /\ TetherRest' = TetherRest
    BY <1>1 DEF AtHub, InSession, HubBound, TetherBound, TetherRest, hubVars
  <1>3. Types'
    BY <1>1 DEF Types, hubVars
  <1>4. AnswerInv'
    BY <1>1, <1>2 DEF AnswerInv, hubVars
  <1>5. ApartInv'
    BY <1>1, <1>2 DEF ApartInv, hubVars
  <1>6. ConnectionInv'
    BY <1>1, <1>2 DEF ConnectionInv, hubVars
  <1>7. HealthyInv' /\ HealthySessionRefreshes'
    <2>1. CASE Spoils
      BY <1>1, <2>1, SpoilsKeeps DEF hubVars
    <2>2. CASE ReachChanges
      <3>1. UNCHANGED <<clean, cut, active>>
        BY <2>2 DEF ReachChanges, netVars
      <3>2. HealthySessionRefreshes'
        BY <1>1 DEF HealthySessionRefreshes, Renewable, hubVars
      <3>3. (Unbegun => Unbegun') /\ (Begun => Begun')
        BY <1>1, <1>2 DEF Unbegun, Begun, Welcomed, Served, Heard, Renewable, hubVars
      <3> QED
        BY <1>1, <3>1, <3>2, <3>3 DEF HealthyInv, Healthy
    <2> QED
      BY <2>1, <2>2 DEF Cut, ActiveChanges
  <1> QED
    BY <1>3, <1>4, <1>5, <1>6, <1>7

\* A loop that is stuck, or runs again, starts no session.
LEMMA WedgeKeeps ==
    ASSUME HeartInv, WedgeChanges
    PROVE  HeartInv'
  <1> USE DEF HeartInv
  <1>1. /\ InSession /\ apart' = 0 /\ Spoils
        /\ UNCHANGED <<tetherVars, hubVars, netVars, why, answered>>
    BY DEF WedgeChanges
  <1>2. /\ (AtHub' <=> AtHub) /\ InSession' /\ HubBound' = HubBound /\ TetherBound' = TetherBound
    BY <1>1 DEF AtHub, InSession, HubBound, TetherBound, hubVars, netVars, tetherVars
  <1>3. Types'
    BY <1>1 DEF Types, tetherVars, hubVars, netVars
  <1>4. AnswerInv'
    BY <1>1, <1>2 DEF AnswerInv, hubVars, netVars
  <1>5. ApartInv'
    <2>1. \A f \in TetherBound' : 0 <= f.age
      BY <1>2, Bound, Durations
    <2>2. 0 + dead' <= PingTimeout + Delay
      <3>1. ASSUME NEW n \in 0..PingTimeout PROVE 0 + n <= PingTimeout + Delay
        BY Durations
      <3>2. dead' \in 0..PingTimeout
        BY <1>3 DEF Types
      <3> QED
        BY <3>1, <3>2
    <2>3. AtHub' => last_seen' + tick' <= TetherSilence + TetherTick
      BY <1>1, <1>2 DEF ApartInv, hubVars
    <2> QED
      BY <1>1, <1>2, <2>1, <2>2, <2>3 DEF ApartInv
  <1>6. ConnectionInv'
    BY <1>1, <1>2 DEF ConnectionInv, hubVars, netVars, tetherVars
  <1>7. HealthyInv' /\ HealthySessionRefreshes'
    BY <1>1, SpoilsKeeps DEF hubVars
  <1> QED
    BY <1>3, <1>4, <1>5, <1>6, <1>7

\* A hub that restarts has no session left.
LEMMA HubRestartsKeeps ==
    ASSUME HeartInv, HubRestarts
    PROVE  HeartInv'
  <1> USE DEF HeartInv
  <1>1. /\ session' = "none" /\ ~current' /\ last_seen' = 0 /\ tick' = 0 /\ last_ping' = 0
        /\ lease_deadline' = 0 /\ toHub' = <<>> /\ apart' = 0 /\ Spoils
        /\ toTether' = toTether \/ toTether' = Put(toTether, "Close")
        /\ cut' \subseteq {"toHub", "toTether"}
        /\ UNCHANGED <<tetherVars, granted, wedged, why, answered>>
    BY DEF HubRestarts, Types
  <1>2. "Close" \in Kinds
    BY DEF Kinds
  <1>3. toTether' \in Seq(Frame)
    BY <1>1, <1>2, TetherPut DEF Types
  <1>4. Types'
    BY <1>1, <1>3 DEF Types, tetherVars
  <1>5. ~AtHub' /\ (InSession' <=> InSession) /\ HubBound' = {}
    BY <1>1 DEF AtHub, InSession, HubBound, tetherVars
  <1>6. AnswerInv' /\ ConnectionInv'
    BY <1>1, <1>5 DEF AnswerInv, ConnectionInv
  <1>7. ApartInv'
    <2>1. \A f \in TetherBound' : 0 <= f.age
      <3>1. \A f \in Frame : 0 <= f.age
        BY Durations DEF Frame
      <3> QED
        BY <1>3, <3>1 DEF TetherBound
    <2>2. 0 + dead' <= PingTimeout + Delay
      <3>1. ASSUME NEW n \in 0..PingTimeout PROVE 0 + n <= PingTimeout + Delay
        BY Durations
      <3>2. dead' \in 0..PingTimeout
        BY <1>4 DEF Types
      <3> QED
        BY <3>1, <3>2
    <2>3. wedged' => InSession'
      BY <1>1, <1>5 DEF ApartInv
    <2> QED
      BY <1>1, <1>5, <2>1, <2>2, <2>3 DEF ApartInv
  <1>8. HealthyInv' /\ HealthySessionRefreshes'
    BY <1>1, SpoilsKeeps
  <1> QED
    BY <1>4, <1>6, <1>7, <1>8

\* A tether that restarts has no session left.
LEMMA TetherRestartsKeeps ==
    ASSUME HeartInv, TetherRestarts
    PROVE  HeartInv'
  <1> USE DEF HeartInv
  <1>1. /\ phase' = "dialing" /\ wait' = ConnectTimeout /\ backoff' = BackoffMin /\ ping_tick' = 0
        /\ dead' = 0 /\ lease_tick' = 0 /\ ~wedged' /\ toTether' = <<>> /\ apart' = 0 /\ Spoils
        /\ (toHub' = Put(toHub, "Close") /\ cut' = cut) \/ (toHub' = toHub /\ "toHub" \in cut')
        /\ cut' \subseteq {"toHub", "toTether"}
        /\ UNCHANGED <<hubVars, why, answered>>
    BY DEF TetherRestarts, Types
  <1>2. "Close" \in Kinds /\ "Close" # "Pong"
    BY DEF Kinds
  <1>3. /\ toHub' \in Seq(Frame)
        /\ "toHub" \notin cut' =>
             "toHub" \notin cut /\ \A f \in HubBound' : f.kind = "Pong" => f \in HubBound
    <2>1. CASE toHub' = Put(toHub, "Close") /\ cut' = cut
      BY <1>2, <2>1, HubPut, New
    <2>2. CASE toHub' = toHub /\ "toHub" \in cut'
      BY <2>2 DEF Types
    <2> QED
      BY <1>1, <2>1, <2>2
  <1>4. Types'
    BY <1>1, <1>3, Durations DEF Types, hubVars
  <1>5. (AtHub' <=> AtHub) /\ ~InSession' /\ last_seen' = last_seen /\ tick' = tick
    BY <1>1 DEF AtHub, InSession, hubVars
  <1>6. AnswerInv'
    BY <1>1, <1>3, <1>5 DEF AnswerInv
  <1>7. ApartInv'
    <2>1. \A f \in HubBound' : 0 <= f.age
      <3>1. \A f \in Frame : 0 <= f.age
        BY Durations DEF Frame
      <3> QED
        BY <1>3, <3>1 DEF HubBound
    <2>2. 0 <= last_seen' + Delay
      <3>1. ASSUME NEW n \in Nat PROVE 0 <= n + Delay
        BY Durations
      <3>2. last_seen' \in Nat
        BY <1>4 DEF Types
      <3> QED
        BY <3>1, <3>2
    <2> QED
      BY <1>1, <1>5, <2>1, <2>2 DEF ApartInv
  <1>8. ConnectionInv'
    BY <1>1, <1>5 DEF ConnectionInv, hubVars
  <1>9. HealthyInv' /\ HealthySessionRefreshes'
    BY <1>1, SpoilsKeeps DEF hubVars
  <1> QED
    BY <1>4, <1>6, <1>7, <1>8, <1>9
-----------------------------------------------------------------------------
(* Time *)

\* The frames of a channel that delivers are one older, and still on time.
LEMMA Travels ==
    ASSUME Types, toHub' = Aged(toHub), toTether' = Aged(toTether)
    PROVE  /\ toHub' \in Seq(Frame) /\ toTether' \in Seq(Frame) /\ Len(toHub') = Len(toHub)
           /\ (toHub' = <<>> <=> toHub = <<>>) /\ (toTether' = <<>> <=> toTether = <<>>)
           /\ HubBound' = {Older(f) : f \in HubBound}
           /\ TetherBound' = {Older(f) : f \in TetherBound}
           /\ TetherRest' = {Older(f) : f \in TetherRest}
           /\ toHub # <<>> => toHub'[1] = Older(toHub[1])
           /\ toTether # <<>> => toTether'[1] = Older(toTether[1])
  <1>1. toHub \in Seq(Frame) /\ toTether \in Seq(Frame)
    BY DEF Types
  <1>2. /\ HubBound = On(toHub) /\ TetherBound = On(toTether) /\ TetherRest = Behind(toTether)
        /\ HubBound' = On(toHub') /\ TetherBound' = On(toTether') /\ TetherRest' = Behind(toTether')
    BY DEF HubBound, TetherBound, TetherRest, On, Behind
  <1> QED
    BY <1>1, <1>2, Grows

\* On a direction that still delivers, every frame is young enough to age by one.
LEMMA Punctual ==
    ASSUME Types, OnTime
    PROVE  /\ "toHub" \notin cut => \A f \in HubBound : Older(f).age = f.age + 1
           /\ "toTether" \notin cut /\ ~wedged => \A f \in TetherBound : Older(f).age = f.age + 1
           /\ \A f \in HubBound \cup TetherBound :
                 Older(f).kind = f.kind /\ f.age <= Older(f).age /\ Older(f).age \in 0..Delay /\ f.age \in 0..Delay
  <1>1. \A f \in HubBound \cup TetherBound : f \in Frame /\ f.age \in 0..Delay
    BY Bound
  <1>2. \A f \in Frame : f.age \in 0..Delay
    BY DEF Frame
  <1>3. "toHub" \notin cut => \A f \in HubBound : f.age < Delay
    BY DEF OnTime, HubBound
  <1>4. "toTether" \notin cut /\ ~wedged => \A f \in TetherBound : f.age < Delay
    BY DEF OnTime, TetherBound
  <1> QED
    BY <1>1, <1>2, <1>3, <1>4, Ages

\* Everything moves on by one while both timers and frames are on time.
LEMMA TickKeeps ==
    ASSUME HeartInv, Tick
    PROVE  HeartInv'
  <1> USE DEF HeartInv
  <1>1. /\ OnTime /\ toHub' = Aged(toHub) /\ toTether' = Aged(toTether)
        /\ UNCHANGED <<phase, backoff, session, current, granted, cut, envVars, clean, why>>
    BY DEF Tick
  <1>2. /\ wait' = Less(wait) /\ ping_tick' = Less(ping_tick) /\ dead' = Less(dead)
        /\ lease_tick' = Less(lease_tick) /\ tick' = Less(tick)
        /\ lease_deadline' = Less(lease_deadline)
        /\ last_seen' = (IF AtHub THEN last_seen + 1 ELSE 0)
        /\ last_ping' = (IF AtHub THEN last_ping + 1 ELSE 0)
    BY DEF Tick
  <1>3. answered' \in Nat /\ answered' <= answered + 1
    BY Durations DEF Tick, More, Lesser, Types
  <1>4. /\ apart' \in Nat /\ apart' <= apart + 1 /\ (wedged => apart' = apart)
        /\ ~wedged /\ (InSession <=> AtHub) => apart' = 0
    <2>1. (InSession <=> AtHub) => InSession = AtHub
      BY DEF InSession, AtHub
    <2>2. apart' = IF wedged THEN apart
                   ELSE IF InSession = AtHub THEN 0
                   ELSE More(apart, TetherSilence + TetherTick + PingTimeout + 2 * Delay)
      BY DEF Tick
    <2>3. ASSUME NEW m \in Nat PROVE More(apart, m) \in Nat /\ More(apart, m) <= apart + 1
      BY DEF More, Lesser, Types
    <2>4. TetherSilence + TetherTick + PingTimeout + 2 * Delay \in Nat
      BY Durations
    <2> HIDE DEF HeartInv
    <2>5. apart \in Nat
      BY DEF HeartInv, Types
    <2>6. apart <= apart + 1 /\ 0 <= apart + 1
      BY <2>5
    <2> QED
      BY <2>1, <2>2, <2>3, <2>4, <2>5, <2>6
  <1>5. /\ toHub' \in Seq(Frame) /\ toTether' \in Seq(Frame) /\ Len(toHub') = Len(toHub)
        /\ (toHub' = <<>> <=> toHub = <<>>) /\ (toTether' = <<>> <=> toTether = <<>>)
        /\ HubBound' = {Older(f) : f \in HubBound}
        /\ TetherBound' = {Older(f) : f \in TetherBound}
        /\ TetherRest' = {Older(f) : f \in TetherRest}
        /\ toHub # <<>> => toHub'[1] = Older(toHub[1])
        /\ toTether # <<>> => toTether'[1] = Older(toTether[1])
    BY <1>1, Travels
  <1>6. /\ "toHub" \notin cut => \A f \in HubBound : Older(f).age = f.age + 1
        /\ "toTether" \notin cut /\ ~wedged => \A f \in TetherBound : Older(f).age = f.age + 1
        /\ \A f \in HubBound \cup TetherBound :
              Older(f).kind = f.kind /\ f.age <= Older(f).age /\ Older(f).age \in 0..Delay /\ f.age \in 0..Delay
    BY <1>1, Punctual
  <1>7. /\ (AtHub' <=> AtHub) /\ (InSession' <=> InSession) /\ (wedged' <=> wedged) /\ phase' = phase
    BY <1>1 DEF AtHub, InSession, envVars
  <1>8. Types'
    BY <1>1, <1>2, <1>3, <1>4, <1>5, Durations DEF Types, Less
  <1>9. AtHub => tick' = tick - 1 /\ lease_deadline' = lease_deadline - 1 /\ last_seen' = last_seen + 1 /\ last_ping' = last_ping + 1
    BY <1>1, <1>2, Durations DEF OnTime, Less, Types
  <1>10. ASSUME InSession, ~wedged
         PROVE  dead' = dead - 1 /\ lease_tick' = lease_tick - 1
    BY <1>1, <1>2, <1>10, Durations DEF OnTime, LoopRuns, Less, Types
  <1>11. phase = "hello" => wait' = wait - 1
    BY <1>1, <1>2, Durations DEF OnTime, Less, Types
  <1>12. AnswerInv'
    <2>1. ASSUME "toHub" \notin cut, NEW f \in HubBound, f.kind = "Pong"
          PROVE  answered' <= Older(f).age
      BY <2>1, <1>3, <1>6, Durations DEF AnswerInv, Types
    <2>2. AtHub => answered' <= last_seen' + Delay
      BY <1>3, <1>9, Durations DEF AnswerInv, Types
    <2> QED
      BY <1>1, <1>5, <1>6, <1>7, <2>1, <2>2 DEF AnswerInv
  <1>13. ApartInv'
    <2>1. wedged => apart' = 0
      BY <1>4 DEF ApartInv
    <2>2. AtHub => last_seen' + tick' <= TetherSilence + TetherTick
      BY <1>9, Durations DEF ApartInv, Types
    <2>3. AtHub /\ ~InSession =>
            /\ apart' <= last_seen' + Delay
            /\ "toHub" \notin cut => \A f \in HubBound : f.kind = "Pong" => apart' <= Older(f).age
      <3> SUFFICES ASSUME AtHub, ~InSession
                   PROVE  /\ apart' <= last_seen' + Delay
                          /\ "toHub" \notin cut =>
                               \A f \in HubBound : f.kind = "Pong" => apart' <= Older(f).age
        OBVIOUS
      <3>1. apart' <= last_seen' + Delay
        BY <1>4, <1>9, Durations DEF ApartInv, Types
      <3>2. ASSUME "toHub" \notin cut, NEW f \in HubBound, f.kind = "Pong"
            PROVE  apart' <= Older(f).age
        BY <3>2, <1>4, <1>6, Durations DEF ApartInv, Types
      <3> QED
        BY <3>1, <3>2
    <2>4. InSession /\ ~AtHub => apart' + dead' <= PingTimeout + Delay
      <3> SUFFICES ASSUME InSession, ~AtHub PROVE apart' + dead' <= PingTimeout + Delay
        OBVIOUS
      <3>1. apart + dead <= PingTimeout + Delay
        BY DEF ApartInv
      <3>2. CASE wedged
        BY <3>1, <3>2, <1>2, <1>4, Durations DEF Less, Types
      <3>3. CASE ~wedged
        <4>1. dead' = dead - 1 /\ apart' <= apart + 1 /\ apart' \in Nat
          BY <3>3, <1>4, <1>10
        <4>2. dead \in Int /\ apart \in Int /\ PingTimeout + Delay \in Int
          BY Durations DEF Types
        <4> QED
          BY <3>1, <4>1, <4>2
      <3> QED
        BY <3>2, <3>3
    <2>5. InSession /\ ~AtHub /\ "toTether" \notin cut =>
            \A f \in TetherBound : f.kind \in Live => apart' <= Older(f).age
      <3> SUFFICES ASSUME InSession, ~AtHub, "toTether" \notin cut, NEW f \in TetherBound, f.kind \in Live
                   PROVE  apart' <= Older(f).age
        OBVIOUS
      <3>1. apart <= f.age
        BY DEF ApartInv
      <3>2. CASE wedged
        BY <3>1, <3>2, <1>4, <1>6, Durations DEF Types
      <3>3. CASE ~wedged
        BY <3>1, <3>3, <1>4, <1>6, Durations DEF Types
      <3> QED
        BY <3>2, <3>3
    <2>6. wedged' => InSession' /\ apart' = 0
      BY <1>7, <2>1 DEF ApartInv
    <2>7. (InSession' <=> AtHub') => apart' = 0
      BY <1>4, <1>7, <2>1
    <2>8. \A f \in HubBound \cup TetherBound : Older(f).kind = f.kind
      BY <1>6
    <2> QED
      BY <1>1, <1>5, <1>7, <2>2, <2>3, <2>4, <2>5, <2>6, <2>7, <2>8 DEF ApartInv
  <1>14. ConnectionInv'
    <2>1. ASSUME phase = "hello", toHub # <<>>, "toHub" \notin cut
          PROVE  wait' + Older(toHub[1]).age >= PingTimeout
      <3>1. toHub[1] \in HubBound /\ wait + toHub[1].age >= PingTimeout
        BY <2>1, Bound DEF ConnectionInv
      <3> QED
        BY <2>1, <3>1, <1>6, <1>11, Durations DEF Types
    <2>2. toHub # <<>> => toHub[1] \in HubBound
      BY Bound
    <2> QED
      BY <1>1, <1>5, <1>6, <1>7, <2>1, <2>2 DEF ConnectionInv
  <1>15. HealthyInv'
    <2> SUFFICES ASSUME Healthy PROVE HealthyInv'
      BY <1>1 DEF HealthyInv, Healthy
    <2>1. cut = {} /\ active /\ ~wedged /\ (Unbegun \/ Begun)
      BY DEF HealthyInv
    <2>2. CASE Unbegun
      <3>1. Unbegun'
        BY <1>1, <1>5, <2>2 DEF Unbegun
      <3> QED
        BY <1>1, <2>1, <3>1 DEF HealthyInv, envVars
    <2>3. CASE Begun
      <3>1. AtHub /\ current /\ toTether # <<>> => toTether[1] \in TetherBound
        BY Bound
      <3>2. \A f \in HubBound \cup TetherBound : Older(f).age = f.age + 1 /\ Older(f).kind = f.kind /\ f.age \in 0..Delay
        BY <1>6, <2>1
      <3>3. ASSUME Welcomed PROVE Welcomed'
        <4>1. toTether[1] \in TetherBound /\ toHub = <<>>
          BY <3>3, Bound DEF Welcomed
        <4>2. toTether'[1].kind = "Welcome" /\ toTether'[1].age = toTether[1].age + 1 /\ toTether[1].age \in 0..Delay
          BY <1>5, <3>2, <3>3, <4>1 DEF Welcomed
        <4>3. \A f \in TetherRest' : f.kind = "Ping"
          BY <1>5, <3>2, <3>3, Bound DEF Welcomed
        <4>4. wait' = wait - 1 /\ lease_deadline' = lease_deadline - 1
          BY <1>9, <1>11, <2>3, <3>3 DEF Begun, Welcomed
        <4>5. wait' + Delay + toTether'[1].age >= PingTimeout /\ lease_deadline' + toTether'[1].age >= granted
          BY <3>3, <4>2, <4>4, Durations DEF Welcomed, Types
        <4> QED
          BY <1>1, <1>5, <1>7, <3>3, <4>2, <4>3, <4>5 DEF Welcomed
      <3>4. ASSUME Served PROVE Served'
        <4>1. InSession /\ AtHub
          BY <2>3, <3>4 DEF Served, InSession, Begun
        <4>2. dead' = dead - 1 /\ lease_tick' = lease_tick - 1 /\ lease_deadline' = lease_deadline - 1 /\ last_ping' = last_ping + 1
          BY <1>9, <1>10, <2>1, <4>1
        <4>3. \A f \in TetherBound' : f.kind \in Live
          BY <1>5, <3>2, <3>4 DEF Served
        <4>4. Renewable(granted) => lease_tick' < lease_deadline'
          BY <3>4, <4>2 DEF Served, Types
        <4>5. toTether = <<>> => dead' + last_ping' >= PingTimeout
          BY <3>4, <4>2, Durations DEF Served, Types
        <4>6. ASSUME toTether # <<>> PROVE dead' + PingPeriod + toTether'[1].age >= PingTimeout
          <5>1. toTether'[1].age = toTether[1].age + 1 /\ toTether[1].age \in 0..Delay
            BY <1>5, <3>1, <3>2, <4>1, <4>6, Bound
          <5>2. dead + PingPeriod + toTether[1].age >= PingTimeout
            BY <3>4, <4>6 DEF Served
          <5> QED
            BY <4>2, <5>1, <5>2, Durations DEF Types
        <4> QED
          BY <1>1, <1>5, <1>7, <3>4, <4>3, <4>4, <4>5, <4>6 DEF Served, Renewable
      <3>5. last_ping' + tick' <= PingPeriod
        BY <1>9, <2>3, Durations DEF Begun, Types
      <3>6. Heard'
        <4>1. last_seen' = last_seen + 1 /\ last_ping' = last_ping + 1
          BY <1>9, <2>3 DEF Begun
        <4>2. last_seen <= last_ping => last_seen' <= last_ping'
          BY <4>1 DEF Types
        <4>3. ASSUME NEW f \in TetherBound, f.kind = "Ping", last_seen <= PingPeriod + f.age
              PROVE  Heard'
          <5>1. last_seen' <= PingPeriod + Older(f).age
            BY <3>2, <4>1, <4>3, Durations DEF Types
          <5>2. Older(f) \in TetherBound' /\ Older(f).kind = "Ping"
            BY <1>5, <3>2, <4>3
          <5> QED
            BY <5>1, <5>2 DEF Heard
        <4>4. ASSUME NEW f \in HubBound, f.kind = "Pong", last_seen <= PingPeriod + Delay + f.age
              PROVE  Heard'
          <5>1. last_seen' <= PingPeriod + Delay + Older(f).age
            BY <3>2, <4>1, <4>4, Durations DEF Types
          <5>2. Older(f) \in HubBound' /\ Older(f).kind = "Pong"
            BY <1>5, <3>2, <4>4
          <5> QED
            BY <5>1, <5>2 DEF Heard
        <4> QED
          BY <2>3, <4>2, <4>3, <4>4 DEF Begun, Heard
      <3>7. Begun'
        BY <1>1, <1>7, <2>3, <3>3, <3>4, <3>5, <3>6 DEF Begun
      <3> QED
        BY <1>1, <2>1, <3>7 DEF HealthyInv, envVars
    <2> QED
      BY <2>1, <2>2, <2>3
  <1>16. HealthySessionRefreshes'
    BY <1>1 DEF HealthySessionRefreshes, Renewable
  <1> QED
    BY <1>8, <1>12, <1>13, <1>14, <1>15, <1>16
-----------------------------------------------------------------------------
\* Every step keeps the invariant.
LEMMA HeartStep == HeartInv /\ [Next]_vars => HeartInv'
  <1> SUFFICES ASSUME HeartInv, [Next]_vars PROVE HeartInv'
    OBVIOUS
  <1>1. CASE UNCHANGED vars
    <2>1. /\ UNCHANGED <<phase, wait, backoff, ping_tick, dead, lease_tick>> /\ UNCHANGED hubVars
          /\ UNCHANGED netVars /\ UNCHANGED envVars /\ UNCHANGED ghostVars
      BY <1>1 DEF vars, tetherVars
    <2>2. /\ HubBound' = HubBound /\ TetherBound' = TetherBound /\ TetherRest' = TetherRest
          /\ (AtHub' <=> AtHub) /\ (InSession' <=> InSession)
      BY <2>1 DEF HubBound, TetherBound, TetherRest, AtHub, InSession, netVars, hubVars
    <2>3. Types' /\ AnswerInv' /\ ApartInv' /\ ConnectionInv' /\ HealthySessionRefreshes'
      BY <2>1, <2>2 DEF HeartInv, Types, AnswerInv, ApartInv, ConnectionInv, HealthySessionRefreshes,
                        Renewable, hubVars, netVars, envVars, ghostVars
    <2>4. (Unbegun => Unbegun') /\ (Begun => Begun')
      BY <2>1, <2>2 DEF Unbegun, Begun, Welcomed, Served, Heard, Renewable, hubVars, netVars
    <2>5. HealthyInv'
      BY <2>1, <2>4 DEF HeartInv, HealthyInv, Healthy, netVars, envVars, ghostVars
    <2> QED
      BY <2>3, <2>5 DEF HeartInv
  <1>2. CASE Faulty
    BY <1>2, NetworkFaultKeeps, WedgeKeeps, HubRestartsKeeps, TetherRestartsKeeps DEF Faulty
  <1> QED
    BY <1>1, <1>2, TetherKeeps, HubKeeps, TickKeeps DEF Next

\* The invariant of the two clocks.
LEMMA HeartInvHolds == Spec => []HeartInv
  BY HeartInit, HeartStep, PTL DEF Spec

\* A tether the registry would route to has answered within TETHER_SILENCE and
\* the delay of its answer: only a PONG refreshes last_seen, and only its loop
\* writes one.
THEOREM LoopAnswers == Spec => []RoutedLoopAnswers
  <1>1. HeartInv => RoutedLoopAnswers
    BY Durations DEF HeartInv, Types, AnswerInv, RoutedLoopAnswers, Routable
  <1> QED
    BY <1>1, HeartInvHolds, PTL

\* Whatever is lost, an end whose peer has left the session leaves it too, by
\* the timer the peer's frames no longer set.
THEOREM HalfOpenEnds == Spec => []HalfOpenSessionEnds
  <1>1. HeartInv => HalfOpenSessionEnds
    BY Durations DEF HeartInv, Types, ApartInv, HalfOpenSessionEnds
  <1> QED
    BY <1>1, HeartInvHolds, PTL

\* Without faults the refresh comes first: before the hub's deadline, and before
\* either end could take the other for dead.
THEOREM RefreshComesFirst == Spec => []HealthySessionRefreshes
  <1>1. HeartInv => HealthySessionRefreshes
    BY DEF HeartInv
  <1> QED
    BY <1>1, HeartInvHolds, PTL
-----------------------------------------------------------------------------
(* Recovery: how much of the longest outage is left *)

\* A new attempt at the worst: the longest sleep, a connection, HELLO and WELCOME.
Attempt == BackoffMax + 3 * Delay

\* Service may be missing for another n.
Room(n) == outage + n <= OutageLimit

Limits ==
    /\ backoff <= BackoffMax
    /\ phase = "sleeping" => wait <= BackoffMax
    /\ phase = "dialing" => wait <= ConnectTimeout
    /\ phase = "hello" => wait <= PingTimeout
    /\ outage \in Nat
    /\ ~Calm => outage = 0

\* The frames that end a session, or a handshake, at the tether.
Stops == {"Close", "GoAway"}
Told == \E f \in TetherBound : f.kind \in Stops
Welcoming == toTether # <<>> /\ toTether[1].kind = "Welcome"

\* A connection that still delivers to the tether has told it what the hub did.
ToldInv ==
    /\ "toTether" \notin cut =>
        /\ phase = "hello" => toHub # <<>> \/ (current /\ Welcoming) \/ Told
        /\ phase = "serving" => current \/ Told
    /\ current => ~Told
    /\ ~Connected => toTether = <<>>

\* The longest until the hub finds the tether silent.
Unheard == IF last_seen <= TetherSilence THEN TetherSilence + TetherTick - last_seen ELSE tick

\* Where a tether stands that has no service, and what it still takes.
Idle ==
    \/ phase = "sleeping" /\ Room(wait + 3 * Delay)
    \/ phase = "dialing" /\ Room(wait + Attempt)
    \/ /\ phase = "dialing" /\ ~hindered /\ ConnectTimeout <= wait + Delay
       /\ Room((wait + 3 * Delay) - ConnectTimeout)

\* ... with a connection on which the handshake goes on, ...
Greeted ==
    /\ phase = "hello" /\ cut = {}
    /\ \/ toHub # <<>> /\ Room(2 * Delay - toHub[1].age)
       \/ /\ current /\ Welcoming
          /\ \/ Healthy /\ Renewable(granted) /\ Room(Delay - toTether[1].age)
             \/ Room((2 * Delay - toTether[1].age) + Attempt)

\* ... or that it will take for dead, will hear the end of, or that the hub will end.
Lost ==
    \/ /\ phase = "hello" /\ ("toTether" \in cut \/ (toHub # <<>> /\ "toHub" \in cut))
       /\ Room(wait + Attempt)
    \/ phase = "serving" /\ "toTether" \in cut /\ Room(dead + Attempt)
    \/ /\ Connected /\ "toTether" \notin cut
       /\ \E f \in TetherBound : f.kind \in Stops /\ Room((Delay - f.age) + Attempt)
    \/ /\ Connected /\ cut = {"toHub"} /\ current /\ (phase = "hello" => Welcoming)
       /\ Room(Unheard + Delay + Attempt)

\* A session that has just come back ends by its refresh alone, or leaves time to
\* notice its end and try again.
Renewed == Healthy /\ Renewable(granted) /\ lease_tick > 0
RecoveryInv ==
    Calm => IF Working THEN Room(Delay + Attempt) \/ Renewed ELSE Idle \/ Greeted \/ Lost

\* The slower end notices in time for a whole attempt.
LEMMA Slack ==
    /\ Attempt \in Nat /\ 3 * Delay <= Attempt /\ OutageLimit \in Nat
    /\ PingTimeout + Attempt <= OutageLimit /\ ConnectTimeout + Attempt <= OutageLimit
    /\ TetherSilence + TetherTick + Delay + Attempt <= OutageLimit
    /\ 2 * Delay + Attempt <= OutageLimit
    /\ BackoffMin <= BackoffMax
  <1> DEFINE slower == Greater(PingTimeout, TetherSilence + TetherTick + Delay)
  <1>1. /\ slower \in Nat /\ PingTimeout <= slower /\ TetherSilence + TetherTick + Delay <= slower
        /\ ConnectTimeout <= slower
    BY Durations, RecoveryAssumption DEF Greater
  <1>2. OutageLimit = slower + BackoffMax + 3 * Delay
    BY DEF OutageLimit
  <1>3. BackoffMin <= BackoffMax
    BY DurationsAssumption
  <1> HIDE DEF slower
  <1> QED
    BY <1>1, <1>2, <1>3, Durations DEF Attempt

\* With no outage behind it, a tether has all the time it may need.
LEMMA Afresh ==
    ASSUME HeartInv', Limits', ToldInv', outage' = 0
    PROVE  RecoveryInv'
  <1> SUFFICES ASSUME Calm' PROVE RecoveryInv'
    BY DEF RecoveryInv
  <1>1. /\ wait' \in Nat /\ dead' \in 0..PingTimeout /\ last_seen' \in Nat /\ tick' \in Nat
        /\ phase' \in {"sleeping", "dialing", "hello", "serving"}
        /\ cut' \subseteq {"toHub", "toTether"}
    BY DEF HeartInv, Types
  <1>2. \A f \in TetherBound' : f.age \in 0..Delay
    <2>1. \A f \in Frame : f.age \in 0..Delay
      BY DEF Frame
    <2>2. toTether' \in Seq(Frame)
      BY DEF HeartInv, Types
    <2> QED
      BY <2>1, <2>2 DEF TetherBound
  <1>3. ASSUME NEW n \in Int, n <= 2 * Delay \/ n <= Attempt \/ n <= 2 * Delay + Attempt \/ n <= PingTimeout + Attempt
                             \/ n <= ConnectTimeout + Attempt
                             \/ n <= TetherSilence + TetherTick + Delay + Attempt
        PROVE  Room(n)'
    <2>1. 0 + n <= OutageLimit
      BY <1>3, Slack, Durations
    <2> QED
      BY <2>1 DEF Room
  <1>4. Room(Delay + Attempt)'
    <2>1. Delay + Attempt \in Int /\ Delay + Attempt <= 2 * Delay + Attempt
      BY Slack, Durations
    <2> QED
      BY <1>3, <2>1
  <1>9. ASSUME NEW n \in Nat, NEW m \in Nat, NEW w \in Nat, w <= m PROVE w + n \in Int /\ w + n <= m + n
    BY <1>9
  <1>5. CASE phase' = "sleeping"
    <2>1. wait' <= BackoffMax
      BY <1>5 DEF Limits
    <2>2. wait' + 3 * Delay \in Int /\ wait' + 3 * Delay <= Attempt
      <3>1. 3 * Delay \in Nat
        BY Durations
      <3> QED
        BY <1>1, <1>9, <2>1, <3>1, Durations DEF Attempt
    <2> QED
      BY <1>3, <1>5, <2>2 DEF RecoveryInv, Working, InSession, Idle, Room
  <1>6. CASE phase' = "dialing"
    <2>1. wait' <= ConnectTimeout
      BY <1>6 DEF Limits
    <2>2. wait' + Attempt \in Int /\ wait' + Attempt <= ConnectTimeout + Attempt
      BY <1>1, <1>9, <2>1, Slack, Durations
    <2> QED
      BY <1>3, <1>6, <2>2 DEF RecoveryInv, Working, InSession, Idle, Room
  <1>10. ASSUME AtHub' PROVE Room(Unheard + Delay + Attempt)'
    <2>1. Unheard' \in Nat /\ Unheard' <= TetherSilence + TetherTick
      <3>1. last_seen' + tick' <= TetherSilence + TetherTick
        BY <1>10 DEF HeartInv, ApartInv
      <3>2. ASSUME NEW l \in Nat, NEW t \in Nat, l + t <= TetherSilence + TetherTick
            PROVE  /\ t \in Nat /\ t <= TetherSilence + TetherTick
                   /\ l <= TetherSilence => /\ (TetherSilence + TetherTick) - l \in Nat
                                            /\ (TetherSilence + TetherTick) - l <= TetherSilence + TetherTick
        BY <3>2, Durations
      <3>3. /\ tick' \in Nat /\ tick' <= TetherSilence + TetherTick
            /\ last_seen' <= TetherSilence =>
                 /\ (TetherSilence + TetherTick) - last_seen' \in Nat
                 /\ (TetherSilence + TetherTick) - last_seen' <= TetherSilence + TetherTick
        BY <1>1, <3>1, <3>2
      <3>4. CASE last_seen' <= TetherSilence
        <4>1. Unheard' = (TetherSilence + TetherTick) - last_seen'
          BY <1>1, <3>4, Durations DEF Unheard
        <4> QED
          BY <3>3, <3>4, <4>1
      <3>5. CASE ~(last_seen' <= TetherSilence)
        BY <3>3, <3>5 DEF Unheard
      <3> QED
        BY <3>4, <3>5
    <2>2. ASSUME NEW u \in Nat, u <= TetherSilence + TetherTick
          PROVE  u + Delay + Attempt \in Int /\ u + Delay + Attempt <= TetherSilence + TetherTick + Delay + Attempt
      BY <2>2, Slack, Durations
    <2> QED
      BY <1>3, <2>1, <2>2 DEF Room
  <1>7. CASE "toTether" \notin cut' /\ Connected' /\ Told'
    <2>1. PICK f \in TetherBound' : f.kind \in Stops
      BY <1>7 DEF Told
    <2>2. (Delay - f.age) + Attempt \in Int /\ (Delay - f.age) + Attempt <= 2 * Delay + Attempt
      BY <1>2, Slack, Durations
    <2>3. Lost'
      BY <1>3, <1>7, <2>1, <2>2 DEF Lost, Room
    <2> QED
      BY <1>4, <2>3 DEF RecoveryInv
  <1>8. CASE phase' = "hello" /\ ~("toTether" \notin cut' /\ Told')
    <2>1. wait' <= PingTimeout
      BY <1>8 DEF Limits
    <2>2. wait' + Attempt \in Int /\ wait' + Attempt <= PingTimeout + Attempt
      BY <1>1, <1>9, <2>1, Slack, Durations
    <2>3. CASE "toTether" \in cut' \/ (toHub' # <<>> /\ "toHub" \in cut')
      BY <1>3, <1>8, <2>2, <2>3 DEF RecoveryInv, Working, InSession, Lost, Room
    <2>4. CASE toHub' # <<>> /\ cut' = {}
      <3>1. toHub'[1].age \in 0..Delay
        <4>1. toHub'[1] \in Frame
          <5>1. toHub' \in Seq(Frame)
            BY DEF HeartInv, Types
          <5> QED
            BY <2>4, <5>1
        <4> QED
          BY <4>1 DEF Frame
      <3>2. 2 * Delay - toHub'[1].age \in Int /\ 2 * Delay - toHub'[1].age <= 2 * Delay
        BY <3>1, Durations
      <3> QED
        BY <1>3, <1>8, <2>4, <3>2 DEF RecoveryInv, Working, InSession, Greeted, Room
    <2>5. CASE current' /\ Welcoming' /\ "toTether" \notin cut'
      <3>1. toTether'[1].age \in 0..Delay
        <4>1. toTether'[1] \in Frame
          <5>1. toTether' \in Seq(Frame)
            BY DEF HeartInv, Types
          <5> QED
            BY <2>5, <5>1 DEF Welcoming
        <4> QED
          BY <4>1 DEF Frame
      <3>2. CASE cut' = {}
        <4>1. /\ (2 * Delay - toTether'[1].age) + Attempt \in Int
              /\ (2 * Delay - toTether'[1].age) + Attempt <= 2 * Delay + Attempt
          BY <3>1, Slack, Durations
        <4> QED
          BY <1>3, <1>8, <2>5, <3>2, <4>1 DEF RecoveryInv, Working, InSession, Greeted, Room
      <3>3. CASE cut' = {"toHub"}
        <4>1. AtHub'
          BY <2>5 DEF HeartInv, ConnectionInv
        <4>2. ~Working' /\ Lost'
          BY <1>8, <1>10, <2>5, <3>3, <4>1 DEF Working, InSession, Connected, Lost
        <4> QED
          BY <4>2 DEF RecoveryInv
      <3> QED
        BY <1>1, <2>5, <3>2, <3>3
    <2> QED
      BY <1>1, <1>8, <2>3, <2>4, <2>5 DEF ToldInv
  <1>11. CASE phase' = "serving" /\ ~("toTether" \notin cut' /\ Told')
    <2>1. CASE "toTether" \in cut'
      <3>1. ASSUME NEW n \in 0..PingTimeout PROVE n + Attempt \in Int /\ n + Attempt <= PingTimeout + Attempt
        BY Slack, Durations
      <3> QED
        BY <1>1, <1>3, <1>11, <2>1, <3>1 DEF RecoveryInv, Working, Lost, Room
    <2>2. CASE "toTether" \notin cut'
      <3>1. current' /\ AtHub'
        BY <1>11, <2>2 DEF ToldInv, HeartInv, ConnectionInv
      <3>2. CASE cut' = {}
        BY <1>4, <1>11, <3>1, <3>2 DEF RecoveryInv, Working, InSession, Calm
      <3>3. CASE cut' = {"toHub"}
        BY <1>10, <1>11, <3>1, <3>3 DEF RecoveryInv, Working, InSession, Connected, Lost
      <3> QED
        BY <1>1, <2>2, <3>2, <3>3
    <2> QED
      BY <2>1, <2>2
  <1> QED
    BY <1>1, <1>5, <1>6, <1>7, <1>8, <1>11 DEF Connected

\* What takes less has room too.
LEMMA LessRoom ==
    ASSUME Limits, NEW m \in Int, NEW n \in Int, n <= m, Room(m)
    PROVE  Room(n)
  BY Slack DEF Limits, Room

\* A session, or a handshake, that ends at the tether leaves room for an attempt.
LEMMA TetherLeavesRecovers ==
    ASSUME HeartInv, HeartInv', Limits, RecoveryInv, Calm, Connected, NEW last,
           NEW reason \in {"dead", "closed", "refresh"}, TetherLeaves(reason, last),
           reason = "refresh" => InSession /\ lease_tick = 0,
           phase = "hello" /\ cut = {} => toHub = <<>>
    PROVE  RecoveryInv'
  <1>1. /\ phase' = "sleeping" /\ wait' = backoff /\ outage' = outage
        /\ why' = IF Healthy THEN reason ELSE why
        /\ granted' = granted
    BY DEF TetherLeaves, Sleeps, Ended, Healthy, hubVars
  <1>2. Healthy /\ Renewable(granted) => reason = "refresh"
    BY <1>1 DEF HeartInv, HealthySessionRefreshes, Renewable
  <1>3. /\ wait \in Nat /\ dead \in Nat /\ last_seen \in Nat /\ tick \in Nat /\ backoff \in Nat
        /\ \A f \in TetherBound : f.age \in 0..Delay
        /\ toTether # <<>> => toTether[1].age \in 0..Delay
    <2>1. Types
      BY DEF HeartInv
    <2>2. \A f \in TetherBound : f.age \in 0..Delay
      BY <2>1, Bound
    <2> QED
      BY <2>1, <2>2, Bound DEF Types
  <1>4. ASSUME NEW n \in Nat, Room(n + Attempt) PROVE Room(Attempt)
    BY <1>4, LessRoom, Slack
  <1>5. Room(Attempt)
    <2>1. CASE Working
      <3>1. ~Renewed
        BY <1>2, <2>1 DEF Renewed, Working
      <3>2. Room(Delay + Attempt)
        BY <2>1, <3>1 DEF RecoveryInv
      <3> QED
        BY <1>4, <3>2, Durations
    <2>2. CASE Greeted
      <3>1. current /\ Welcoming /\ Room((2 * Delay - toTether[1].age) + Attempt)
        BY <1>2, <2>2 DEF Greeted, InSession
      <3>2. 2 * Delay - toTether[1].age \in Nat
        BY <1>3, <3>1, Durations DEF Welcoming
      <3> QED
        BY <1>4, <3>1, <3>2
    <2>3. CASE Lost
      <3>1. CASE Room(wait + Attempt) \/ Room(dead + Attempt)
        BY <1>3, <1>4, <3>1
      <3>2. ASSUME NEW f \in TetherBound, Room((Delay - f.age) + Attempt) PROVE Room(Attempt)
        <4>1. Delay - f.age \in Nat
          BY <1>3, Durations
        <4> QED
          BY <1>4, <3>2, <4>1
      <3>3. CASE Room(Unheard + Delay + Attempt)
        <4>1. Unheard \in Nat
          BY <1>3, Durations DEF Unheard
        <4>2. Unheard + Delay \in Nat
          BY <4>1, Durations
        <4> QED
          BY <1>4, <3>3, <4>2
      <3> QED
        BY <2>3, <3>1, <3>2, <3>3 DEF Lost
    <2>4. ~Idle
      BY DEF Idle, Connected
    <2> QED
      BY <2>1, <2>2, <2>3, <2>4 DEF RecoveryInv
  <1>6. Room(wait + 3 * Delay)'
    <2>1. backoff <= BackoffMax
      BY DEF Limits
    <2>2. backoff + 3 * Delay \in Int /\ backoff + 3 * Delay <= Attempt /\ Attempt \in Int
      BY <1>3, <2>1, Slack, Durations DEF Attempt
    <2>3. Room(backoff + 3 * Delay)
      BY <1>5, <2>2, LessRoom
    <2> QED
      BY <1>1, <2>3 DEF Room
  <1> QED
    BY <1>1, <1>6 DEF RecoveryInv, Working, InSession, Idle

\* What the hub says in time to end a session leaves room for an attempt.
LEMMA HubLeavesRecovers ==
    ASSUME HeartInv, HeartInv', Limits, RecoveryInv, Calm, AtHub,
           NEW reason \in {"expired", "closed", "silent"}, HubLeaves(reason),
           toHub' = toHub \/ current
    PROVE  RecoveryInv'
  <1>1. /\ UNCHANGED <<phase, wait, hindered, dead, cut, outage, granted>>
        /\ session' = "none"
        /\ why' = IF Healthy THEN reason ELSE why
        /\ toTether' = IF current /\ Connected THEN Put(toTether, "Close") ELSE toTether
    BY DEF HubLeaves, ToTether, Ended, Healthy, tetherVars
  <1>2. ~(Healthy /\ Renewable(granted))
    BY <1>1 DEF HeartInv, HealthySessionRefreshes, Renewable
  <1>3. ASSUME NEW n \in Int PROVE Room(n)' <=> Room(n)
    BY <1>1 DEF Room
  <1>4. ~Working' /\ (Connected' <=> Connected)
    BY <1>1 DEF Working, AtHub, Connected
  <1>5. /\ wait \in Nat /\ dead \in Nat /\ last_seen \in Nat /\ tick \in Nat
        /\ toTether # <<>> => toTether[1].age \in 0..Delay
    <2>1. Types
      BY DEF HeartInv
    <2> QED
      BY <2>1, Bound DEF Types
  <1>6. TetherBound \subseteq TetherBound'
    <2>1. CASE toTether' = Put(toTether, "Close")
      BY <2>1, TetherPut DEF HeartInv, Kinds
    <2>2. CASE toTether' = toTether
      BY <2>2 DEF TetherBound
    <2> QED
      BY <1>1, <2>1, <2>2
  <1>7. ASSUME current, Connected, "toTether" \notin cut, NEW n \in Nat, Room(n + Delay + Attempt)
        PROVE  Lost'
    <2>1. Room(Delay + Attempt)
      BY <1>7, LessRoom, Slack, Durations
    <2> DEFINE close == [kind |-> "Close", age |-> 0]
    <2>2. close \in TetherBound' /\ close.kind \in Stops /\ close.age = 0
      BY <1>1, <1>7, TetherPut DEF HeartInv, Kinds, Stops
    <2> HIDE DEF close
    <2>3. (Delay - close.age) + Attempt = Delay + Attempt
      BY <2>2, Durations
    <2>4. Room((Delay - close.age) + Attempt)'
      BY <1>1, <2>1, <2>2, <2>3 DEF Room
    <2> QED
      BY <1>1, <1>4, <1>7, <2>2, <2>4 DEF Lost
  <1>8. current /\ phase = "hello" => toHub = <<>>
    BY DEF HeartInv, ConnectionInv
  <1>9. CASE Idle
    <2>1. Idle'
      BY <1>1, <1>9 DEF Idle, Room
    <2> QED
      BY <1>4, <2>1 DEF RecoveryInv
  <1>10. CASE Working
    <2>1. Room(Delay + Attempt)
      BY <1>2, <1>10 DEF RecoveryInv, Renewed
    <2>2. Room(0 + Delay + Attempt)
      BY <2>1, Slack, Durations DEF Room
    <2> QED
      BY <1>4, <1>7, <1>10, <2>2 DEF Working, InSession, Connected, RecoveryInv
  <1>11. CASE Greeted
    <2>1. CASE current
      <3>1. Welcoming /\ Room((2 * Delay - toTether[1].age) + Attempt)
        BY <1>2, <1>8, <1>11, <2>1 DEF Greeted
      <3>2. Delay - toTether[1].age \in Nat
        BY <1>5, <3>1, Durations DEF Welcoming
      <3>3. (2 * Delay - toTether[1].age) + Attempt = (Delay - toTether[1].age) + Delay + Attempt
        BY <1>5, <3>1, Slack, Durations DEF Welcoming
      <3> QED
        BY <1>4, <1>7, <1>11, <2>1, <3>1, <3>2, <3>3 DEF Greeted, Connected, RecoveryInv
    <2>2. CASE ~current
      <3>1. toHub # <<>> /\ Room(2 * Delay - toHub[1].age) /\ toHub' = toHub
        BY <1>11, <2>2 DEF Greeted
      <3>2. Greeted'
        BY <1>1, <1>11, <3>1 DEF Greeted, Room
      <3> QED
        BY <1>4, <3>2 DEF RecoveryInv
    <2> QED
      BY <2>1, <2>2
  <1>12. CASE Lost
    <2>1. CASE Connected /\ cut = {"toHub"} /\ current /\ Room(Unheard + Delay + Attempt)
      <3>1. Unheard \in Nat
        BY <1>5, Durations DEF Unheard
      <3> QED
        BY <1>4, <1>7, <2>1, <3>1 DEF RecoveryInv
    <2>2. CASE ~(Connected /\ cut = {"toHub"} /\ current /\ Room(Unheard + Delay + Attempt))
      <3>1. Lost'
        BY <1>1, <1>4, <1>6, <1>8, <1>12, <2>2 DEF Lost, Room
      <3> QED
        BY <1>4, <3>1 DEF RecoveryInv
    <2> QED
      BY <2>1, <2>2
  <1> QED
    BY <1>9, <1>10, <1>11, <1>12 DEF RecoveryInv

\* A step that reads nothing on its way to the tether, and sets none of its
\* timers, takes nothing from what is left.
LEMMA StaysRecovering ==
    ASSUME HeartInv, RecoveryInv,
           UNCHANGED <<phase, wait, hindered, dead, lease_tick, session, current, granted, cut, reach,
                       active, wedged, clean, why, outage>>,
           toTether' = toTether \/ \E k \in Kinds : toTether' = Put(toTether, k),
           phase = "hello" => toHub' = toHub,
           cut = {"toHub"} => Unheard' = Unheard
    PROVE  RecoveryInv'
  <1>1. /\ TetherBound \subseteq TetherBound'
        /\ toTether # <<>> => toTether' # <<>> /\ toTether'[1] = toTether[1]
    <2>1. CASE toTether' = toTether
      BY <2>1 DEF TetherBound
    <2>2. ASSUME NEW k \in Kinds, toTether' = Put(toTether, k)
          PROVE  /\ TetherBound \subseteq TetherBound'
                 /\ toTether # <<>> => toTether' # <<>> /\ toTether'[1] = toTether[1]
      BY <2>2, TetherPut DEF HeartInv
    <2> QED
      BY <2>1, <2>2
  <1>2. /\ (Calm' <=> Calm) /\ (Working' <=> Working) /\ (Connected' <=> Connected)
        /\ (Renewed' <=> Renewed) /\ (Healthy' <=> Healthy) /\ (Renewable(granted)' <=> Renewable(granted))
    BY DEF Calm, Working, InSession, AtHub, Connected, Renewed, Healthy, Renewable
  <1>3. Idle => Idle'
    BY DEF Idle, Room
  <1>4. Greeted => Greeted'
    BY <1>1, <1>2 DEF Greeted, Welcoming, Room
  <1>5. Lost => Lost'
    BY <1>1, <1>2 DEF Lost, Welcoming, Room
  <1>6. Room(Delay + Attempt) => Room(Delay + Attempt)'
    BY DEF Room
  <1> QED
    BY <1>2, <1>3, <1>4, <1>5, <1>6 DEF RecoveryInv

\* Timers only run down.
LEMMA TickLimits ==
    ASSUME HeartInv, Limits, Tick
    PROVE  Limits'
  <1>1. /\ wait' = Less(wait) /\ UNCHANGED <<phase, backoff, reach, active, wedged>>
        /\ outage' = IF Working \/ ~Calm THEN 0 ELSE More(outage, OutageLimit + 1)
    BY DEF Tick, envVars
  <1>2. wait \in Nat
    BY DEF HeartInv, Types
  <1>3. wait' \in Nat /\ wait' <= wait
    BY <1>1, <1>2 DEF Less
  <1>4. ASSUME NEW m \in Nat, wait <= m PROVE wait' <= m
    BY <1>2, <1>3, <1>4
  <1>5. outage' \in Nat
    BY <1>1, Slack DEF More, Lesser, Limits
  <1>6. ~Calm' => outage' = 0
    BY <1>1 DEF Calm
  <1>7. /\ phase = "sleeping" => wait <= BackoffMax
        /\ phase = "dialing" => wait <= ConnectTimeout
        /\ phase = "hello" => wait <= PingTimeout
        /\ backoff <= BackoffMax
    BY DEF Limits
  <1>8. BackoffMax \in Nat /\ ConnectTimeout \in Nat /\ PingTimeout \in Nat
    BY Durations
  <1>9. phase' = phase /\ backoff' = backoff
    BY <1>1
  <1> QED
    BY <1>4, <1>5, <1>6, <1>7, <1>8, <1>9 DEF Limits

\* A tether that restarts dials, with the shortest sleep ahead of it.
LEMMA RestartLimits ==
    ASSUME phase' = "dialing", wait' = ConnectTimeout, backoff' = BackoffMin, outage' = 0
    PROVE  Limits'
  <1>1. BackoffMin <= BackoffMax /\ ConnectTimeout <= ConnectTimeout
    BY Slack, Durations
  <1> QED
    BY <1>1 DEF Limits

\* Every step keeps the timers within what they are set to.
LEMMA LimitsStep == HeartInv /\ Limits /\ [Next]_vars => Limits'
  <1> SUFFICES ASSUME HeartInv, Limits, [Next]_vars PROVE Limits'
    OBVIOUS
  <1> USE DEF Limits
  <1>1. /\ wait \in Nat /\ backoff \in Nat /\ BackoffMin <= BackoffMax /\ wedged => InSession
        /\ phase \in {"sleeping", "dialing", "hello", "serving"}
    BY Slack DEF HeartInv, Types, ApartInv
  <1>2. ASSUME Sleeps, UNCHANGED <<reach, active, wedged, outage>> PROVE Limits'
    <2>1. phase' = "sleeping" /\ wait' = backoff /\ backoff' <= BackoffMax
      BY <1>1, <1>2, Durations DEF Sleeps, Lesser
    <2> QED
      BY <1>2, <2>1 DEF Calm
  <1>3. ASSUME UNCHANGED <<phase, wait, backoff, reach, active, wedged, outage>> PROVE Limits'
    BY <1>3 DEF Calm
  <1>4. ASSUME NEW reason, NEW last, TetherLeaves(reason, last) PROVE Limits'
    BY <1>2, <1>4 DEF TetherLeaves, envVars
  <1>5. CASE Tether
    <2>1. CASE Dials
      <3>1. ConnectTimeout <= ConnectTimeout
        BY Durations
      <3> QED
        BY <2>1, <3>1 DEF Dials, Calm, envVars, ghostVars
    <2>2. CASE DialFails
      BY <1>2, <2>2 DEF DialFails, envVars, ghostVars
    <2>3. CASE DialSucceeds
      <3>1. PingTimeout <= PingTimeout
        BY Durations
      <3> QED
        BY <2>3, <3>1 DEF DialSucceeds, Calm, envVars, ghostVars
    <2>4. CASE HelloTimesOut \/ LeaseTick \/ DeadFires
      BY <1>4, <2>4 DEF HelloTimesOut, LeaseTick, DeadFires
    <2>5. CASE TetherHandshake
      <3>1. CASE TetherLeaves("closed", "none")
        BY <1>4, <3>1
      <3>2. CASE phase' = "serving" /\ UNCHANGED <<backoff, envVars, outage>>
        BY <3>2 DEF Calm, envVars
      <3> QED
        BY <2>5, <3>1, <3>2 DEF TetherHandshake
    <2>6. CASE TetherReceives
      <3>1. CASE TetherLeaves("closed", "none")
        BY <1>4, <3>1
      <3>2. CASE UNCHANGED <<phase, wait, backoff, envVars, outage>>
        BY <1>3, <3>2 DEF envVars
      <3> QED
        BY <2>6, <3>1, <3>2 DEF TetherReceives
    <2>7. CASE PingTick \/ PumpWrites
      BY <1>3, <2>7 DEF PingTick, PumpWrites, tetherVars, envVars, ghostVars
    <2> QED
      BY <1>5, <2>1, <2>2, <2>3, <2>4, <2>5, <2>6, <2>7 DEF Tether
  <1>6. CASE Hub
    <2>1. ASSUME NEW reason, HubLeaves(reason) PROVE Limits'
      BY <1>3, <2>1 DEF HubLeaves, tetherVars, envVars
    <2>2. ASSUME NEW lease \in {ShortLease, Lease}, Greets(lease) PROVE Limits'
      <3>1. /\ UNCHANGED <<phase, wait, backoff, reach, active, wedged>>
            /\ outage' = outage \/ outage' = 0
        BY <2>2 DEF Greets, tetherVars
      <3> QED
        BY <3>1 DEF Calm
    <2>3. CASE Refuses \/ LeaseDeadline \/ HubDrops \/ HubWrites
      BY <1>3, <2>1, <2>3 DEF Refuses, LeaseDeadline, HubDrops, HubWrites, tetherVars, envVars, ghostVars
    <2>4. CASE HubTick \/ HubReceives
      BY <1>3, <2>1, <2>4 DEF HubTick, HubReceives, tetherVars, envVars, ghostVars
    <2> QED
      BY <1>6, <2>2, <2>3, <2>4 DEF Hub
  <1>7. CASE Faulty
    <2>1. outage' = 0
      BY <1>7 DEF Faulty, Cut, ReachChanges, ActiveChanges, WedgeChanges, HubRestarts, TetherRestarts, Fault
    <2>2. CASE TetherRestarts
      <3>1. phase' = "dialing" /\ wait' = ConnectTimeout /\ backoff' = BackoffMin
        BY <2>2 DEF TetherRestarts
      <3> QED
        BY <2>1, <3>1, RestartLimits
    <2>3. CASE ~TetherRestarts
      <3>1. UNCHANGED <<phase, wait, backoff>>
        BY <1>7, <2>3 DEF Faulty, Cut, ReachChanges, ActiveChanges, WedgeChanges, HubRestarts, tetherVars
      <3> QED
        BY <2>1, <3>1
    <2> QED
      BY <2>2, <2>3
  <1>9. CASE UNCHANGED vars
    BY <1>3, <1>9 DEF vars, tetherVars, envVars, ghostVars
  <1> QED
    BY <1>5, <1>6, <1>7, <1>9, TickLimits DEF Next

\* Frames of a session in service, or none, change nothing of that.
LEMMA ToldStays ==
    ASSUME HeartInv, ToldInv, UNCHANGED <<phase, current>>, cut \subseteq cut',
           toTether' = toTether \/ (Connected /\ \E k \in Live : toTether' = Put(toTether, k)),
           phase = "hello" => toHub' = toHub
    PROVE  ToldInv'
  <1>1. CASE toTether' = toTether
    <2>1. (Told' <=> Told) /\ (Welcoming' <=> Welcoming) /\ (Connected' <=> Connected)
      BY <1>1 DEF Told, TetherBound, Welcoming, Connected
    <2> QED
      BY <1>1, <2>1 DEF ToldInv
  <1>2. ASSUME Connected, NEW k \in Live, toTether' = Put(toTether, k) PROVE ToldInv'
    <2>1. k \in Kinds /\ k \notin Stops
      BY DEF Live, Kinds, Stops
    <2>2. /\ TetherBound' = TetherBound \cup {[kind |-> k, age |-> 0]}
          /\ toTether' # <<>> /\ (toTether # <<>> => toTether'[1] = toTether[1])
      BY <1>2, <2>1, TetherPut DEF HeartInv
    <2>3. (Told' <=> Told) /\ (Welcoming => Welcoming') /\ Connected'
      BY <1>2, <2>1, <2>2, New DEF Told, Welcoming, Connected
    <2> QED
      BY <2>3 DEF ToldInv
  <1> QED
    BY <1>1, <1>2

\* An end the hub comes to is told over the connection the tether uses.
LEMMA ToldHubLeaves ==
    ASSUME HeartInv, ToldInv, NEW reason, HubLeaves(reason), toHub' = toHub \/ current
    PROVE  ToldInv'
  <1>1. /\ ~current' /\ UNCHANGED <<phase, cut>>
        /\ toTether' = IF current /\ Connected THEN Put(toTether, "Close") ELSE toTether
    BY DEF HubLeaves, ToTether, tetherVars
  <1>2. Connected' <=> Connected
    BY <1>1 DEF Connected
  <1>3. CASE current /\ Connected
    <2>1. [kind |-> "Close", age |-> 0] \in TetherBound'
      BY <1>1, <1>3, TetherPut DEF HeartInv, Kinds
    <2>2. Told'
      BY <2>1 DEF Told, Stops
    <2> QED
      BY <1>1, <1>2, <1>3, <2>2 DEF ToldInv
  <1>4. CASE ~(current /\ Connected)
    <2>1. toTether' = toTether
      BY <1>1, <1>4
    <2>2. Told' <=> Told
      BY <2>1 DEF Told, TetherBound
    <2>3. Connected => ~current /\ toHub' = toHub
      BY <1>4
    <2> QED
      BY <1>1, <1>2, <2>1, <2>2, <2>3 DEF ToldInv, Connected
  <1> QED
    BY <1>3, <1>4

\* Every step keeps the tether told.
LEMMA ToldStep == HeartInv /\ ToldInv /\ [Next]_vars => ToldInv'
  <1> SUFFICES ASSUME HeartInv, ToldInv, [Next]_vars PROVE ToldInv'
    OBVIOUS
  <1>1. ASSUME phase' \in {"sleeping", "dialing"}, toTether' = <<>> PROVE ToldInv'
    <2>1. ~Told'
      BY <1>1 DEF Told, TetherBound
    <2> QED
      BY <1>1, <2>1 DEF ToldInv
  <1>2. ASSUME NEW reason, NEW last, TetherLeaves(reason, last) PROVE ToldInv'
    BY <1>1, <1>2 DEF TetherLeaves, Sleeps
  <1>3. ASSUME Connected, toTether # <<>>, toTether' = Tail(toTether), Head(toTether).kind \notin Stops,
               phase = "hello" => toHub = <<>>, phase' = "serving", UNCHANGED <<cut, current>>
        PROVE  ToldInv'
    <2>1. /\ Head(toTether) = toTether[1] /\ TetherBound = {toTether[1]} \cup TetherRest
          /\ TetherBound' = TetherRest
      BY <1>3, TetherRead DEF HeartInv
    <2>2. Told' <=> Told
      BY <1>3, <2>1 DEF Told
    <2>3. Connected'
      BY <1>3 DEF Connected
    <2>4. "toTether" \notin cut => current \/ Told
      BY <1>3 DEF ToldInv, Connected
    <2> QED
      BY <1>3, <2>2, <2>3, <2>4 DEF ToldInv
  <1>4. CASE Tether
    <2>1. CASE Dials \/ DialFails
      <3>1. ~Connected /\ toTether' = toTether /\ phase' \in {"sleeping", "dialing"}
        BY <2>1 DEF Dials, DialFails, Sleeps, Connected, netVars
      <3> QED
        BY <1>1, <3>1 DEF ToldInv
    <2>2. CASE DialSucceeds
      <3>1. phase' = "hello" /\ toHub' # <<>> /\ ~current'
        <4>1. <<>> \in Seq(Frame) /\ "Hello" \in Kinds
          BY DEF Kinds
        <4> QED
          BY <2>2, <4>1, Puts DEF DialSucceeds
      <3> QED
        BY <3>1 DEF ToldInv, Connected
    <2>3. CASE HelloTimesOut \/ LeaseTick \/ DeadFires
      BY <1>2, <2>3 DEF HelloTimesOut, LeaseTick, DeadFires
    <2>4. CASE TetherHandshake
      <3>1. CASE TetherLeaves("closed", "none")
        BY <1>2, <3>1
      <3>2. CASE Head(toTether).kind = "Welcome" /\ phase' = "serving" /\ toTether' = Tail(toTether)
                 /\ UNCHANGED <<hubVars, cut>>
        <4>1. phase = "hello" /\ toTether # <<>> /\ toHub = <<>>
          BY <2>4 DEF TetherHandshake, HeartInv, ConnectionInv
        <4> QED
          BY <1>3, <3>2, <4>1 DEF Connected, Stops, hubVars
      <3> QED
        BY <2>4, <3>1, <3>2 DEF TetherHandshake
    <2>5. CASE PingTick \/ PumpWrites
      <3>1. UNCHANGED <<phase, current, cut, toTether>> /\ phase # "hello"
        BY <2>5 DEF PingTick, PumpWrites, LoopRuns, InSession, tetherVars, hubVars
      <3> QED
        BY <3>1, ToldStays
    <2>6. CASE TetherReceives
      <3>1. CASE TetherLeaves("closed", "none")
        BY <1>2, <3>1
      <3>2. CASE Head(toTether).kind \in Live /\ toTether' = Tail(toTether)
                 /\ UNCHANGED <<phase, hubVars, cut>>
        <4>1. phase = "serving" /\ toTether # <<>>
          BY <2>6 DEF TetherReceives, LoopRuns, InSession
        <4> QED
          BY <1>3, <3>2, <4>1 DEF Connected, Stops, Live, hubVars
      <3> QED
        BY <2>6, <3>1, <3>2 DEF TetherReceives, Live
    <2> QED
      BY <1>4, <2>1, <2>2, <2>3, <2>4, <2>5, <2>6 DEF Tether
  <1>5. CASE Hub
    <2>1. ASSUME NEW lease \in {ShortLease, Lease}, Greets(lease) PROVE ToldInv'
      <3>1. /\ UNCHANGED <<phase, cut>> /\ current'
            /\ toTether' = IF Connected THEN Put(toTether, "Welcome") ELSE toTether
            /\ toHub # <<>> /\ Head(toHub).kind = "Hello" /\ toHub' = Tail(toHub)
        BY <2>1 DEF Greets, tetherVars
      <3>2. ~InSession /\ (phase = "hello" => toTether = <<>>)
        BY <3>1, HelloComes
      <3>3. CASE phase = "hello"
        <4> DEFINE welcome == [kind |-> "Welcome", age |-> 0]
        <4>1. /\ toTether' # <<>> /\ TetherBound' = TetherBound \cup {welcome} /\ toTether'[1] = welcome
              /\ TetherBound = {}
          BY <3>1, <3>2, <3>3, TetherPut DEF HeartInv, Kinds, Connected, TetherBound
        <4>2. Welcoming' /\ ~Told'
          BY <4>1 DEF Welcoming, Told, Stops
        <4> QED
          BY <3>1, <3>3, <4>2 DEF ToldInv, Connected
      <3>4. CASE phase # "hello"
        <4>1. ~Connected /\ toTether' = toTether /\ toTether = <<>>
          BY <3>1, <3>2, <3>4 DEF Connected, InSession, ToldInv
        <4>2. phase' \in {"sleeping", "dialing"}
          BY <3>1, <4>1 DEF Connected, HeartInv, Types
        <4> QED
          BY <1>1, <4>1, <4>2
      <3> QED
        BY <3>3, <3>4
    <2>2. CASE Refuses
      <3>1. /\ UNCHANGED <<phase, cut, current>> /\ toHub # <<>> /\ Head(toHub).kind = "Hello"
            /\ toTether' = IF Connected THEN Put(Put(toTether, "GoAway"), "Close") ELSE toTether
            /\ toHub' = Tail(toHub)
        BY <2>2 DEF Refuses, tetherVars, hubVars
      <3>2. ~InSession /\ (phase = "hello" => ~current)
        BY <3>1, HelloComes DEF HeartInv, ConnectionInv
      <3>3. CASE phase = "hello"
        <4>1. toTether \in Seq(Frame) /\ "GoAway" \in Kinds /\ "Close" \in Kinds
          BY DEF HeartInv, Types, Kinds
        <4>2. Put(toTether, "GoAway") \in Seq(Frame)
          BY <4>1, Puts
        <4>3. On(toTether') = On(Put(toTether, "GoAway")) \cup {[kind |-> "Close", age |-> 0]}
          BY <3>1, <3>3, <4>1, <4>2, Puts DEF Connected
        <4>4. [kind |-> "Close", age |-> 0] \in TetherBound'
          BY <4>3 DEF On, TetherBound
        <4>5. Told'
          BY <4>4 DEF Told, Stops
        <4> QED
          BY <3>1, <3>2, <3>3, <4>5 DEF ToldInv, Connected
      <3>4. CASE phase # "hello"
        <4>1. ~Connected /\ toTether' = toTether /\ toTether = <<>>
          BY <3>1, <3>2, <3>4 DEF Connected, InSession, ToldInv
        <4>2. phase' \in {"sleeping", "dialing"}
          BY <3>1, <4>1 DEF Connected, HeartInv, Types
        <4> QED
          BY <1>1, <4>1, <4>2
      <3> QED
        BY <3>3, <3>4
    <2>3. CASE LeaseDeadline
      BY <2>3, ToldHubLeaves DEF LeaseDeadline
    <2>4. CASE HubTick
      <3>1. CASE \E reason \in {"closed", "silent"} : HubLeaves(reason) /\ UNCHANGED toHub
        BY <3>1, ToldHubLeaves
      <3>2. CASE UNCHANGED <<phase, current, cut, toHub>> /\ (toTether' = ToTether("Ping") \/ toTether' = toTether)
        BY <3>2, ToldStays DEF ToTether, Live
      <3> QED
        BY <2>4, <3>1, <3>2 DEF HubTick, tetherVars
    <2>5. CASE HubReceives
      <3>1. current /\ toHub # <<>>
        BY <2>5 DEF HubReceives
      <3>2. phase # "hello"
        BY <3>1 DEF HeartInv, ConnectionInv
      <3>3. CASE HubLeaves("closed")
        BY <3>1, <3>3, ToldHubLeaves
      <3>4. CASE UNCHANGED <<phase, current, cut>> /\ (toTether' = ToTether("Pong") \/ toTether' = toTether)
        BY <3>2, <3>4, ToldStays DEF ToTether, Live
      <3> QED
        BY <2>5, <3>3, <3>4 DEF HubReceives, tetherVars
    <2>6. CASE HubDrops
      <3>1. UNCHANGED <<phase, current, cut, toTether>> /\ toHub # <<>> /\ Head(toHub).kind # "Hello"
        BY <2>6 DEF HubDrops, tetherVars, hubVars
      <3>2. phase # "hello"
        BY <3>1, Reads DEF HeartInv, ConnectionInv, Types
      <3> QED
        BY <3>1, <3>2, ToldStays
    <2>7. CASE HubWrites
      <3>1. /\ UNCHANGED <<phase, current, cut, toHub>> /\ Connected
            /\ toTether' = Put(toTether, "Data") /\ "Data" \in Live
        BY <2>7 DEF HubWrites, tetherVars, hubVars, Live
      <3> QED
        BY <3>1, ToldStays
    <2> QED
      BY <1>5, <2>1, <2>2, <2>3, <2>4, <2>5, <2>6, <2>7 DEF Hub
  <1>6. CASE Faulty
    <2>1. CASE ReachChanges \/ ActiveChanges \/ WedgeChanges \/ \E d \in {"toHub", "toTether"} : Cut(d)
      <3>1. UNCHANGED <<phase, current, toHub, toTether>> /\ cut \subseteq cut'
        BY <2>1 DEF Cut, ReachChanges, ActiveChanges, WedgeChanges, tetherVars, hubVars, netVars
      <3> QED
        BY <3>1, ToldStays
    <2>2. CASE HubRestarts
      <3>1. /\ ~current' /\ phase' = phase
            /\ \/ toTether' = (IF Connected THEN Put(toTether, "Close") ELSE toTether)
               \/ "toTether" \in cut' /\ toTether' = toTether
        BY <2>2 DEF HubRestarts, tetherVars
      <3>2. Connected' <=> Connected
        BY <3>1 DEF Connected
      <3>3. CASE Connected /\ toTether' = Put(toTether, "Close")
        <4>1. [kind |-> "Close", age |-> 0] \in TetherBound'
          BY <3>3, TetherPut DEF HeartInv, Kinds
        <4>2. Told'
          BY <4>1 DEF Told, Stops
        <4> QED
          BY <3>1, <3>2, <3>3, <4>2 DEF ToldInv
      <3>4. CASE toTether' = toTether /\ ("toTether" \in cut' \/ ~Connected)
        BY <3>1, <3>2, <3>4 DEF ToldInv, Connected
      <3> QED
        BY <3>1, <3>3, <3>4
    <2>3. CASE TetherRestarts
      BY <1>1, <2>3 DEF TetherRestarts
    <2> QED
      BY <1>6, <2>1, <2>2, <2>3 DEF Faulty
  <1>7. CASE Tick
    <2>1. toHub' = Aged(toHub) /\ toTether' = Aged(toTether) /\ UNCHANGED <<phase, current, cut>>
      BY <1>7 DEF Tick
    <2>2. /\ (toHub' = <<>> <=> toHub = <<>>) /\ (toTether' = <<>> <=> toTether = <<>>)
          /\ TetherBound' = {Older(f) : f \in TetherBound}
          /\ toTether # <<>> => toTether'[1] = Older(toTether[1]) /\ toTether[1] \in TetherBound
      BY <2>1, Travels, Bound DEF HeartInv
    <2>3. \A f \in TetherBound : Older(f).kind = f.kind
      BY Bound, Ages DEF HeartInv
    <2>4. (Told' <=> Told) /\ (Welcoming' <=> Welcoming) /\ (Connected' <=> Connected)
      BY <2>1, <2>2, <2>3 DEF Told, Welcoming, Connected
    <2> QED
      BY <2>1, <2>2, <2>4 DEF ToldInv
  <1>8. CASE UNCHANGED vars
    <2>1. UNCHANGED <<phase, current, cut, toHub, toTether>>
      BY <1>8 DEF vars, tetherVars, hubVars, netVars
    <2> QED
      BY <2>1, ToldStays
  <1> QED
    BY <1>4, <1>5, <1>6, <1>7, <1>8 DEF Next

\* A dial takes no longer than the network does.
LEMMA DialRecovers ==
    ASSUME HeartInv, HeartInv', Limits, RecoveryInv, Calm, Dials \/ DialFails \/ DialSucceeds
    PROVE  RecoveryInv'
  <1>1. /\ wait \in Nat /\ backoff \in Nat /\ outage \in Nat /\ backoff <= BackoffMax
        /\ outage' = outage /\ reach
    BY DEF HeartInv, Types, Limits, Dials, DialFails, DialSucceeds, ghostVars, Calm
  <1>2. Delay < ConnectTimeout
    BY DurationsAssumption
  <1>3. ASSUME NEW n \in Int PROVE Room(n)' <=> Room(n)
    BY <1>1 DEF Room
  <1>4. CASE Dials
    <2>1. phase = "sleeping" /\ wait = 0 /\ phase' = "dialing" /\ wait' = ConnectTimeout /\ ~hindered'
      BY <1>1, <1>4 DEF Dials
    <2>2. Room(0 + 3 * Delay)
      BY <2>1 DEF RecoveryInv, Working, InSession, Idle, Greeted, Lost, Connected
    <2>3. ConnectTimeout <= ConnectTimeout + Delay /\ (ConnectTimeout + 3 * Delay) - ConnectTimeout = 0 + 3 * Delay
      BY Durations
    <2>4. Idle'
      BY <1>1, <2>1, <2>2, <2>3 DEF Idle, Room
    <2> QED
      BY <2>1, <2>4 DEF RecoveryInv, Working, InSession
  <1>5. CASE DialFails
    <2>1. phase = "dialing" /\ wait = 0 /\ phase' = "sleeping" /\ wait' = backoff
      BY <1>1, <1>5 DEF DialFails, Sleeps
    <2>2. ~(ConnectTimeout <= 0 + Delay)
      BY <1>2, Durations
    <2>3. Room(0 + Attempt)
      BY <2>1, <2>2 DEF RecoveryInv, Working, InSession, Idle, Greeted, Lost, Connected
    <2>4. backoff + 3 * Delay \in Int /\ backoff + 3 * Delay <= 0 + Attempt /\ 0 + Attempt \in Int
      BY <1>1, Slack, Durations DEF Attempt
    <2>5. Room(backoff + 3 * Delay)
      BY <2>3, <2>4, LessRoom
    <2>6. Idle'
      BY <1>1, <2>1, <2>5 DEF Idle, Room
    <2> QED
      BY <2>1, <2>6 DEF RecoveryInv, Working, InSession
  <1>6. CASE DialSucceeds
    <2>1. /\ phase = "dialing" /\ phase' = "hello" /\ cut' = {} /\ toHub' = Put(<<>>, "Hello")
      BY <1>6 DEF DialSucceeds
    <2>2. toHub' # <<>> /\ toHub'[1].age = 0
      <3>1. <<>> \in Seq(Frame) /\ "Hello" \in Kinds
        BY DEF Kinds
      <3> QED
        BY <2>1, <3>1, Puts, New
    <2>3. Room(2 * Delay)
      <3>1. CASE Room(wait + Attempt)
        <4>1. wait + Attempt \in Int /\ 2 * Delay \in Int /\ 2 * Delay <= wait + Attempt
          BY <1>1, Slack, Durations
        <4> QED
          BY <3>1, <4>1, LessRoom
      <3>2. CASE ConnectTimeout <= wait + Delay /\ Room((wait + 3 * Delay) - ConnectTimeout)
        <4>1. /\ (wait + 3 * Delay) - ConnectTimeout \in Int /\ 2 * Delay \in Int
              /\ 2 * Delay <= (wait + 3 * Delay) - ConnectTimeout
          BY <1>1, <3>2, Durations
        <4> QED
          BY <3>2, <4>1, LessRoom
      <3> QED
        BY <2>1, <3>1, <3>2 DEF RecoveryInv, Working, InSession, Idle, Greeted, Lost, Connected
    <2>4. 2 * Delay - toHub'[1].age = 2 * Delay
      BY <2>2, Durations
    <2>5. Greeted'
      BY <1>1, <2>1, <2>2, <2>3, <2>4 DEF Greeted, Room
    <2> QED
      BY <2>1, <2>5 DEF RecoveryInv, Working, InSession
  <1> QED
    BY <1>4, <1>5, <1>6

\* A frame the loop reads, and that does not end it, costs nothing.
LEMMA ReadRecovers ==
    ASSUME HeartInv, ToldInv, Limits, RecoveryInv, Calm, Connected, InSession',
           phase = "hello" => Head(toTether).kind = "Welcome" /\ toHub = <<>>,
           toTether # <<>>, "toTether" \notin cut, toTether' = Tail(toTether),
           Head(toTether).kind \notin Stops,
           \/ lease_tick' = lease_tick /\ InSession
           \/ lease_tick' = RefreshAfter(granted) /\ ~InSession,
           UNCHANGED <<hubVars, cut, reach, active, wedged, clean, why, outage>>
    PROVE  RecoveryInv'
  <1>1. /\ Head(toTether) = toTether[1] /\ TetherBound = {toTether[1]} \cup TetherRest
        /\ TetherBound' = TetherRest /\ toTether[1] \in Frame
    BY TetherRead DEF HeartInv
  <1>2. /\ (Calm' <=> Calm) /\ Connected' /\ phase' = "serving" /\ (AtHub' <=> AtHub)
        /\ (Healthy' <=> Healthy) /\ (Renewable(granted)' <=> Renewable(granted))
        /\ Working' <=> AtHub /\ current /\ cut = {}
    BY DEF Calm, Connected, InSession, AtHub, Working, Healthy, Renewable, hubVars
  <1>3. ASSUME NEW n \in Int PROVE Room(n)' <=> Room(n)
    BY DEF Room
  <1>4. toTether[1].age \in 0..Delay
    BY <1>1 DEF Frame
  <1>5. ~Idle
    BY DEF Idle, Connected
  <1>6. CASE Working
    <2>1. Renewed => Renewed'
      BY <1>2, <1>6 DEF Renewed, Working
    <2>2. Room(Delay + Attempt) => Room(Delay + Attempt)'
      BY DEF Room
    <2> QED
      BY <1>2, <1>6, <2>1, <2>2 DEF RecoveryInv, Working
  <1>7. CASE Greeted
    <2>1. phase = "hello" /\ cut = {} /\ current
      BY <1>7 DEF Greeted
    <2>2. Working' /\ lease_tick' = RefreshAfter(granted)
      BY <1>2, <2>1 DEF HeartInv, ConnectionInv, InSession
    <2>3. CASE Healthy /\ Renewable(granted)
      <3>1. RefreshAfter(granted) > 0
        <4>1. RefreshFloor > 0 /\ RefreshFloor \in Nat
          BY DurationsAssumption
        <4>2. granted \in Nat
          BY DEF HeartInv, Types
        <4>3. (granted * 3) \div 4 \in Nat
          BY <4>2
        <4> QED
          BY <4>1, <4>3 DEF RefreshAfter, Greater
      <3> QED
        BY <1>2, <2>2, <2>3, <3>1 DEF RecoveryInv, Renewed
    <2>4. CASE Room((2 * Delay - toTether[1].age) + Attempt)
      <3>1. /\ (2 * Delay - toTether[1].age) + Attempt \in Int /\ Delay + Attempt \in Int
            /\ Delay + Attempt <= (2 * Delay - toTether[1].age) + Attempt
        BY <1>4, Slack, Durations
      <3>2. Room(Delay + Attempt)
        BY <2>4, <3>1, LessRoom
      <3>3. Room(Delay + Attempt)'
        BY <3>2 DEF Room
      <3> QED
        BY <2>2, <3>3 DEF RecoveryInv
    <2> QED
      BY <1>7, <2>1, <2>3, <2>4 DEF Greeted
  <1>8. CASE Lost
    <2>1. ASSUME NEW f \in TetherBound, f.kind \in Stops, Room((Delay - f.age) + Attempt)
          PROVE  RecoveryInv'
      <3>1. f \in TetherBound'
        BY <1>1, <2>1
      <3>2. ~current
        BY <2>1 DEF ToldInv, Told
      <3>3. Room((Delay - f.age) + Attempt)'
        BY <2>1 DEF Room
      <3>4. Lost'
        BY <1>2, <2>1, <3>1, <3>3 DEF Lost
      <3> QED
        BY <1>2, <3>2, <3>4 DEF RecoveryInv
    <2>2. CASE cut = {"toHub"} /\ current /\ Room(Unheard + Delay + Attempt)
      <3>1. Unheard' = Unheard
        BY DEF Unheard, hubVars
      <3>2. Room(Unheard + Delay + Attempt)'
        BY <2>2, <3>1 DEF Room
      <3>3. Lost'
        BY <1>2, <2>2, <3>2 DEF Lost, hubVars
      <3> QED
        BY <1>2, <2>2, <3>3 DEF RecoveryInv
    <2> QED
      BY <1>8, <2>1, <2>2 DEF Lost
  <1> QED
    BY <1>5, <1>6, <1>7, <1>8 DEF RecoveryInv

\* No step of the tether takes from what is left of an outage.
LEMMA TetherRecovers ==
    ASSUME HeartInv, HeartInv', Limits, ToldInv, RecoveryInv, Calm, Tether
    PROVE  RecoveryInv'
  <1>1. ASSUME InSession, PingTick \/ PumpWrites PROVE RecoveryInv'
    <2>1. /\ UNCHANGED <<phase, wait, hindered, dead, lease_tick, session, current, granted, cut, reach,
                         active, wedged, clean, why, outage, toTether, last_seen, tick>>
          /\ phase # "hello"
      BY <1>1 DEF PingTick, PumpWrites, InSession, tetherVars, hubVars, envVars, ghostVars
    <2>2. Unheard' = Unheard
      BY <2>1 DEF Unheard
    <2> QED
      BY <2>1, <2>2, StaysRecovering
  <1>2. CASE HelloTimesOut
    <2>1. phase = "hello" /\ wait = 0 /\ TetherLeaves("dead", "none") /\ Connected
      BY <1>2 DEF HelloTimesOut, Connected
    <2>2. ASSUME cut = {}, toHub # <<>> PROVE FALSE
      <3>1. wait + toHub[1].age >= PingTimeout
        BY <2>1, <2>2 DEF HeartInv, ConnectionInv
      <3>2. toHub[1].age \in 0..Delay
        BY <2>2, Bound DEF HeartInv
      <3> QED
        BY <2>1, <3>1, <3>2, Durations
    <2> QED
      BY <2>1, <2>2, TetherLeavesRecovers
  <1>3. CASE TetherHandshake
    <2>1. /\ phase = "hello" /\ Connected /\ ~InSession /\ toTether # <<>> /\ "toTether" \notin cut
          /\ toHub = <<>>
      BY <1>3 DEF TetherHandshake, Connected, InSession, HeartInv, ConnectionInv
    <2>2. CASE TetherLeaves("closed", "none")
      BY <2>1, <2>2, TetherLeavesRecovers
    <2>3. CASE /\ Head(toTether).kind = "Welcome" /\ phase' = "serving"
               /\ lease_tick' = RefreshAfter(granted) /\ toTether' = Tail(toTether)
               /\ UNCHANGED <<hubVars, cut, envVars, clean, why, outage>>
      BY <2>1, <2>3, ReadRecovers DEF Stops, InSession, envVars
    <2> QED
      BY <1>3, <2>2, <2>3 DEF TetherHandshake
  <1>4. CASE TetherReceives
    <2>1. InSession /\ phase # "hello" /\ Connected /\ toTether # <<>> /\ "toTether" \notin cut
      BY <1>4 DEF TetherReceives, LoopRuns, InSession, Connected
    <2>2. CASE TetherLeaves("closed", "none")
      BY <2>1, <2>2, TetherLeavesRecovers
    <2>3. CASE /\ Head(toTether).kind \in Live /\ toTether' = Tail(toTether)
               /\ UNCHANGED <<phase, lease_tick, hubVars, cut, envVars, clean, why, outage>>
      BY <2>1, <2>3, ReadRecovers DEF Stops, Live, InSession, envVars
    <2> QED
      BY <1>4, <2>2, <2>3 DEF TetherReceives, Live
  <1>5. CASE LeaseTick \/ DeadFires
    <2>1. InSession /\ Connected /\ phase # "hello"
      BY <1>5 DEF LeaseTick, DeadFires, LoopRuns, InSession, Connected
    <2>2. CASE LeaseTick
      BY <2>1, <2>2, TetherLeavesRecovers DEF LeaseTick
    <2>3. CASE DeadFires
      BY <2>1, <2>3, TetherLeavesRecovers DEF DeadFires
    <2> QED
      BY <1>5, <2>2, <2>3
  <1> QED
    BY <1>1, <1>2, <1>3, <1>4, <1>5, DialRecovers DEF Tether, PingTick, PumpWrites, LoopRuns

\* A greeting over the connection the tether waits on leaves WELCOME to travel.
LEMMA GreetsRecovers ==
    ASSUME HeartInv, HeartInv', Limits, Limits', ToldInv', RecoveryInv, Calm,
           NEW lease \in {ShortLease, Lease}, Greets(lease)
    PROVE  RecoveryInv'
  <1>1. CASE lease # Lease
    BY <1>1, Afresh DEF Greets
  <1>2. CASE lease = Lease
    <2>1. /\ toHub # <<>> /\ "toHub" \notin cut /\ Head(toHub).kind = "Hello" /\ toHub' = Tail(toHub)
          /\ toTether' = IF Connected THEN Put(toTether, "Welcome") ELSE toTether
          /\ current' /\ granted' = Lease /\ why' = "none"
          /\ clean' <=> cut = {} /\ Connected
          /\ UNCHANGED <<phase, wait, hindered, dead, cut, outage, reach, active, wedged>>
      BY <1>2 DEF Greets, tetherVars
    <2>2. /\ ~InSession /\ ~InSession'
          /\ phase = "hello" => toTether = <<>> /\ ~current /\ toHub[1].age \in 0..Delay
      BY <2>1, HelloComes, Bound DEF InSession, HeartInv
    <2>3. ~Working /\ ~Working' /\ (Calm' <=> Calm)
      BY <2>1, <2>2 DEF Working, InSession, Calm
    <2>4. CASE phase # "hello"
      <3>1. Idle
        BY <2>2, <2>3, <2>4 DEF RecoveryInv, Greeted, Lost, Connected, InSession
      <3>2. Idle'
        BY <2>1, <3>1 DEF Idle, Room
      <3> QED
        BY <2>3, <3>2 DEF RecoveryInv
    <2>5. CASE phase = "hello"
      <3>1. ~Idle /\ TetherBound = {}
        BY <2>2, <2>5 DEF Idle, TetherBound
      <3> DEFINE welcome == [kind |-> "Welcome", age |-> 0]
      <3>2. toTether' # <<>> /\ toTether'[1] = welcome /\ welcome.kind = "Welcome" /\ welcome.age = 0
        BY <2>1, <2>2, <2>5, TetherPut DEF HeartInv, Kinds, Connected
      <3>3. CASE Greeted
        <4>1. cut = {} /\ Room(2 * Delay - toHub[1].age)
          BY <2>2, <2>5, <3>3 DEF Greeted
        <4>2. /\ 2 * Delay - toHub[1].age \in Int /\ Delay \in Int /\ Delay <= 2 * Delay - toHub[1].age
              /\ Delay - 0 = Delay
          BY <2>2, <2>5, Durations
        <4>3. Room(Delay - 0)
          BY <4>1, <4>2, LessRoom
        <4>4. Room(Delay - toTether[1].age)'
          BY <2>1, <3>2, <4>3 DEF Room
        <4>5. Healthy' /\ Renewable(granted)'
          BY <2>1, <2>5, <4>1, RecoveryAssumption DEF Healthy, Connected, Renewable
        <4>6. Greeted'
          BY <2>1, <2>5, <3>2, <4>1, <4>4, <4>5 DEF Greeted, Welcoming
        <4> QED
          BY <2>3, <4>6 DEF RecoveryInv
      <3>4. CASE Lost
        <4>1. "toTether" \in cut /\ Room(wait + Attempt)
          BY <2>1, <2>2, <2>5, <3>1, <3>4 DEF Lost
        <4>2. Lost'
          BY <2>1, <2>5, <4>1 DEF Lost, Room
        <4> QED
          BY <2>3, <4>2 DEF RecoveryInv
      <3> QED
        BY <2>3, <3>1, <3>3, <3>4 DEF RecoveryInv
    <2> QED
      BY <2>4, <2>5
  <1> QED
    BY <1>1, <1>2

\* No step of the hub takes from what is left of an outage.
LEMMA HubRecovers ==
    ASSUME HeartInv, HeartInv', Limits, Limits', ToldInv', RecoveryInv, Calm, Hub
    PROVE  RecoveryInv'
  <1>1. ASSUME UNCHANGED <<tetherVars, session, current, granted, cut, envVars, clean, why, outage>>,
               toTether' = toTether \/ \E k \in Live : toTether' = ToTether(k),
               phase = "hello" => toHub' = toHub,
               cut = {"toHub"} => Unheard' = Unheard
        PROVE  RecoveryInv'
    <2>1. toTether' = toTether \/ \E k \in Kinds : toTether' = Put(toTether, k)
      BY <1>1 DEF ToTether, Live, Kinds
    <2>2. UNCHANGED <<phase, wait, hindered, dead, lease_tick, session, current, granted, cut, reach,
                      active, wedged, clean, why, outage>>
      BY <1>1 DEF tetherVars, envVars
    <2> QED
      BY <1>1, <2>1, <2>2, StaysRecovering
  <1>2. ASSUME UNCHANGED <<last_seen, tick>> PROVE Unheard' = Unheard
    BY <1>2 DEF Unheard
  <1>3. CASE Refuses
    BY <1>3 DEF Refuses, Calm
  <1>4. CASE LeaseDeadline
    BY <1>4, HubLeavesRecovers DEF LeaseDeadline
  <1>5. CASE HubTick
    <2>1. CASE \E reason \in {"closed", "silent"} : HubLeaves(reason) /\ UNCHANGED toHub
      BY <1>5, <2>1, HubLeavesRecovers DEF HubTick
    <2>2. CASE /\ last_seen <= TetherSilence /\ last_seen' = last_seen
               /\ toTether' = ToTether("Ping") \/ toTether' = toTether
               /\ UNCHANGED <<tetherVars, session, current, granted, toHub, cut, envVars, ghostVars>>
      <3>1. Unheard' = Unheard
        BY <2>2 DEF Unheard
      <3> QED
        BY <1>1, <2>2, <3>1 DEF Live, ghostVars
    <2> QED
      BY <1>5, <2>1, <2>2 DEF HubTick
  <1>6. CASE HubReceives
    <2>1. AtHub /\ current /\ toHub # <<>> /\ "toHub" \notin cut /\ phase # "hello"
      BY <1>6 DEF HubReceives, HeartInv, ConnectionInv
    <2>2. CASE HubLeaves("closed")
      BY <2>1, <2>2, HubLeavesRecovers
    <2>3. CASE /\ toTether' = ToTether("Pong") \/ toTether' = toTether
               /\ UNCHANGED <<tetherVars, session, current, granted, cut, envVars, ghostVars>>
      BY <1>1, <2>1, <2>3 DEF Live, ghostVars
    <2> QED
      BY <1>6, <2>2, <2>3 DEF HubReceives
  <1>7. CASE HubDrops
    <2>1. /\ UNCHANGED <<tetherVars, session, current, granted, cut, envVars, ghostVars, toTether,
                         last_seen, tick>>
          /\ toHub # <<>> /\ Head(toHub).kind # "Hello"
      BY <1>7 DEF HubDrops, hubVars
    <2>2. phase # "hello"
      BY <2>1, Reads DEF HeartInv, ConnectionInv, Types
    <2> QED
      BY <1>1, <1>2, <2>1, <2>2 DEF ghostVars
  <1>8. CASE HubWrites
    <2>1. /\ UNCHANGED <<tetherVars, session, current, granted, cut, envVars, ghostVars, toHub,
                         last_seen, tick>>
          /\ toTether' = ToTether("Data") /\ "Data" \in Live
      BY <1>8 DEF HubWrites, hubVars, ToTether, Live
    <2> QED
      BY <1>1, <1>2, <2>1 DEF ghostVars
  <1> QED
    BY <1>3, <1>4, <1>5, <1>6, <1>7, <1>8, GreetsRecovers DEF Hub

\* While service is missing, what is left shrinks as fast as the outage grows.
LEMMA TickRecovers ==
    ASSUME HeartInv, HeartInv', Limits, Limits', ToldInv', RecoveryInv, Calm, Tick
    PROVE  RecoveryInv'
  <1>1. /\ OnTime /\ toHub' = Aged(toHub) /\ toTether' = Aged(toTether)
        /\ wait' = Less(wait) /\ dead' = Less(dead) /\ tick' = Less(tick)
        /\ last_seen' = IF AtHub THEN last_seen + 1 ELSE 0
        /\ outage' = IF Working \/ ~Calm THEN 0 ELSE More(outage, OutageLimit + 1)
        /\ UNCHANGED <<phase, hindered, session, current, granted, cut, reach, active, wedged, clean, why>>
    BY DEF Tick, envVars
  <1>2. CASE Working
    BY <1>1, <1>2, Afresh
  <1>3. CASE ~Working
    <2>1. outage \in Nat /\ outage' <= outage + 1
      BY <1>1, <1>3, Slack DEF Limits, More, Lesser
    <2>2. /\ wait \in Nat /\ dead \in Nat /\ last_seen \in Nat /\ tick \in Nat
          /\ outage' \in Nat
      BY DEF HeartInv, Types, Limits
    <2>3. ASSUME NEW n \in Nat PROVE n > 0 => Less(n) = n - 1
      BY DEF Less
    <2>4. ASSUME NEW n \in Int, NEW m \in Int, m <= n - 1, Room(n) PROVE outage' + m <= OutageLimit
      <3>1. ASSUME NEW o \in Nat, NEW p \in Nat, NEW l \in Nat, p <= o + 1, o + n <= l PROVE p + m <= l
        BY <2>4, <3>1
      <3>2. outage + n <= OutageLimit /\ OutageLimit \in Nat
        BY <2>4, Slack DEF Room
      <3> QED
        BY <2>1, <2>2, <3>1, <3>2
    <2>5. ~Working' /\ (Connected' <=> Connected) /\ (Healthy' <=> Healthy)
          /\ (Renewable(granted)' <=> Renewable(granted))
      BY <1>1, <1>3 DEF Working, InSession, AtHub, Connected, Healthy, Renewable
    <2>6. /\ (toHub' = <<>> <=> toHub = <<>>) /\ (toTether' = <<>> <=> toTether = <<>>)
          /\ TetherBound' = {Older(f) : f \in TetherBound}
          /\ toHub # <<>> => toHub'[1] = Older(toHub[1]) /\ toHub[1] \in HubBound
          /\ toTether # <<>> => toTether'[1] = Older(toTether[1]) /\ toTether[1] \in TetherBound
      BY <1>1, Travels, Bound DEF HeartInv
    <2>7. /\ "toHub" \notin cut => \A f \in HubBound : Older(f).age = f.age + 1
          /\ "toTether" \notin cut => \A f \in TetherBound : Older(f).age = f.age + 1
          /\ \A f \in HubBound \cup TetherBound : Older(f).kind = f.kind /\ f.age \in 0..Delay
      BY <1>1, Punctual DEF HeartInv, Calm
    <2>8. ASSUME wait > 0 PROVE wait' = wait - 1
      BY <1>1, <2>2, <2>3, <2>8
    <2>9. CASE Idle
      <3>1. wait > 0 /\ wait' = wait - 1
        BY <1>1, <2>8, <2>9 DEF OnTime, Idle
      <3>2. ASSUME phase = "sleeping" /\ Room(wait + 3 * Delay) PROVE Idle'
        <4>1. /\ wait + 3 * Delay \in Int /\ wait' + 3 * Delay \in Int
              /\ wait' + 3 * Delay <= (wait + 3 * Delay) - 1
          BY <2>2, <3>1, Durations
        <4>2. Room(wait + 3 * Delay)'
          BY <2>4, <3>2, <4>1 DEF Room
        <4> QED
          BY <1>1, <3>2, <4>2 DEF Idle, Room
      <3>3. ASSUME phase = "dialing" /\ Room(wait + Attempt) PROVE Idle'
        <4>1. /\ wait + Attempt \in Int /\ wait' + Attempt \in Int /\ wait' + Attempt <= (wait + Attempt) - 1
          BY <2>2, <3>1, Slack
        <4>2. Room(wait + Attempt)'
          BY <2>4, <3>3, <4>1 DEF Room
        <4> QED
          BY <1>1, <3>3, <4>2 DEF Idle, Room
      <3>4. ASSUME /\ phase = "dialing" /\ ~hindered
                   /\ Room((wait + 3 * Delay) - ConnectTimeout)
            PROVE  Idle'
        <4>1. wait > ConnectTimeout - Delay
          BY <1>1, <3>4 DEF OnTime
        <4>2. /\ (wait + 3 * Delay) - ConnectTimeout \in Int /\ (wait' + 3 * Delay) - ConnectTimeout \in Int
              /\ (wait' + 3 * Delay) - ConnectTimeout <= ((wait + 3 * Delay) - ConnectTimeout) - 1
              /\ ConnectTimeout <= wait' + Delay
          BY <2>2, <3>1, <4>1, Durations
        <4>3. Room((wait + 3 * Delay) - ConnectTimeout)'
          BY <2>4, <3>4, <4>2 DEF Room
        <4> QED
          BY <1>1, <3>4, <4>2, <4>3 DEF Idle, Room
      <3>5. Idle'
        BY <2>9, <3>2, <3>3, <3>4 DEF Idle, Room
      <3> QED
        BY <2>5, <3>5 DEF RecoveryInv
    <2>10. CASE Greeted
      <3>1. phase = "hello" /\ cut = {} /\ phase' = "hello" /\ cut' = {}
        BY <1>1, <2>10 DEF Greeted, Room
      <3>2. ASSUME toHub # <<>> /\ Room(2 * Delay - toHub[1].age) PROVE Greeted'
        <4>1. toHub'[1].age = toHub[1].age + 1 /\ toHub[1].age \in 0..Delay
          BY <2>6, <2>7, <3>1, <3>2
        <4>2. /\ 2 * Delay - toHub[1].age \in Int /\ 2 * Delay - toHub'[1].age \in Int
              /\ 2 * Delay - toHub'[1].age <= (2 * Delay - toHub[1].age) - 1
          BY <4>1, Durations
        <4>3. Room(2 * Delay - toHub[1].age)'
          BY <2>4, <3>2, <4>2 DEF Room
        <4> QED
          BY <2>6, <3>1, <3>2, <4>3 DEF Greeted, Room
      <3>3. ASSUME current /\ Welcoming PROVE Greeted'
        <4>1. toTether'[1].age = toTether[1].age + 1 /\ toTether[1].age \in 0..Delay /\ Welcoming'
          BY <2>6, <2>7, <3>1, <3>3 DEF Welcoming
        <4>2. ASSUME Healthy /\ Renewable(granted) /\ Room(Delay - toTether[1].age) PROVE Greeted'
          <5>1. /\ Delay - toTether[1].age \in Int /\ Delay - toTether'[1].age \in Int
                /\ Delay - toTether'[1].age <= (Delay - toTether[1].age) - 1
            BY <4>1, Durations
          <5>2. Room(Delay - toTether[1].age)'
            BY <2>4, <4>2, <5>1 DEF Room
          <5> QED
            BY <1>1, <2>5, <3>1, <3>3, <4>1, <4>2, <5>2 DEF Greeted, Room
        <4>3. ASSUME Room((2 * Delay - toTether[1].age) + Attempt) PROVE Greeted'
          <5>1. /\ (2 * Delay - toTether[1].age) + Attempt \in Int
                /\ (2 * Delay - toTether'[1].age) + Attempt \in Int
                /\ (2 * Delay - toTether'[1].age) + Attempt <= ((2 * Delay - toTether[1].age) + Attempt) - 1
            BY <4>1, Slack, Durations
          <5>2. Room((2 * Delay - toTether[1].age) + Attempt)'
            BY <2>4, <4>3, <5>1 DEF Room
          <5> QED
            BY <1>1, <3>1, <3>3, <4>1, <5>2 DEF Greeted, Room
        <4> QED
          BY <2>10, <3>2, <3>3, <4>2, <4>3 DEF Greeted, Room
      <3>4. Greeted'
        BY <2>10, <3>2, <3>3 DEF Greeted, Room
      <3> QED
        BY <2>5, <3>4 DEF RecoveryInv
    <2>11. CASE Lost
      <3>1. ASSUME phase = "hello" /\ ("toTether" \in cut \/ (toHub # <<>> /\ "toHub" \in cut)) /\ Room(wait + Attempt)
            PROVE  Lost'
        <4>1. wait > 0 /\ wait' = wait - 1
          BY <1>1, <2>8, <3>1 DEF OnTime
        <4>2. /\ wait + Attempt \in Int /\ wait' + Attempt \in Int /\ wait' + Attempt <= (wait + Attempt) - 1
          BY <2>2, <4>1, Slack
        <4>3. Room(wait + Attempt)'
          BY <2>4, <3>1, <4>2 DEF Room
        <4> QED
          BY <1>1, <2>6, <3>1, <4>3 DEF Lost, Room
      <3>2. ASSUME phase = "serving" /\ "toTether" \in cut /\ Room(dead + Attempt) PROVE Lost'
        <4>1. dead > 0
          BY <1>1, <3>2 DEF OnTime, LoopRuns, InSession, Calm
        <4>2. dead' = dead - 1
          BY <1>1, <2>2, <2>3, <4>1
        <4>3. /\ dead + Attempt \in Int /\ dead' + Attempt \in Int /\ dead' + Attempt <= (dead + Attempt) - 1
          BY <2>2, <4>2, Slack
        <4>4. Room(dead + Attempt)'
          BY <2>4, <3>2, <4>3 DEF Room
        <4> QED
          BY <1>1, <3>2, <4>4 DEF Lost, Room
      <3>3. ASSUME Connected, "toTether" \notin cut, NEW f \in TetherBound, f.kind \in Stops,
                   Room((Delay - f.age) + Attempt)
            PROVE  Lost'
        <4>1. Older(f) \in TetherBound' /\ Older(f).kind \in Stops /\ Older(f).age = f.age + 1 /\ f.age \in 0..Delay
          BY <2>6, <2>7, <3>3
        <4>2. /\ (Delay - f.age) + Attempt \in Int /\ (Delay - Older(f).age) + Attempt \in Int
              /\ (Delay - Older(f).age) + Attempt <= ((Delay - f.age) + Attempt) - 1
          BY <4>1, Slack, Durations
        <4>3. outage' + ((Delay - Older(f).age) + Attempt) <= OutageLimit
          BY <2>4, <3>3, <4>2
        <4> QED
          BY <1>1, <2>5, <3>3, <4>1, <4>3 DEF Lost, Room
      <3>4. ASSUME /\ Connected /\ cut = {"toHub"} /\ current /\ (phase = "hello" => Welcoming)
                   /\ Room(Unheard + Delay + Attempt)
            PROVE  Lost'
        <4>1. AtHub /\ tick > 0 /\ last_seen' = last_seen + 1 /\ tick' = tick - 1
          <5>1. AtHub
            BY <3>4 DEF HeartInv, ConnectionInv
          <5> QED
            BY <1>1, <2>2, <2>3, <5>1 DEF OnTime
        <4>2. last_seen + tick <= TetherSilence + TetherTick
          BY <4>1 DEF HeartInv, ApartInv
        <4>3. Unheard \in Int /\ Unheard' \in Int /\ Unheard' <= Unheard - 1
          <5>1. CASE last_seen <= TetherSilence /\ last_seen' <= TetherSilence
            BY <2>2, <4>1, <5>1, Durations DEF Unheard
          <5>2. CASE last_seen <= TetherSilence /\ ~(last_seen' <= TetherSilence)
            BY <2>2, <4>1, <4>2, <5>2, Durations DEF Unheard
          <5>3. CASE ~(last_seen <= TetherSilence)
            BY <2>2, <4>1, <5>3, Durations DEF Unheard
          <5> QED
            BY <5>1, <5>2, <5>3
        <4>4. /\ Unheard + Delay + Attempt \in Int /\ Unheard' + Delay + Attempt \in Int
              /\ Unheard' + Delay + Attempt <= (Unheard + Delay + Attempt) - 1
          <5>1. ASSUME NEW u \in Int, NEW v \in Int, v <= u - 1
                PROVE  /\ u + Delay + Attempt \in Int /\ v + Delay + Attempt \in Int
                       /\ v + Delay + Attempt <= (u + Delay + Attempt) - 1
            BY <5>1, Slack, Durations
          <5> QED
            BY <4>3, <5>1
        <4>5. Room(Unheard + Delay + Attempt)'
          BY <2>4, <3>4, <4>4 DEF Room
        <4>6. Welcoming => Welcoming'
          BY <2>6, <2>7 DEF Welcoming
        <4> QED
          BY <1>1, <2>5, <3>4, <4>5, <4>6 DEF Lost, Room
      <3>5. Lost'
        BY <2>11, <3>1, <3>2, <3>3, <3>4 DEF Lost, Room
      <3> QED
        BY <2>5, <3>5 DEF RecoveryInv
    <2> QED
      BY <1>3, <2>9, <2>10, <2>11 DEF RecoveryInv
  <1> QED
    BY <1>2, <1>3

\* Every step keeps that enough of the longest outage is left.
LEMMA RecoveryStep ==
    HeartInv /\ Limits /\ ToldInv /\ RecoveryInv /\ [Next]_vars => RecoveryInv'
  <1> SUFFICES ASSUME HeartInv, Limits, ToldInv, RecoveryInv, [Next]_vars PROVE RecoveryInv'
    OBVIOUS
  <1>1. HeartInv' /\ Limits' /\ ToldInv'
    BY HeartStep, LimitsStep, ToldStep
  <1>2. CASE Faulty
    <2>1. outage' = 0
      BY <1>2 DEF Faulty, Cut, ReachChanges, ActiveChanges, WedgeChanges, HubRestarts, TetherRestarts, Fault
    <2> QED
      BY <1>1, <2>1, Afresh
  <1>3. CASE ~Calm /\ ~Faulty
    <2>1. CASE Tether \/ Tick \/ UNCHANGED vars
      <3>1. UNCHANGED <<reach, active, wedged>>
        <4>1. ASSUME NEW reason, NEW last, TetherLeaves(reason, last) PROVE UNCHANGED envVars
          BY <4>1 DEF TetherLeaves
        <4>2. UNCHANGED envVars
          BY <2>1, <4>1 DEF Tether, Dials, DialFails, DialSucceeds, HelloTimesOut, TetherHandshake,
             LeaseTick, PingTick, DeadFires, TetherReceives, PumpWrites, Tick, vars
        <4> QED
          BY <4>2 DEF envVars
      <3> QED
        BY <1>3, <3>1 DEF RecoveryInv, Calm
    <2>2. CASE Hub
      <3>1. UNCHANGED <<reach, active, wedged>>
        BY <2>2 DEF Hub, Greets, Refuses, LeaseDeadline, HubTick, HubReceives, HubDrops, HubWrites,
           HubLeaves, envVars
      <3> QED
        BY <1>3, <3>1 DEF RecoveryInv, Calm
    <2> QED
      BY <1>3, <2>1, <2>2 DEF Next
  <1>4. CASE Calm /\ UNCHANGED vars
    <2>1. UNCHANGED <<phase, wait, hindered, dead, lease_tick, session, current, granted, cut, reach,
                      active, wedged, clean, why, outage, toHub, toTether, last_seen, tick>>
      BY <1>4 DEF vars, tetherVars, hubVars, netVars, envVars, ghostVars
    <2>2. Unheard' = Unheard
      BY <2>1 DEF Unheard
    <2> QED
      BY <2>1, <2>2, StaysRecovering
  <1> QED
    BY <1>1, <1>2, <1>3, <1>4, TetherRecovers, HubRecovers, TickRecovers DEF Next

\* While something is left of the longest outage, it has not been exceeded.
LEMMA WithinLimit ==
    ASSUME HeartInv', Limits', RecoveryInv', Calm', ~Working'
    PROVE  outage' <= OutageLimit
  <1>1. /\ wait' \in Nat /\ dead' \in Nat /\ last_seen' \in Nat /\ tick' \in Nat
        /\ toHub' \in Seq(Frame) /\ toTether' \in Seq(Frame)
    BY DEF HeartInv, Types
  <1>2. /\ \A f \in Frame : f.age \in 0..Delay
        /\ toHub' # <<>> => toHub'[1] \in Frame
        /\ toTether' # <<>> => toTether'[1] \in Frame
        /\ TetherBound' \subseteq Frame
    <2>1. TetherBound' = {toTether'[i] : i \in DOMAIN toTether'}
      BY DEF TetherBound
    <2>2. TetherBound' \subseteq Frame
      BY <1>1, <2>1
    <2>3. \A f \in Frame : f.age \in 0..Delay
      BY DEF Frame
    <2> QED
      BY <1>1, <2>2, <2>3
  <1>3. ASSUME NEW n \in Nat, Room(n)' PROVE outage' <= OutageLimit
    <2>1. outage' + n <= OutageLimit /\ outage' \in Nat /\ OutageLimit \in Nat
      BY <1>3, Slack DEF Room, Limits
    <2>2. ASSUME NEW o \in Nat, NEW l \in Nat, o + n <= l PROVE o <= l
      BY <2>2
    <2> QED
      BY <2>1, <2>2
  <1>4. ASSUME NEW n \in Nat
        PROVE  n + 3 * Delay \in Nat /\ n + Attempt \in Nat /\ n + Delay + Attempt \in Nat
    BY Slack, Durations
  <1>5. ASSUME NEW n \in 0..Delay
        PROVE  2 * Delay - n \in Nat /\ (2 * Delay - n) + Attempt \in Nat
               /\ Delay - n \in Nat /\ (Delay - n) + Attempt \in Nat
    BY Slack, Durations
  <1>6. CASE Idle'
    <2>1. ASSUME NEW n \in Nat, ConnectTimeout <= n + Delay PROVE (n + 3 * Delay) - ConnectTimeout \in Nat
      BY <2>1, Durations
    <2> QED
      BY <1>1, <1>3, <1>4, <1>6, <2>1 DEF Idle, Room
  <1>7. CASE Greeted'
    BY <1>2, <1>3, <1>5, <1>7 DEF Greeted, Welcoming, Room
  <1>8. CASE Lost'
    <2>1. Unheard' \in Nat
      <3>1. ASSUME NEW n \in Nat, n <= TetherSilence PROVE (TetherSilence + TetherTick) - n \in Nat
        BY <3>1, Durations
      <3>2. CASE last_seen' <= TetherSilence
        <4>1. (TetherSilence + TetherTick) - last_seen' \in Nat
          BY <1>1, <3>1, <3>2
        <4>2. Unheard' = (TetherSilence + TetherTick) - last_seen'
          BY <1>1, <3>2, Durations DEF Unheard
        <4> QED
          BY <4>1, <4>2
      <3>3. CASE ~(last_seen' <= TetherSilence)
        BY <1>1, <3>3 DEF Unheard
      <3> QED
        BY <3>2, <3>3
    <2> QED
      BY <1>1, <1>2, <1>3, <1>4, <1>5, <1>8, <2>1 DEF Lost, Room
  <1> QED
    BY <1>6, <1>7, <1>8 DEF RecoveryInv

\* Only time makes an outage longer.
LEMMA OutageStep ==
    ASSUME HeartInv', Limits', RecoveryInv', OutageBounded, [Next]_vars
    PROVE  OutageBounded'
  <1>1. CASE outage' \in {0, outage}
    BY <1>1, Slack DEF OutageBounded
  <1>2. CASE Tick
    <2>1. CASE Working \/ ~Calm
      <3>1. outage' = 0
        BY <1>2, <2>1 DEF Tick
      <3> QED
        BY <1>1, <3>1
    <2>2. CASE ~Working /\ Calm
      <3>1. ~Working' /\ Calm'
        BY <1>2, <2>2 DEF Tick, envVars, Working, InSession, AtHub, Calm
      <3> QED
        BY <3>1, WithinLimit DEF OutageBounded
    <2> QED
      BY <2>1, <2>2
  <1>3. CASE ~Tick
    <2>1. CASE Tether
      <3>1. ASSUME NEW reason, NEW last, TetherLeaves(reason, last) PROVE outage' = outage
        BY <3>1 DEF TetherLeaves
      <3>2. outage' = outage
        BY <2>1, <3>1 DEF Tether, Dials, DialFails, DialSucceeds, HelloTimesOut, TetherHandshake,
           LeaseTick, PingTick, DeadFires, TetherReceives, PumpWrites, ghostVars
      <3> QED
        BY <1>1, <3>2
    <2>2. CASE Hub
      <3>1. ASSUME NEW reason, HubLeaves(reason) PROVE outage' = outage
        BY <3>1 DEF HubLeaves
      <3>2. outage' \in {0, outage}
        BY <2>2, <3>1 DEF Hub, Greets, Refuses, LeaseDeadline, HubTick, HubReceives, HubDrops, HubWrites,
           ghostVars
      <3> QED
        BY <1>1, <3>2
    <2>3. CASE Faulty
      BY <1>1, <2>3 DEF Faulty, Cut, ReachChanges, ActiveChanges, WedgeChanges, HubRestarts,
         TetherRestarts, Fault
    <2>4. CASE UNCHANGED vars
      BY <1>1, <2>4 DEF vars, ghostVars
    <2> QED
      BY <1>3, <2>1, <2>2, <2>3, <2>4 DEF Next
  <1> QED
    BY <1>2, <1>3

\* What is left of an outage, added to what has passed of it, never exceeds the
\* limit: whatever the tether went through, service is back in time.
THEOREM OutageEnds == Spec => []OutageBounded
  <1> DEFINE Inv == HeartInv /\ Limits /\ ToldInv /\ RecoveryInv /\ OutageBounded
  <1>1. Init => Inv
    <2> SUFFICES ASSUME Init PROVE Limits /\ ToldInv /\ RecoveryInv /\ OutageBounded
      BY HeartInit
    <2>1. Limits
      <3>1. BackoffMin <= BackoffMax /\ ConnectTimeout <= ConnectTimeout
        BY Slack, Durations
      <3> QED
        BY <3>1 DEF Init, Limits, Calm
    <2>2. ToldInv
      BY DEF Init, ToldInv, Told, TetherBound, Connected
    <2>3. RecoveryInv
      <3>1. Room(wait + Attempt)
        BY Slack, Durations DEF Init, Room
      <3> QED
        BY <3>1 DEF Init, RecoveryInv, Working, InSession, Idle
    <2>4. OutageBounded
      BY Slack DEF Init, OutageBounded
    <2> QED
      BY <2>1, <2>2, <2>3, <2>4
  <1>2. Inv /\ [Next]_vars => Inv'
    BY HeartStep, LimitsStep, ToldStep, RecoveryStep, OutageStep
  <1> QED
    BY <1>1, <1>2, PTL DEF Spec
=============================================================================
