--------------------------- MODULE RegistryProofs ---------------------------
(***************************************************************************)
(* The types of Registry's variables, the safety of its sessions and the   *)
(* admission of requests to them, for every set of ids, credentials,       *)
(* connections and requests and for every bound.                           *)
(*                                                                         *)
(*   TypeInv    the types, and who holds `routing`                         *)
(*   RouteInv   who the routing table names          (attach, detach)      *)
(*   OwnerInv   who is not named and yet not closed  (detach)              *)
(*   LeaseInv   how long a session may last          (authorize)           *)
(*   StreamInv  who the stream tables name           (admit, send_event)   *)
(*   EndInv     who has been told of an end          (cancel)              *)
(*                                                                         *)
(* Each rests on the ones before it.                                       *)
(***************************************************************************)
EXTENDS Registry, TLAPS

(* A task past HELLO whose credential was accepted names a registration.   *)
Named == Attached \cup {"authorized", "reporting"}
TidInv == \A c \in Conns : pc[c] \in Named => tid[c] \in Ids

(* The permit `reserve_route` took is for a session with room for it.      *)
PermitInv ==
  reserving # NoReq => /\ sess[reserving] \in Conns
                       /\ queued[sess[reserving]] < CommandCapacity

(* `routing` has one holder.                                               *)
MutexInv ==
  /\ revoking # NoId => superseded = NoConn /\ reserving = NoReq
  /\ superseded # NoConn => reserving = NoReq

TypeInv == TypeOK /\ TidInv /\ PermitInv /\ MutexInv

USE ValuesAssumption, StoreAssumption, BoundsAssumption

(* The registry begins empty. *)
LEMMA InitTypeInv == Init => TypeInv
<1> SUFFICES ASSUME Init PROVE TypeInv
  OBVIOUS
<1>1. by_id \in [Ids -> Records \cup {NoTether}]
  BY DEF Init
<1>2. by_credential \in [Creds -> Ids \cup {NoId}]
  BY DEF Init
<1>3. TypeOK
  BY <1>1, <1>2 DEF Init, TypeOK, TaskStates, RequestStates, NoStreams, StreamIds
<1>4. TidInv /\ PermitInv /\ MutexInv
  BY DEF Init, TidInv, PermitInv, MutexInv, Named, Attached
<1> QED BY <1>3, <1>4 DEF TypeInv

(* The step of each action, by the part of the code it belongs to.         *)
LEMMA ControlTypeInv ==
  ASSUME TypeInv, Tick \/ ControlPlane
  PROVE  TypeInv'
<1> USE DEF TypeInv
<1>1. CASE Tick
  <2>1. TypeOK'
    BY <1>1 DEF TypeOK, Tick, tableVars, identVars, routingVars, taskVars, chanVars, requestVars
  <2>2. (TidInv /\ PermitInv /\ MutexInv)'
    BY <1>1 DEF TidInv, PermitInv, MutexInv, Tick, routingVars, taskVars, chanVars, requestVars
  <2> QED BY <2>1, <2>2
<1>2. ASSUME NEW id \in Ids, NEW k \in Creds, Register(id, k)
      PROVE  TypeInv'
  <2>1. TypeOK'
    BY <1>2 DEF TypeOK, Register, Evicts, Closes, Unaffected, routingVars, identVars,
       taskVars, chanVars, Records, Never, NoStreams, RequestStates
  <2>2. (TidInv /\ PermitInv /\ MutexInv)'
    BY <1>2 DEF TidInv, PermitInv, MutexInv, Register, Unaffected, routingVars, taskVars, chanVars
  <2> QED BY <2>1, <2>2
<1>3. ASSUME NEW id \in Ids, Revoke(id)
      PROVE  TypeInv'
  <2>1. TypeOK'
    BY <1>3 DEF TypeOK, Revoke, Disabled, Unaffected, identVars, taskVars, chanVars, Records
  <2>2. (TidInv /\ PermitInv /\ MutexInv)'
    BY <1>3 DEF TidInv, PermitInv, MutexInv, Revoke, RoutingFree, Unaffected, taskVars, chanVars
  <2> QED BY <2>1, <2>2
<1>4. CASE EvictRevoked
  <2>1. TypeOK'
    BY <1>4 DEF TypeOK, EvictRevoked, Evicts, Closes, Unaffected, tableVars, identVars,
       taskVars, chanVars, NoStreams, RequestStates
  <2>2. (TidInv /\ PermitInv /\ MutexInv)'
    BY <1>4 DEF TidInv, PermitInv, MutexInv, EvictRevoked, Unaffected, taskVars, chanVars
  <2> QED BY <2>1, <2>2
<1>5. ASSUME NEW s \in Snapshots \cup {NoRecords}, ReplaceRecords(s)
      PROVE  TypeInv'
  <2>1. s \in [Ids -> Records \cup {NoTether}]
    BY DEF NoRecords
  <2>2. by_credential' \in [Creds -> Ids \cup {NoId}]
    BY <1>5 DEF ReplaceRecords
  <2>3. TypeOK'
    BY <1>5, <2>1, <2>2 DEF TypeOK, ReplaceRecords, Evicts, Closes, Unaffected, routingVars,
       identVars, taskVars, chanVars, NoStreams, RequestStates
  <2>4. (TidInv /\ PermitInv /\ MutexInv)'
    BY <1>5 DEF TidInv, PermitInv, MutexInv, ReplaceRecords, Unaffected, routingVars, taskVars, chanVars
  <2> QED BY <2>3, <2>4
<1> QED BY <1>1, <1>2, <1>3, <1>4, <1>5 DEF ControlPlane

(* The handshake keeps the types. *)
LEMMA HandshakeTypeInv ==
  ASSUME TypeInv, NEW c \in Conns, Handshake(c)
  PROVE  TypeInv'
<1> USE DEF TypeInv
<1>1. CASE Hello(c)
  <2>1. TypeOK'
    BY <1>1 DEF TypeOK, Hello, Goes, Handshaking, SameStreams, tableVars, identVars, chanVars, TaskStates
  <2>2. (TidInv /\ PermitInv /\ MutexInv)'
    BY <1>1 DEF TypeOK, TidInv, PermitInv, MutexInv, Hello, Goes, Handshaking, SameStreams, chanVars, Named, Attached
  <2> QED BY <2>1, <2>2
<1>2. CASE Authorize(c)
  <2> DEFINE id == by_credential[cred[c]]
  <2>1. id \in Ids \cup {NoId}
    BY DEF TypeOK
  <2>2. id \in Ids /\ Authorizes(by_id[id]) => GrantedTtl(by_id[id]) \in Nat
    BY DEF TypeOK, Authorizes, Usable, Unexpired, GrantedTtl, Lesser, Records, Never
  <2>3. TypeOK'
    <3>1. CASE id # NoId /\ Authorizes(by_id[id])
      <4>1. started[c] + GrantedTtl(by_id[id]) \in Nat
        BY <2>1, <2>2, <3>1 DEF TypeOK
      <4>2. /\ pc' = [pc EXCEPT ![c] = "authorized"]
            /\ tid' = [tid EXCEPT ![c] = id]
            /\ deadline' = [deadline EXCEPT ![c] = started[c] + GrantedTtl(by_id[id])]
        BY <1>2, <3>1 DEF Authorize, Goes
      <4>3. PICK d \in Nat : deadline' = [deadline EXCEPT ![c] = d]
        BY <4>1, <4>2
      <4>4. /\ UNCHANGED <<live, identVars, superseded, cred, started, last_event>>
            /\ Handshaking /\ SameStreams
        BY <1>2 DEF Authorize
      <4> HIDE DEF id
      <4> QED BY <2>1, <3>1, <4>2, <4>3, <4>4
              DEF TypeOK, Handshaking, SameStreams, tableVars, identVars, chanVars, TaskStates
    <3>2. CASE ~(id # NoId /\ Authorizes(by_id[id]))
      BY <1>2, <3>2 DEF TypeOK, Authorize, Goes, Handshaking, SameStreams, tableVars, identVars, chanVars, TaskStates
    <3> QED BY <3>1, <3>2
  <2>4. (TidInv /\ PermitInv /\ MutexInv)'
    BY <1>2, <2>1 DEF TypeOK, TidInv, PermitInv, MutexInv, Authorize, Goes, Handshaking, SameStreams, chanVars, Named, Attached
  <2> QED BY <2>3, <2>4
<1>3. CASE WelcomeFails(c)
  <2>1. TypeOK'
    BY <1>3 DEF TypeOK, WelcomeFails, Goes, Handshaking, SameStreams, tableVars, identVars, chanVars, TaskStates
  <2>2. (TidInv /\ PermitInv /\ MutexInv)'
    BY <1>3 DEF TypeOK, TidInv, PermitInv, MutexInv, WelcomeFails, Goes, Handshaking, SameStreams, chanVars, Named, Attached
  <2> QED BY <2>1, <2>2
<1>7. CASE AttachRefused(c)
  <2>1. TypeOK'
    BY <1>7 DEF TypeOK, AttachRefused, Goes, Handshaking, SameStreams, tableVars, identVars, chanVars, TaskStates
  <2>2. (TidInv /\ PermitInv /\ MutexInv)'
    BY <1>7 DEF TypeOK, TidInv, PermitInv, MutexInv, AttachRefused, Goes, Handshaking, SameStreams, chanVars, Named, Attached
  <2> QED BY <2>1, <2>2
<1>4. CASE Attach(c)
  <2>1. tid[c] \in Ids
    BY <1>4 DEF TidInv, Named, Attach
  <2>2. TypeOK'
    BY <1>4, <2>1 DEF TypeOK, Attach, Goes, Handshaking, SameStreams, tableVars, chanVars, TaskStates
  <2>3. (TidInv /\ PermitInv /\ MutexInv)'
    BY <1>4, <2>1 DEF TypeOK, TidInv, PermitInv, MutexInv, Attach, RoutingFree, Goes, Handshaking, SameStreams, chanVars, Named, Attached
  <2> QED BY <2>2, <2>3
<1>5. CASE CancelPredecessor(c)
  <2>1. TypeOK'
    BY <1>5 DEF TypeOK, CancelPredecessor, Evicts, Closes, Goes, Handshaking, tableVars, identVars, chanVars, TaskStates, NoStreams, RequestStates
  <2>2. (TidInv /\ PermitInv /\ MutexInv)'
    BY <1>5 DEF TypeOK, TidInv, PermitInv, MutexInv, CancelPredecessor, Goes, Handshaking, chanVars, Named, Attached
  <2> QED BY <2>1, <2>2
<1>6. CASE AnnounceUp(c)
  <2>1. TypeOK'
    BY <1>6 DEF TypeOK, AnnounceUp, Goes, Handshaking, SameStreams, tableVars, identVars, chanVars, TaskStates
  <2>2. (TidInv /\ PermitInv /\ MutexInv)'
    BY <1>6 DEF TypeOK, TidInv, PermitInv, MutexInv, AnnounceUp, Goes, Handshaking, SameStreams, chanVars, Named, Attached
  <2> QED BY <2>1, <2>2
<1> QED BY <1>1, <1>2, <1>3, <1>4, <1>5, <1>6, <1>7 DEF Handshake

(* One more frame in a queue that has a slot free leaves room for the      *)
(* permit `reserve_route` holds.                                           *)
LEMMA EnqueueType ==
  ASSUME TypeOK, PermitInv, NEW c, SlotFree(c),
         queued' = [queued EXCEPT ![c] = @ + 1], UNCHANGED <<reserving, sess>>
  PROVE  queued' \in [Conns -> 0..CommandCapacity] /\ PermitInv'
<1>1. queued \in [Conns -> 0..CommandCapacity] /\ CommandCapacity \in Nat
  BY DEF TypeOK
<1>2. CASE c \notin Conns
  BY <1>1, <1>2 DEF PermitInv
<1>3. CASE c \in Conns
  <2>1. queued[c] \in Nat /\ queued[c] + Permits(c) < CommandCapacity
    BY <1>1, <1>3 DEF SlotFree
  <2>2. queued[c] < CommandCapacity
    BY <2>1, <1>1 DEF Permits
  <2>3. queued' \in [Conns -> 0..CommandCapacity]
    <3>1. queued[c] + 1 \in 0..CommandCapacity
      BY <1>1, <2>1, <2>2
    <3> QED BY <1>1, <1>3, <3>1
  <2>4. ASSUME reserving # NoReq
        PROVE  sess[reserving] \in Conns /\ queued'[sess[reserving]] < CommandCapacity
    <3>1. CASE sess[reserving] = c
      <4>1. Permits(c) = 1
        BY <2>4, <3>1 DEF Permits
      <4> QED BY <1>1, <1>3, <2>1, <3>1, <4>1
    <3>2. CASE sess[reserving] # c
      BY <1>1, <2>4, <3>2 DEF PermitInv
    <3> QED BY <3>1, <3>2
  <2> QED BY <2>3, <2>4 DEF PermitInv
<1> QED BY <1>2, <1>3

(* A session loop that sends, or stops because it cannot, keeps the types. *)
LEMMA SendsOrStopsType ==
  ASSUME TypeOK, PermitInv, NEW c \in Conns, SendsOrStops(c),
         UNCHANGED <<reserving, sess>>
  PROVE  /\ pc' \in [Conns -> TaskStates] /\ revoked' \in [Conns -> BOOLEAN]
         /\ queued' \in [Conns -> 0..CommandCapacity]
         /\ tx_closed' \in [Conns -> BOOLEAN]
         /\ PermitInv'
         /\ pc[c] = "serving"
         /\ pc' = pc \/ pc' = [pc EXCEPT ![c] = "closing"]
<1>1. CASE SlotFree(c)
  <2>1. queued' = [queued EXCEPT ![c] = @ + 1] /\ UNCHANGED <<pc, revoked, tx_closed>>
    BY <1>1 DEF SendsOrStops
  <2>2. queued' \in [Conns -> 0..CommandCapacity] /\ PermitInv'
    BY <1>1, <2>1, EnqueueType
  <2> QED BY <2>1, <2>2 DEF TypeOK, SendsOrStops
<1>2. CASE ~SlotFree(c)
  <2>1. Stops(c, FALSE) /\ UNCHANGED <<queued, tx_closed>>
    BY <1>2 DEF SendsOrStops
  <2> QED BY <2>1 DEF TypeOK, PermitInv, Stops, Goes, TaskStates
<1> QED BY <1>1, <1>2

(* The session loop keeps the types. *)
LEMMA SessionLoopTypeInv ==
  ASSUME TypeInv, NEW c \in Conns, SessionLoop(c)
  PROVE  TypeInv'
<1> USE DEF TypeInv
<1>1. ASSUME NEW r \in BOOLEAN, Stops(c, r), UNCHANGED <<silent, chanVars>>,
             LoopOnly, SameRequests
      PROVE  TypeInv'
  <2>1. TypeOK'
    BY <1>1 DEF TypeOK, Stops, Goes, LoopOnly, SameRequests, tableVars, identVars,
       routingVars, chanVars, TaskStates
  <2>2. (TidInv /\ PermitInv /\ MutexInv)'
    BY <1>1 DEF TypeOK, TidInv, PermitInv, MutexInv, Stops, Goes, LoopOnly, routingVars, chanVars,
       Named, Attached
  <2> QED BY <2>1, <2>2
<1>2. CASE LeaseExpires(c) \/ TickFindsInactive(c) \/ TickFindsSilent(c) \/ PeerGone(c)
           \/ WriterClosed(c)
  BY <1>1, <1>2 DEF LeaseExpires, TickFindsInactive, TickFindsSilent, PeerGone, WriterClosed
<1>3. CASE Cancelled(c)
  <2>1. (~IsActive(tid[c])) \in BOOLEAN
    OBVIOUS
  <2> QED BY <1>1, <1>3, <2>1 DEF Cancelled
<1>4. ASSUME SendsOrStops(c), UNCHANGED silent, LoopOnly, SameRequests
      PROVE  TypeInv'
  <2>1. UNCHANGED <<reserving, sess>>
    BY <1>4 DEF LoopOnly, routingVars
  <2>2. /\ pc' \in [Conns -> TaskStates] /\ revoked' \in [Conns -> BOOLEAN]
        /\ queued' \in [Conns -> 0..CommandCapacity]
        /\ tx_closed' \in [Conns -> BOOLEAN]
        /\ PermitInv' /\ pc[c] = "serving"
        /\ pc' = pc \/ pc' = [pc EXCEPT ![c] = "closing"]
    BY <1>4, <2>1, SendsOrStopsType
  <2>3. TypeOK'
    BY <1>4, <2>2 DEF TypeOK, LoopOnly, SameRequests, tableVars, identVars, routingVars
  <2>4. (TidInv /\ MutexInv)'
    BY <1>4, <2>2 DEF TypeOK, TidInv, MutexInv, LoopOnly, routingVars, Named, Attached
  <2> QED BY <2>2, <2>3, <2>4
<1>5. CASE TickPings(c) \/ AnswersPing(c)
  BY <1>4, <1>5 DEF TickPings, AnswersPing
<1>6. ASSUME UNCHANGED <<pc, revoked>>, LoopOnly, SameRequests,
             silent' \in [Conns -> BOOLEAN], tx_closed' \in [Conns -> BOOLEAN],
             queued' \in [Conns -> 0..CommandCapacity],
             \A d \in Conns : queued'[d] <= queued[d]
      PROVE  TypeInv'
  <2>1. TypeOK'
    BY <1>6 DEF TypeOK, LoopOnly, SameRequests, tableVars, identVars, routingVars
  <2>2. PermitInv'
    <3> SUFFICES ASSUME reserving' # NoReq
                 PROVE  sess[reserving] \in Conns /\ queued'[sess[reserving]] < CommandCapacity
      BY <1>6 DEF PermitInv, LoopOnly, routingVars
    <3>1. sess[reserving] \in Conns /\ queued[sess[reserving]] < CommandCapacity
      BY <1>6 DEF PermitInv, LoopOnly, routingVars
    <3>2. /\ queued[sess[reserving]] \in Nat /\ queued'[sess[reserving]] \in Nat
          /\ queued'[sess[reserving]] <= queued[sess[reserving]]
      BY <1>6, <3>1 DEF TypeOK
    <3> QED BY <3>1, <3>2
  <2>3. (TidInv /\ MutexInv)'
    BY <1>6 DEF TidInv, MutexInv, LoopOnly, routingVars
  <2> QED BY <2>1, <2>2, <2>3
<1>7. CASE GoesSilent(c) \/ Pong(c)
  <2>1. /\ UNCHANGED <<pc, revoked, queued, tx_closed>> /\ LoopOnly /\ SameRequests
        /\ silent' = [silent EXCEPT ![c] = TRUE] \/ silent' = [silent EXCEPT ![c] = FALSE]
    BY <1>7 DEF GoesSilent, Pong, chanVars
  <2>2. \A d \in Conns : queued'[d] <= queued[d]
    BY <2>1 DEF TypeOK
  <2> QED BY <1>6, <2>1, <2>2 DEF TypeOK
<1>8. CASE WriterSends(c)
  <2>1. UNCHANGED <<pc, revoked, silent, tx_closed>> /\ LoopOnly /\ SameRequests
    BY <1>8 DEF WriterSends
  <2>2. /\ queued' \in [Conns -> 0..CommandCapacity]
        /\ \A d \in Conns : queued'[d] <= queued[d]
    BY <1>8 DEF WriterSends, TypeOK
  <2> QED BY <1>6, <2>1, <2>2 DEF TypeOK
<1>9. CASE WriterDies(c)
  <2>1. UNCHANGED <<pc, revoked, silent>> /\ LoopOnly /\ SameRequests
    BY <1>9 DEF WriterDies
  <2>2. /\ queued' \in [Conns -> 0..CommandCapacity]
        /\ tx_closed' \in [Conns -> BOOLEAN]
        /\ \A d \in Conns : queued'[d] <= queued[d]
    BY <1>9 DEF WriterDies, TypeOK
  <2> QED BY <1>6, <2>1, <2>2 DEF TypeOK
<1> QED BY <1>2, <1>3, <1>5, <1>7, <1>8, <1>9 DEF SessionLoop

(* The teardown keeps the types. *)
LEMMA TeardownTypeInv ==
  ASSUME TypeInv, NEW c \in Conns, TeardownStep(c)
  PROVE  TypeInv'
<1> USE DEF TypeInv
<1>1. CASE Close(c)
  <2>1. TypeOK'
    BY <1>1 DEF TypeOK, Close, Closes, Goes, Teardown, tableVars, identVars,
       routingVars, chanVars, TaskStates, NoStreams, RequestStates
  <2>2. (TidInv /\ PermitInv /\ MutexInv)'
    BY <1>1 DEF TypeOK, TidInv, PermitInv, MutexInv, Close, Goes, Teardown, routingVars, chanVars,
       Named, Attached
  <2> QED BY <2>1, <2>2
<1>2. CASE Detach(c)
  <2>1. TypeOK'
    BY <1>2 DEF TypeOK, Detach, Goes, Teardown, SameStreams, tableVars, identVars,
       routingVars, chanVars, TaskStates
  <2>2. (TidInv /\ PermitInv /\ MutexInv)'
    BY <1>2 DEF TypeOK, TidInv, PermitInv, MutexInv, Detach, Goes, Teardown, routingVars, chanVars,
       Named, Attached
  <2> QED BY <2>1, <2>2
<1>3. CASE ReportEnd(c)
  <2>1. TypeOK'
    BY <1>3 DEF TypeOK, ReportEnd, Goes, Teardown, SameStreams, tableVars, identVars,
       routingVars, chanVars, TaskStates
  <2>2. (TidInv /\ PermitInv /\ MutexInv)'
    BY <1>3 DEF TypeOK, TidInv, PermitInv, MutexInv, ReportEnd, Goes, Teardown, routingVars, chanVars,
       Named, Attached
  <2> QED BY <2>1, <2>2
<1> QED BY <1>1, <1>2, <1>3 DEF TeardownStep

(* A frame of the tether keeps the types. *)
LEMMA InboundTypeInv ==
  ASSUME TypeInv, NEW c \in Conns, Inbound(c)
  PROVE  TypeInv'
<1> USE DEF TypeInv
<1>1. ASSUME SendsOrStops(c), FrameOnly,
             streams' \in [Conns -> [StreamIds -> Requests \cup {NoReq}]],
             rstate' \in [Requests -> RequestStates], told' \subseteq Requests
      PROVE  TypeInv'
  <2>1. UNCHANGED <<reserving, sess>>
    BY <1>1 DEF FrameOnly, routingVars
  <2>2. /\ pc' \in [Conns -> TaskStates] /\ revoked' \in [Conns -> BOOLEAN]
        /\ queued' \in [Conns -> 0..CommandCapacity]
        /\ tx_closed' \in [Conns -> BOOLEAN]
        /\ PermitInv' /\ pc[c] = "serving"
        /\ pc' = pc \/ pc' = [pc EXCEPT ![c] = "closing"]
    BY <1>1, <2>1, SendsOrStopsType
  <2>3. TypeOK'
    BY <1>1, <2>2 DEF TypeOK, FrameOnly, tableVars, identVars, routingVars
  <2>4. (TidInv /\ MutexInv)'
    BY <1>1, <2>2 DEF TypeOK, TidInv, MutexInv, FrameOnly, routingVars, Named, Attached
  <2> QED BY <2>2, <2>3, <2>4
<1>2. CASE LateData(c)
  BY <1>1, <1>2 DEF LateData, TypeOK
<1>3. ASSUME NEW i \in StreamIds, Reject(c, i)
      PROVE  TypeInv'
  <2>1. streams[c][i] \in Requests
    BY <1>3 DEF Reject, TypeOK
  <2>2. /\ streams' = [streams EXCEPT ![c] = [streams[c] EXCEPT ![i] = NoReq]]
        /\ rstate' = [rstate EXCEPT ![streams[c][i]] = "failed"]
        /\ told' = told \/ told' = told \cup {streams[c][i]}
        /\ SendsOrStops(c) /\ FrameOnly
    BY <1>3 DEF Reject, Unregister
  <2>3. [streams[c] EXCEPT ![i] = NoReq] \in [StreamIds -> Requests \cup {NoReq}]
    BY DEF TypeOK
  <2> QED BY <1>1, <2>1, <2>2, <2>3 DEF TypeOK, RequestStates
<1>4. ASSUME NEW i \in StreamIds, NEW ok \in BOOLEAN, End(c, i, ok)
      PROVE  TypeInv'
  <2>1. streams[c][i] \in Requests
    BY <1>4 DEF End, TypeOK
  <2>2. /\ streams' = [streams EXCEPT ![c] = [streams[c] EXCEPT ![i] = NoReq]]
        /\ rstate' = [rstate EXCEPT ![streams[c][i]] = IF ok THEN "completed" ELSE "failed"]
        /\ told' = told \cup {streams[c][i]}
        /\ UNCHANGED <<pc, revoked, chanVars>> /\ FrameOnly
    BY <1>4 DEF End, Unregister
  <2>3. [streams[c] EXCEPT ![i] = NoReq] \in [StreamIds -> Requests \cup {NoReq}]
    BY DEF TypeOK
  <2>4. TypeOK'
    BY <2>1, <2>2, <2>3 DEF TypeOK, FrameOnly, tableVars, identVars, routingVars, chanVars,
       RequestStates
  <2>5. (TidInv /\ PermitInv /\ MutexInv)'
    BY <2>2 DEF TidInv, PermitInv, MutexInv, FrameOnly, routingVars, chanVars
  <2> QED BY <2>4, <2>5
<1> QED BY <1>2, <1>3, <1>4 DEF Inbound

(* Routing and admission keep the types. *)
LEMMA RoutingTypeInv ==
  ASSUME TypeInv, NEW r \in Requests, Routing(r)
  PROVE  TypeInv'
<1> USE DEF TypeInv
<1>1. ASSUME NEW c \in Conns, RoutingFree, SlotFree(c), Holds(r, c), RequestOnly, Reserving
      PROVE  TypeInv'
  <2>1. TypeOK'
    BY <1>1 DEF TypeOK, Holds, RequestOnly, Reserving, tableVars, identVars, chanVars,
       RequestStates
  <2>2. queued[c] < CommandCapacity
    <3>1. queued[c] \in Nat /\ Permits(c) = 0 /\ queued[c] + Permits(c) < CommandCapacity
      BY <1>1 DEF SlotFree, RoutingFree, Permits, TypeOK
    <3> QED BY <3>1
  <2>3. (TidInv /\ PermitInv /\ MutexInv)'
    BY <1>1, <2>2 DEF TypeOK, TidInv, PermitInv, MutexInv, RoutingFree, Holds, RequestOnly,
       Reserving, chanVars
  <2> QED BY <2>1, <2>3
<1>2. ASSUME NEW why \in RequestStates, Refuses(r, why), RequestOnly, Reserving
      PROVE  TypeInv'
  <2>1. TypeOK'
    BY <1>2 DEF TypeOK, Refuses, RequestOnly, Reserving, tableVars, identVars, chanVars
  <2>2. (TidInv /\ PermitInv /\ MutexInv)'
    BY <1>2 DEF TidInv, PermitInv, MutexInv, Refuses, RequestOnly, Reserving, chanVars
  <2> QED BY <2>1, <2>2
<1>3. CASE ForwardAny(r)
  <2>1. ASSUME NEW id \in Candidates, HasRoom(live[id]), Holds(r, live[id])
        PROVE  TypeInv'
    <3>1. live[id] \in Conns /\ SlotFree(live[id])
      BY <2>1 DEF Candidates, HasRoom, TypeOK
    <3> QED BY <1>1, <1>3, <2>1, <3>1 DEF ForwardAny
  <2>2. ASSUME NEW why \in {"TetherBusy", "NoTether"}, Refuses(r, why)
        PROVE  TypeInv'
    BY <1>2, <1>3, <2>2 DEF ForwardAny, RequestStates
  <2> QED BY <1>3, <2>1, <2>2 DEF ForwardAny
<1>4. ASSUME NEW id \in Ids, Forward(r, id)
      PROVE  TypeInv'
  <2>1. ASSUME live[id] # NoConn, SlotFree(live[id]), Holds(r, live[id])
        PROVE  TypeInv'
    <3>1. live[id] \in Conns
      BY <2>1 DEF TypeOK
    <3> QED BY <1>1, <1>4, <2>1, <3>1 DEF Forward
  <2>2. ASSUME NEW why \in {"NoTether", "Revoked", "TetherGone", "TetherBusy"},
               Refuses(r, why)
        PROVE  TypeInv'
    BY <1>2, <1>4, <2>2 DEF Forward, RequestStates
  <2> QED BY <1>4, <2>1, <2>2 DEF Forward
<1>5. CASE Admit(r)
  <2> DEFINE c == sess[r]
  <2> DEFINE i == next_id[c]
  <2>1. c \in Conns /\ queued[c] < CommandCapacity /\ r # NoReq
    BY <1>5 DEF Admit, PermitInv
  <2>2. /\ i \in 1..(MaxStreamId + 1) /\ queued[c] + 1 \in 0..CommandCapacity
        /\ ~Exhausted(i) => i \in StreamIds /\ i + 1 \in 1..(MaxStreamId + 1)
    <3>1. i \in 1..(MaxStreamId + 1) /\ queued[c] \in 0..CommandCapacity
      BY <2>1 DEF TypeOK
    <3> HIDE DEF c, i
    <3>2. ~Exhausted(i) => i \in StreamIds /\ i + 1 \in 1..(MaxStreamId + 1)
      BY <3>1 DEF Exhausted, StreamIds
    <3> QED BY <2>1, <3>1, <3>2
  <2>3. /\ reserving' = NoReq
        /\ UNCHANGED <<abort, tx_closed, sess, told>> /\ RequestOnly
    BY <1>5 DEF Admit
  <2>4. ASSUME next_id' \in [Conns -> 1..(MaxStreamId + 1)],
               rstate' \in [Requests -> RequestStates],
               streams' \in [Conns -> [StreamIds -> Requests \cup {NoReq}]],
               queued' \in [Conns -> 0..CommandCapacity],
               sid' \in [Requests -> 0..MaxStreamId]
        PROVE  TypeInv'
    <3>1. TypeOK'
      BY <2>3, <2>4 DEF TypeOK, RequestOnly, tableVars, identVars
    <3>2. (TidInv /\ PermitInv /\ MutexInv)'
      BY <2>3 DEF TidInv, PermitInv, MutexInv, RequestOnly
    <3> QED BY <3>1, <3>2
  <2>5. CASE Exhausted(i)
    <3>1. /\ rstate' = [rstate EXCEPT ![r] = "Idhausted"]
          /\ UNCHANGED <<streams, next_id, queued, sid>>
      BY <1>5, <2>5 DEF Admit, StreamIdFor
    <3> HIDE DEF c, i
    <3> QED BY <2>4, <3>1 DEF TypeOK, RequestStates
  <2>6. CASE ~Exhausted(i) /\ Refused(c)
    <3>1. /\ next_id' = [next_id EXCEPT ![c] = i + 1]
          /\ rstate' = [rstate EXCEPT ![r] = IF closed[c] THEN "TetherGone" ELSE "TetherBusy"]
          /\ UNCHANGED <<streams, queued, sid>>
      BY <1>5, <2>6 DEF Admit, StreamIdFor
    <3> HIDE DEF c, i
    <3> QED BY <2>2, <2>4, <2>6, <3>1 DEF TypeOK, RequestStates
  <2>7. CASE ~Exhausted(i) /\ ~Refused(c)
    <3>1. /\ next_id' = [next_id EXCEPT ![c] = i + 1]
          /\ rstate' = [rstate EXCEPT ![r] = "inflight"]
          /\ sid' = [sid EXCEPT ![r] = i]
          /\ streams' = [streams EXCEPT ![c] = [streams[c] EXCEPT ![i] = r]]
          /\ queued' = queued \/ queued' = [queued EXCEPT ![c] = queued[c] + 1]
      BY <1>5, <2>7 DEF Admit, StreamIdFor
    <3> HIDE DEF c, i
    <3>2. [streams[c] EXCEPT ![i] = r] \in [StreamIds -> Requests \cup {NoReq}]
      BY <2>1, <2>2, <2>7 DEF TypeOK
    <3>3. streams' \in [Conns -> [StreamIds -> Requests \cup {NoReq}]]
      BY <2>1, <3>1, <3>2 DEF TypeOK
    <3>4. i \in 0..MaxStreamId
      BY <2>2, <2>7 DEF StreamIds
    <3>5. /\ next_id' \in [Conns -> 1..(MaxStreamId + 1)]
          /\ queued' \in [Conns -> 0..CommandCapacity]
          /\ sid' \in [Requests -> 0..MaxStreamId]
      <4>1. PICK n \in 1..(MaxStreamId + 1), q \in 0..CommandCapacity :
              /\ next_id' = [next_id EXCEPT ![c] = n]
              /\ queued' = queued \/ queued' = [queued EXCEPT ![c] = q]
        BY <2>2, <2>7, <3>1
      <4>2. next_id' \in [Conns -> 1..(MaxStreamId + 1)]
        BY <4>1 DEF TypeOK
      <4>3. queued' \in [Conns -> 0..CommandCapacity]
        BY <4>1 DEF TypeOK
      <4>4. sid' \in [Requests -> 0..MaxStreamId]
        BY <3>1, <3>4 DEF TypeOK
      <4> QED BY <4>2, <4>3, <4>4
    <3>6. rstate' \in [Requests -> RequestStates]
      BY <3>1 DEF TypeOK, RequestStates
    <3> QED BY <2>4, <3>3, <3>5, <3>6
  <2> QED BY <2>5, <2>6, <2>7
<1> QED BY <1>3, <1>4, <1>5 DEF Routing

(* The steps of a forwarded stream keep the types. *)
LEMMA StreamTypeInv ==
  ASSUME TypeInv, NEW r \in Requests, Stream(r)
  PROVE  TypeInv'
<1> USE DEF TypeInv
<1>1. ASSUME RequestOnly, UNCHANGED <<reserving, next_id, tx_closed, sess, sid>>,
             abort' \in [Conns -> BOOLEAN],
             streams' \in [Conns -> [StreamIds -> Requests \cup {NoReq}]],
             queued' \in [Conns -> 0..CommandCapacity], PermitInv',
             rstate' \in [Requests -> RequestStates], told' \subseteq Requests
      PROVE  TypeInv'
  <2>1. TypeOK'
    BY <1>1 DEF TypeOK, RequestOnly, tableVars, identVars
  <2>2. (TidInv /\ MutexInv)'
    BY <1>1 DEF TidInv, MutexInv, RequestOnly
  <2> QED BY <1>1, <2>1, <2>2
<1>2. ASSUME SendsEndOrAborts(r), UNCHANGED <<reserving, sess>>
      PROVE  /\ queued' \in [Conns -> 0..CommandCapacity] /\ PermitInv'
             /\ abort' \in [Conns -> BOOLEAN] /\ told' \subseteq Requests
  <2>1. /\ queued' = IF SlotFree(sess[r]) THEN [queued EXCEPT ![sess[r]] = @ + 1] ELSE queued
        /\ abort' = abort \/ abort' = [abort EXCEPT ![sess[r]] = TRUE]
        /\ told' = told \/ told' = told \cup {r}
    BY <1>2 DEF SendsEndOrAborts
  <2>2. queued' \in [Conns -> 0..CommandCapacity] /\ PermitInv'
    <3>1. CASE SlotFree(sess[r])
      BY <1>2, <2>1, <3>1, EnqueueType
    <3>2. CASE ~SlotFree(sess[r])
      BY <1>2, <2>1, <3>2 DEF PermitInv, TypeOK
    <3> QED BY <3>1, <3>2
  <2> QED BY <2>1, <2>2 DEF TypeOK
<1>3. CASE UploadSends(r)
  <2>1. /\ SlotFree(sess[r]) /\ queued' = [queued EXCEPT ![sess[r]] = @ + 1]
        /\ RequestOnly
        /\ UNCHANGED <<reserving, abort, streams, next_id, tx_closed, rstate, sess, sid, told>>
    BY <1>3 DEF UploadSends, requestVars
  <2>2. queued' \in [Conns -> 0..CommandCapacity] /\ PermitInv'
    BY <2>1, EnqueueType
  <2> QED BY <1>1, <2>1, <2>2 DEF TypeOK
<1>4. CASE UploadFails(r)
  <2>1. /\ rstate' = [rstate EXCEPT ![r] = "failed"] /\ SendsEndOrAborts(r) /\ RequestOnly
        /\ UNCHANGED <<reserving, streams, next_id, tx_closed, sess, sid>>
    BY <1>4 DEF UploadFails
  <2> QED BY <1>1, <1>2, <2>1 DEF TypeOK, RequestStates
<1>5. CASE Drop(r)
  <2>1. /\ streams' = [streams EXCEPT ![sess[r]] = [streams[sess[r]] EXCEPT ![sid[r]] = NoReq]]
        /\ UNCHANGED <<reserving, next_id, tx_closed, sess, sid>> /\ RequestOnly
    BY <1>5 DEF Drop, Unregister
  <2>2. streams' \in [Conns -> [StreamIds -> Requests \cup {NoReq}]]
    <3>1. CASE sess[r] \in Conns
      <4>1. [streams[sess[r]] EXCEPT ![sid[r]] = NoReq] \in [StreamIds -> Requests \cup {NoReq}]
        BY <3>1 DEF TypeOK
      <4> QED BY <2>1, <4>1 DEF TypeOK
    <3>2. CASE sess[r] \notin Conns
      BY <2>1, <3>2 DEF TypeOK
    <3> QED BY <3>1, <3>2
  <2>3. CASE rstate' = [rstate EXCEPT ![r] = "released"] /\ UNCHANGED <<abort, queued, told>>
    <3>1. PermitInv'
      BY <2>1, <2>3 DEF PermitInv
    <3> QED BY <1>1, <2>1, <2>2, <2>3, <3>1 DEF TypeOK, RequestStates
  <2>4. CASE rstate' = [rstate EXCEPT ![r] = "abandoned"] /\ SendsEndOrAborts(r)
    BY <1>1, <1>2, <2>1, <2>2, <2>4 DEF TypeOK, RequestStates
  <2> QED BY <1>5, <2>3, <2>4 DEF Drop
<1> QED BY <1>3, <1>4, <1>5 DEF Stream

(* Every step keeps the types. *)
LEMMA NextTypeInv == TypeInv /\ [Next]_vars => TypeInv'
<1> SUFFICES ASSUME TypeInv, [Next]_vars PROVE TypeInv'
  OBVIOUS
<1>1. CASE UNCHANGED vars
  BY <1>1 DEF TypeInv, TypeOK, TidInv, PermitInv, MutexInv, vars
<1>2. CASE Tick \/ ControlPlane
  BY <1>2, ControlTypeInv
<1>3. ASSUME NEW c \in Conns,
             Handshake(c) \/ SessionLoop(c) \/ TeardownStep(c) \/ Inbound(c)
      PROVE  TypeInv'
  BY <1>3, HandshakeTypeInv, SessionLoopTypeInv, TeardownTypeInv, InboundTypeInv
<1>4. ASSUME NEW r \in Requests, Routing(r) \/ Stream(r)
      PROVE  TypeInv'
  BY <1>4, RoutingTypeInv, StreamTypeInv
<1> QED BY <1>1, <1>2, <1>3, <1>4 DEF Next

(* In every reachable state every variable has its type, the permit that   *)
(* `reserve_route` took is for a session with room for the OPEN, and       *)
(* `routing` has a single holder.                                          *)
THEOREM TypeInvariant == Spec => []TypeInv
<1> QED BY InitTypeInv, NextTypeInv, PTL DEF Spec

(* Every variable keeps its type, for every value of the constants.        *)
THEOREM TypeCorrect == Spec => []TypeOK
<1>1. TypeInv => TypeOK
  BY DEF TypeInv
<1> QED BY <1>1, TypeInvariant, PTL

-----------------------------------------------------------------------------
(* What each part of the code leaves alone.                                *)
LEMMA SessionLoopFrame ==
  ASSUME NEW c \in Conns, SessionLoop(c)
  PROVE  /\ UNCHANGED <<now, by_credential, by_id, live, generation, next_generation,
                        revoking, superseded, reserving, cred, started, tid, deadline,
                        closed, next_id, streams, rstate, sess, sid>>
         /\ \/ pc' = pc
            \/ pc[c] = "serving" /\ pc' = [pc EXCEPT ![c] = "closing"]
<1>1. LoopOnly /\ SameRequests
  BY DEF SessionLoop, LeaseExpires, Cancelled, TickFindsInactive, TickFindsSilent, TickPings,
     AnswersPing, PeerGone, WriterClosed, GoesSilent, Pong, WriterSends, WriterDies
<1>2. \/ pc' = pc
      \/ pc[c] = "serving" /\ pc' = [pc EXCEPT ![c] = "closing"]
  BY DEF SessionLoop, LeaseExpires, Cancelled, TickFindsInactive, TickFindsSilent, TickPings,
     AnswersPing, PeerGone, WriterClosed, GoesSilent, Pong, WriterSends, WriterDies,
     SendsOrStops, Stops, Goes
<1> QED BY <1>1, <1>2 DEF LoopOnly, SameRequests, tableVars, identVars, routingVars

(* A frame of the tether changes no table, and at most ends its session. *)
LEMMA InboundFrame ==
  ASSUME NEW c \in Conns, Inbound(c)
  PROVE  /\ UNCHANGED <<now, by_credential, by_id, live, generation, next_generation,
                        revoking, superseded, reserving, cred, started, tid, deadline,
                        closed, next_id, sess, sid>>
         /\ \/ pc' = pc
            \/ pc[c] = "serving" /\ pc' = [pc EXCEPT ![c] = "closing"]
<1>1. FrameOnly
  BY DEF Inbound, LateData, Reject, End
<1>2. \/ pc' = pc
      \/ pc[c] = "serving" /\ pc' = [pc EXCEPT ![c] = "closing"]
  BY DEF Inbound, LateData, Reject, End, SendsOrStops, Stops, Goes
<1> QED BY <1>1, <1>2 DEF FrameOnly, tableVars, identVars, routingVars

(* A request changes no table and no session task. *)
LEMMA RequestFrame ==
  ASSUME NEW r \in Requests, Routing(r) \/ Stream(r)
  PROVE  UNCHANGED <<now, by_credential, by_id, live, generation, next_generation,
                     revoking, superseded, pc, cred, started, tid, deadline, closed>>
<1>1. RequestOnly
  BY DEF Routing, Stream, ForwardAny, Forward, Admit, UploadSends, UploadFails, Drop
<1> QED BY <1>1 DEF RequestOnly, tableVars, identVars

-----------------------------------------------------------------------------
(* The routing table.                                                      *)
RouteInv == LiveIsAuthorized /\ RoutedSessionHasTask

(* A step that leaves the records and the routes alone keeps the routes. *)
LEMMA RouteQuiet ==
  ASSUME TypeInv, RouteInv, UNCHANGED <<by_id, live, revoking, cred>>,
         \A d \in Conns : pc[d] \in Attached => pc'[d] \in Attached /\ tid'[d] = tid[d]
  PROVE  RouteInv'
BY DEF RouteInv, LiveIsAuthorized, RoutedSessionHasTask, TypeInv, TypeOK

(* The control plane cancels the session of what it revokes. *)
LEMMA ControlRoute ==
  ASSUME TypeInv, RouteInv, ControlPlane
  PROVE  RouteInv'
<1> USE DEF TypeInv
<1>1. UNCHANGED <<pc, tid, cred>>
  BY DEF ControlPlane, Register, Revoke, EvictRevoked, ReplaceRecords, Unaffected, taskVars
<1>2. ASSUME NEW id \in Ids, NEW k \in Creds, Register(id, k)
      PROVE  RouteInv'
  BY <1>1, <1>2 DEF Register, routingVars, RouteInv, LiveIsAuthorized, RoutedSessionHasTask, TypeOK
<1>3. ASSUME NEW id \in Ids, Revoke(id)
      PROVE  RouteInv'
  <2>1. /\ by_id[id] \in Records /\ revoking = NoId /\ revoking' = id /\ UNCHANGED live
        /\ by_id' = [by_id EXCEPT ![id] = Disabled(by_id[id])]
    BY <1>3 DEF Revoke, RoutingFree, TypeOK
  <2>2. Disabled(by_id[id]) # NoTether /\ Disabled(by_id[id]).hash = by_id[id].hash
    <3>1. Disabled(by_id[id]) \in Records
      BY <2>1 DEF Disabled, Records
    <3> QED BY <3>1 DEF Disabled
  <2>3. ASSUME NEW x \in Ids, live[x] # NoConn
        PROVE  /\ tid[live[x]] = x /\ by_id'[x] # NoTether
               /\ by_id'[x].hash = cred[live[x]]
               /\ by_id'[x].active \/ revoking' = x
               /\ pc[live[x]] \in Attached
    <3>1. /\ tid[live[x]] = x /\ by_id[x] # NoTether /\ by_id[x].hash = cred[live[x]]
          /\ by_id[x].active \/ revoking = x
          /\ pc[live[x]] \in Attached
      BY <2>3 DEF RouteInv, LiveIsAuthorized, RoutedSessionHasTask
    <3>2. CASE x = id
      BY <2>1, <2>2, <3>1, <3>2 DEF TypeOK
    <3>3. CASE x # id
      BY <2>1, <3>1, <3>3 DEF TypeOK
    <3> QED BY <3>2, <3>3
  <2> QED BY <1>1, <2>1, <2>3 DEF RouteInv, LiveIsAuthorized, RoutedSessionHasTask
<1>4. CASE EvictRevoked
  BY <1>1, <1>4 DEF EvictRevoked, tableVars, RouteInv, LiveIsAuthorized, RoutedSessionHasTask, TypeOK
<1>5. ASSUME NEW s \in Snapshots \cup {NoRecords}, ReplaceRecords(s)
      PROVE  RouteInv'
  <2>1. /\ by_id' = s /\ UNCHANGED revoking
        /\ live' = [id \in Ids |-> IF KeptBy(s, id) THEN live[id] ELSE NoConn]
    BY <1>5 DEF ReplaceRecords, routingVars
  <2>2. \A id \in Ids : KeptBy(s, id) => /\ s[id] # NoTether /\ s[id].active
                                         /\ s[id].hash = by_id[id].hash
    BY DEF KeptBy, Usable
  <2> QED BY <1>1, <2>1, <2>2 DEF RouteInv, LiveIsAuthorized, RoutedSessionHasTask, TypeOK
<1> QED BY <1>2, <1>3, <1>4, <1>5 DEF ControlPlane

(* A handshake attaches a session only to an active record. *)
LEMMA HandshakeRoute ==
  ASSUME TypeInv, RouteInv, NEW c \in Conns, Handshake(c)
  PROVE  RouteInv'
<1> USE DEF TypeInv
<1>1. CASE Hello(c) \/ WelcomeFails(c) \/ AttachRefused(c) \/ CancelPredecessor(c) \/ AnnounceUp(c)
  <2>1. UNCHANGED <<by_id, live, revoking, cred, tid>>
    BY <1>1 DEF Hello, WelcomeFails, AttachRefused, CancelPredecessor, AnnounceUp, Handshaking, tableVars
  <2>2. \/ pc[c] \notin Attached /\ \E s \in TaskStates : pc' = [pc EXCEPT ![c] = s]
        \/ \E s \in Attached : pc' = [pc EXCEPT ![c] = s]
    BY <1>1 DEF Hello, WelcomeFails, AttachRefused, CancelPredecessor, AnnounceUp, Goes,
       Attached, TaskStates
  <2>3. \A d \in Conns : pc[d] \in Attached => pc'[d] \in Attached
    BY <2>2 DEF TypeOK
  <2> QED BY <2>1, <2>3, RouteQuiet
<1>2. CASE Authorize(c)
  <2>1. UNCHANGED <<by_id, live, revoking, cred>>
    BY <1>2 DEF Authorize, Handshaking, tableVars
  <2>2. /\ pc[c] \notin Attached
        /\ \A d \in Conns \ {c} : pc'[d] = pc[d] /\ tid'[d] = tid[d]
    BY <1>2 DEF Authorize, Goes, Attached, TypeOK
  <2> QED BY <2>1, <2>2, RouteQuiet
<1>3. CASE Attach(c)
  <2>1. /\ UNCHANGED <<by_id, revoking, cred, tid>>
        /\ live' = [live EXCEPT ![tid[c]] = c]
        /\ pc' = [pc EXCEPT ![c] = "attached"] \/ pc' = [pc EXCEPT ![c] = "attaching"]
        /\ by_id[tid[c]] # NoTether /\ by_id[tid[c]].active /\ by_id[tid[c]].hash = cred[c]
        /\ tid[c] \in Ids
    BY <1>3 DEF Attach, StillAuthorized, Usable, Goes, Handshaking, tableVars, TidInv, Named
  <2>2. \A d \in Conns : pc[d] \in Attached \/ d = c => pc'[d] \in Attached
    BY <2>1 DEF TypeOK, Attached
  <2>3. \A x \in Ids : live'[x] = IF x = tid[c] THEN c ELSE live[x]
    BY <2>1 DEF TypeOK
  <2>4. ASSUME NEW x \in Ids, live'[x] # NoConn
        PROVE  /\ tid[live'[x]] = x /\ by_id[x] # NoTether
               /\ by_id[x].hash = cred[live'[x]]
               /\ by_id[x].active \/ revoking = x
               /\ pc'[live'[x]] \in Attached
    <3>1. CASE x = tid[c]
      BY <2>1, <2>2, <2>3, <3>1
    <3>2. CASE x # tid[c]
      <4>1. live'[x] = live[x] /\ live[x] \in Conns
        BY <2>3, <2>4, <3>2 DEF TypeOK
      <4> QED BY <2>2, <2>4, <4>1 DEF RouteInv, LiveIsAuthorized, RoutedSessionHasTask
    <3> QED BY <3>1, <3>2
  <2>5. UNCHANGED <<by_id, revoking, cred, tid>>
    BY <2>1
  <2> QED BY <2>4, <2>5 DEF RouteInv, LiveIsAuthorized, RoutedSessionHasTask
<1> QED BY <1>1, <1>2, <1>3 DEF Handshake

(* A teardown removes its own route. *)
LEMMA TeardownRoute ==
  ASSUME TypeInv, RouteInv, NEW c \in Conns, TeardownStep(c)
  PROVE  RouteInv'
<1> USE DEF TypeInv
<1>1. UNCHANGED <<by_id, revoking, cred, tid, generation>>
  BY DEF TeardownStep, Close, Detach, ReportEnd, Teardown, tableVars, routingVars, identVars
<1>2. CASE Close(c) \/ ReportEnd(c)
  <2>1. UNCHANGED live
    BY <1>2 DEF Close, ReportEnd
  <2>2. \A d \in Conns : pc[d] \in Attached => pc'[d] \in Attached
    BY <1>2 DEF Close, ReportEnd, Goes, Attached, TypeOK
  <2> QED BY <1>1, <2>1, <2>2, RouteQuiet
<1>3. CASE Detach(c)
  <2>1. \A id \in Ids : live[id] = c => id = tid[c] /\ OwnsEntry(c)
    BY DEF RouteInv, LiveIsAuthorized, OwnsEntry
  <2>2. /\ live' = IF OwnsEntry(c) THEN [live EXCEPT ![tid[c]] = NoConn] ELSE live
        /\ pc' = [pc EXCEPT ![c] = "reporting"]
    BY <1>3 DEF Detach, Goes
  <2>3. \A id \in Ids : live'[id] # NoConn => live'[id] = live[id] /\ live[id] # c
    BY <2>1, <2>2 DEF TypeOK
  <2> QED BY <1>1, <2>2, <2>3 DEF RouteInv, LiveIsAuthorized, RoutedSessionHasTask, TypeOK
<1> QED BY <1>2, <1>3 DEF TeardownStep

(* Every step keeps the routes. *)
LEMMA NextRoute == TypeInv /\ RouteInv /\ [Next]_vars => RouteInv'
<1> SUFFICES ASSUME TypeInv, RouteInv, [Next]_vars PROVE RouteInv'
  OBVIOUS
<1>1. CASE UNCHANGED vars
  BY <1>1, RouteQuiet DEF vars
<1>2. CASE Tick
  BY <1>2, RouteQuiet DEF Tick, tableVars, routingVars, taskVars
<1>3. CASE ControlPlane
  BY <1>3, ControlRoute
<1>4. ASSUME NEW c \in Conns, SessionLoop(c) \/ Inbound(c)
      PROVE  RouteInv'
  <2>1. /\ UNCHANGED <<by_id, live, revoking, cred, tid>>
        /\ pc' = pc \/ pc' = [pc EXCEPT ![c] = "closing"]
    BY <1>4, SessionLoopFrame, InboundFrame
  <2> QED BY <2>1, RouteQuiet DEF TypeInv, TypeOK, Attached
<1>5. ASSUME NEW c \in Conns, Handshake(c) \/ TeardownStep(c)
      PROVE  RouteInv'
  BY <1>5, HandshakeRoute, TeardownRoute
<1>6. ASSUME NEW r \in Requests, Routing(r) \/ Stream(r)
      PROVE  RouteInv'
  BY <1>6, RequestFrame, RouteQuiet
<1> QED BY <1>1, <1>2, <1>3, <1>4, <1>5, <1>6 DEF Next

(* The routing table names a session only under the credential the record  *)
(* holds now, active or being revoked at this moment (`attach`, `revoke`,  *)
(* `replace_records`), and only while its task has still to detach.        *)
THEOREM RoutingIsAuthorized == Spec => [](LiveIsAuthorized /\ RoutedSessionHasTask)
<1>1. Init => RouteInv
  BY DEF Init, RouteInv, LiveIsAuthorized, RoutedSessionHasTask
<1>2. RouteInv => LiveIsAuthorized /\ RoutedSessionHasTask
  BY DEF RouteInv
<1> QED BY <1>1, <1>2, NextRoute, TypeInvariant, PTL DEF Spec

-----------------------------------------------------------------------------
(* Ownership: generations tell sessions apart, so a session that is not    *)
(* closed is never detached by another one's exit.                         *)
Joined    == Attached \cup {"reporting"}
Unjoined  == {"idle", "hello", "authorized"}

GenerationInv ==
  /\ \A c \in Conns : generation[c] < next_generation
  /\ \A c \in Conns : pc[c] \in Joined => generation[c] # 0
  /\ \A c \in Conns : pc[c] \in Unjoined => generation[c] = 0
  /\ \A c, d \in Conns : generation[c] # 0 /\ generation[c] = generation[d] => c = d

(* A session that has run `close` is closed.                               *)
ClosedInv ==
  \A c \in Conns :
    pc[c] \in {"detaching", "reporting", "done"} /\ generation[c] # 0 => closed[c]

OwnerInv == GenerationInv /\ ClosedInv /\ NoUnroutableSession

(* A step that attaches and detaches nothing keeps who owns a route. *)
LEMMA OwnerQuiet ==
  ASSUME TypeInv, OwnerInv, UNCHANGED <<live, superseded, generation, next_generation>>,
         \A d \in Conns :
           /\ closed[d] => closed'[d]
           /\ pc'[d] # pc[d] => /\ pc'[d] \in Attached => pc[d] \in Attached
                                /\ pc'[d] \in Joined => pc[d] \in Joined
                                /\ pc'[d] \in Unjoined => pc[d] \in Unjoined
                                /\ pc'[d] \in {"detaching", "reporting", "done"} =>
                                     \/ closed'[d] \/ generation[d] = 0
           /\ pc'[d] \in Attached => tid'[d] = tid[d]
  PROVE  OwnerInv'
<1>1. GenerationInv'
  BY DEF OwnerInv, GenerationInv
<1>2. ClosedInv'
  BY DEF OwnerInv, ClosedInv
<1>3. NoUnroutableSession'
  BY DEF OwnerInv, NoUnroutableSession
<1> QED BY <1>1, <1>2, <1>3 DEF OwnerInv

(* The control plane closes whatever it takes out of the routing table.    *)
LEMMA ControlOwner ==
  ASSUME TypeInv, OwnerInv, ControlPlane
  PROVE  OwnerInv'
<1> USE DEF TypeInv
<1>1. UNCHANGED <<pc, tid, generation, next_generation, superseded>>
  BY DEF ControlPlane, Register, Revoke, EvictRevoked, ReplaceRecords, Unaffected, taskVars,
     identVars, routingVars
<1> DEFINE KeepsOrCloses ==
      /\ \A c \in Conns : closed[c] => closed'[c]
      /\ \A id \in Ids : live[id] # NoConn => (live'[id] = live[id] \/ closed'[live[id]])
<1>2. KeepsOrCloses
  <2>1. ASSUME NEW id \in Ids, NEW k \in Creds, Register(id, k)
        PROVE  KeepsOrCloses
    <3>1. /\ live' = [live EXCEPT ![id] = NoConn]
          /\ closed' = [c \in Conns |-> closed[c] \/ c \in {live[id]} \ {NoConn}]
      BY <2>1 DEF Register, Evicts, Closes
    <3>2. \A c \in Conns : closed[c] \/ c = live[id] => closed'[c]
      BY <3>1, Zenon DEF TypeOK
    <3>3. \A x \in Ids : live'[x] = IF x = id THEN NoConn ELSE live[x]
      BY <3>1 DEF TypeOK
    <3> QED BY <3>2, <3>3 DEF TypeOK
  <2>2. ASSUME NEW id \in Ids, Revoke(id)
        PROVE  KeepsOrCloses
    BY <2>2 DEF Revoke
  <2>3. CASE EvictRevoked
    <3>1. /\ live' = [live EXCEPT ![revoking] = NoConn]
          /\ closed' = [c \in Conns |-> closed[c] \/ c \in {live[revoking]} \ {NoConn}]
      BY <2>3 DEF EvictRevoked, Evicts, Closes
    <3>2. \A c \in Conns : closed[c] \/ c = live[revoking] => closed'[c]
      BY <3>1, Zenon DEF TypeOK
    <3>3. \A x \in Ids : live'[x] = IF x = revoking THEN NoConn ELSE live[x]
      BY <3>1 DEF TypeOK
    <3> QED BY <3>2, <3>3 DEF TypeOK
  <2>4. ASSUME NEW s \in Snapshots \cup {NoRecords}, ReplaceRecords(s)
        PROVE  KeepsOrCloses
    <3> DEFINE S == {live[id] : id \in {i \in Ids : ~KeptBy(s, i)}} \ {NoConn}
    <3>1. /\ live' = [id \in Ids |-> IF KeptBy(s, id) THEN live[id] ELSE NoConn]
          /\ closed' = [c \in Conns |-> closed[c] \/ c \in S]
      BY <2>4 DEF ReplaceRecords, Evicts, Closes
    <3>2. \A id \in Ids : live[id] # NoConn /\ ~KeptBy(s, id) => live[id] \in S
      OBVIOUS
    <3> HIDE DEF S
    <3>3. \A c \in Conns : closed[c] \/ c \in S => closed'[c]
      BY <3>1, Zenon
    <3>4. \A id \in Ids : live'[id] = IF KeptBy(s, id) THEN live[id] ELSE NoConn
      BY <3>1
    <3> QED BY <3>2, <3>3, <3>4 DEF TypeOK
  <2> QED BY <2>1, <2>2, <2>3, <2>4 DEF ControlPlane
<1>3. GenerationInv' /\ ClosedInv'
  BY <1>1, <1>2 DEF OwnerInv, GenerationInv, ClosedInv
<1>4. NoUnroutableSession'
  <2> SUFFICES ASSUME NEW c \in Conns, pc[c] \in Attached, ~closed'[c]
               PROVE  live'[tid[c]] = c \/ superseded = c
    BY <1>1 DEF NoUnroutableSession
  <2>1. tid[c] \in Ids /\ (live[tid[c]] = c \/ superseded = c)
    BY <1>2 DEF OwnerInv, NoUnroutableSession, TidInv, Named
  <2> QED BY <1>2, <2>1
<1> QED BY <1>3, <1>4 DEF OwnerInv

(* An attach takes the route with a new generation. *)
LEMMA HandshakeOwner ==
  ASSUME TypeInv, OwnerInv, NEW c \in Conns, Handshake(c)
  PROVE  OwnerInv'
<1> USE DEF TypeInv
<1>1. CASE Hello(c) \/ WelcomeFails(c) \/ AttachRefused(c) \/ AnnounceUp(c)
  <2>1. UNCHANGED <<live, superseded, generation, next_generation, tid, closed>>
    BY <1>1 DEF Hello, WelcomeFails, AttachRefused, AnnounceUp, Handshaking, SameStreams, identVars
  <2>2. /\ \A d \in Conns \ {c} : pc'[d] = pc[d]
        /\ \/ pc[c] = "idle" /\ pc'[c] = "hello"
           \/ pc[c] = "authorized" /\ pc'[c] = "done"
           \/ pc[c] = "attached" /\ pc'[c] = "serving"
    BY <1>1 DEF Hello, WelcomeFails, AttachRefused, AnnounceUp, Goes, TypeOK
  <2>3. pc[c] = "authorized" => generation[c] = 0
    BY DEF OwnerInv, GenerationInv, Unjoined
  <2> QED BY <2>1, <2>2, <2>3, OwnerQuiet DEF Attached, Joined, Unjoined
<1>2. CASE Authorize(c)
  <2>1. UNCHANGED <<live, superseded, generation, next_generation, closed>>
    BY <1>2 DEF Authorize, Handshaking, SameStreams, identVars
  <2>2. /\ \A d \in Conns \ {c} : pc'[d] = pc[d] /\ tid'[d] = tid[d]
        /\ pc[c] = "hello" /\ pc'[c] \in {"authorized", "done"}
    BY <1>2 DEF Authorize, Goes, TypeOK
  <2>3. generation[c] = 0
    BY <2>2 DEF OwnerInv, GenerationInv, Unjoined
  <2> QED BY <2>1, <2>2, <2>3, OwnerQuiet DEF Attached, Joined, Unjoined
<1>3. CASE Attach(c)
  <2>1. /\ UNCHANGED <<tid, closed>> /\ pc[c] = "authorized" /\ tid[c] \in Ids
        /\ superseded = NoConn /\ superseded' = live[tid[c]]
        /\ live' = [live EXCEPT ![tid[c]] = c]
        /\ generation' = [generation EXCEPT ![c] = next_generation]
        /\ next_generation' = next_generation + 1
    BY <1>3 DEF Attach, RoutingFree, SameStreams, TidInv, Named
  <2>2. /\ \A d \in Conns \ {c} : pc'[d] = pc[d] /\ generation'[d] = generation[d]
        /\ pc'[c] \in {"attached", "attaching"} /\ generation'[c] = next_generation
    BY <1>3, <2>1 DEF Attach, Goes, TypeOK
  <2>3. GenerationInv'
    <3>1. /\ next_generation \in Nat \ {0} /\ \A d \in Conns : generation[d] \in Nat
          /\ \A d \in Conns : generation[d] < next_generation
      BY DEF TypeOK, OwnerInv, GenerationInv
    <3>2. \A d \in Conns : generation'[d] < next_generation'
      BY <2>1, <2>2, <3>1
    <3>3. \A d, e \in Conns : generation'[d] # 0 /\ generation'[d] = generation'[e] => d = e
      BY <2>2, <3>1 DEF OwnerInv, GenerationInv
    <3>4. \A d \in Conns : /\ pc'[d] \in Joined => generation'[d] # 0
                           /\ pc'[d] \in Unjoined => generation'[d] = 0
      BY <2>2, <3>1 DEF OwnerInv, GenerationInv, Joined, Unjoined, Attached
    <3> QED BY <3>2, <3>3, <3>4 DEF GenerationInv
  <2>4. ClosedInv'
    BY <2>1, <2>2 DEF OwnerInv, ClosedInv
  <2>5. NoUnroutableSession'
    <3> SUFFICES ASSUME NEW d \in Conns, pc'[d] \in Attached, ~closed[d]
                 PROVE  live'[tid[d]] = d \/ superseded' = d
      BY <2>1 DEF NoUnroutableSession
    <3>1. CASE d = c
      BY <2>1, <3>1 DEF TypeOK
    <3>2. CASE d # c
      <4>1. live[tid[d]] = d /\ tid[d] \in Ids
        BY <2>1, <2>2, <3>2 DEF OwnerInv, NoUnroutableSession, TidInv, Named
      <4> QED BY <2>1, <4>1 DEF TypeOK
    <3> QED BY <3>1, <3>2
  <2> QED BY <2>3, <2>4, <2>5 DEF OwnerInv
<1>4. CASE CancelPredecessor(c)
  <2>1. /\ UNCHANGED <<live, generation, next_generation, tid>> /\ superseded' = NoConn
        /\ closed' = [d \in Conns |-> closed[d] \/ d \in {superseded}]
    BY <1>4 DEF CancelPredecessor, Evicts, Closes, identVars
  <2>2. /\ \A d \in Conns \ {c} : pc'[d] = pc[d]
        /\ pc[c] = "attaching" /\ pc'[c] = "attached"
    BY <1>4 DEF CancelPredecessor, Goes, TypeOK
  <2>3. GenerationInv' /\ ClosedInv'
    BY <2>1, <2>2 DEF OwnerInv, GenerationInv, ClosedInv, Joined, Unjoined, Attached
  <2>4. NoUnroutableSession'
    BY <2>1, <2>2 DEF OwnerInv, NoUnroutableSession, Attached
  <2> QED BY <2>3, <2>4 DEF OwnerInv
<1> QED BY <1>1, <1>2, <1>3, <1>4 DEF Handshake

(* A detach removes the route only of its own generation. *)
LEMMA TeardownOwner ==
  ASSUME TypeInv, RouteInv, OwnerInv, NEW c \in Conns, TeardownStep(c)
  PROVE  OwnerInv'
<1> USE DEF TypeInv
<1>1. UNCHANGED <<superseded, tid, generation, next_generation>>
  BY DEF TeardownStep, Close, Detach, ReportEnd, Teardown, routingVars, identVars
<1>2. CASE Close(c)
  <2>1. /\ UNCHANGED live /\ closed' = [d \in Conns |-> closed[d] \/ d \in {c}]
        /\ pc[c] = "closing" /\ pc' = [pc EXCEPT ![c] = "detaching"]
    BY <1>2 DEF Close, Closes, Goes
  <2>2. \A d \in Conns \ {c} : pc'[d] = pc[d] /\ (closed[d] => closed'[d])
    BY <2>1 DEF TypeOK
  <2>3. closed'[c] /\ pc'[c] = "detaching"
    BY <2>1 DEF TypeOK
  <2> QED BY <1>1, <2>1, <2>2, <2>3, OwnerQuiet DEF Attached, Joined, Unjoined
<1>3. CASE ReportEnd(c)
  <2>1. /\ UNCHANGED <<live, closed>> /\ pc[c] = "reporting" /\ pc' = [pc EXCEPT ![c] = "done"]
    BY <1>3 DEF ReportEnd, Goes, SameStreams
  <2>2. pc'[c] = "done" /\ \A d \in Conns \ {c} : pc'[d] = pc[d]
    BY <2>1 DEF TypeOK
  <2>3. closed'[c]
    BY <2>1 DEF OwnerInv, GenerationInv, ClosedInv, Joined
  <2> QED BY <1>1, <2>1, <2>2, <2>3, OwnerQuiet DEF Attached, Joined, Unjoined
<1>4. CASE Detach(c)
  <2>1. /\ UNCHANGED closed /\ pc[c] = "detaching" /\ pc' = [pc EXCEPT ![c] = "reporting"]
        /\ live' = IF OwnsEntry(c) THEN [live EXCEPT ![tid[c]] = NoConn] ELSE live
    BY <1>4 DEF Detach, Goes, SameStreams
  <2>2. pc'[c] = "reporting" /\ \A d \in Conns \ {c} : pc'[d] = pc[d]
    BY <2>1 DEF TypeOK
  <2>3. GenerationInv' /\ ClosedInv'
    BY <1>1, <2>1, <2>2 DEF OwnerInv, GenerationInv, ClosedInv, Joined, Unjoined, Attached
  <2>4. OwnsEntry(c) => live[tid[c]] = c
    <3>1. ASSUME OwnsEntry(c)
          PROVE  live[tid[c]] = c
      <4>1. live[tid[c]] \in Conns /\ generation[live[tid[c]]] = generation[c]
        BY <2>1, <3>1 DEF OwnsEntry, TypeOK, TidInv, Named, Attached
      <4>2. generation[c] # 0
        BY <2>1 DEF OwnerInv, GenerationInv, Joined, Attached
      <4> QED BY <4>1, <4>2 DEF OwnerInv, GenerationInv
    <3> QED BY <3>1
  <2>5. NoUnroutableSession'
    <3> SUFFICES ASSUME NEW d \in Conns, pc'[d] \in Attached, ~closed[d]
                 PROVE  live'[tid[d]] = d \/ superseded = d
      BY <1>1, <2>1 DEF NoUnroutableSession
    <3>1. d # c /\ pc[d] \in Attached
      BY <2>2 DEF Attached
    <3>2. tid[d] \in Ids /\ (live[tid[d]] = d \/ superseded = d)
      BY <3>1 DEF OwnerInv, NoUnroutableSession, TidInv, Named
    <3> QED BY <2>1, <2>4, <3>1, <3>2 DEF TypeOK
  <2> QED BY <2>3, <2>5 DEF OwnerInv
<1> QED BY <1>2, <1>3, <1>4 DEF TeardownStep

(* Every step keeps who owns a route. *)
LEMMA NextOwner == TypeInv /\ RouteInv /\ OwnerInv /\ [Next]_vars => OwnerInv'
<1> SUFFICES ASSUME TypeInv, RouteInv, OwnerInv, [Next]_vars PROVE OwnerInv'
  OBVIOUS
<1>1. CASE UNCHANGED vars
  BY <1>1, OwnerQuiet DEF vars
<1>2. CASE Tick
  BY <1>2, OwnerQuiet DEF Tick, identVars, routingVars, taskVars
<1>3. CASE ControlPlane
  BY <1>3, ControlOwner
<1>4. ASSUME NEW c \in Conns, SessionLoop(c) \/ Inbound(c)
      PROVE  OwnerInv'
  <2>1. /\ UNCHANGED <<live, superseded, generation, next_generation, closed, tid>>
        /\ pc' = pc \/ (pc[c] = "serving" /\ pc' = [pc EXCEPT ![c] = "closing"])
    BY <1>4, SessionLoopFrame, InboundFrame
  <2>2. \A d \in Conns : pc'[d] = pc[d] \/ (pc[d] = "serving" /\ pc'[d] = "closing")
    BY <2>1 DEF TypeInv, TypeOK
  <2> QED BY <2>1, <2>2, OwnerQuiet DEF Attached, Joined, Unjoined
<1>5. ASSUME NEW c \in Conns, Handshake(c) \/ TeardownStep(c)
      PROVE  OwnerInv'
  BY <1>5, HandshakeOwner, TeardownOwner
<1>6. ASSUME NEW r \in Requests, Routing(r) \/ Stream(r)
      PROVE  OwnerInv'
  <2>1. UNCHANGED <<live, superseded, generation, next_generation, pc, closed, tid>>
    BY <1>6, RequestFrame
  <2> QED BY <2>1, OwnerQuiet
<1> QED BY <1>1, <1>2, <1>3, <1>4, <1>5, <1>6 DEF Next

(* Nobody is routed to and nobody owns a route. *)
LEMMA InitOwner == Init => RouteInv /\ OwnerInv
<1> SUFFICES ASSUME Init PROVE RouteInv /\ OwnerInv
  OBVIOUS
<1>1. RouteInv
  BY DEF Init, RouteInv, LiveIsAuthorized, RoutedSessionHasTask
<1>2. GenerationInv /\ ClosedInv /\ NoUnroutableSession
  BY DEF Init, GenerationInv, ClosedInv, NoUnroutableSession, Joined, Unjoined, Attached
<1> QED BY <1>1, <1>2 DEF OwnerInv

(* No session stays up, unclosed, without its id routing to it: the exit   *)
(* of a predecessor never removes its successor (`detach`), and nothing    *)
(* leaves the table without being closed (`attach`, `replace_records`).    *)
THEOREM NoSessionUnroutable == Spec => []NoUnroutableSession
<1>1. OwnerInv => NoUnroutableSession
  BY DEF OwnerInv
<1> QED BY <1>1, InitOwner, NextRoute, NextOwner, TypeInvariant, PTL DEF Spec

-----------------------------------------------------------------------------
(* Leases, in durable mode: the expiry `authorize` measures against is the *)
(* one the credential was issued with, and the clock it started from is    *)
(* not ahead.                                                              *)
RecordInv ==
  Durable =>
    /\ \A id \in Ids : by_id[id] # NoTether =>
         by_id[id].expires_at = ExpiryOf[by_id[id].hash]
    /\ \A k \in Creds : by_credential[k] # NoId =>
         by_id[by_credential[k]] # NoTether /\ by_id[by_credential[k]].hash = k

StartInv == \A c \in Conns : started[c] <= now

LeaseInv == RecordInv /\ StartInv /\ LeaseWithinExpiry

(* A step that leaves the records and the clocks alone keeps the leases. *)
LEMMA LeaseQuiet ==
  ASSUME LeaseInv, UNCHANGED <<now, by_id, by_credential, started, deadline, cred>>
  PROVE  LeaseInv'
BY DEF LeaseInv, RecordInv, StartInv, LeaseWithinExpiry

(* The credential index of a snapshot points at the record with that hash. *)
LEMMA SnapshotIndex ==
  ASSUME NEW s, NEW index,
         index = [k \in Creds |->
                    IF \E id \in Ids : s[id] # NoTether /\ s[id].hash = k
                    THEN CHOOSE id \in Ids : s[id] # NoTether /\ s[id].hash = k
                    ELSE NoId],
         NEW k \in Creds, index[k] # NoId
  PROVE  s[index[k]] # NoTether /\ s[index[k]].hash = k
<1>1. \E id \in Ids : s[id] # NoTether /\ s[id].hash = k
  OBVIOUS
<1>2. index[k] = CHOOSE id \in Ids : s[id] # NoTether /\ s[id].hash = k
  BY <1>1
<1> QED BY <1>1, <1>2

(* Every step keeps the leases. *)
LEMMA NextLease == TypeInv /\ LeaseInv /\ [Next]_vars => LeaseInv'
<1> SUFFICES ASSUME TypeInv, LeaseInv, [Next]_vars PROVE LeaseInv'
  OBVIOUS
<1> USE DEF TypeInv
<1>1. CASE UNCHANGED vars
  BY <1>1, LeaseQuiet DEF vars
<1>2. CASE Tick
  <2>1. /\ UNCHANGED <<by_id, by_credential, started, deadline, cred>> /\ now' = now + 1
    BY <1>2 DEF Tick, tableVars, taskVars
  <2>2. StartInv'
    BY <2>1 DEF LeaseInv, StartInv, TypeOK
  <2> QED BY <2>1, <2>2 DEF LeaseInv, RecordInv, LeaseWithinExpiry
<1>3. CASE ControlPlane
  <2>1. UNCHANGED <<now, started, deadline, cred>>
    BY <1>3 DEF ControlPlane, Register, Revoke, EvictRevoked, ReplaceRecords, Unaffected, taskVars
  <2>2. RecordInv'
    <3>1. ASSUME NEW s \in Snapshots \cup {NoRecords}, ReplaceRecords(s)
          PROVE  RecordInv'
      <4>1. /\ \A id \in Ids : s[id] # NoTether => s[id].expires_at = ExpiryOf[s[id].hash]
            /\ by_id' = s
        BY <3>1 DEF ReplaceRecords, NoRecords
      <4>2. \A k \in Creds : by_credential'[k] # NoId =>
              s[by_credential'[k]] # NoTether /\ s[by_credential'[k]].hash = k
        BY <3>1, SnapshotIndex DEF ReplaceRecords
      <4> QED BY <4>1, <4>2 DEF RecordInv
    <3>2. CASE EvictRevoked
      BY <3>2 DEF EvictRevoked, tableVars, LeaseInv, RecordInv
    <3>3. CASE ~Durable
      BY <3>3 DEF RecordInv
    <3> QED BY <1>3, <3>1, <3>2, <3>3 DEF ControlPlane, Register, Revoke
  <2> QED BY <2>1, <2>2 DEF LeaseInv, StartInv, LeaseWithinExpiry
<1>4. ASSUME NEW c \in Conns, SessionLoop(c) \/ Inbound(c) \/ TeardownStep(c)
      PROVE  LeaseInv'
  <2>1. CASE TeardownStep(c)
    BY <2>1, LeaseQuiet DEF TeardownStep, Close, Detach, ReportEnd, Teardown, tableVars
  <2> QED BY <1>4, <2>1, SessionLoopFrame, InboundFrame, LeaseQuiet
<1>5. ASSUME NEW c \in Conns, Hello(c)
      PROVE  LeaseInv'
  <2>1. /\ UNCHANGED <<now, by_id, by_credential, deadline, cred>>
        /\ started' = [started EXCEPT ![c] = now]
    BY <1>5 DEF Hello, Handshaking, tableVars
  <2>2. StartInv'
    BY <2>1 DEF LeaseInv, StartInv, TypeOK
  <2> QED BY <2>1, <2>2 DEF LeaseInv, RecordInv, LeaseWithinExpiry
<1>6. ASSUME NEW c \in Conns, Authorize(c)
      PROVE  LeaseInv'
  <2> DEFINE id == by_credential[cred[c]]
  <2>1. UNCHANGED <<now, by_id, by_credential, started, cred>>
    BY <1>6 DEF Authorize, Handshaking, tableVars
  <2>2. \/ UNCHANGED deadline
        \/ /\ id # NoId /\ Authorizes(by_id[id])
           /\ deadline' = [deadline EXCEPT ![c] = started[c] + GrantedTtl(by_id[id])]
    BY <1>6 DEF Authorize
  <2>3. ASSUME Durable, id # NoId, Authorizes(by_id[id])
        PROVE  /\ started[c] + GrantedTtl(by_id[id]) <= ExpiryOf[cred[c]]
               /\ started[c] + GrantedTtl(by_id[id]) \in Nat
    <3>1. by_id[id].hash = cred[c] /\ by_id[id].expires_at = ExpiryOf[cred[c]] /\ id \in Ids
      BY <2>3 DEF LeaseInv, RecordInv, TypeOK
    <3> HIDE DEF id
    <3>2. /\ ExpiryOf[cred[c]] \in Nat /\ ExpiryOf[cred[c]] # Never
          /\ now \in Nat /\ started[c] \in Nat /\ started[c] <= now /\ Lease \in Nat
      BY DEF TypeOK, LeaseInv, StartInv
    <3>3. ExpiryOf[cred[c]] > now
      BY <2>3, <3>1, <3>2 DEF Authorizes, Usable, Unexpired
    <3>4. /\ GrantedTtl(by_id[id]) \in Nat
          /\ GrantedTtl(by_id[id]) <= ExpiryOf[cred[c]] - now
      BY <3>1, <3>2, <3>3 DEF GrantedTtl, Lesser
    <3> QED BY <3>2, <3>4
  <2>4. LeaseWithinExpiry'
    <3> SUFFICES ASSUME NEW d \in Conns, Durable
                 PROVE  deadline'[d] <= ExpiryOf[cred[d]]
      BY <2>1 DEF LeaseWithinExpiry
    <3>1. deadline[d] <= ExpiryOf[cred[d]]
      BY DEF LeaseInv, LeaseWithinExpiry
    <3>2. deadline'[d] = deadline[d] \/ deadline'[d] <= ExpiryOf[cred[d]]
      <4>1. CASE UNCHANGED deadline
        BY <4>1
      <4>2. CASE ~UNCHANGED deadline
        <5>1. PICK n \in Nat : /\ deadline' = [deadline EXCEPT ![c] = n]
                               /\ n <= ExpiryOf[cred[c]]
          BY <2>2, <2>3, <4>2
        <5> QED BY <5>1 DEF TypeOK
      <4> QED BY <4>1, <4>2
    <3> QED BY <3>1, <3>2
  <2> QED BY <2>1, <2>4 DEF LeaseInv, RecordInv, StartInv
<1>7. ASSUME NEW c \in Conns, Handshake(c), ~Hello(c), ~Authorize(c)
      PROVE  LeaseInv'
  BY <1>7, LeaseQuiet DEF Handshake, WelcomeFails, AttachRefused, Attach, CancelPredecessor,
     AnnounceUp, Handshaking, tableVars
<1>8. ASSUME NEW r \in Requests, Routing(r) \/ Stream(r)
      PROVE  LeaseInv'
  BY <1>8, RequestFrame, LeaseQuiet
<1> QED BY <1>1, <1>2, <1>3, <1>4, <1>5, <1>6, <1>7, <1>8 DEF Next

(* In durable mode no lease outlives the credential it was granted for,    *)
(* however long the handshake takes (`authorize`, authorization_started).  *)
THEOREM LeaseBounded == Spec => []LeaseWithinExpiry
<1>1. Init => LeaseInv
  <2> SUFFICES ASSUME Init PROVE LeaseInv
    OBVIOUS
  <2>1. RecordInv
    <3> SUFFICES ASSUME Durable PROVE RecordInv
      BY DEF RecordInv
    <3>1. \A id \in Ids : by_id[id] # NoTether => by_id[id].expires_at = ExpiryOf[by_id[id].hash]
      BY DEF Init
    <3>2. \A k \in Creds : by_credential[k] # NoId =>
            by_id[by_credential[k]] # NoTether /\ by_id[by_credential[k]].hash = k
      BY SnapshotIndex DEF Init
    <3> QED BY <3>1, <3>2 DEF RecordInv
  <2>2. StartInv /\ LeaseWithinExpiry
    <3>1. \A c \in Conns : started[c] = 0 /\ deadline[c] = 0 /\ now = 0 /\ cred[c] \in Creds
      BY DEF Init
    <3> QED BY <3>1 DEF StartInv, LeaseWithinExpiry
  <2> QED BY <2>1, <2>2 DEF LeaseInv
<1>2. LeaseInv => LeaseWithinExpiry
  BY DEF LeaseInv
<1> QED BY <1>1, <1>2, NextLease, TypeInvariant, PTL DEF Spec
-----------------------------------------------------------------------------
(* Callers and their streams: nobody is parked, no id is used twice, a     *)
(* request enters a session only under authority, and its tether learns of *)
(* its end.  Then the events of the operator.                              *)

Open == Attached \ {"detaching"}     \* `close` is still ahead

(* The request that holds a permit is reserved, on a session that joined.  *)
HeldInv ==
  reserving # NoReq => /\ rstate[reserving] = "reserved"
                       /\ generation[sess[reserving]] # 0

(* A request has an id once it is admitted, and the id was handed out.     *)
IdInv ==
  \A r \in Requests :
    /\ rstate[r] \in {"new", "reserved"} => sid[r] = 0
    /\ sid[r] # 0 => sess[r] \in Conns /\ sid[r] < next_id[sess[r]]

(* A stream table entry is where its request says it is.                   *)
TableInv ==
  \A c \in Conns, i \in StreamIds :
    streams[c][i] # NoReq => sess[streams[c][i]] = c /\ sid[streams[c][i]] = i

StreamInv == HeldInv /\ IdInv /\ TableInv /\ NoParkedCaller /\ NoAliasing

(* `attach` waits for one predecessor at a time.                           *)
AttachInv ==
  \A c \in Conns : pc[c] = "attaching" =>
    superseded # NoConn /\ \A d \in Conns : pc[d] = "attaching" => d = c

(* Every step keeps what an attached session is. *)
LEMMA NextAttach == TypeInv /\ AttachInv /\ [Next]_vars => AttachInv'
<1> SUFFICES ASSUME TypeInv, AttachInv, [Next]_vars PROVE AttachInv'
  OBVIOUS
<1> USE DEF TypeInv
<1>1. ASSUME UNCHANGED superseded,
             \A d \in Conns : pc'[d] = "attaching" => pc[d] = "attaching"
      PROVE  AttachInv'
  BY <1>1 DEF AttachInv
<1>2. CASE UNCHANGED vars
  BY <1>1, <1>2 DEF vars
<1>3. CASE Tick \/ ControlPlane
  <2>1. UNCHANGED <<pc, superseded>>
    BY <1>3 DEF Tick, ControlPlane, Register, Revoke, EvictRevoked, ReplaceRecords,
       Unaffected, taskVars, routingVars
  <2> QED BY <1>1, <2>1
<1>4. ASSUME NEW c \in Conns, SessionLoop(c) \/ Inbound(c)
      PROVE  AttachInv'
  <2>1. UNCHANGED superseded /\ (pc' = pc \/ pc' = [pc EXCEPT ![c] = "closing"])
    BY <1>4, SessionLoopFrame, InboundFrame
  <2> QED BY <1>1, <2>1 DEF TypeOK
<1>5. ASSUME NEW c \in Conns, TeardownStep(c)
      PROVE  AttachInv'
  <2>1. UNCHANGED superseded
    BY <1>5 DEF TeardownStep, Close, Detach, ReportEnd, Teardown, routingVars
  <2>2. \A d \in Conns : pc'[d] = "attaching" => pc[d] = "attaching"
    BY <1>5 DEF TeardownStep, Close, Detach, ReportEnd, Goes, TypeOK
  <2> QED BY <1>1, <2>1, <2>2
<1>6. ASSUME NEW c \in Conns, Handshake(c)
      PROVE  AttachInv'
  <2>1. CASE Hello(c) \/ Authorize(c) \/ WelcomeFails(c) \/ AttachRefused(c) \/ AnnounceUp(c)
    <3>1. UNCHANGED superseded
      BY <2>1 DEF Hello, Authorize, WelcomeFails, AttachRefused, AnnounceUp
    <3>2. \A d \in Conns : pc'[d] = "attaching" => pc[d] = "attaching"
      BY <2>1 DEF Hello, Authorize, WelcomeFails, AttachRefused, AnnounceUp, Goes, TypeOK
    <3> QED BY <1>1, <3>1, <3>2
  <2>2. CASE Attach(c)
    <3>1. /\ superseded = NoConn /\ superseded' = live[tid[c]]
          /\ pc' = [pc EXCEPT ![c] = IF live[tid[c]] = NoConn THEN "attached" ELSE "attaching"]
      BY <2>2 DEF Attach, RoutingFree, Goes
    <3>2. \A d \in Conns : pc[d] # "attaching"
      BY <3>1 DEF AttachInv
    <3> QED BY <3>1, <3>2 DEF AttachInv, TypeOK
  <2>3. CASE CancelPredecessor(c)
    <3>1. pc[c] = "attaching" /\ pc' = [pc EXCEPT ![c] = "attached"]
      BY <2>3 DEF CancelPredecessor, Goes
    <3>2. \A d \in Conns : pc'[d] # "attaching"
      BY <3>1 DEF AttachInv, TypeOK
    <3> QED BY <3>2 DEF AttachInv
  <2> QED BY <1>6, <2>1, <2>2, <2>3 DEF Handshake
<1>7. ASSUME NEW r \in Requests, Routing(r) \/ Stream(r)
      PROVE  AttachInv'
  BY <1>1, <1>7, RequestFrame
<1> QED BY <1>2, <1>3, <1>4, <1>5, <1>6, <1>7 DEF Next

-----------------------------------------------------------------------------
(* A step that touches no session and opens no stream keeps the streams. *)
LEMMA StreamQuiet ==
  ASSUME TypeInv, StreamInv,
         UNCHANGED <<reserving, rstate, sess, sid, next_id, streams, closed>>,
         \A d \in Conns : /\ pc[d] \in Open => pc'[d] \in Open
                          /\ generation[d] # 0 => generation'[d] # 0
  PROVE  StreamInv'
<1>1. HeldInv'
  BY DEF StreamInv, HeldInv, TypeInv, PermitInv
<1>2. IdInv' /\ TableInv' /\ NoAliasing'
  BY DEF StreamInv, IdInv, TableInv, NoAliasing
<1>3. NoParkedCaller'
  <2> SUFFICES ASSUME NEW r \in Requests, rstate[r] = "inflight"
               PROVE  /\ sid[r] \in StreamIds /\ streams[sess[r]][sid[r]] = r
                      /\ ~closed[sess[r]] /\ pc'[sess[r]] \in Attached \ {"detaching"}
    BY DEF NoParkedCaller
  <2>1. /\ sid[r] \in StreamIds /\ streams[sess[r]][sid[r]] = r
        /\ ~closed[sess[r]] /\ pc[sess[r]] \in Open
    BY DEF StreamInv, NoParkedCaller, Open
  <2>2. sid[r] # 0
    BY <2>1 DEF StreamIds
  <2>3. sess[r] \in Conns
    BY <2>2 DEF StreamInv, IdInv
  <2> QED BY <2>1, <2>3 DEF Open
<1> QED BY <1>1, <1>2, <1>3 DEF StreamInv

(* LiveSession::close: whoever waited on the session has its outcome.      *)
LEMMA StreamCloses ==
  ASSUME TypeInv, StreamInv, NEW S \in SUBSET Conns, Closes(S),
         UNCHANGED <<reserving, sess, sid, next_id, generation>>,
         \A d \in Conns \ S : pc[d] \in Open => pc'[d] \in Open
  PROVE  StreamInv'
<1> USE DEF TypeInv
<1>1. \A c \in Conns, i \in StreamIds :
        /\ streams'[c][i] = IF c \in S THEN NoReq ELSE streams[c][i]
  BY DEF Closes, NoStreams
<1>2. \A r \in Requests :
        rstate'[r] = IF \E c \in S : r \in Carried(c) THEN "failed" ELSE rstate[r]
  BY DEF Closes
<1>3. \A c \in Conns : c \notin S => (closed'[c] <=> closed[c])
  BY Zenon DEF Closes
<1>4. TableInv'
  BY <1>1 DEF StreamInv, TableInv
<1>5. IdInv'
  BY <1>2 DEF StreamInv, IdInv
<1>6. NoAliasing'
  BY DEF StreamInv, NoAliasing
<1>7. NoParkedCaller'
  <2> SUFFICES ASSUME NEW r \in Requests, rstate'[r] = "inflight"
               PROVE  /\ sid[r] \in StreamIds /\ streams'[sess[r]][sid[r]] = r
                      /\ ~closed'[sess[r]] /\ pc'[sess[r]] \in Attached \ {"detaching"}
    BY DEF NoParkedCaller
  <2>1. rstate[r] = "inflight" /\ ~ \E c \in S : r \in Carried(c)
    BY <1>2
  <2>2. /\ sid[r] \in StreamIds /\ streams[sess[r]][sid[r]] = r
        /\ ~closed[sess[r]] /\ pc[sess[r]] \in Open
    BY <2>1 DEF StreamInv, NoParkedCaller, Open
  <2>3. sid[r] # 0
    BY <2>2 DEF StreamIds
  <2>4. sess[r] \in Conns
    BY <2>3 DEF StreamInv, IdInv
  <2>5. r \in Carried(sess[r])
    BY <2>2 DEF Carried
  <2>6. sess[r] \notin S
    BY <2>1, <2>5
  <2> QED BY <1>1, <1>3, <2>2, <2>4, <2>6 DEF Open
<1>8. HeldInv'
  <2> SUFFICES ASSUME reserving # NoReq
               PROVE  rstate'[reserving] = "reserved" /\ generation[sess[reserving]] # 0
    BY DEF HeldInv
  <2>1. reserving \in Requests /\ rstate[reserving] = "reserved" /\ generation[sess[reserving]] # 0
    BY DEF StreamInv, HeldInv, TypeOK
  <2>2. sid[reserving] = 0
    BY <2>1 DEF StreamInv, IdInv
  <2>3. \A c \in S, i \in StreamIds : streams[c][i] # reserving
    BY <2>2 DEF StreamInv, TableInv, StreamIds
  <2> QED BY <1>2, <2>1, <2>3 DEF Carried
<1> QED BY <1>4, <1>5, <1>6, <1>7, <1>8 DEF StreamInv

(* A stream ends, and its table entry may go with it.                      *)
LEMMA StreamEnds ==
  ASSUME TypeInv, StreamInv, NEW r \in Requests, rstate[r] \notin {"new", "reserved"},
         NEW s \in RequestStates \ {"new", "reserved", "inflight"},
         rstate' = [rstate EXCEPT ![r] = s],
         streams' = streams \/ Unregister(sess[r], sid[r]),
         UNCHANGED <<reserving, sess, sid, next_id, closed, generation>>,
         \A d \in Conns : pc[d] \in Open => pc'[d] \in Open
  PROVE  StreamInv'
<1> USE DEF TypeInv
<1>1. /\ rstate'[r] = s
      /\ \A q \in Requests \ {r} : rstate'[q] = rstate[q]
  BY DEF TypeOK
<1>2. \A c \in Conns, i \in StreamIds :
        \/ streams'[c][i] = streams[c][i]
        \/ c = sess[r] /\ i = sid[r] /\ streams'[c][i] = NoReq
  <2>1. CASE streams' = streams
    BY <2>1
  <2>2. CASE Unregister(sess[r], sid[r])
    <3> SUFFICES ASSUME NEW c \in Conns, NEW i \in StreamIds
                 PROVE  \/ streams'[c][i] = streams[c][i]
                        \/ c = sess[r] /\ i = sid[r] /\ streams'[c][i] = NoReq
      OBVIOUS
    <3>1. streams[c] \in [StreamIds -> Requests \cup {NoReq}]
      BY DEF TypeOK
    <3>2. streams' = [streams EXCEPT ![sess[r]] = [streams[sess[r]] EXCEPT ![sid[r]] = NoReq]]
      BY <2>2 DEF Unregister
    <3>3. CASE c = sess[r]
      <4>1. streams'[c] = [streams[c] EXCEPT ![sid[r]] = NoReq]
        BY <3>2, <3>3 DEF TypeOK
      <4> QED BY <3>1, <3>3, <4>1
    <3>4. CASE c # sess[r]
      BY <3>2, <3>4 DEF TypeOK
    <3> QED BY <3>3, <3>4
  <2> QED BY <2>1, <2>2
<1>3. TableInv'
  BY <1>2 DEF StreamInv, TableInv
<1>4. IdInv'
  BY <1>1 DEF StreamInv, IdInv
<1>5. NoAliasing'
  BY DEF StreamInv, NoAliasing
<1>6. NoParkedCaller'
  <2> SUFFICES ASSUME NEW q \in Requests, rstate'[q] = "inflight"
               PROVE  /\ sid[q] \in StreamIds /\ streams'[sess[q]][sid[q]] = q
                      /\ ~closed[sess[q]] /\ pc'[sess[q]] \in Attached \ {"detaching"}
    BY DEF NoParkedCaller
  <2>1. q # r /\ rstate[q] = "inflight"
    BY <1>1
  <2>2. /\ sid[q] \in StreamIds /\ streams[sess[q]][sid[q]] = q
        /\ ~closed[sess[q]] /\ pc[sess[q]] \in Open
    BY <2>1 DEF StreamInv, NoParkedCaller, Open
  <2>3. sid[q] # 0
    BY <2>2 DEF StreamIds
  <2>4. sess[q] \in Conns
    BY <2>3 DEF StreamInv, IdInv
  <2>5. ~(sess[q] = sess[r] /\ sid[q] = sid[r])
    BY <2>1, <2>3 DEF StreamInv, NoAliasing
  <2>6. streams'[sess[q]][sid[q]] = q
    BY <1>2, <2>2, <2>4, <2>5
  <2> QED BY <2>2, <2>4, <2>6 DEF Open
<1>7. HeldInv'
  <2> SUFFICES ASSUME reserving # NoReq
               PROVE  rstate'[reserving] = "reserved" /\ generation[sess[reserving]] # 0
    BY DEF HeldInv
  <2>1. /\ reserving \in Requests /\ rstate[reserving] = "reserved"
        /\ generation[sess[reserving]] # 0
    BY DEF StreamInv, HeldInv, TypeOK
  <2> QED BY <1>1, <2>1
<1> QED BY <1>3, <1>4, <1>5, <1>6, <1>7 DEF StreamInv

-----------------------------------------------------------------------------
(* The control plane only cancels sessions. *)
LEMMA ControlStreams ==
  ASSUME TypeInv, StreamInv, ControlPlane
  PROVE  StreamInv'
<1> USE DEF TypeInv
<1>1. UNCHANGED <<pc, reserving, sess, sid, next_id, generation>>
  BY DEF ControlPlane, Register, Revoke, EvictRevoked, ReplaceRecords, Unaffected, taskVars,
     identVars, routingVars
<1>2. ASSUME NEW id \in Ids, NEW k \in Creds, Register(id, k)
      PROVE  StreamInv'
  <2>1. Closes({live[id]} \ {NoConn}) /\ {live[id]} \ {NoConn} \subseteq Conns
    BY <1>2 DEF Register, Evicts, TypeOK
  <2> QED BY <1>1, <2>1, StreamCloses
<1>3. ASSUME NEW id \in Ids, Revoke(id)
      PROVE  StreamInv'
  BY <1>1, <1>3, StreamQuiet DEF Revoke
<1>4. CASE EvictRevoked
  <2>1. Closes({live[revoking]} \ {NoConn}) /\ {live[revoking]} \ {NoConn} \subseteq Conns
    BY <1>4 DEF EvictRevoked, Evicts, TypeOK
  <2> QED BY <1>1, <2>1, StreamCloses
<1>5. ASSUME NEW s \in Snapshots \cup {NoRecords}, ReplaceRecords(s)
      PROVE  StreamInv'
  <2> DEFINE S == {live[id] : id \in {i \in Ids : ~KeptBy(s, i)}} \ {NoConn}
  <2>1. Closes(S)
    BY <1>5 DEF ReplaceRecords, Evicts
  <2>2. S \subseteq Conns
    BY DEF TypeOK
  <2> HIDE DEF S
  <2> QED BY <1>1, <2>1, <2>2, StreamCloses
<1> QED BY <1>2, <1>3, <1>4, <1>5 DEF ControlPlane

(* A session task that closes leaves its streams to be dropped. *)
LEMMA TaskStreams ==
  ASSUME TypeInv, AttachInv, StreamInv, NEW c \in Conns, Handshake(c) \/ TeardownStep(c)
  PROVE  StreamInv'
<1> USE DEF TypeInv
<1>1. UNCHANGED <<reserving, sess, sid, next_id>>
  BY DEF Handshake, Hello, Authorize, WelcomeFails, AttachRefused, Attach, CancelPredecessor,
     AnnounceUp, Handshaking, TeardownStep, Close, Detach, ReportEnd, Teardown, routingVars
<1>2. \A d \in Conns : generation[d] # 0 => generation'[d] # 0
  <2>1. generation' = generation \/ generation' = [generation EXCEPT ![c] = next_generation]
    BY DEF Handshake, Hello, Authorize, WelcomeFails, AttachRefused, Attach, CancelPredecessor,
       AnnounceUp, TeardownStep, Close, Detach, ReportEnd, Teardown, identVars
  <2> QED BY <2>1 DEF TypeOK
<1>3. CASE CancelPredecessor(c)
  <2>1. /\ Closes({superseded}) /\ superseded \in Conns /\ UNCHANGED generation
        /\ pc[c] = "attaching" /\ pc' = [pc EXCEPT ![c] = "attached"]
    BY <1>3 DEF CancelPredecessor, Evicts, Goes, AttachInv, TypeOK, identVars
  <2>2. \A d \in Conns : pc[d] \in Open => pc'[d] \in Open
    BY <2>1 DEF Open, Attached, TypeOK
  <2>3. {superseded} \in SUBSET Conns
    BY <2>1
  <2> QED BY <1>1, <2>1, <2>2, <2>3, StreamCloses
<1>4. CASE Close(c)
  <2>1. /\ Closes({c}) /\ UNCHANGED generation
        /\ pc' = [pc EXCEPT ![c] = "detaching"]
    BY <1>4 DEF Close, Goes, Teardown, identVars
  <2>2. \A d \in Conns \ {c} : pc[d] \in Open => pc'[d] \in Open
    BY <2>1 DEF TypeOK
  <2>3. {c} \in SUBSET Conns
    OBVIOUS
  <2> QED BY <1>1, <2>1, <2>2, <2>3, StreamCloses
<1>5. CASE ~(CancelPredecessor(c) \/ Close(c))
  <2>1. SameStreams
    BY <1>5 DEF Handshake, Hello, Authorize, WelcomeFails, AttachRefused, Attach, AnnounceUp,
       TeardownStep, Detach, ReportEnd
  <2>2. \/ pc[c] \notin Open /\ \E s \in TaskStates : pc' = [pc EXCEPT ![c] = s]
        \/ pc' = [pc EXCEPT ![c] = "serving"]
    BY <1>5 DEF Handshake, Hello, Authorize, WelcomeFails, AttachRefused, Attach, AnnounceUp,
       TeardownStep, Detach, ReportEnd, Goes, Open, Attached, TaskStates
  <2>3. \A d \in Conns : pc[d] \in Open => pc'[d] \in Open
    BY <2>2 DEF TypeOK, Open, Attached
  <2> QED BY <1>1, <1>2, <2>1, <2>3, StreamQuiet DEF SameStreams
<1> QED BY <1>3, <1>4, <1>5

(* A frame of the tether reaches the stream it names, or none. *)
LEMMA InboundStreams ==
  ASSUME TypeInv, StreamInv, NEW c \in Conns, Inbound(c)
  PROVE  StreamInv'
<1> USE DEF TypeInv
<1>1. /\ UNCHANGED <<reserving, sess, sid, next_id, closed, generation>>
      /\ \A d \in Conns : pc[d] \in Open => pc'[d] \in Open
  <2>1. pc' = pc \/ pc' = [pc EXCEPT ![c] = "closing"]
    BY InboundFrame
  <2>2. \A d \in Conns : pc[d] \in Open => pc'[d] \in Open
    BY <2>1 DEF Open, Attached, TypeOK
  <2> QED BY <2>2, InboundFrame
<1>2. CASE LateData(c)
  BY <1>1, <1>2, StreamQuiet DEF LateData
<1>3. ASSUME NEW i \in StreamIds, NEW s \in {"completed", "failed"},
             streams[c][i] # NoReq, rstate' = [rstate EXCEPT ![streams[c][i]] = s],
             Unregister(c, i)
      PROVE  StreamInv'
  <2> DEFINE r == streams[c][i]
  <2>1. r \in Requests /\ sess[r] = c /\ sid[r] = i
    BY <1>3 DEF TypeOK, StreamInv, TableInv
  <2>2. rstate[r] \notin {"new", "reserved"}
    BY <2>1 DEF StreamInv, IdInv, StreamIds
  <2>3. s \in RequestStates \ {"new", "reserved", "inflight"}
    BY <1>3 DEF RequestStates
  <2>4. rstate' = [rstate EXCEPT ![r] = s] /\ Unregister(sess[r], sid[r])
    BY <1>3, <2>1
  <2> HIDE DEF r
  <2> QED BY <1>1, <2>1, <2>2, <2>3, <2>4, StreamEnds
<1>4. ASSUME NEW i \in StreamIds, Reject(c, i)
      PROVE  StreamInv'
  BY <1>3, <1>4 DEF Reject
<1>5. ASSUME NEW i \in StreamIds, NEW ok \in BOOLEAN, End(c, i, ok)
      PROVE  StreamInv'
  BY <1>3, <1>5 DEF End
<1> QED BY <1>2, <1>4, <1>5 DEF Inbound

(* What `reserve_route` and `forward` promise: the session has joined, and *)
(* nobody else holds a permit.                                             *)
LEMMA ReservationStreams ==
  ASSUME TypeInv, RouteInv, OwnerInv, StreamInv, NEW r \in Requests,
         ForwardAny(r) \/ \E id \in Ids : Forward(r, id)
  PROVE  StreamInv'
<1> USE DEF TypeInv
<1>1. /\ reserving = NoReq /\ rstate[r] = "new"
      /\ UNCHANGED <<streams, next_id, sid, closed, pc, generation>>
  BY DEF ForwardAny, Forward, RoutingFree, RequestOnly, Reserving, identVars
<1>2. ASSUME NEW c \in Conns, generation[c] # 0, Holds(r, c)
      PROVE  StreamInv'
  <2>1. /\ rstate' = [rstate EXCEPT ![r] = "reserved"] /\ sess' = [sess EXCEPT ![r] = c]
        /\ reserving' = r
    BY <1>2 DEF Holds
  <2>2. /\ rstate'[r] = "reserved" /\ sess'[r] = c /\ sid[r] = 0
        /\ \A q \in Requests \ {r} : rstate'[q] = rstate[q] /\ sess'[q] = sess[q]
    BY <1>1, <2>1 DEF TypeOK, StreamInv, IdInv
  <2>3. HeldInv'
    BY <1>1, <1>2, <2>1, <2>2 DEF HeldInv
  <2>4. IdInv'
    BY <1>1, <2>2 DEF StreamInv, IdInv
  <2>5. \A d \in Conns, i \in StreamIds :
          streams[d][i] # NoReq => streams[d][i] \in Requests \ {r}
    <3> SUFFICES ASSUME NEW d \in Conns, NEW i \in StreamIds, streams[d][i] # NoReq
                 PROVE  streams[d][i] \in Requests \ {r}
      OBVIOUS
    <3>1. streams[d][i] \in Requests
      BY DEF TypeOK
    <3>2. sid[streams[d][i]] = i
      BY DEF StreamInv, TableInv
    <3>3. i # 0
      BY DEF StreamIds
    <3> QED BY <2>2, <3>1, <3>2, <3>3
  <2>6. TableInv'
    BY <1>1, <2>2, <2>5 DEF StreamInv, TableInv
  <2>7. NoParkedCaller'
    BY <1>1, <2>2 DEF StreamInv, NoParkedCaller
  <2>8. NoAliasing'
    <3> SUFFICES ASSUME NEW p \in Requests, NEW q \in Requests, p # q, sid[p] # 0,
                        sess'[p] = sess'[q]
                 PROVE  sid[p] # sid[q]
      BY <1>1 DEF NoAliasing
    <3>1. p # r
      BY <2>2
    <3>2. CASE q = r
      BY <2>2, <3>2
    <3>3. CASE q # r
      BY <2>2, <3>1, <3>3 DEF StreamInv, NoAliasing
    <3> QED BY <3>2, <3>3
  <2> QED BY <2>3, <2>4, <2>6, <2>7, <2>8 DEF StreamInv
<1>3. ASSUME NEW why \in {"NoTether", "TetherBusy", "TetherGone", "Revoked"}, Refuses(r, why)
      PROVE  StreamInv'
  <2>1. /\ rstate' = [rstate EXCEPT ![r] = why] /\ UNCHANGED <<sess, reserving>>
    BY <1>3 DEF Refuses
  <2>2. /\ rstate'[r] \notin {"new", "reserved", "inflight"}
        /\ \A q \in Requests \ {r} : rstate'[q] = rstate[q]
    BY <2>1 DEF TypeOK
  <2>3. HeldInv'
    BY <1>1, <2>1 DEF HeldInv
  <2>4. IdInv' /\ TableInv' /\ NoAliasing'
    BY <1>1, <2>1, <2>2 DEF StreamInv, IdInv, TableInv, NoAliasing
  <2>5. NoParkedCaller'
    BY <1>1, <2>1, <2>2 DEF StreamInv, NoParkedCaller
  <2> QED BY <2>3, <2>4, <2>5 DEF StreamInv
<1>4. ASSUME NEW id \in Ids, live[id] # NoConn
      PROVE  live[id] \in Conns /\ generation[live[id]] # 0
  BY <1>4 DEF TypeOK, RouteInv, RoutedSessionHasTask, OwnerInv, GenerationInv, Joined
<1>5. CASE ForwardAny(r)
  <2>1. \/ \E id \in Candidates : Holds(r, live[id])
        \/ Refuses(r, "TetherBusy") \/ Refuses(r, "NoTether")
    BY <1>5 DEF ForwardAny
  <2>2. \A id \in Candidates : id \in Ids /\ live[id] # NoConn
    BY DEF Candidates
  <2> QED BY <1>2, <1>3, <1>4, <2>1, <2>2
<1>6. ASSUME NEW id \in Ids, Forward(r, id)
      PROVE  StreamInv'
  <2>1. \/ live[id] # NoConn /\ Holds(r, live[id])
        \/ Refuses(r, "NoTether") \/ Refuses(r, "Revoked")
        \/ Refuses(r, "TetherGone") \/ Refuses(r, "TetherBusy")
    BY <1>6 DEF Forward
  <2> QED BY <1>2, <1>3, <1>4, <2>1
<1> QED BY <1>5, <1>6

(* A session that is not closed, and has joined, has `close` ahead of it.  *)
LEMMA OpenSession ==
  ASSUME TypeInv, OwnerInv, NEW c \in Conns, generation[c] # 0, ~closed[c]
  PROVE  pc[c] \in Open
<1>1. pc[c] \notin {"detaching", "reporting", "done"}
  BY DEF OwnerInv, ClosedInv
<1>2. pc[c] \notin {"idle", "hello", "authorized"}
  BY DEF OwnerInv, GenerationInv, Unjoined
<1> QED BY <1>1, <1>2 DEF TypeInv, TypeOK, TaskStates, Open, Attached

(* An admission takes the next identifier and a permit. *)
LEMMA AdmitStreams ==
  ASSUME TypeInv, OwnerInv, StreamInv, NEW r \in Requests, Admit(r)
  PROVE  StreamInv'
<1> USE DEF TypeInv
<1> DEFINE c == sess[r]
<1> DEFINE i == next_id[c]
<1>1. /\ reserving = r /\ r # NoReq /\ c \in Conns /\ generation[c] # 0
      /\ rstate[r] = "reserved" /\ sid[r] = 0
      /\ reserving' = NoReq /\ UNCHANGED <<sess, closed, pc, generation>>
  BY DEF Admit, PermitInv, StreamInv, HeldInv, IdInv, RequestOnly, identVars
<1>2. i \in Nat \ {0}
  BY <1>1 DEF TypeOK
<1>3. HeldInv'
  BY <1>1 DEF HeldInv
<1>4. CASE UNCHANGED <<streams, sid>>
  <2>1. /\ rstate'[r] \notin {"new", "reserved", "inflight"}
        /\ \A q \in Requests \ {r} : rstate'[q] = rstate[q]
    <3>1. \E s \in {"Idhausted", "TetherGone", "TetherBusy", "inflight"} :
             /\ rstate' = [rstate EXCEPT ![r] = s]
             /\ s = "inflight" => sid' = [sid EXCEPT ![r] = i] /\ ~Exhausted(i)
      BY DEF Admit, StreamIdFor
    <3>2. sid' # [sid EXCEPT ![r] = i]
      BY <1>1, <1>2, <1>4 DEF TypeOK
    <3> QED BY <3>1, <3>2 DEF TypeOK
  <2>2. \A d \in Conns : next_id'[d] \in Nat /\ next_id[d] <= next_id'[d]
    <3>1. next_id' = next_id \/ next_id' = [next_id EXCEPT ![c] = i + 1]
      BY DEF Admit, StreamIdFor
    <3>2. \A d \in Conns : next_id[d] \in Nat
      BY DEF TypeOK
    <3>3. \A d \in Conns : next_id'[d] = next_id[d] \/ (d = c /\ next_id'[d] = i + 1)
      BY <3>1 DEF TypeOK
    <3> QED BY <3>2, <3>3
  <2>3. IdInv'
    <3> SUFFICES ASSUME NEW q \in Requests
                 PROVE  /\ rstate'[q] \in {"new", "reserved"} => sid[q] = 0
                        /\ sid[q] # 0 => sess[q] \in Conns /\ sid[q] < next_id'[sess[q]]
      BY <1>1, <1>4 DEF IdInv
    <3>1. /\ rstate[q] \in {"new", "reserved"} => sid[q] = 0
          /\ sid[q] # 0 => sess[q] \in Conns /\ sid[q] < next_id[sess[q]]
      BY DEF StreamInv, IdInv
    <3>2. \A d \in Conns : next_id[d] \in Nat /\ sid[q] \in Nat
      BY DEF TypeOK
    <3> QED BY <1>1, <2>1, <2>2, <3>1, <3>2
  <2>4. TableInv' /\ NoAliasing'
    BY <1>1, <1>4 DEF StreamInv, TableInv, NoAliasing
  <2>5. NoParkedCaller'
    BY <1>1, <1>4, <2>1 DEF StreamInv, NoParkedCaller
  <2> QED BY <1>3, <2>3, <2>4, <2>5 DEF StreamInv
<1>5. CASE ~Exhausted(i) /\ ~Refused(c)
  <2>1. /\ next_id' = [next_id EXCEPT ![c] = i + 1]
        /\ rstate' = [rstate EXCEPT ![r] = "inflight"]
        /\ sid' = [sid EXCEPT ![r] = i]
        /\ streams' = [streams EXCEPT ![c] = [streams[c] EXCEPT ![i] = r]]
    BY <1>5 DEF Admit, StreamIdFor
  <2>2. i \in StreamIds
    <3>1. i \in 1..(MaxStreamId + 1) /\ ~Exhausted(i)
      BY <1>1, <1>5 DEF TypeOK
    <3> HIDE DEF c, i
    <3> QED BY <3>1 DEF Exhausted, StreamIds
  <2>3. pc[c] \in Open /\ ~closed[c]
    BY <1>1, <1>5, OpenSession DEF Refused
  <2>4. \A q \in Requests : sid[q] # 0 /\ sess[q] = c => sid[q] # i
    <3>1. \A q \in Requests : sid[q] # 0 /\ sess[q] = c => sid[q] < i /\ sid[q] \in Nat
      BY DEF StreamInv, IdInv, TypeOK
    <3> QED BY <1>2, <3>1
  <2>5. \A q \in Requests \ {r} : /\ rstate'[q] = rstate[q] /\ sid'[q] = sid[q]
    BY <2>1 DEF TypeOK
  <2>6. rstate'[r] = "inflight" /\ sid'[r] = i
    BY <2>1 DEF TypeOK
  <2>7. /\ streams'[c][i] = r
        /\ \A d \in Conns, j \in StreamIds :
             d # c \/ j # i => streams'[d][j] = streams[d][j]
    <3>1. streams[c] \in [StreamIds -> Requests \cup {NoReq}]
      BY <1>1 DEF TypeOK
    <3>2. streams'[c] = [streams[c] EXCEPT ![i] = r]
      BY <1>1, <2>1 DEF TypeOK
    <3>3. \A d \in Conns : d # c => streams'[d] = streams[d]
      BY <2>1 DEF TypeOK
    <3> HIDE DEF c, i
    <3> QED BY <2>2, <3>1, <3>2, <3>3
  <2>8. \A d \in Conns : next_id'[d] = IF d = c THEN i + 1 ELSE next_id[d]
    BY <2>1 DEF TypeOK
  <2> HIDE DEF c, i
  <2>9. IdInv'
    <3> SUFFICES ASSUME NEW q \in Requests
                 PROVE  /\ rstate'[q] \in {"new", "reserved"} => sid'[q] = 0
                        /\ sid'[q] # 0 => sess[q] \in Conns /\ sid'[q] < next_id'[sess[q]]
      BY <1>1 DEF IdInv
    <3>1. CASE q = r
      BY <1>1, <1>2, <2>6, <2>8, <3>1 DEF c
    <3>2. CASE q # r
      <4>1. /\ rstate[q] \in {"new", "reserved"} => sid[q] = 0
            /\ sid[q] # 0 => sess[q] \in Conns /\ sid[q] < next_id[sess[q]]
        BY DEF StreamInv, IdInv
      <4>2. sid[q] \in Nat /\ i = next_id[c]
        BY DEF TypeOK, i
      <4> QED BY <1>2, <2>5, <2>8, <3>2, <4>1, <4>2
    <3> QED BY <3>1, <3>2
  <2>10. TableInv'
    <3> SUFFICES ASSUME NEW d \in Conns, NEW j \in StreamIds, streams'[d][j] # NoReq
                 PROVE  sess[streams'[d][j]] = d /\ sid'[streams'[d][j]] = j
      BY <1>1 DEF TableInv
    <3>1. CASE d = c /\ j = i
      BY <2>6, <2>7, <3>1 DEF c
    <3>2. CASE d # c \/ j # i
      <4>1. streams'[d][j] = streams[d][j]
        BY <2>7, <3>2
      <4>2. sess[streams[d][j]] = d /\ sid[streams[d][j]] = j /\ streams[d][j] \in Requests
        BY <4>1 DEF StreamInv, TableInv, TypeOK
      <4>3. streams[d][j] # r
        BY <1>1, <4>2 DEF StreamIds
      <4> QED BY <2>5, <4>1, <4>2, <4>3
    <3> QED BY <3>1, <3>2
  <2>11. NoParkedCaller'
    <3> SUFFICES ASSUME NEW q \in Requests, rstate'[q] = "inflight"
                 PROVE  /\ sid'[q] \in StreamIds /\ streams'[sess[q]][sid'[q]] = q
                        /\ ~closed[sess[q]] /\ pc[sess[q]] \in Attached \ {"detaching"}
      BY <1>1 DEF NoParkedCaller
    <3>1. CASE q = r
      BY <2>2, <2>3, <2>6, <2>7, <3>1 DEF c, Open
    <3>2. CASE q # r
      <4>1. /\ sid[q] \in StreamIds /\ streams[sess[q]][sid[q]] = q
            /\ ~closed[sess[q]] /\ pc[sess[q]] \in Open
        BY <2>5, <3>2 DEF StreamInv, NoParkedCaller, Open
      <4>2. sid[q] # 0
        BY <4>1 DEF StreamIds
      <4>3. sess[q] \in Conns
        BY <4>2 DEF StreamInv, IdInv
      <4>4. sess[q] # c \/ sid[q] # i
        BY <2>4, <4>2
      <4>5. streams'[sess[q]][sid[q]] = q
        BY <2>7, <4>1, <4>3, <4>4
      <4> QED BY <2>5, <3>2, <4>1, <4>5 DEF Open
    <3> QED BY <3>1, <3>2
  <2>12. NoAliasing'
    <3> SUFFICES ASSUME NEW p \in Requests, NEW q \in Requests, p # q, sid'[p] # 0,
                        sess[p] = sess[q]
                 PROVE  sid'[p] # sid'[q]
      BY <1>1 DEF NoAliasing
    <3>1. CASE p = r
      BY <1>2, <2>4, <2>5, <2>6, <3>1 DEF c
    <3>2. CASE q = r
      BY <2>4, <2>5, <2>6, <3>2 DEF c
    <3>3. CASE p # r /\ q # r
      BY <2>5, <3>3 DEF StreamInv, NoAliasing
    <3> QED BY <3>1, <3>2, <3>3
  <2> QED BY <1>3, <2>9, <2>10, <2>11, <2>12 DEF StreamInv
<1> QED BY <1>4, <1>5 DEF Admit, StreamIdFor

(* A caller that routes, is admitted or leaves keeps the streams. *)
LEMMA CallerStreams ==
  ASSUME TypeInv, StreamInv, NEW r \in Requests, Stream(r)
  PROVE  StreamInv'
<1>1. UNCHANGED <<reserving, sess, sid, next_id, closed, generation, pc>>
  BY DEF Stream, UploadSends, UploadFails, Drop, RequestOnly, identVars, requestVars
<1>2. CASE UploadSends(r)
  BY <1>1, <1>2, StreamQuiet DEF UploadSends, requestVars
<1>3. CASE UploadFails(r)
  <2>1. /\ rstate[r] = "inflight" /\ rstate' = [rstate EXCEPT ![r] = "failed"]
        /\ UNCHANGED streams
    BY <1>3 DEF UploadFails
  <2> QED BY <1>1, <2>1, StreamEnds DEF RequestStates
<1>4. CASE Drop(r)
  <2>1. /\ rstate[r] \notin {"new", "reserved"} /\ Unregister(sess[r], sid[r])
        /\ \E s \in {"released", "abandoned"} : rstate' = [rstate EXCEPT ![r] = s]
    BY <1>4 DEF Drop
  <2> QED BY <1>1, <2>1, StreamEnds DEF RequestStates
<1> QED BY <1>2, <1>3, <1>4 DEF Stream

(* Every step keeps the streams. *)
LEMMA NextStreams ==
  TypeInv /\ RouteInv /\ OwnerInv /\ AttachInv /\ StreamInv /\ [Next]_vars => StreamInv'
<1> SUFFICES ASSUME TypeInv, RouteInv, OwnerInv, AttachInv, StreamInv, [Next]_vars
             PROVE  StreamInv'
  OBVIOUS
<1>1. CASE UNCHANGED vars
  BY <1>1, StreamQuiet DEF vars
<1>2. CASE Tick
  BY <1>2, StreamQuiet DEF Tick, identVars, routingVars, taskVars, requestVars
<1>3. CASE ControlPlane
  BY <1>3, ControlStreams
<1>4. ASSUME NEW c \in Conns, SessionLoop(c)
      PROVE  StreamInv'
  <2>1. /\ UNCHANGED <<reserving, rstate, sess, sid, next_id, streams, closed, generation>>
        /\ pc' = pc \/ pc' = [pc EXCEPT ![c] = "closing"]
    BY <1>4, SessionLoopFrame
  <2>2. \A d \in Conns : pc[d] \in Open => pc'[d] \in Open
    BY <2>1 DEF Open, Attached, TypeInv, TypeOK
  <2> QED BY <2>1, <2>2, StreamQuiet
<1>5. ASSUME NEW c \in Conns, Handshake(c) \/ TeardownStep(c) \/ Inbound(c)
      PROVE  StreamInv'
  BY <1>5, TaskStreams, InboundStreams
<1>6. ASSUME NEW r \in Requests, Routing(r) \/ Stream(r)
      PROVE  StreamInv'
  BY <1>6, ReservationStreams, AdmitStreams, CallerStreams DEF Routing
<1> QED BY <1>1, <1>2, <1>3, <1>4, <1>5, <1>6 DEF Next

(* No session is attached and no stream is open. *)
LEMMA InitStreams == Init => AttachInv /\ StreamInv
<1> SUFFICES ASSUME Init PROVE AttachInv /\ StreamInv
  OBVIOUS
<1>1. AttachInv /\ HeldInv /\ IdInv
  BY DEF Init, AttachInv, HeldInv, IdInv
<1>2. TableInv /\ NoParkedCaller /\ NoAliasing
  BY DEF Init, TableInv, NoParkedCaller, NoAliasing, NoStreams
<1> QED BY <1>1, <1>2 DEF StreamInv

RegistryInv == TypeInv /\ RouteInv /\ OwnerInv /\ AttachInv /\ StreamInv

(* All of the above, together, hold in every reachable state.              *)
THEOREM RegistryInvariant == Spec => []RegistryInv
<1>1. Init => RegistryInv
  BY InitTypeInv, InitOwner, InitStreams DEF RegistryInv
<1>2. RegistryInv /\ [Next]_vars => RegistryInv'
  BY NextTypeInv, NextRoute, NextOwner, NextAttach, NextStreams DEF RegistryInv
<1> QED BY <1>1, <1>2, PTL DEF Spec

(* No caller waits on a session that is closed or past its `close`: the    *)
(* check in `admit` and the drain in `close` leave no gap between them.    *)
THEOREM NoCallerParked == Spec => []NoParkedCaller
<1>1. RegistryInv => NoParkedCaller
  BY DEF RegistryInv, StreamInv
<1> QED BY <1>1, RegistryInvariant, PTL

(* No two requests of a session ever have the same stream id.              *)
THEOREM StreamIdsUnique == Spec => []NoAliasing
<1>1. RegistryInv => NoAliasing
  BY DEF RegistryInv, StreamInv
<1> QED BY <1>1, RegistryInvariant, PTL

(* Only `admit` puts a request in flight.                                  *)
LEMMA OnlyAdmitAdmits ==
  ASSUME RegistryInv, [Next]_vars, NEW r \in Requests,
         rstate[r] # "inflight", rstate'[r] = "inflight"
  PROVE  Admit(r)
<1> USE DEF RegistryInv, TypeInv
<1>1. ASSUME NEW S, Closes(S)
      PROVE  FALSE
  BY <1>1 DEF Closes
<1>2. ~(ControlPlane \/ Tick \/ UNCHANGED vars)
  BY <1>1 DEF ControlPlane, Register, Revoke, EvictRevoked, ReplaceRecords, Evicts, Tick, vars,
     requestVars
<1>3. ASSUME NEW c \in Conns, Handshake(c) \/ TeardownStep(c)
      PROVE  FALSE
  BY <1>1, <1>3 DEF Handshake, Hello, Authorize, WelcomeFails, AttachRefused, Attach,
     CancelPredecessor, AnnounceUp, TeardownStep, Close, Detach, ReportEnd, Evicts, SameStreams
<1>4. ASSUME NEW c \in Conns, SessionLoop(c)
      PROVE  FALSE
  BY <1>4, SessionLoopFrame
<1>5. ASSUME NEW c \in Conns, Inbound(c)
      PROVE  FALSE
  <2>1. \/ UNCHANGED rstate
        \/ \E i \in StreamIds, s \in {"completed", "failed"} :
             rstate' = [rstate EXCEPT ![streams[c][i]] = s]
    BY <1>5 DEF Inbound, LateData, Reject, End
  <2> QED BY <2>1 DEF TypeOK
<1>6. ASSUME NEW q \in Requests, Stream(q)
      PROVE  FALSE
  <2>1. \/ UNCHANGED rstate
        \/ \E s \in {"failed", "released", "abandoned"} : rstate' = [rstate EXCEPT ![q] = s]
    BY <1>6 DEF Stream, UploadSends, UploadFails, Drop, requestVars
  <2> QED BY <2>1 DEF TypeOK
<1>7. ASSUME NEW q \in Requests, Routing(q), ~Admit(q)
      PROVE  FALSE
  <2>1. \E s \in {"reserved", "NoTether", "TetherBusy", "TetherGone", "Revoked"} :
          rstate' = [rstate EXCEPT ![q] = s]
    BY <1>7 DEF Routing, ForwardAny, Forward, Holds, Refuses
  <2> QED BY <2>1 DEF TypeOK
<1>8. ASSUME NEW q \in Requests, Admit(q), q # r
      PROVE  FALSE
  <2>1. \E s \in RequestStates : rstate' = [rstate EXCEPT ![q] = s]
    BY <1>8 DEF Admit, RequestStates
  <2> QED BY <1>8, <2>1 DEF TypeOK
<1> QED BY <1>2, <1>3, <1>4, <1>5, <1>6, <1>7, <1>8 DEF Next

(* A request enters a session only while the record of that session's id   *)
(* is active and holds its credential, and while it is not closed: what    *)
(* `reserve_route` saw still holds in `admit`, because `routing` is held.  *)
THEOREM AdmissionIsAuthorized == Spec => AdmittedUnderAuthority
<1>1. ASSUME RegistryInv, [Next]_vars
      PROVE  AdmitsUnderAuthority
  <2> SUFFICES ASSUME NEW r \in Requests, rstate[r] # "inflight", rstate'[r] = "inflight"
               PROVE  /\ ~closed[sess'[r]]
                      /\ by_id[tid[sess'[r]]] # NoTether
                      /\ by_id[tid[sess'[r]]].active
                      /\ by_id[tid[sess'[r]]].hash = cred[sess'[r]]
    BY DEF AdmitsUnderAuthority
  <2> DEFINE c == sess[r]
  <2>1. Admit(r)
    BY <1>1, OnlyAdmitAdmits
  <2>2. /\ reserving = r /\ r # NoReq /\ sess' = sess /\ c \in Conns /\ generation[c] # 0
    BY <1>1, <2>1 DEF Admit, RegistryInv, TypeInv, PermitInv, StreamInv, HeldInv
  <2>3. ~closed[c]
    <3>1. CASE Exhausted(StreamIdFor(c)) \/ Refused(c)
      <4>1. \E s \in RequestStates \ {"inflight"} : rstate' = [rstate EXCEPT ![r] = s]
        BY <2>1, <3>1 DEF Admit, RequestStates
      <4> QED BY <1>1, <4>1 DEF RegistryInv, TypeInv, TypeOK
    <3> QED BY <3>1 DEF Refused
  <2>4. pc[c] \in Attached
    BY <1>1, <2>2, <2>3, OpenSession DEF RegistryInv, Open
  <2>5. superseded = NoConn /\ revoking = NoId
    BY <1>1, <2>2 DEF RegistryInv, TypeInv, MutexInv
  <2>6. live[tid[c]] = c /\ tid[c] \in Ids
    BY <1>1, <2>2, <2>3, <2>4, <2>5
       DEF RegistryInv, TypeInv, TidInv, Named, OwnerInv, NoUnroutableSession
  <2>7. /\ by_id[tid[c]] # NoTether /\ by_id[tid[c]].hash = cred[c]
        /\ by_id[tid[c]].active
    BY <1>1, <2>2, <2>5, <2>6 DEF RegistryInv, RouteInv, LiveIsAuthorized
  <2> QED BY <2>2, <2>3, <2>7
<1>2. RegistryInv /\ [Next]_vars => [AdmitsUnderAuthority]_vars
  BY <1>1
<1> QED BY <1>2, RegistryInvariant, PTL DEF Spec, AdmittedUnderAuthority

-----------------------------------------------------------------------------
(* The end of a stream.                                                    *)
Over == {"completed", "failed", "abandoned", "released"}

(* A session that is over, or whose task has been made to end it.          *)
Ending(c) == abort[c] \/ closed[c] \/ tx_closed[c] \/ pc[c] = "closing"

(* TetherLearnsTheEnd, and the session it speaks of is one.                *)
EndInv ==
  \A r \in Requests : rstate[r] \in Over =>
    sess[r] \in Conns /\ (r \in told \/ Ending(sess[r]))

(* Setting a flag of one session clears none.                              *)
LEMMA FlagStays ==
  ASSUME NEW f \in [Conns -> BOOLEAN], NEW c \in Conns, NEW d, f[c]
  PROVE  [f EXCEPT ![d] = TRUE][c]
<1>1. CASE c = d
  BY <1>1
<1>2. CASE c # d
  BY <1>2
<1> QED BY <1>1, <1>2

(* A session never recovers: only `close` leaves "closing".                *)
LEMMA EndingStays ==
  ASSUME TypeInv, [Next]_vars, NEW c \in Conns, Ending(c)
  PROVE  Ending(c)'
<1> USE DEF TypeInv
<1>1. ASSUME abort[c] => abort'[c], closed[c] => closed'[c], tx_closed[c] => tx_closed'[c],
             pc[c] = "closing" => pc'[c] = "closing"
      PROVE  Ending(c)'
  BY <1>1 DEF Ending
<1>2. CASE UNCHANGED vars
  BY <1>1, <1>2 DEF vars
<1>3. CASE Tick
  BY <1>1, <1>3 DEF Tick, taskVars, chanVars
<1>4. ASSUME NEW S, Evicts(S)
      PROVE  (abort[c] => abort'[c]) /\ (closed[c] => closed'[c])
  BY <1>4 DEF Evicts, Closes
<1>5. CASE ControlPlane
  <2>1. UNCHANGED <<pc, tx_closed>> /\ (UNCHANGED <<closed, abort>> \/ \E S : Evicts(S))
    BY <1>5 DEF ControlPlane, Register, Revoke, EvictRevoked, ReplaceRecords, Unaffected,
       taskVars, chanVars
  <2> QED BY <1>1, <1>4, <2>1
<1>6. ASSUME NEW d \in Conns, Handshake(d)
      PROVE  Ending(c)'
  <2>1. UNCHANGED tx_closed /\ (UNCHANGED <<closed, abort>> \/ \E S : Evicts(S))
    BY <1>6 DEF Handshake, Hello, Authorize, WelcomeFails, AttachRefused, Attach,
       CancelPredecessor, AnnounceUp, Handshaking, SameStreams, chanVars
  <2>2. pc[d] # "closing" /\ \E s : pc' = [pc EXCEPT ![d] = s]
    BY <1>6 DEF Handshake, Hello, Authorize, WelcomeFails, AttachRefused, Attach,
       CancelPredecessor, AnnounceUp, Goes
  <2>3. pc[c] = "closing" => pc'[c] = "closing"
    BY <2>2 DEF TypeOK
  <2> QED BY <1>1, <1>4, <2>1, <2>3
<1>7. ASSUME NEW d \in Conns, SessionLoop(d)
      PROVE  Ending(c)'
  <2>1. UNCHANGED <<closed, abort>>
    BY <1>7 DEF SessionLoop, LeaseExpires, Cancelled, TickFindsInactive, TickFindsSilent,
       TickPings, AnswersPing, PeerGone, WriterClosed, GoesSilent, Pong, WriterSends,
       WriterDies, LoopOnly
  <2>2. tx_closed' = tx_closed \/ tx_closed' = [tx_closed EXCEPT ![d] = TRUE]
    BY <1>7 DEF SessionLoop, LeaseExpires, Cancelled, TickFindsInactive, TickFindsSilent,
       TickPings, AnswersPing, PeerGone, WriterClosed, GoesSilent, Pong, WriterSends,
       WriterDies, SendsOrStops, chanVars
  <2>3. pc' = pc \/ pc' = [pc EXCEPT ![d] = "closing"]
    BY <1>7, SessionLoopFrame
  <2>4. pc[c] = "closing" => pc'[c] = "closing"
    BY <2>3 DEF TypeOK
  <2>5. tx_closed[c] => tx_closed'[c]
    <3>1. tx_closed \in [Conns -> BOOLEAN]
      BY DEF TypeOK
    <3>2. tx_closed[c] => [tx_closed EXCEPT ![d] = TRUE][c]
      BY <3>1, FlagStays
    <3> QED BY <2>2, <3>2
  <2> QED BY <1>1, <2>1, <2>4, <2>5
<1>8. ASSUME NEW d \in Conns, TeardownStep(d)
      PROVE  Ending(c)'
  <2>1. CASE Close(d)
    <3>1. Closes({d}) /\ UNCHANGED <<abort, tx_closed>> /\ pc' = [pc EXCEPT ![d] = "detaching"]
      BY <2>1 DEF Close, Goes, Teardown, chanVars
    <3>2. (closed[c] => closed'[c]) /\ closed'[d]
      BY <3>1 DEF Closes
    <3>3. pc[c] = "closing" => pc'[c] = "closing" \/ closed'[c]
      BY <3>1, <3>2 DEF TypeOK
    <3> QED BY <3>1, <3>2, <3>3 DEF Ending
  <2>2. CASE Detach(d) \/ ReportEnd(d)
    <3>1. UNCHANGED <<abort, closed, tx_closed>>
      BY <2>2 DEF Detach, ReportEnd, Teardown, SameStreams, chanVars
    <3>2. pc[c] = "closing" => pc'[c] = "closing"
      BY <2>2 DEF Detach, ReportEnd, Goes, TypeOK
    <3> QED BY <1>1, <3>1, <3>2
  <2> QED BY <1>8, <2>1, <2>2 DEF TeardownStep
<1>9. ASSUME NEW d \in Conns, Inbound(d)
      PROVE  Ending(c)'
  <2>1. UNCHANGED <<abort, closed, tx_closed>>
    BY <1>9 DEF Inbound, LateData, Reject, End, FrameOnly, SendsOrStops, chanVars
  <2>2. pc' = pc \/ pc' = [pc EXCEPT ![d] = "closing"]
    BY <1>9, InboundFrame
  <2>3. pc[c] = "closing" => pc'[c] = "closing"
    BY <2>2 DEF TypeOK
  <2> QED BY <1>1, <2>1, <2>3
<1>10. ASSUME NEW r \in Requests, Routing(r) \/ Stream(r)
       PROVE  Ending(c)'
  <2>1. UNCHANGED <<pc, closed, tx_closed>>
    BY <1>10, RequestFrame DEF Routing, Stream, ForwardAny, Forward, Admit, UploadSends,
       UploadFails, Drop, Reserving, chanVars
  <2>2. abort' = abort \/ \E d : abort' = [abort EXCEPT ![d] = TRUE]
    BY <1>10 DEF Routing, Stream, ForwardAny, Forward, Admit, UploadSends, UploadFails, Drop,
       Reserving, SendsEndOrAborts
  <2>3. abort[c] => abort'[c]
    BY <2>2, FlagStays DEF TypeOK
  <2> QED BY <1>1, <2>1, <2>3
<1> QED BY <1>2, <1>3, <1>5, <1>6, <1>7, <1>8, <1>9, <1>10 DEF Next

(* The tether learns of an end by a frame, or its session ends.            *)
LEMMA EndIsSent ==
  ASSUME TypeInv, NEW r \in Requests, NEW c \in Conns, sess[r] = c, SendsEndOrAborts(r),
         UNCHANGED tx_closed
  PROVE  r \in told' \/ Ending(c)'
<1>1. CASE SlotFree(c)
  BY <1>1 DEF SendsEndOrAborts
<1>2. CASE tx_closed[c]
  <2>1. tx_closed'[c]
    BY <1>2
  <2> QED BY <2>1 DEF Ending
<1>3. CASE ~SlotFree(c) /\ ~tx_closed[c]
  <2>1. abort' = [abort EXCEPT ![c] = TRUE]
    BY <1>3 DEF SendsEndOrAborts
  <2>2. abort'[c]
    BY <2>1 DEF TypeInv, TypeOK
  <2> QED BY <2>2 DEF Ending
<1> QED BY <1>1, <1>2, <1>3

(* `close` ends the streams of its own session.                            *)
LEMMA ClosesEnd ==
  ASSUME TypeInv, StreamInv, NEW S, Closes(S), S \subseteq Conns, NEW r \in Requests,
         rstate'[r] # rstate[r]
  PROVE  sess[r] \in Conns /\ closed'[sess[r]]
<1>1. PICK c \in S : r \in Carried(c)
  BY DEF Closes
<1>2. PICK i \in StreamIds : streams[c][i] = r /\ r # NoReq
  BY <1>1 DEF Carried
<1>3. c \in Conns /\ sess[r] = c
  BY <1>1, <1>2 DEF StreamInv, TableInv
<1> QED BY <1>1, <1>3 DEF Closes

(* Every step keeps what the end of a stream was told. *)
LEMMA NextEnd == TypeInv /\ AttachInv /\ StreamInv /\ EndInv /\ [Next]_vars => EndInv'
<1> SUFFICES ASSUME TypeInv, AttachInv, StreamInv, EndInv, [Next]_vars,
                    NEW r \in Requests, rstate'[r] \in Over, NEW c, c = sess'[r]
             PROVE  c \in Conns /\ (r \in told' \/ Ending(c)')
  BY DEF EndInv, Ending
<1> DEFINE Goal == c \in Conns /\ (r \in told' \/ Ending(c)')
<1> USE DEF TypeInv
<1>1. ASSUME rstate[r] \in Over, sess'[r] = sess[r], told \subseteq told'
      PROVE  Goal
  <2>1. c = sess[r] /\ c \in Conns /\ (r \in told \/ Ending(c))
    BY <1>1 DEF EndInv
  <2> QED BY <1>1, <2>1, EndingStays
<1>2. ASSUME UNCHANGED <<rstate, sess, told>>
      PROVE  Goal
  BY <1>1, <1>2
<1>3. ASSUME NEW S, Closes(S), S \subseteq Conns, UNCHANGED <<sess, told>>
      PROVE  Goal
  <2>1. CASE rstate'[r] = rstate[r]
    BY <1>1, <1>3, <2>1
  <2>2. CASE rstate'[r] # rstate[r]
    <3>1. c \in Conns /\ closed'[c]
      BY <1>3, <2>2, ClosesEnd
    <3> QED BY <3>1 DEF Ending
  <2> QED BY <2>1, <2>2
<1>4. CASE UNCHANGED vars
  BY <1>2, <1>4 DEF vars
<1>5. CASE Tick
  BY <1>2, <1>5 DEF Tick, requestVars
<1>6. CASE ControlPlane
  <2>1. UNCHANGED <<sess, told>>
    BY <1>6 DEF ControlPlane, Register, Revoke, EvictRevoked, ReplaceRecords, Unaffected
  <2>2. UNCHANGED rstate \/ \E S : Closes(S) /\ S \subseteq Conns
    <3>1. ASSUME NEW id \in Ids, NEW k \in Creds, Register(id, k)
          PROVE  \E S : Closes(S) /\ S \subseteq Conns
      BY <3>1 DEF Register, Evicts, TypeOK
    <3>2. ASSUME NEW id \in Ids, Revoke(id)
          PROVE  UNCHANGED rstate
      BY <3>2 DEF Revoke
    <3>3. CASE EvictRevoked
      BY <3>3 DEF EvictRevoked, Evicts, TypeOK
    <3>4. ASSUME NEW s \in Snapshots \cup {NoRecords}, ReplaceRecords(s)
          PROVE  \E S : Closes(S) /\ S \subseteq Conns
      <4> DEFINE S == {live[id] : id \in {i \in Ids : ~KeptBy(s, i)}} \ {NoConn}
      <4>1. Closes(S)
        BY <3>4 DEF ReplaceRecords, Evicts
      <4>2. S \subseteq Conns
        BY DEF TypeOK
      <4> HIDE DEF S
      <4> QED BY <4>1, <4>2
    <3> QED BY <1>6, <3>1, <3>2, <3>3, <3>4 DEF ControlPlane
  <2> QED BY <1>2, <1>3, <2>1, <2>2
<1>7. ASSUME NEW d \in Conns, Handshake(d) \/ TeardownStep(d)
      PROVE  Goal
  <2>1. UNCHANGED <<sess, told>>
    BY <1>7 DEF Handshake, Hello, Authorize, WelcomeFails, AttachRefused, Attach,
       CancelPredecessor, AnnounceUp, Handshaking, TeardownStep, Close, Detach, ReportEnd, Teardown
  <2>2. CASE CancelPredecessor(d)
    <3>1. Closes({superseded}) /\ {superseded} \subseteq Conns
      BY <2>2 DEF CancelPredecessor, Evicts, Goes, AttachInv, TypeOK
    <3> QED BY <1>3, <2>1, <3>1
  <2>3. CASE Close(d)
    <3>1. Closes({d}) /\ {d} \subseteq Conns
      BY <2>3 DEF Close
    <3> QED BY <1>3, <2>1, <3>1
  <2>4. CASE ~(CancelPredecessor(d) \/ Close(d))
    <3>1. UNCHANGED rstate
      BY <1>7, <2>4 DEF Handshake, Hello, Authorize, WelcomeFails, AttachRefused, Attach,
         AnnounceUp, TeardownStep, Detach, ReportEnd, SameStreams
    <3> QED BY <1>2, <2>1, <3>1
  <2> QED BY <2>2, <2>3, <2>4
<1>8. ASSUME NEW d \in Conns, SessionLoop(d)
      PROVE  Goal
  <2>1. UNCHANGED <<rstate, sess, told>>
    BY <1>8, SessionLoopFrame DEF SessionLoop, LeaseExpires, Cancelled, TickFindsInactive,
       TickFindsSilent, TickPings, AnswersPing, PeerGone, WriterClosed, GoesSilent, Pong,
       WriterSends, WriterDies, SameRequests
  <2> QED BY <1>2, <2>1
<1>9. ASSUME NEW d \in Conns, Inbound(d)
      PROVE  Goal
  <2>1. UNCHANGED sess
    BY <1>9 DEF Inbound, LateData, Reject, End, FrameOnly
  <2>2. CASE LateData(d)
    BY <1>2, <2>1, <2>2 DEF LateData
  <2>3. ASSUME NEW i \in StreamIds, NEW q, q = streams[d][i], q # NoReq
        PROVE  q \in Requests /\ sess[q] = d
    BY <2>3 DEF StreamInv, TableInv, TypeOK
  <2>4. ASSUME NEW i \in StreamIds, NEW ok \in BOOLEAN, End(d, i, ok)
        PROVE  Goal
    <3>1. PICK q : q = streams[d][i]
      OBVIOUS
    <3>2. /\ q # NoReq /\ told' = told \cup {q}
          /\ \E s \in {"completed", "failed"} : rstate' = [rstate EXCEPT ![q] = s]
      BY <2>4, <3>1 DEF End
    <3>3. CASE r = q
      BY <2>1, <2>3, <3>1, <3>2, <3>3
    <3>4. CASE r # q
      BY <1>1, <2>1, <3>2, <3>4
    <3> QED BY <3>3, <3>4
  <2>5. ASSUME NEW i \in StreamIds, Reject(d, i)
        PROVE  Goal
    <3>1. PICK q : q = streams[d][i]
      OBVIOUS
    <3>2. /\ q # NoReq /\ told' = (IF SlotFree(d) THEN told \cup {q} ELSE told)
          /\ rstate' = [rstate EXCEPT ![q] = "failed"]
          /\ ~SlotFree(d) => pc' = [pc EXCEPT ![d] = "closing"]
      BY <2>5, <3>1 DEF Reject, SendsOrStops, Stops, Goes
    <3>3. CASE r = q
      <4>1. c = d /\ (SlotFree(d) => r \in told')
        BY <2>1, <2>3, <3>1, <3>2, <3>3
      <4>2. ~SlotFree(d) => pc'[d] = "closing"
        BY <3>2 DEF TypeOK
      <4> QED BY <4>1, <4>2 DEF Ending
    <3>4. CASE r # q
      BY <1>1, <2>1, <3>2, <3>4
    <3> QED BY <3>3, <3>4
  <2> QED BY <1>9, <2>2, <2>4, <2>5 DEF Inbound
<1>10. ASSUME NEW q \in Requests, Routing(q)
       PROVE  Goal
  <2>1. /\ UNCHANGED told /\ (UNCHANGED sess \/ \E d : sess' = [sess EXCEPT ![q] = d])
        /\ \E s \in RequestStates \ Over : rstate' = [rstate EXCEPT ![q] = s]
    BY <1>10 DEF Routing, ForwardAny, Forward, Admit, Holds, Refuses, Reserving, RequestStates, Over
  <2>2. r # q
    BY <2>1 DEF TypeOK
  <2>3. sess'[r] = sess[r] /\ rstate'[r] = rstate[r]
    BY <2>1, <2>2 DEF TypeOK
  <2> QED BY <1>1, <2>1, <2>3
<1>11. ASSUME NEW q \in Requests, Stream(q)
       PROVE  Goal
  <2>1. UNCHANGED <<sess, tx_closed>>
    BY <1>11 DEF Stream, UploadSends, UploadFails, Drop, requestVars
  <2>2. CASE UploadSends(q)
    BY <1>2, <2>2 DEF UploadSends, requestVars
  <2>3. CASE rstate[q] = "inflight" /\ SendsEndOrAborts(q)
    <3>1. PICK d \in Conns : d = sess[q]
      <4>1. sid[q] \in StreamIds /\ sid[q] # 0
        BY <2>3 DEF StreamInv, NoParkedCaller, StreamIds
      <4> QED BY <4>1 DEF StreamInv, IdInv
    <3>2. CASE r = q
      BY <2>1, <2>3, <3>1, <3>2, EndIsSent
    <3>3. CASE r # q
      <4>1. \E s : rstate' = [rstate EXCEPT ![q] = s]
        BY <1>11, <2>3 DEF Stream, UploadSends, UploadFails, Drop, requestVars, TypeOK
      <4>2. rstate'[r] = rstate[r] /\ told \subseteq told'
        BY <2>3, <3>3, <4>1 DEF SendsEndOrAborts
      <4> QED BY <1>1, <2>1, <4>2
    <3> QED BY <3>2, <3>3
  <2>4. CASE rstate[q] \in Over /\ UNCHANGED told /\ rstate' = [rstate EXCEPT ![q] = "released"]
    BY <1>1, <2>1, <2>4
  <2> QED BY <1>11, <2>2, <2>3, <2>4 DEF Stream, UploadFails, Drop, Over
<1> QED BY <1>4, <1>5, <1>6, <1>7, <1>8, <1>9, <1>10, <1>11 DEF Next

(* No engine stream is left running for a caller that is gone: its tether  *)
(* has been told, or is losing the session.                                *)
THEOREM TetherLearns == Spec => []TetherLearnsTheEnd
<1>1. Init => EndInv
  BY DEF Init, EndInv, Over
<1>2. RegistryInv /\ EndInv /\ [Next]_vars => EndInv'
  BY NextEnd DEF RegistryInv
<1>3. EndInv => TetherLearnsTheEnd
  BY DEF EndInv, Over, Ending, TetherLearnsTheEnd
<1> QED BY <1>1, <1>2, <1>3, RegistryInvariant, PTL DEF Spec

-----------------------------------------------------------------------------
(* The events the operator sees.                                           *)
Announced == {"serving", "closing", "detaching", "reporting"}

(* A task that announced its session reports its end before it is done.    *)
LEMMA NextLoss == TypeInv /\ LossIsReported /\ [Next]_vars => LossIsReported'
<1> SUFFICES ASSUME TypeInv, LossIsReported, [Next]_vars PROVE LossIsReported'
  OBVIOUS
<1> USE DEF TypeInv
<1>1. ASSUME UNCHANGED last_event,
             \A d \in Conns : pc[d] \in Announced => pc'[d] \in Announced /\ tid'[d] = tid[d]
      PROVE  LossIsReported'
  <2>1. ASSUME NEW id \in Ids, last_event[id] = "Up"
        PROVE  \E d \in Conns : tid'[d] = id /\ pc'[d] \in Announced
    <3>1. PICK d \in Conns : tid[d] = id /\ pc[d] \in Announced
      BY <2>1 DEF LossIsReported, Announced
    <3> QED BY <1>1, <3>1
  <2> QED BY <1>1, <2>1 DEF LossIsReported, Announced
<1>2. CASE UNCHANGED vars
  BY <1>1, <1>2 DEF vars
<1>3. CASE Tick \/ ControlPlane
  <2>1. UNCHANGED <<pc, tid, last_event>>
    BY <1>3 DEF Tick, ControlPlane, Register, Revoke, EvictRevoked, ReplaceRecords, Unaffected, taskVars
  <2> QED BY <1>1, <2>1
<1>4. ASSUME NEW c \in Conns, SessionLoop(c) \/ Inbound(c)
      PROVE  LossIsReported'
  <2>1. UNCHANGED last_event
    BY <1>4 DEF SessionLoop, LeaseExpires, Cancelled, TickFindsInactive, TickFindsSilent,
       TickPings, AnswersPing, PeerGone, WriterClosed, GoesSilent, Pong, WriterSends,
       WriterDies, LoopOnly, Inbound, LateData, Reject, End, FrameOnly
  <2>2. UNCHANGED tid /\ (pc' = pc \/ pc' = [pc EXCEPT ![c] = "closing"])
    BY <1>4, SessionLoopFrame, InboundFrame
  <2>3. \A d \in Conns : pc[d] \in Announced => pc'[d] \in Announced
    BY <2>2 DEF TypeOK, Announced
  <2> QED BY <1>1, <2>1, <2>2, <2>3
<1>5. ASSUME NEW r \in Requests, Routing(r) \/ Stream(r)
      PROVE  LossIsReported'
  <2>1. UNCHANGED last_event
    BY <1>5 DEF Routing, Stream, ForwardAny, Forward, Admit, UploadSends, UploadFails, Drop, RequestOnly
  <2> QED BY <1>1, <1>5, <2>1, RequestFrame
<1>6. ASSUME NEW c \in Conns, Handshake(c)
      PROVE  LossIsReported'
  <2>1. CASE AnnounceUp(c)
    <3>1. /\ last_event' = [last_event EXCEPT ![tid[c]] = "Up"] /\ tid' = tid
          /\ pc[c] = "attached" /\ pc' = [pc EXCEPT ![c] = "serving"]
      BY <2>1 DEF AnnounceUp, Goes
    <3>2. ASSUME NEW id \in Ids, last_event'[id] = "Up"
          PROVE  \E d \in Conns : tid'[d] = id /\ pc'[d] \in Announced
      <4>1. CASE id = tid[c]
        BY <3>1, <4>1 DEF TypeOK, Announced
      <4>2. CASE id # tid[c]
        <5>1. last_event[id] = "Up"
          BY <3>1, <3>2, <4>2 DEF TypeOK
        <5>2. PICK d \in Conns : tid[d] = id /\ pc[d] \in Announced
          BY <5>1 DEF LossIsReported, Announced
        <5> QED BY <3>1, <4>2, <5>2 DEF TypeOK
      <4> QED BY <4>1, <4>2
    <3> QED BY <3>2 DEF LossIsReported, Announced
  <2>2. CASE ~AnnounceUp(c)
    <3>1. /\ UNCHANGED last_event /\ pc[c] \notin Announced
          /\ \E s : pc' = [pc EXCEPT ![c] = s]
          /\ tid' = tid \/ \E id : tid' = [tid EXCEPT ![c] = id]
      BY <1>6, <2>2 DEF Handshake, Hello, Authorize, WelcomeFails, AttachRefused, Attach,
         CancelPredecessor, Goes, Announced
    <3>2. \A d \in Conns : pc[d] \in Announced => pc'[d] = pc[d] /\ tid'[d] = tid[d]
      BY <3>1 DEF TypeOK
    <3> QED BY <1>1, <3>1, <3>2
  <2> QED BY <2>1, <2>2
<1>7. ASSUME NEW c \in Conns, TeardownStep(c)
      PROVE  LossIsReported'
  <2>1. CASE Close(c) \/ Detach(c)
    <3>1. /\ UNCHANGED <<last_event, tid>>
          /\ pc' = [pc EXCEPT ![c] = "detaching"] \/ pc' = [pc EXCEPT ![c] = "reporting"]
      BY <2>1 DEF Close, Detach, Goes, Teardown
    <3>2. \A d \in Conns : pc[d] \in Announced => pc'[d] \in Announced
      BY <3>1 DEF TypeOK, Announced
    <3> QED BY <1>1, <3>1, <3>2
  <2>2. CASE ReportEnd(c)
    <3>1. /\ tid' = tid /\ pc' = [pc EXCEPT ![c] = "done"]
          /\ \E e \in {"Revoked", "Down"} : last_event' = [last_event EXCEPT ![tid[c]] = e]
      BY <2>2 DEF ReportEnd, Goes, Teardown
    <3>2. ASSUME NEW id \in Ids, last_event'[id] = "Up"
          PROVE  \E d \in Conns : tid'[d] = id /\ pc'[d] \in Announced
      <4>1. id # tid[c] /\ last_event[id] = "Up"
        BY <3>1, <3>2 DEF TypeOK
      <4>2. PICK d \in Conns : tid[d] = id /\ pc[d] \in Announced
        BY <4>1 DEF LossIsReported, Announced
      <4> QED BY <3>1, <4>1, <4>2 DEF TypeOK
    <3> QED BY <3>2 DEF LossIsReported, Announced
  <2> QED BY <1>7, <2>1, <2>2 DEF TeardownStep
<1> QED BY <1>2, <1>3, <1>4, <1>5, <1>6, <1>7 DEF Next

(* The event log never ends in Up for a tether that is gone: whichever     *)
(* session announced it last has still to report its end.                  *)
THEOREM LossReported == Spec => []LossIsReported
<1>1. Init => LossIsReported
  BY DEF Init, LossIsReported
<1>2. TypeInv /\ LossIsReported /\ [Next]_vars => LossIsReported'
  BY NextLoss
<1> QED BY <1>1, <1>2, TypeInvariant, PTL DEF Spec
=============================================================================
