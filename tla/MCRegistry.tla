----------------------------- MODULE MCRegistry -----------------------------
(* Small instances of Registry.  Two ids, named in lexical order, and two  *)
(* credentials; one second is two clock units, so that the whole second    *)
(* `authorize` asks for differs from the instant `attach` asks for.        *)
EXTENDS Registry

CONSTANTS a, b, k1, k2

MCRank == [id \in Ids |-> IF id = a THEN 1 ELSE 2]
MCExpiry == [k \in Creds |-> IF k = k1 THEN 2 ELSE 3]

Rec(k, on) == [hash |-> k, active |-> on, expires_at |-> MCExpiry[k]]
Holding(ra, rb) == [id \in Ids |-> IF id = a THEN ra ELSE rb]

(* Added, revoked, rotated, and the credential moved to the other id.      *)
MCSnapshots ==
  {Holding(Rec(k1, TRUE), NoTether), Holding(Rec(k1, FALSE), NoTether),
   Holding(Rec(k2, TRUE), NoTether),
   Holding(NoTether, Rec(k1, TRUE))}
NoSnapshots == {}

(* The control plane and the session lifecycle alone: the tethers answer   *)
(* every ping and no frame is written, so the queues stay empty.           *)
ControlNext ==
  \/ Tick \/ ControlPlane
  \/ \E c \in Conns :
       \/ Handshake(c) \/ TeardownStep(c)
       \/ LeaseExpires(c) \/ Cancelled(c) \/ TickFindsInactive(c)
       \/ PeerGone(c)
ControlSpec == Init /\ [][ControlNext]_vars

(* Displacement alone must end a session: leases need not run out here.    *)
DisplacementSpec == ControlSpec /\ TaskFairness
=============================================================================
