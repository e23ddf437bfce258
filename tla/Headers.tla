------------------------------- MODULE Headers ------------------------------
(***************************************************************************)
(* The hop-by-hop rule.  A head is a record whose `fields` are the names of  *)
(* its header fields and whose `named` are the names its Connection field    *)
(* lists; a Connection value that is not text lists none.                    *)
(***************************************************************************)
AlwaysStrip ==
    {"connection", "keep-alive", "proxy-authenticate", "proxy-authorization", "te", "trailer",
     "transfer-encoding", "upgrade", "host"}

IsHopByHop(name) == name \in AlwaysStrip

Named(head) == IF "connection" \in head.fields THEN head.named ELSE {}

\* strip_hop_by_hop.
Strip(head) == [fields |-> head.fields \ (AlwaysStrip \cup Named(head)), named |-> {}]

\* The rule of the response path alone: no Connection is left to look at.
StripAlways(head) == [head EXCEPT !.fields = {name \in @ : ~IsHopByHop(name)}]
=============================================================================
