------------------------------- MODULE Frames -------------------------------
(***************************************************************************)
(* The frame codec of the tunnel and the check both ends make of a           *)
(* WebSocket message.  A header is seven bytes: the type, a stream id of two  *)
(* bytes and a payload length of four, most significant first.  The writer   *)
(* does not look at the length it writes; the reader refuses one above the   *)
(* cap before it looks at anything else.                                      *)
(***************************************************************************)
EXTENDS Integers, Sequences

CONSTANTS
    MaxPayload,   \* MAX_PAYLOAD
    MaxLease,     \* u64::MAX
    Payloads,     \* payloads the writer may send
    Streams,      \* stream ids in use; zero is for control
    Leases,       \* leases the hub may grant
    Edited        \* bytes that corruption may write into a header

Byte == 0..255
Words == 256 * 256  \* values of two bytes

\* A payload whose length does not fit four bytes is not written.
ASSUME WriterAssumption ==
    /\ \A p \in Payloads : p \in Seq(Byte) /\ Len(p) \div Words < Words
    /\ Streams \subseteq 1..(Words - 1) /\ Leases \subseteq 0..MaxLease
ASSUME ReaderAssumption == MaxPayload \in Nat /\ MaxLease \in Nat /\ Edited \subseteq Byte

VARIABLES
    sent,     \* the frame written
    message,  \* the bytes of the WebSocket message that carries it
    shape,    \* what became of them: "whole", "cut", "edited" or "longer"
    got       \* what the reader made of them

frameVars == <<sent, message, shape, got>>

HeaderLen == 7

Tag == [Hello |-> 1, Welcome |-> 2, Open |-> 3, Data |-> 4, End |-> 5, Ping |-> 6, Pong |-> 7,
        GoAway |-> 8, HalfEnd |-> 9, RespHead |-> 10]
FrameKinds == DOMAIN Tag
ControlKinds == {"Hello", "Welcome", "Ping", "Pong", "GoAway"}
EmptyKinds == {"Ping", "Pong", "HalfEnd"}

Digits == 48..57

\* to_string and parse of the lease of a WELCOME.
Decimal[n \in Nat] == IF n < 10 THEN <<48 + n>> ELSE Append(Decimal[n \div 10], 48 + (n % 10))
Number[s \in Seq(Digits)] ==
    IF s = <<>> THEN 0 ELSE 10 * Number[SubSeq(s, 1, Len(s) - 1)] + s[Len(s)] - 48

\* A u64 has at most twenty digits.
ASSUME LeaseAssumption == \A n \in Leases : Len(Decimal[n]) <= 20

\* parse::<u64> takes a leading plus sign, and no more than fits.
Unsigned(bytes) == IF bytes # <<>> /\ Head(bytes) = 43 THEN Tail(bytes) ELSE bytes
IsNumber(bytes) ==
    /\ Unsigned(bytes) # <<>> /\ Unsigned(bytes) \in Seq(Digits)
    /\ Number[Unsigned(bytes)] <= MaxLease

PayloadOf(f) ==
    IF f.kind = "Welcome" THEN Decimal[f.body] ELSE IF f.kind \in EmptyKinds THEN <<>> ELSE f.body

TwoBytes(n) == <<(n \div 256) % 256, n % 256>>
BigEndian(n) == TwoBytes(n \div Words) \o TwoBytes(n)

\* Frame::encode and with_header.
Encode(f) ==
    <<Tag[f.kind]>> \o TwoBytes(f.stream) \o BigEndian(Len(PayloadOf(f))) \o PayloadOf(f)

Refused(why) == [is |-> "error", why |-> why]
Missing == [is |-> "more"]

Word(buf, i) == 256 * buf[i] + buf[i + 1]
StreamOf(buf) == Word(buf, 2)
LengthOf(buf) == Words * Word(buf, 4) + Word(buf, 6)
KindOf(buf) == CHOOSE k \in FrameKinds : Tag[k] = buf[1]

\* Why a complete frame is not one the protocol knows.
FaultIn_AnyStream(kind, stream, payload) ==
    CASE kind = "Welcome" /\ ~IsNumber(payload) -> "bad lease"
      [] kind = "HalfEnd" /\ payload # <<>> -> "HALF_END must be empty"
      [] OTHER -> "none"
FaultIn(kind, stream, payload) ==
    CASE kind = "Welcome" /\ ~IsNumber(payload) -> "bad lease"
      [] kind = "HalfEnd" /\ payload # <<>> -> "HALF_END must be empty"
      [] kind \in ControlKinds /\ stream # 0 -> "control frame with nonzero stream id"
      [] OTHER -> "none"

BodyOf(kind, payload) ==
    IF kind = "Welcome" THEN Number[Unsigned(payload)]
    ELSE IF kind \in EmptyKinds THEN <<>> ELSE payload

\* Frame::decode.
Decode(buf) ==
    IF Len(buf) < HeaderLen THEN Missing
    ELSE IF LengthOf(buf) > MaxPayload THEN Refused("too long")
    ELSE IF Len(buf) < HeaderLen + LengthOf(buf) THEN Missing
    ELSE IF ~\E k \in FrameKinds : Tag[k] = buf[1] THEN Refused("unknown type")
    ELSE LET payload == SubSeq(buf, HeaderLen + 1, HeaderLen + LengthOf(buf))
             kind == KindOf(buf)
             fault == FaultIn(kind, StreamOf(buf), payload)
         IN IF fault # "none" THEN Refused(fault)
            ELSE [is |-> "frame",
                  frame |-> [kind |-> kind, stream |-> StreamOf(buf), body |-> BodyOf(kind, payload)],
                  used |-> HeaderLen + Len(payload)]

\* Both ends want a whole frame in each message, and ignore what follows it.
ReadMessage(buf) == IF Decode(buf) = Missing THEN Refused("short tunnel frame") ELSE Decode(buf)
-----------------------------------------------------------------------------
WrittenFrames ==
    [kind : {"Hello", "GoAway"}, stream : {0}, body : Payloads]
    \cup [kind : {"Welcome"}, stream : {0}, body : Leases]
    \cup [kind : {"Open", "Data", "End", "RespHead"}, stream : Streams, body : Payloads]
    \cup [kind : {"HalfEnd"}, stream : Streams, body : {<<>>}]
    \cup [kind : {"Ping", "Pong"}, stream : {0}, body : {<<>>}]

NotRead == [is |-> "nothing"]

FramesInit ==
    /\ sent \in WrittenFrames /\ message = Encode(sent)
    /\ shape = "whole" /\ got = NotRead

Unread == shape = "whole" /\ got = NotRead

Cuts ==
    /\ Unread
    /\ \E n \in 0..(Len(message) - 1) : message' = SubSeq(message, 1, n)
    /\ shape' = "cut" /\ UNCHANGED <<sent, got>>

Edits ==
    /\ Unread
    /\ \E i \in 1..HeaderLen, b \in Edited : message' = [message EXCEPT ![i] = b]
    /\ shape' = "edited" /\ UNCHANGED <<sent, got>>

Grows ==
    /\ Unread
    /\ \E more \in Payloads : message' = message \o more
    /\ shape' = "longer" /\ UNCHANGED <<sent, got>>

Reads ==
    /\ got = NotRead
    /\ got' = ReadMessage(message)
    /\ UNCHANGED <<sent, message, shape>>

FramesNext == Cuts \/ Edits \/ Grows \/ Reads

FramesSpec == FramesInit /\ [][FramesNext]_frameVars
-----------------------------------------------------------------------------
\* What the reader may leave out: the payload of a PING or PONG, and the plus
\* sign and leading zeros of a lease.
SameFrame(f, bytes) ==
    LET payload == SubSeq(bytes, HeaderLen + 1, Len(bytes))
    IN /\ Tag[f.kind] = bytes[1] /\ f.stream = StreamOf(bytes) /\ Len(payload) = LengthOf(bytes)
       /\ CASE f.kind \in {"Ping", "Pong"} -> TRUE
            [] f.kind = "Welcome" -> Number[Unsigned(payload)] = f.body
            [] OTHER -> PayloadOf(f) = payload

\* A frame within the cap is read as it was written, whatever follows it in its
\* message; one above the cap or cut short is refused; and what a corrupted
\* message is read as is what its bytes say, with no stream on a control frame
\* (frames.rs:122-233; hub.rs:1186-1211, tunnel.rs:695-708).
ReadAsWritten ==
    /\ shape \in {"whole", "longer"} /\ got # NotRead =>
           IF Len(PayloadOf(sent)) <= MaxPayload
             THEN got = [is |-> "frame", frame |-> sent, used |-> Len(Encode(sent))]
             ELSE got = Refused("too long")
    /\ shape = "cut" => got.is \in {"nothing", "error"}
    /\ got.is = "frame" =>
           /\ SameFrame(got.frame, SubSeq(message, 1, got.used))
           /\ got.frame.kind \in ControlKinds => got.frame.stream = 0
=============================================================================
