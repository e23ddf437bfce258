---------------------------- MODULE TunnelProofs ----------------------------
(***************************************************************************)
(* Each stream of a session implements the exchange of module Exchange,    *)
(* for any number of streams, any bodies and queues of any capacity.       *)
(*                                                                         *)
(* The argument is about places in a body.  The frames of a body that are  *)
(* on their way form a run: they come in order, without a gap, and start   *)
(* where the receiver is.  A receiver that missed one is no longer         *)
(* listening: the stream is over at the hub, or out of the tether's table, *)
(* or its pump reads no more.  So whatever it takes is the next chunk, and *)
(* an end it sees is the end of all that was sent.                         *)
(***************************************************************************)
EXTENDS Tunnel, TLAPS

Messages ==
    [type : {"Open", "Data", "HalfEnd", "End", "RespHead", "Fail"}, of : Streams, n : Nat]
        \cup [type : {"Ping", "Pong"}]

RequestKinds == {"Open", "Data", "HalfEnd"}
AnswerKinds  == {"Data", "End"}

\* The place of a frame in the body of stream i that frames of these kinds carry.
Place(kinds, i, frame) ==
    IF frame.type \in kinds THEN IF frame.of = i THEN frame.n ELSE -1 ELSE -1

\* The frames of a body among `frames` are in order and have no gap from `low` on.
Runs(kinds, i, frames, low) ==
    \A q \in 1..Len(frames) : LET n == Place(kinds, i, frames[q]) IN
        n >= 0 =>
          /\ n >= low
          /\ n = low \/ \E p \in 1..(q - 1) : Place(kinds, i, frames[p]) = n - 1
          /\ \A p \in 1..(q - 1) : Place(kinds, i, frames[p]) < n

Has(kinds, i, frames, n) ==
    \E p \in 1..Len(frames) : Place(kinds, i, frames[p]) = n

-----------------------------------------------------------------------------
HubTypes ==
    /\ hub \in {"up", "aborting", "ended"}
    /\ stream \in [Streams -> {"new", "open", "whole", "cut", "left"}]
    /\ upload \in [Streams -> {"idle", "sending", "finished", "stopped"}]
    /\ sent \in [Streams -> 0..RequestChunks]
    /\ got \in [Streams -> Seq(Nat)]
TetherTypes ==
    /\ tether \in {"up", "ended"}
    /\ table \subseteq Streams /\ completions \subseteq Streams
    /\ input \in [Streams -> Seq(Nat)] /\ taken \in [Streams -> Seq(Nat)]
    /\ pump \in [Streams -> {"none", "refused", "requesting", "answering", "ended",
                             "failed", "done", "aborted"}]
    /\ accepted \in [Streams -> {"open", "whole", "cut"}]
    /\ answered \in [Streams -> [chunks : Nat, complete : BOOLEAN]]
QueueTypes == down \in Seq(Messages) /\ up \in Seq(Messages)
Types == HubTypes /\ TetherTypes /\ QueueTypes

\* What has not begun is blank.
Blank == \A i \in Streams :
    /\ stream[i] = "new" =>
         pump[i] = "none" /\ upload[i] = "idle" /\ sent[i] = 0
    /\ pump[i] = "none" =>
         /\ i \notin table /\ i \notin completions
         /\ taken[i] = <<>> /\ input[i] = <<>> /\ accepted[i] = "open"

\* How far the answer of each pump is.
Answering == \A i \in Streams :
    /\ pump[i] \in {"none", "refused", "requesting"} => answered[i].chunks = 0
    /\ answered[i].complete => pump[i] \in {"ended", "done", "aborted"}
    /\ pump[i] = "ended" => answered[i].complete

-----------------------------------------------------------------------------
(* The request, on its way down. *)

\* The tether still takes what comes for the stream, from this place on.
TetherListens(i) == pump[i] = "none" \/ (i \in table /\ accepted[i] = "open")
NextDown(i) == IF pump[i] = "none" THEN 0 ELSE Len(taken[i]) + Len(input[i]) + 1

RequestFrame(frame) == frame.type \in RequestKinds =>
    /\ stream[frame.of] # "new"
    /\ frame.type = "Open" => frame.n = 0 /\ pump[frame.of] = "none"
    /\ frame.type = "Data" => frame.n \in 1..sent[frame.of]
    /\ frame.type = "HalfEnd" => upload[frame.of] = "finished" /\ frame.n = sent[frame.of] + 1

\* What is queued for the engine follows what it took.
InputFollows(i) == \A k \in 1..Len(input[i]) :
    \/ /\ input[i][k] = Len(taken[i]) + k /\ Len(taken[i]) + k <= sent[i]
    \/ /\ input[i][k] = HalfEnd /\ upload[i] = "finished"
       /\ k = Len(input[i]) /\ Len(taken[i]) + k = sent[i] + 1

RequestRuns(i) ==
    /\ TetherListens(i) => Runs(RequestKinds, i, down, NextDown(i))
    /\ TetherListens(i) /\ hub # "ended" /\ upload[i] = "sending" =>
         NextDown(i) = sent[i] + 1 \/ Has(RequestKinds, i, down, sent[i])

RequestInv ==
    /\ \A p \in 1..Len(down) : RequestFrame(down[p])
    /\ \A i \in Streams : InputFollows(i) /\ RequestRuns(i)

-----------------------------------------------------------------------------
(* The answer, on its way up. *)

AnswerFrame(frame) == frame.type \notin {"Ping", "Pong"} =>
    /\ pump[frame.of] # "none"
    /\ frame.type = "Data" => frame.n \in 1..answered[frame.of].chunks
    /\ frame.type = "End" => /\ pump[frame.of] = "done" /\ answered[frame.of].complete
                             /\ frame.n = answered[frame.of].chunks + 1

AnswerRuns(i) ==
    /\ Len(got[i]) <= answered[i].chunks
    /\ stream[i] \in {"new", "open"} =>
         Runs(AnswerKinds, i, up, Len(got[i]) + 1)
    /\ stream[i] \in {"new", "open"} /\ tether = "up"
         /\ pump[i] \in {"none", "requesting", "answering", "ended"} =>
         Len(got[i]) = answered[i].chunks \/ Has(AnswerKinds, i, up, answered[i].chunks)

AnswerInv ==
    /\ \A p \in 1..Len(up) : AnswerFrame(up[p])
    /\ \A i \in Streams : AnswerRuns(i)

TunnelInv == Types /\ Blank /\ Answering /\ RequestInv /\ AnswerInv

-----------------------------------------------------------------------------
(* Runs of frames *)

\* A place is a natural number, or -1 for a frame of another body.
LEMMA PlaceType ==
    ASSUME NEW frame \in Messages, NEW kinds, kinds \cap {"Ping", "Pong"} = {}, NEW i
    PROVE  /\ Place(kinds, i, frame) \in Int /\ Place(kinds, i, frame) >= -1
           /\ Place(kinds, i, frame) >= 0 =>
                frame.type \in kinds /\ frame.of = i /\ i \in Streams /\ Place(kinds, i, frame) = frame.n
  <1>1. frame.type \in kinds => frame.of \in Streams /\ frame.n \in Nat
    BY DEF Messages
  <1> QED
    BY <1>1 DEF Place

\* A frame of another body changes nothing.
LEMMA AppendOther ==
    ASSUME NEW frames \in Seq(Messages), NEW frame \in Messages, NEW kinds, NEW i,
           Place(kinds, i, frame) = -1
    PROVE  /\ \A low \in Nat : Runs(kinds, i, frames, low) => Runs(kinds, i, Append(frames, frame), low)
           /\ \A n \in Nat : Has(kinds, i, frames, n) => Has(kinds, i, Append(frames, frame), n)
  <1> DEFINE longer == Append(frames, frame)
  <1>1. /\ Len(longer) = Len(frames) + 1 /\ Len(frames) \in Nat
        /\ \A p \in 1..Len(frames) : longer[p] = frames[p]
        /\ longer[Len(frames) + 1] = frame
    OBVIOUS
  <1> HIDE DEF longer
  <1>2. \A p \in 1..Len(frames) : Place(kinds, i, longer[p]) = Place(kinds, i, frames[p])
    BY <1>1
  <1>3. Place(kinds, i, longer[Len(frames) + 1]) = -1
    BY <1>1
  <1>4. ASSUME NEW low \in Nat, Runs(kinds, i, frames, low)
        PROVE  Runs(kinds, i, longer, low)
    BY <1>1, <1>2, <1>3, <1>4 DEF Runs
  <1>5. ASSUME NEW n \in Nat, Has(kinds, i, frames, n)
        PROVE  Has(kinds, i, longer, n)
    BY <1>1, <1>2, <1>5 DEF Has
  <1> QED
    BY <1>4, <1>5 DEF longer

\* The next frame of a body prolongs its run.
LEMMA AppendNext ==
    ASSUME NEW frames \in Seq(Messages), NEW frame \in Messages, NEW kinds, NEW i,
           NEW low \in Nat, NEW n \in Nat,
           kinds \cap {"Ping", "Pong"} = {}, Runs(kinds, i, frames, low),
           Place(kinds, i, frame) = n, low <= n,
           low = n \/ Has(kinds, i, frames, n - 1),
           \A p \in 1..Len(frames) : Place(kinds, i, frames[p]) < n
    PROVE  Runs(kinds, i, Append(frames, frame), low) /\ Has(kinds, i, Append(frames, frame), n)
  <1> DEFINE longer == Append(frames, frame)
  <1>1. /\ Len(longer) = Len(frames) + 1 /\ Len(frames) \in Nat
        /\ \A p \in 1..Len(frames) : longer[p] = frames[p]
        /\ longer[Len(frames) + 1] = frame
    OBVIOUS
  <1> HIDE DEF longer
  <1>2. \A p \in 1..Len(frames) : Place(kinds, i, longer[p]) = Place(kinds, i, frames[p])
    BY <1>1
  <1>3. Place(kinds, i, longer[Len(frames) + 1]) = n
    BY <1>1
  <1>4. Has(kinds, i, longer, n)
    BY <1>1, <1>3 DEF Has
  <1>5. Runs(kinds, i, longer, low)
    <2> SUFFICES ASSUME NEW q \in 1..(Len(frames) + 1), Place(kinds, i, longer[q]) >= 0
                 PROVE  /\ Place(kinds, i, longer[q]) >= low
                        /\ \/ Place(kinds, i, longer[q]) = low
                           \/ \E p \in 1..(q - 1) : Place(kinds, i, longer[p]) = Place(kinds, i, longer[q]) - 1
                        /\ \A p \in 1..(q - 1) : Place(kinds, i, longer[p]) < Place(kinds, i, longer[q])
      BY <1>1 DEF Runs
    <2>1. CASE q = Len(frames) + 1
      BY <1>1, <1>2, <1>3, <2>1 DEF Has
    <2>2. CASE q # Len(frames) + 1
      <3>1. q \in 1..Len(frames) /\ 1..(q - 1) \subseteq 1..Len(frames)
        BY <1>1, <2>2
      <3> QED
        BY <1>2, <3>1 DEF Runs
    <2> QED
      BY <2>1, <2>2
  <1> QED
    BY <1>4, <1>5 DEF longer

\* Taking a frame of another body off the head changes nothing.
LEMMA TailOther ==
    ASSUME NEW frames \in Seq(Messages), frames # <<>>, NEW kinds, NEW i,
           Place(kinds, i, Head(frames)) = -1
    PROVE  /\ \A low \in Nat : Runs(kinds, i, frames, low) => Runs(kinds, i, Tail(frames), low)
           /\ \A n \in Nat : Has(kinds, i, frames, n) => Has(kinds, i, Tail(frames), n)
  <1> DEFINE rest == Tail(frames)
  <1>1. /\ Len(frames) = Len(rest) + 1 /\ Len(rest) \in Nat
        /\ \A p \in 1..Len(rest) : rest[p] = frames[p + 1]
        /\ Head(frames) = frames[1]
    OBVIOUS
  <1> HIDE DEF rest
  <1>2. \A p \in 1..Len(rest) : Place(kinds, i, rest[p]) = Place(kinds, i, frames[p + 1])
    BY <1>1
  <1>3. Place(kinds, i, frames[1]) = -1
    BY <1>1
  <1>4. ASSUME NEW low \in Nat, Runs(kinds, i, frames, low)
        PROVE  Runs(kinds, i, rest, low)
    <2> SUFFICES ASSUME NEW q \in 1..Len(rest), Place(kinds, i, rest[q]) >= 0
                 PROVE  /\ Place(kinds, i, rest[q]) >= low
                        /\ \/ Place(kinds, i, rest[q]) = low
                           \/ \E p \in 1..(q - 1) : Place(kinds, i, rest[p]) = Place(kinds, i, rest[q]) - 1
                        /\ \A p \in 1..(q - 1) : Place(kinds, i, rest[p]) < Place(kinds, i, rest[q])
      BY DEF Runs
    <2>1. /\ q + 1 \in 1..Len(frames) /\ (q + 1) - 1 = q
          /\ \A p \in 1..(q - 1) : p + 1 \in 1..q /\ p \in 1..Len(rest)
      BY <1>1
    <2>2. /\ Place(kinds, i, frames[q + 1]) >= low
          /\ \/ Place(kinds, i, frames[q + 1]) = low
             \/ \E p \in 1..q : Place(kinds, i, frames[p]) = Place(kinds, i, frames[q + 1]) - 1
          /\ \A p \in 1..q : Place(kinds, i, frames[p]) < Place(kinds, i, frames[q + 1])
      BY <1>2, <1>4, <2>1 DEF Runs
    <2>3. ASSUME NEW p \in 1..q, Place(kinds, i, frames[p]) = Place(kinds, i, frames[q + 1]) - 1,
                 Place(kinds, i, frames[q + 1]) # low
          PROVE  \E r \in 1..(q - 1) : Place(kinds, i, rest[r]) = Place(kinds, i, rest[q]) - 1
      <3>1. Place(kinds, i, frames[q + 1]) - 1 # -1
        BY <1>2, <2>2, <2>3
      <3>2. p # 1
        BY <1>3, <2>3, <3>1
      <3>3. p - 1 \in 1..(q - 1) /\ p - 1 \in 1..Len(rest) /\ (p - 1) + 1 = p
        BY <1>1, <3>2
      <3> QED
        BY <1>2, <2>3, <3>3
    <2> QED
      BY <1>2, <2>1, <2>2, <2>3
  <1>5. ASSUME NEW n \in Nat, Has(kinds, i, frames, n)
        PROVE  Has(kinds, i, rest, n)
    <2>1. PICK p \in 1..Len(frames) : Place(kinds, i, frames[p]) = n
      BY <1>5 DEF Has
    <2>2. p # 1
      BY <1>3, <2>1
    <2>3. p - 1 \in 1..Len(rest) /\ (p - 1) + 1 = p
      BY <1>1, <2>2
    <2> QED
      BY <1>2, <2>1, <2>3 DEF Has
  <1> QED
    BY <1>4, <1>5 DEF rest

\* The head of a run is its lowest place; what is behind it runs from the next.
LEMMA TailNext ==
    ASSUME NEW frames \in Seq(Messages), frames # <<>>, NEW kinds, NEW i, NEW low \in Nat,
           kinds \cap {"Ping", "Pong"} = {}, Runs(kinds, i, frames, low),
           Place(kinds, i, Head(frames)) >= 0
    PROVE  /\ Place(kinds, i, Head(frames)) = low
           /\ Runs(kinds, i, Tail(frames), low + 1)
           /\ \A n \in Nat : Has(kinds, i, frames, n) => n = low \/ Has(kinds, i, Tail(frames), n)
  <1> DEFINE rest == Tail(frames)
  <1>1. /\ Len(frames) = Len(rest) + 1 /\ Len(rest) \in Nat
        /\ \A p \in 1..Len(rest) : rest[p] = frames[p + 1]
        /\ Head(frames) = frames[1]
    OBVIOUS
  <1> HIDE DEF rest
  <1>2. \A p \in 1..Len(rest) : Place(kinds, i, rest[p]) = Place(kinds, i, frames[p + 1])
    BY <1>1
  <1>3. Place(kinds, i, frames[1]) = low
    BY <1>1 DEF Runs
  <1>4. \A p \in 1..Len(frames) : Place(kinds, i, frames[p]) \in Int
    <2>1. \A p \in 1..Len(frames) : frames[p] \in Messages
      OBVIOUS
    <2> QED
      BY <2>1, PlaceType
  <1>5. Runs(kinds, i, rest, low + 1)
    <2> SUFFICES ASSUME NEW q \in 1..Len(rest), Place(kinds, i, rest[q]) >= 0
                 PROVE  /\ Place(kinds, i, rest[q]) >= low + 1
                        /\ \/ Place(kinds, i, rest[q]) = low + 1
                           \/ \E p \in 1..(q - 1) : Place(kinds, i, rest[p]) = Place(kinds, i, rest[q]) - 1
                        /\ \A p \in 1..(q - 1) : Place(kinds, i, rest[p]) < Place(kinds, i, rest[q])
      BY DEF Runs
    <2>1. /\ q + 1 \in 1..Len(frames) /\ (q + 1) - 1 = q
          /\ \A p \in 1..(q - 1) : p + 1 \in 1..q /\ p \in 1..Len(rest)
      BY <1>1
    <2>2. /\ \/ Place(kinds, i, frames[q + 1]) = low
             \/ \E p \in 1..q : Place(kinds, i, frames[p]) = Place(kinds, i, frames[q + 1]) - 1
          /\ \A p \in 1..q : Place(kinds, i, frames[p]) < Place(kinds, i, frames[q + 1])
          /\ Place(kinds, i, frames[q + 1]) \in Int
      BY <1>2, <1>4, <2>1 DEF Runs
    <2>3. Place(kinds, i, frames[q + 1]) > low
      BY <1>3, <2>2
    <2>4. ASSUME NEW p \in 1..q, Place(kinds, i, frames[p]) = Place(kinds, i, frames[q + 1]) - 1,
                 Place(kinds, i, frames[q + 1]) # low + 1
          PROVE  \E r \in 1..(q - 1) : Place(kinds, i, rest[r]) = Place(kinds, i, rest[q]) - 1
      <3>1. p # 1
        BY <1>3, <2>2, <2>4
      <3>2. p - 1 \in 1..(q - 1) /\ p - 1 \in 1..Len(rest) /\ (p - 1) + 1 = p
        BY <1>1, <3>1
      <3> QED
        BY <1>2, <2>4, <3>2
    <2> QED
      BY <1>2, <2>1, <2>2, <2>3, <2>4
  <1>6. ASSUME NEW n \in Nat, Has(kinds, i, frames, n), n # low
        PROVE  Has(kinds, i, rest, n)
    <2>1. PICK p \in 1..Len(frames) : Place(kinds, i, frames[p]) = n
      BY <1>6 DEF Has
    <2>2. p # 1
      BY <1>3, <1>6, <2>1
    <2>3. p - 1 \in 1..Len(rest) /\ (p - 1) + 1 = p
      BY <1>1, <2>2
    <2> QED
      BY <1>2, <2>1, <2>3 DEF Has
  <1> QED
    BY <1>1, <1>3, <1>5, <1>6 DEF rest

\* Losing a suffix of the queue leaves a run.
LEMMA PrefixRuns ==
    ASSUME NEW frames \in Seq(Messages), NEW k \in 0..Len(frames), NEW kinds, NEW i,
           NEW low \in Nat, Runs(kinds, i, frames, low)
    PROVE  Runs(kinds, i, SubSeq(frames, 1, k), low)
  <1> DEFINE kept == SubSeq(frames, 1, k)
  <1>1. /\ Len(kept) = k /\ \A p \in 1..k : kept[p] = frames[p]
        /\ k \in Nat /\ 1..k \subseteq 1..Len(frames)
    OBVIOUS
  <1> HIDE DEF kept
  <1>2. \A q \in 1..k : 1..(q - 1) \subseteq 1..k
    BY <1>1
  <1>3. \A p \in 1..k : Place(kinds, i, kept[p]) = Place(kinds, i, frames[p])
    BY <1>1
  <1>4. Runs(kinds, i, kept, low)
    <2> SUFFICES ASSUME NEW q \in 1..k, Place(kinds, i, kept[q]) >= 0
                 PROVE  /\ Place(kinds, i, kept[q]) >= low
                        /\ \/ Place(kinds, i, kept[q]) = low
                           \/ \E p \in 1..(q - 1) : Place(kinds, i, kept[p]) = Place(kinds, i, kept[q]) - 1
                        /\ \A p \in 1..(q - 1) : Place(kinds, i, kept[p]) < Place(kinds, i, kept[q])
      BY <1>1 DEF Runs
    <2>1. q \in 1..Len(frames) /\ \A p \in 1..(q - 1) : p \in 1..k
      BY <1>1, <1>2
    <2> QED
      BY <1>3, <2>1 DEF Runs
  <1> QED
    BY <1>4 DEF kept

\* A queue after an append, after its head was taken, and after a loss.
LEMMA Queue ==
    ASSUME NEW frames \in Seq(Messages)
    PROVE  /\ \A frame \in Messages :
                /\ Append(frames, frame) \in Seq(Messages)
                /\ \A p \in 1..Len(Append(frames, frame)) :
                     Append(frames, frame)[p] = frame \/ \E q \in 1..Len(frames) : Append(frames, frame)[p] = frames[q]
           /\ frames # <<>> =>
                /\ Head(frames) \in Messages /\ Head(frames) = frames[1] /\ 1 \in 1..Len(frames)
                /\ Tail(frames) \in Seq(Messages)
                /\ \A p \in 1..Len(Tail(frames)) : \E q \in 1..Len(frames) : Tail(frames)[p] = frames[q]
           /\ \A k \in 0..Len(frames) :
                /\ SubSeq(frames, 1, k) \in Seq(Messages)
                /\ \A p \in 1..Len(SubSeq(frames, 1, k)) :
                     \E q \in 1..Len(frames) : SubSeq(frames, 1, k)[p] = frames[q]
  <1>1. ASSUME NEW frame \in Messages
        PROVE  /\ Append(frames, frame) \in Seq(Messages)
               /\ \A p \in 1..Len(Append(frames, frame)) :
                    Append(frames, frame)[p] = frame \/ \E q \in 1..Len(frames) : Append(frames, frame)[p] = frames[q]
    OBVIOUS
  <1>2. ASSUME frames # <<>>
        PROVE  /\ Head(frames) \in Messages /\ Head(frames) = frames[1] /\ 1 \in 1..Len(frames)
               /\ Tail(frames) \in Seq(Messages)
               /\ \A p \in 1..Len(Tail(frames)) : \E q \in 1..Len(frames) : Tail(frames)[p] = frames[q]
    <2>1. \A p \in 1..Len(Tail(frames)) : Tail(frames)[p] = frames[p + 1] /\ p + 1 \in 1..Len(frames)
      BY <1>2
    <2> QED
      BY <1>2, <2>1
  <1>3. ASSUME NEW k \in 0..Len(frames)
        PROVE  /\ SubSeq(frames, 1, k) \in Seq(Messages)
               /\ \A p \in 1..Len(SubSeq(frames, 1, k)) :
                    \E q \in 1..Len(frames) : SubSeq(frames, 1, k)[p] = frames[q]
    OBVIOUS
  <1> QED
    BY <1>1, <1>2, <1>3

-----------------------------------------------------------------------------
(* Types *)

\* Frames and control messages are messages.
LEMMA FrameTypes ==
    ASSUME NEW i \in Streams, NEW n \in Nat,
           NEW type \in {"Open", "Data", "HalfEnd", "End", "RespHead", "Fail"}
    PROVE  /\ Frame(type, i, n) \in Messages
           /\ Frame(type, i, n).type = type /\ Frame(type, i, n).of = i /\ Frame(type, i, n).n = n
  BY DEF Messages, Frame

\* A control frame is a message of its type.
LEMMA ControlTypes ==
    ASSUME NEW type \in {"Ping", "Pong"}
    PROVE  Control(type) \in Messages /\ Control(type).type = type
  BY DEF Messages, Control

\* What is read at the head of a queue.
LEMMA HeadType ==
    ASSUME NEW frames \in Seq(Messages), frames # <<>>, Head(frames).type \notin {"Ping", "Pong"}
    PROVE  Head(frames).of \in Streams /\ Head(frames).n \in Nat
  <1>1. Head(frames) \in Messages
    OBVIOUS
  <1> QED
    BY <1>1 DEF Messages

\* What is appended to a queue, read from it or cut off it leaves a queue.
LEMMA QueueKept ==
    ASSUME NEW frames \in Seq(Messages)
    PROVE  /\ \A frame \in Messages : Append(frames, frame) \in Seq(Messages)
           /\ frames # <<>> => Tail(frames) \in Seq(Messages)
           /\ \A k \in 0..Len(frames) : SubSeq(frames, 1, k) \in Seq(Messages)
  BY Queue

\* The two ends of a session leave prefixes of what they had queued.
LEMMA EndsType ==
    ASSUME Types
    PROVE  /\ HubEnds => /\ hub' = "ended" /\ down' \in Seq(Messages)
                         /\ stream' \in [Streams -> {"new", "open", "whole", "cut", "left"}]
           /\ TetherEnds => tether' = "ended" /\ table' = {} /\ up' \in Seq(Messages)
  <1>1. TetherEnds => tether' = "ended" /\ table' = {} /\ up' \in Seq(Messages)
    BY QueueKept DEF TetherEnds, Types, QueueTypes
  <1>2. HubEnds => hub' = "ended" /\ down' \in Seq(Messages)
    BY QueueKept DEF HubEnds, Types, QueueTypes
  <1>3. HubEnds => stream' \in [Streams -> {"new", "open", "whole", "cut", "left"}]
    BY DEF HubEnds, Types, HubTypes
  <1> QED
    BY <1>1, <1>2, <1>3

\* Every step keeps the types of the hub, of the tether and of the two queues.
LEMMA HubTypesStep == Types /\ [Next]_vars => HubTypes'
  <1> SUFFICES ASSUME Types, [Next]_vars PROVE HubTypes'
    OBVIOUS
  <1> RequestChunks \in Nat
    BY CapacityAssumption
  <1> HubTypes
    BY DEF Types
  <1> USE DEF HubTypes, hubVars
  <1>1. ASSUME NEW i \in Streams, Open(i) PROVE HubTypes'
    BY <1>1 DEF Open
  <1>2. ASSUME NEW i \in Streams, UploadSends(i) PROVE HubTypes'
    <2>1. sent[i] < RequestChunks => sent[i] + 1 \in 0..RequestChunks
      OBVIOUS
    <2> QED
      BY <1>2, <2>1 DEF UploadSends
  <1>3. ASSUME NEW i \in Streams, UploadFails(i) PROVE HubTypes'
    BY <1>3 DEF UploadFails, HubDrops
  <1>4. ASSUME NEW i \in Streams, UploadStops(i) PROVE HubTypes'
    BY <1>4 DEF UploadStops
  <1>5. ASSUME NEW i \in Streams, CallerLeaves(i) PROVE HubTypes'
    BY <1>5 DEF CallerLeaves, HubDrops
  <1>6. CASE HubHead
    BY <1>6 DEF HubHead, Arrives
  <1>7. CASE HubData
    <2>1. Head(up).n \in Nat /\ got[Head(up).of] \in Seq(Nat) /\ Head(up).of \in Streams
      BY <1>7, HeadType DEF HubData, Arrives, Types, QueueTypes
    <2>2. Append(got[Head(up).of], Head(up).n) \in Seq(Nat)
      BY <2>1
    <2> QED
      BY <1>7, <2>1, <2>2 DEF HubData
  <1>8. CASE HubRefuses
    BY <1>8, EndsType DEF HubRefuses, Arrives
  <1>9. CASE HubEnd
    BY <1>9 DEF HubEnd, Arrives
  <1>10. CASE HubPong
    BY <1>10 DEF HubPong, Arrives
  <1>11. CASE HubPings
    BY <1>11, EndsType DEF HubPings
  <1>12. CASE HubGivesUp \/ HubSeesClose
    BY <1>12, EndsType DEF HubGivesUp, HubSeesClose
  <1>13. CASE TetherOpen
    BY <1>13 DEF TetherOpen, Comes, TetherTells
  <1>14. CASE TetherData
    BY <1>14 DEF TetherData, Comes, TetherTells, Enqueue
  <1>15. CASE TetherEnd
    BY <1>15 DEF TetherEnd, Comes
  <1>16. CASE TetherPing
    BY <1>16 DEF TetherPing, Comes, TetherTells
  <1>17. ASSUME NEW i \in Streams, TetherCompletion(i) PROVE HubTypes'
    BY <1>17 DEF TetherCompletion
  <1>18. CASE TetherGivesUp \/ TetherSeesClose
    BY <1>18 DEF TetherGivesUp, TetherSeesClose
  <1>19. ASSUME NEW i \in Streams, EngineReads(i) PROVE HubTypes'
    BY <1>19 DEF EngineReads, Closes, PumpOnly
  <1>20. ASSUME NEW i \in Streams, EngineSeesCut(i) \/ EngineStopsReading(i) PROVE HubTypes'
    BY <1>20 DEF EngineSeesCut, EngineStopsReading, Closes, PumpOnly
  <1>21. ASSUME NEW i \in Streams, EngineAnswers(i) PROVE HubTypes'
    BY <1>21 DEF EngineAnswers, Pump, PumpOnly, Queues
  <1>22. ASSUME NEW i \in Streams, EngineSends(i) PROVE HubTypes'
    BY <1>22 DEF EngineSends, Pump, PumpOnly, Queues
  <1>23. ASSUME NEW i \in Streams, EngineEnds(i) PROVE HubTypes'
    BY <1>23 DEF EngineEnds, Pump, PumpOnly
  <1>24. ASSUME NEW i \in Streams, PumpEnds(i) PROVE HubTypes'
    BY <1>24 DEF PumpEnds, Pump, PumpOnly, Queues
  <1>25. ASSUME NEW i \in Streams, PumpAborts(i) PROVE HubTypes'
    BY <1>25 DEF PumpAborts, PumpOnly
  <1>26. CASE UNCHANGED vars
    BY <1>26 DEF vars
  <1> QED
    BY <1>1, <1>2, <1>3, <1>4, <1>5, <1>6, <1>7, <1>8, <1>9, <1>10, <1>11, <1>12, <1>13,
       <1>14, <1>15, <1>16, <1>17, <1>18, <1>19, <1>20, <1>21, <1>22, <1>23, <1>24, <1>25, <1>26
    DEF Next, HubStep, HubReceives, TetherStep, TetherReceives, EngineStep

\* Every step keeps the types of the tether.
LEMMA TetherTypesStep == Types /\ [Next]_vars => TetherTypes'
  <1> SUFFICES ASSUME Types, [Next]_vars PROVE TetherTypes'
    OBVIOUS
  <1> TetherTypes
    BY DEF Types
  <1> HalfEnd \in Nat
    BY CapacityAssumption DEF HalfEnd
  <1> USE DEF TetherTypes, tetherVars, engineVars
  <1>1. ASSUME NEW i \in Streams, Open(i) PROVE TetherTypes'
    BY <1>1 DEF Open
  <1>2. ASSUME NEW i \in Streams, UploadSends(i) PROVE TetherTypes'
    BY <1>2 DEF UploadSends
  <1>3. ASSUME NEW i \in Streams, UploadFails(i) PROVE TetherTypes'
    BY <1>3 DEF UploadFails, HubDrops
  <1>4. ASSUME NEW i \in Streams, UploadStops(i) PROVE TetherTypes'
    BY <1>4 DEF UploadStops
  <1>5. ASSUME NEW i \in Streams, CallerLeaves(i) PROVE TetherTypes'
    BY <1>5 DEF CallerLeaves, HubDrops
  <1>6. CASE HubHead
    BY <1>6 DEF HubHead, Arrives
  <1>7. CASE HubData
    BY <1>7 DEF HubData, Arrives
  <1>8. CASE HubRefuses
    BY <1>8 DEF HubRefuses, Arrives
  <1>9. CASE HubEnd
    BY <1>9 DEF HubEnd, Arrives
  <1>10. CASE HubPong
    BY <1>10 DEF HubPong, Arrives
  <1>11. CASE HubPings
    BY <1>11 DEF HubPings
  <1>12. CASE HubGivesUp \/ HubSeesClose
    BY <1>12 DEF HubGivesUp, HubSeesClose
  <1>13. CASE TetherOpen
    <2>1. Head(down).of \in Streams
      BY <1>13, HeadType DEF TetherOpen, Comes, Types, QueueTypes
    <2> QED
      BY <1>13, <2>1, EndsType DEF TetherOpen, TetherTells
  <1>14. CASE TetherData
    <2>1. Head(down).of \in Streams /\ Head(down).n \in Nat
      BY <1>14, HeadType DEF TetherData, Comes, Types, QueueTypes
    <2>2. PICK chunk \in Nat : Enqueue(Head(down).of, chunk)
      BY <1>14, <2>1 DEF TetherData
    <2>3. Append(input[Head(down).of], chunk) \in Seq(Nat)
      BY <2>1
    <2> QED
      BY <1>14, <2>1, <2>2, <2>3, EndsType DEF TetherData, Enqueue, TetherTells
  <1>15. CASE TetherEnd
    BY <1>15 DEF TetherEnd, Comes
  <1>16. CASE TetherPing
    BY <1>16, EndsType DEF TetherPing, Comes, TetherTells
  <1>17. ASSUME NEW i \in Streams, TetherCompletion(i) PROVE TetherTypes'
    BY <1>17 DEF TetherCompletion
  <1>18. CASE TetherGivesUp \/ TetherSeesClose
    BY <1>18, EndsType DEF TetherGivesUp, TetherSeesClose
  <1>19. ASSUME NEW i \in Streams, EngineReads(i) PROVE TetherTypes'
    <2>1. input[i] # <<>> => /\ Head(input[i]) \in Nat /\ Tail(input[i]) \in Seq(Nat)
                             /\ Append(taken[i], Head(input[i])) \in Seq(Nat)
      OBVIOUS
    <2>2. <<>> \in Seq(Nat)
      OBVIOUS
    <2> QED
      BY <1>19, <2>1, <2>2 DEF EngineReads, Closes, PumpOnly
  <1>20. ASSUME NEW i \in Streams, EngineSeesCut(i) \/ EngineStopsReading(i) PROVE TetherTypes'
    <2>1. <<>> \in Seq(Nat)
      OBVIOUS
    <2> QED
      BY <1>20, <2>1 DEF EngineSeesCut, EngineStopsReading, Closes, PumpOnly
  <1>21. ASSUME NEW i \in Streams, EngineAnswers(i) PROVE TetherTypes'
    BY <1>21 DEF EngineAnswers, Pump, PumpOnly, Queues
  <1>22. ASSUME NEW i \in Streams, EngineSends(i) PROVE TetherTypes'
    <2>1. Body(answered[i].chunks + 1, FALSE) \in [chunks : Nat, complete : BOOLEAN]
      BY DEF Body
    <2> QED
      BY <1>22, <2>1 DEF EngineSends, Pump, PumpOnly
  <1>23. ASSUME NEW i \in Streams, EngineEnds(i) PROVE TetherTypes'
    <2>1. Body(answered[i].chunks, TRUE) \in [chunks : Nat, complete : BOOLEAN]
      BY DEF Body
    <2>2. answered' \in [Streams -> [chunks : Nat, complete : BOOLEAN]]
      BY <1>23, <2>1 DEF EngineEnds
    <2> QED
      BY <1>23, <2>2 DEF EngineEnds, Pump, PumpOnly
  <1>24. ASSUME NEW i \in Streams, PumpEnds(i) PROVE TetherTypes'
    BY <1>24 DEF PumpEnds, Pump, PumpOnly, Queues
  <1>25. ASSUME NEW i \in Streams, PumpAborts(i) PROVE TetherTypes'
    BY <1>25 DEF PumpAborts, PumpOnly
  <1>26. CASE UNCHANGED vars
    BY <1>26 DEF vars
  <1> QED
    BY <1>1, <1>2, <1>3, <1>4, <1>5, <1>6, <1>7, <1>8, <1>9, <1>10, <1>11, <1>12, <1>13,
       <1>14, <1>15, <1>16, <1>17, <1>18, <1>19, <1>20, <1>21, <1>22, <1>23, <1>24, <1>25, <1>26
    DEF Next, HubStep, HubReceives, TetherStep, TetherReceives, EngineStep

\* Every step keeps the types of the queues.
LEMMA QueueTypesStep == Types /\ [Next]_vars => QueueTypes'
  <1> SUFFICES ASSUME Types, [Next]_vars PROVE QueueTypes'
    OBVIOUS
  <1> QueueTypes
    BY DEF Types
  <1> USE DEF QueueTypes
  <1>1. ASSUME NEW i \in Streams, Open(i) PROVE QueueTypes'
    BY <1>1, QueueKept, FrameTypes DEF Open
  <1>2. ASSUME NEW i \in Streams, UploadSends(i) PROVE QueueTypes'
    <2>1. sent[i] + 1 \in Nat
      BY CapacityAssumption DEF Types, HubTypes
    <2>2. Frame("Data", i, sent[i] + 1) \in Messages /\ Frame("HalfEnd", i, sent[i] + 1) \in Messages
      BY <2>1, FrameTypes
    <2> QED
      BY <1>2, <2>2, QueueKept DEF UploadSends, tetherVars
  <1>3. ASSUME NEW i \in Streams, UploadFails(i) PROVE QueueTypes'
    <2>1. Frame("End", i, 0) \in Messages
      BY FrameTypes
    <2> QED
      BY <1>3, <2>1, QueueKept DEF UploadFails, HubDrops
  <1>4. ASSUME NEW i \in Streams, UploadStops(i) PROVE QueueTypes'
    BY <1>4 DEF UploadStops
  <1>5. ASSUME NEW i \in Streams, CallerLeaves(i) PROVE QueueTypes'
    <2>1. Frame("End", i, 0) \in Messages
      BY FrameTypes
    <2> QED
      BY <1>5, <2>1, QueueKept DEF CallerLeaves, HubDrops
  <1>6. CASE HubHead
    BY <1>6, QueueKept DEF HubHead, Arrives
  <1>7. CASE HubData
    BY <1>7, QueueKept DEF HubData, Arrives
  <1>8. CASE HubRefuses
    <2>1. up # <<>> /\ Frame("End", Head(up).of, 0) \in Messages
      BY <1>8, HeadType, FrameTypes DEF HubRefuses, Arrives
    <2> QED
      BY <1>8, <2>1, QueueKept, EndsType DEF HubRefuses, Arrives
  <1>9. CASE HubEnd
    BY <1>9, QueueKept DEF HubEnd, Arrives
  <1>10. CASE HubPong
    BY <1>10, QueueKept DEF HubPong, Arrives
  <1>11. CASE HubPings
    BY <1>11, EndsType, QueueKept, ControlTypes DEF HubPings
  <1>12. CASE HubGivesUp \/ HubSeesClose
    BY <1>12, EndsType DEF HubGivesUp, HubSeesClose
  <1>13. CASE TetherOpen
    <2>1. down # <<>> /\ Frame("Fail", Head(down).of, 0) \in Messages
      BY <1>13, HeadType, FrameTypes DEF TetherOpen, Comes
    <2> QED
      BY <1>13, <2>1, QueueKept, EndsType DEF TetherOpen, Comes, TetherTells
  <1>14. CASE TetherData
    <2>1. down # <<>> /\ Frame("Fail", Head(down).of, 0) \in Messages
      BY <1>14, HeadType, FrameTypes DEF TetherData, Comes
    <2> QED
      BY <1>14, <2>1, QueueKept, EndsType DEF TetherData, Comes, TetherTells, Enqueue
  <1>15. CASE TetherEnd
    BY <1>15, QueueKept DEF TetherEnd, Comes
  <1>16. CASE TetherPing
    BY <1>16, EndsType, QueueKept, ControlTypes DEF TetherPing, Comes, TetherTells
  <1>17. ASSUME NEW i \in Streams, TetherCompletion(i) PROVE QueueTypes'
    BY <1>17 DEF TetherCompletion
  <1>18. CASE TetherGivesUp \/ TetherSeesClose
    BY <1>18, EndsType DEF TetherGivesUp, TetherSeesClose
  <1>19. ASSUME NEW i \in Streams, EngineReads(i) PROVE QueueTypes'
    BY <1>19 DEF EngineReads, Closes, PumpOnly
  <1>20. ASSUME NEW i \in Streams, EngineSeesCut(i) \/ EngineStopsReading(i) PROVE QueueTypes'
    BY <1>20 DEF EngineSeesCut, EngineStopsReading, Closes, PumpOnly
  <1>21. ASSUME NEW i \in Streams, EngineAnswers(i) PROVE QueueTypes'
    BY <1>21, QueueKept, FrameTypes DEF EngineAnswers, Pump, PumpOnly, Queues
  <1>22. ASSUME NEW i \in Streams, EngineSends(i) PROVE QueueTypes'
    <2>1. answered[i].chunks + 1 \in Nat
      BY DEF Types, TetherTypes
    <2> QED
      BY <1>22, <2>1, QueueKept, FrameTypes DEF EngineSends, Pump, PumpOnly, Queues
  <1>23. ASSUME NEW i \in Streams, EngineEnds(i) PROVE QueueTypes'
    BY <1>23 DEF EngineEnds, Pump, PumpOnly
  <1>24. ASSUME NEW i \in Streams, PumpEnds(i) PROVE QueueTypes'
    <2>1. answered[i].chunks + 1 \in Nat
      BY DEF Types, TetherTypes
    <2>2. /\ Frame("End", i, answered[i].chunks + 1) \in Messages
          /\ Frame("Fail", i, 0) \in Messages
      BY <2>1, FrameTypes
    <2> QED
      BY <1>24, <2>2, QueueKept DEF PumpEnds, Pump, PumpOnly, Queues
  <1>25. ASSUME NEW i \in Streams, PumpAborts(i) PROVE QueueTypes'
    BY <1>25 DEF PumpAborts, PumpOnly
  <1>26. CASE UNCHANGED vars
    BY <1>26 DEF vars
  <1> QED
    BY <1>1, <1>2, <1>3, <1>4, <1>5, <1>6, <1>7, <1>8, <1>9, <1>10, <1>11, <1>12, <1>13,
       <1>14, <1>15, <1>16, <1>17, <1>18, <1>19, <1>20, <1>21, <1>22, <1>23, <1>24, <1>25, <1>26
    DEF Next, HubStep, HubReceives, TetherStep, TetherReceives, EngineStep

\* The types hold at first, and every step keeps them.
LEMMA TypesInit == Init => Types
  <1> SUFFICES ASSUME Init PROVE Types
    OBVIOUS
  <1>1. RequestChunks \in Nat /\ Body(0, FALSE) \in [chunks : Nat, complete : BOOLEAN]
    BY CapacityAssumption DEF Body
  <1>2. TetherTypes
    <2>1. /\ tether = "up" /\ table = {} /\ completions = {}
          /\ input = [i \in Streams |-> <<>>] /\ taken = [i \in Streams |-> <<>>]
      BY DEF Init
    <2>2. /\ pump = [i \in Streams |-> "none"] /\ accepted = [i \in Streams |-> "open"]
          /\ answered = [i \in Streams |-> Body(0, FALSE)]
      BY DEF Init
    <2>3. answered \in [Streams -> [chunks : Nat, complete : BOOLEAN]]
      BY <1>1, <2>2, Zenon
    <2>4. pump \in [Streams -> {"none"}] /\ accepted \in [Streams -> {"open"}]
      BY <2>2
    <2>5. input \in [Streams -> Seq(Nat)] /\ taken \in [Streams -> Seq(Nat)]
      BY <2>1
    <2> QED
      BY <2>1, <2>3, <2>4, <2>5 DEF TetherTypes
  <1> QED
    BY <1>1, <1>2 DEF Init, Types, HubTypes, QueueTypes

\* Every step keeps the types.
LEMMA TypesStep == Types /\ [Next]_vars => Types'
  BY HubTypesStep, TetherTypesStep, QueueTypesStep DEF Types

-----------------------------------------------------------------------------
(* What has begun *)

\* An OPEN that arrives is the first the tether sees of its stream.
LEMMA OpensOnce ==
    ASSUME Types, RequestInv, Comes("Open")
    PROVE  Head(down).of \in Streams /\ pump[Head(down).of] = "none" /\ stream[Head(down).of] # "new"
  <1>1. down # <<>> /\ down \in Seq(Messages) /\ Head(down) = down[1] /\ 1 \in 1..Len(down)
    BY DEF Types, QueueTypes, Comes
  <1>2. Head(down).type = "Open"
    BY DEF Comes
  <1> QED
    BY <1>1, <1>2, HeadType DEF RequestInv, RequestFrame, RequestKinds

\* The end of the hub's session opens no stream.
LEMMA EndKeepsNew ==
    ASSUME Types, HubEnds
    PROVE  \A i \in Streams : /\ stream'[i] = "new" <=> stream[i] = "new"
                              /\ stream'[i] # "open"
                              /\ stream[i] # "open" => stream'[i] = stream[i]
  BY DEF Types, HubTypes, HubEnds

\* Nothing of a stream moves before its OPEN is sent, or before it arrives.
LEMMA BlankStep ==
    ASSUME Types, Blank, RequestInv, [Next]_vars
    PROVE  Blank'
  <1> HubTypes /\ TetherTypes
    BY DEF Types
  <1> USE DEF Blank, HubTypes, TetherTypes, hubVars, tetherVars, engineVars
  <1>1. ASSUME NEW i \in Streams, Open(i) PROVE Blank'
    BY <1>1 DEF Open
  <1>2. ASSUME NEW i \in Streams, UploadSends(i) PROVE Blank'
    BY <1>2 DEF UploadSends
  <1>3. ASSUME NEW i \in Streams, UploadFails(i) PROVE Blank'
    BY <1>3 DEF UploadFails, HubDrops
  <1>4. ASSUME NEW i \in Streams, UploadStops(i) PROVE Blank'
    BY <1>4 DEF UploadStops
  <1>5. ASSUME NEW i \in Streams, CallerLeaves(i) PROVE Blank'
    BY <1>5 DEF CallerLeaves, HubDrops
  <1>6. CASE HubHead
    BY <1>6 DEF HubHead, Arrives
  <1>7. CASE HubData
    BY <1>7 DEF HubData, Arrives
  <1>8. CASE HubRefuses
    BY <1>8, EndKeepsNew DEF HubRefuses, Arrives
  <1>9. CASE HubEnd
    BY <1>9 DEF HubEnd, Arrives
  <1>10. CASE HubPong
    BY <1>10 DEF HubPong, Arrives
  <1>11. CASE HubPings
    BY <1>11, EndKeepsNew DEF HubPings
  <1>12. CASE HubGivesUp \/ HubSeesClose
    BY <1>12, EndKeepsNew DEF HubGivesUp, HubSeesClose
  <1>13. CASE TetherOpen
    BY <1>13, OpensOnce DEF TetherOpen, Comes, TetherTells, TetherEnds
  <1>14. CASE TetherData
    BY <1>14 DEF TetherData, Comes, TetherTells, Enqueue, TetherEnds
  <1>15. CASE TetherEnd
    BY <1>15 DEF TetherEnd, Comes
  <1>16. CASE TetherPing
    BY <1>16 DEF TetherPing, Comes, TetherTells, TetherEnds
  <1>17. ASSUME NEW i \in Streams, TetherCompletion(i) PROVE Blank'
    BY <1>17 DEF TetherCompletion
  <1>18. CASE TetherGivesUp \/ TetherSeesClose
    BY <1>18 DEF TetherGivesUp, TetherSeesClose, TetherEnds
  <1>19. ASSUME NEW i \in Streams, EngineReads(i) PROVE Blank'
    BY <1>19 DEF EngineReads, Closes, PumpOnly, Connected
  <1>20. ASSUME NEW i \in Streams, EngineSeesCut(i) \/ EngineStopsReading(i) PROVE Blank'
    BY <1>20 DEF EngineSeesCut, EngineStopsReading, Closes, PumpOnly, Connected
  <1>21. ASSUME NEW i \in Streams, EngineAnswers(i) PROVE Blank'
    BY <1>21 DEF EngineAnswers, Pump, PumpOnly, Queues
  <1>22. ASSUME NEW i \in Streams, EngineSends(i) PROVE Blank'
    BY <1>22 DEF EngineSends, Pump, PumpOnly, Queues
  <1>23. ASSUME NEW i \in Streams, EngineEnds(i) PROVE Blank'
    BY <1>23 DEF EngineEnds, Pump, PumpOnly
  <1>24. ASSUME NEW i \in Streams, PumpEnds(i) PROVE Blank'
    BY <1>24 DEF PumpEnds, Pump, PumpOnly, Queues
  <1>25. ASSUME NEW i \in Streams, PumpAborts(i) PROVE Blank'
    BY <1>25 DEF PumpAborts, PumpOnly, Running
  <1>26. CASE UNCHANGED vars
    BY <1>26 DEF vars
  <1> QED
    BY <1>1, <1>2, <1>3, <1>4, <1>5, <1>6, <1>7, <1>8, <1>9, <1>10, <1>11, <1>12, <1>13,
       <1>14, <1>15, <1>16, <1>17, <1>18, <1>19, <1>20, <1>21, <1>22, <1>23, <1>24, <1>25, <1>26
    DEF Next, HubStep, HubReceives, TetherStep, TetherReceives, EngineStep

\* An answer is complete only once its pump ended it.
LEMMA AnsweringStep ==
    ASSUME Types, Answering, RequestInv, Blank, [Next]_vars
    PROVE  Answering'
  <1> HubTypes /\ TetherTypes
    BY DEF Types
  <1> USE DEF Answering, TetherTypes, hubVars, tetherVars, engineVars, Body
  <1>1. ASSUME NEW i \in Streams, Open(i) PROVE Answering'
    BY <1>1 DEF Open
  <1>2. ASSUME NEW i \in Streams, UploadSends(i) PROVE Answering'
    BY <1>2 DEF UploadSends
  <1>3. ASSUME NEW i \in Streams, UploadFails(i) PROVE Answering'
    BY <1>3 DEF UploadFails, HubDrops
  <1>4. ASSUME NEW i \in Streams, UploadStops(i) PROVE Answering'
    BY <1>4 DEF UploadStops
  <1>5. ASSUME NEW i \in Streams, CallerLeaves(i) PROVE Answering'
    BY <1>5 DEF CallerLeaves, HubDrops
  <1>6. CASE HubHead
    BY <1>6 DEF HubHead, Arrives
  <1>7. CASE HubData
    BY <1>7 DEF HubData, Arrives
  <1>8. CASE HubRefuses
    BY <1>8 DEF HubRefuses, Arrives
  <1>9. CASE HubEnd
    BY <1>9 DEF HubEnd, Arrives
  <1>10. CASE HubPong
    BY <1>10 DEF HubPong, Arrives
  <1>11. CASE HubPings
    BY <1>11 DEF HubPings
  <1>12. CASE HubGivesUp \/ HubSeesClose
    BY <1>12 DEF HubGivesUp, HubSeesClose
  <1>13. CASE TetherOpen
    BY <1>13, OpensOnce DEF TetherOpen, Comes, TetherTells
  <1>14. CASE TetherData
    BY <1>14 DEF TetherData, Comes, TetherTells, Enqueue
  <1>15. CASE TetherEnd
    BY <1>15 DEF TetherEnd, Comes
  <1>16. CASE TetherPing
    BY <1>16 DEF TetherPing, Comes, TetherTells
  <1>17. ASSUME NEW i \in Streams, TetherCompletion(i) PROVE Answering'
    BY <1>17 DEF TetherCompletion
  <1>18. CASE TetherGivesUp \/ TetherSeesClose
    BY <1>18 DEF TetherGivesUp, TetherSeesClose
  <1>19. ASSUME NEW i \in Streams, EngineReads(i) PROVE Answering'
    BY <1>19 DEF EngineReads, Closes, PumpOnly
  <1>20. ASSUME NEW i \in Streams, EngineSeesCut(i) \/ EngineStopsReading(i) PROVE Answering'
    BY <1>20 DEF EngineSeesCut, EngineStopsReading, Closes, PumpOnly
  <1>21. ASSUME NEW i \in Streams, EngineAnswers(i) PROVE Answering'
    BY <1>21 DEF EngineAnswers, Pump, PumpOnly, Queues
  <1>22. ASSUME NEW i \in Streams, EngineSends(i) PROVE Answering'
    BY <1>22 DEF EngineSends, Pump, PumpOnly, Queues
  <1>23. ASSUME NEW i \in Streams, EngineEnds(i) PROVE Answering'
    <2>1. CASE pump[i] = "answering" /\ pump' = [pump EXCEPT ![i] = "ended"]
                 /\ answered' = [answered EXCEPT ![i] = Body(@.chunks, TRUE)]
      BY <2>1
    <2>2. CASE pump[i] \in {"requesting", "answering"} /\ pump' = [pump EXCEPT ![i] = "failed"]
                 /\ UNCHANGED answered
      BY <2>2
    <2> QED
      BY <1>23, <2>1, <2>2 DEF EngineEnds, Pump
  <1>24. ASSUME NEW i \in Streams, PumpEnds(i) PROVE Answering'
    BY <1>24 DEF PumpEnds, Pump, PumpOnly, Queues
  <1>25. ASSUME NEW i \in Streams, PumpAborts(i) PROVE Answering'
    BY <1>25 DEF PumpAborts, PumpOnly, Running
  <1>26. CASE UNCHANGED vars
    BY <1>26 DEF vars
  <1> QED
    BY <1>1, <1>2, <1>3, <1>4, <1>5, <1>6, <1>7, <1>8, <1>9, <1>10, <1>11, <1>12, <1>13,
       <1>14, <1>15, <1>16, <1>17, <1>18, <1>19, <1>20, <1>21, <1>22, <1>23, <1>24, <1>25, <1>26
    DEF Next, HubStep, HubReceives, TetherStep, TetherReceives, EngineStep

\* Every step that ends a pump takes its stream out of the table or reports it.
LEMMA SlotStep ==
    ASSUME Types, RequestInv, Blank, SlotIsHeld, [Next]_vars
    PROVE  SlotIsHeld'
  <1> HubTypes /\ TetherTypes
    BY DEF Types
  <1> USE DEF SlotIsHeld, Running, TetherTypes, hubVars, tetherVars, engineVars
  <1>1. ASSUME NEW i \in Streams, Open(i) PROVE SlotIsHeld'
    BY <1>1 DEF Open
  <1>2. ASSUME NEW i \in Streams, UploadSends(i) PROVE SlotIsHeld'
    BY <1>2 DEF UploadSends
  <1>3. ASSUME NEW i \in Streams, UploadFails(i) PROVE SlotIsHeld'
    BY <1>3 DEF UploadFails, HubDrops
  <1>4. ASSUME NEW i \in Streams, UploadStops(i) PROVE SlotIsHeld'
    BY <1>4 DEF UploadStops
  <1>5. ASSUME NEW i \in Streams, CallerLeaves(i) PROVE SlotIsHeld'
    BY <1>5 DEF CallerLeaves, HubDrops
  <1>6. CASE HubHead
    BY <1>6 DEF HubHead, Arrives
  <1>7. CASE HubData
    BY <1>7 DEF HubData, Arrives
  <1>8. CASE HubRefuses
    BY <1>8 DEF HubRefuses, Arrives
  <1>9. CASE HubEnd
    BY <1>9 DEF HubEnd, Arrives
  <1>10. CASE HubPong
    BY <1>10 DEF HubPong, Arrives
  <1>11. CASE HubPings
    BY <1>11 DEF HubPings
  <1>12. CASE HubGivesUp \/ HubSeesClose
    BY <1>12 DEF HubGivesUp, HubSeesClose
  <1>13. CASE TetherOpen
    <2> DEFINE i == Head(down).of
    <2>1. i \in Streams /\ pump[i] = "none" /\ i \notin table
      BY <1>13, OpensOnce DEF TetherOpen, Blank
    <2>2. CASE table' \subseteq table /\ pump' = [pump EXCEPT ![i] = "refused"] /\ UNCHANGED completions
      BY <2>1, <2>2
    <2>3. CASE table' = table \cup {i} /\ pump' = [pump EXCEPT ![i] = "requesting"] /\ UNCHANGED completions
      BY <2>1, <2>3
    <2> QED
      BY <1>13, <2>2, <2>3 DEF TetherOpen, TetherTells, TetherEnds
  <1>14. CASE TetherData
    BY <1>14 DEF TetherData, Comes, TetherTells, Enqueue, TetherEnds
  <1>15. CASE TetherEnd
    BY <1>15 DEF TetherEnd, Comes
  <1>16. CASE TetherPing
    BY <1>16 DEF TetherPing, Comes, TetherTells, TetherEnds
  <1>17. ASSUME NEW i \in Streams, TetherCompletion(i) PROVE SlotIsHeld'
    BY <1>17 DEF TetherCompletion
  <1>18. CASE TetherGivesUp \/ TetherSeesClose
    BY <1>18 DEF TetherGivesUp, TetherSeesClose, TetherEnds
  <1>19. ASSUME NEW i \in Streams, EngineReads(i) PROVE SlotIsHeld'
    BY <1>19 DEF EngineReads, Closes, PumpOnly
  <1>20. ASSUME NEW i \in Streams, EngineSeesCut(i) \/ EngineStopsReading(i) PROVE SlotIsHeld'
    BY <1>20 DEF EngineSeesCut, EngineStopsReading, Closes, PumpOnly
  <1>21. ASSUME NEW i \in Streams, EngineAnswers(i) PROVE SlotIsHeld'
    BY <1>21 DEF EngineAnswers, Pump, PumpOnly, Queues
  <1>22. ASSUME NEW i \in Streams, EngineSends(i) PROVE SlotIsHeld'
    BY <1>22 DEF EngineSends, Pump, PumpOnly, Queues
  <1>23. ASSUME NEW i \in Streams, EngineEnds(i) PROVE SlotIsHeld'
    BY <1>23 DEF EngineEnds, Pump, PumpOnly
  <1>24. ASSUME NEW i \in Streams, PumpEnds(i) PROVE SlotIsHeld'
    BY <1>24 DEF PumpEnds, Pump, PumpOnly, Queues
  <1>25. ASSUME NEW i \in Streams, PumpAborts(i) PROVE SlotIsHeld'
    BY <1>25 DEF PumpAborts, PumpOnly
  <1>26. CASE UNCHANGED vars
    BY <1>26 DEF vars
  <1> QED
    BY <1>1, <1>2, <1>3, <1>4, <1>5, <1>6, <1>7, <1>8, <1>9, <1>10, <1>11, <1>12, <1>13,
       <1>14, <1>15, <1>16, <1>17, <1>18, <1>19, <1>20, <1>21, <1>22, <1>23, <1>24, <1>25, <1>26
    DEF Next, HubStep, HubReceives, TetherStep, TetherReceives, EngineStep


-----------------------------------------------------------------------------
(* The request is a run *)

\* A step that leaves the request of stream s alone, but for closing its pump's
\* queue, and the frames of that request.
RequestRests(s) ==
    /\ stream'[s] = "new" <=> stream[s] = "new"
    /\ pump'[s] = "none" <=> pump[s] = "none"
    /\ sent'[s] = sent[s]
    /\ upload'[s] = upload[s] \/ (upload[s] = "sending" /\ upload'[s] = "stopped")
    /\ TetherListens(s)' => TetherListens(s) /\ NextDown(s)' = NextDown(s)
    /\ hub' # "ended" => hub # "ended"
DownRests(s) ==
    \/ UNCHANGED down
    \/ \E frame \in Messages : Place(RequestKinds, s, frame) = -1 /\ down' = Append(down, frame)
    \/ down # <<>> /\ Place(RequestKinds, s, Head(down)) = -1 /\ down' = Tail(down)
    \/ hub' = "ended" /\ \E k \in 0..Len(down) : down' = SubSeq(down, 1, k)

\* The steps that do not.
RequestMoves(s) ==
    \/ Open(s) \/ UploadSends(s)
    \/ Head(down).of = s /\ (TetherOpen \/ TetherData)

\* The end of the session loses a suffix of the frames and touches no request.
LEMMA EndRests ==
    ASSUME Types, NEW s \in Streams, HubEnds
    PROVE  DownRests(s) /\ hub' = "ended" /\ (stream'[s] = "new" <=> stream[s] = "new")
  BY EndKeepsNew DEF DownRests, HubEnds

\* An END is no part of a request.
LEMMA DropRests ==
    ASSUME Types, NEW s \in Streams, NEW i \in Streams, NEW status \in {"cut", "left"}, HubDrops(i, status)
    PROVE  /\ DownRests(s) /\ (hub' # "ended" => hub # "ended")
           /\ stream'[s] = "new" <=> stream[s] = "new"
  <1>1. Frame("End", i, 0) \in Messages /\ Place(RequestKinds, s, Frame("End", i, 0)) = -1
    BY FrameTypes DEF Place, RequestKinds
  <1> QED
    BY <1>1 DEF HubDrops, DownRests, Types, HubTypes

\* A frame of another stream, or of no body, has no place in this one.
LEMMA OtherFrames ==
    ASSUME Types, NEW s \in Streams, down # <<>>, Head(down).type \notin RequestKinds \/ Head(down).of # s
    PROVE  Place(RequestKinds, s, Head(down)) = -1
  BY DEF Place

\* Every step but the four of RequestMoves leaves the request of a stream alone.
LEMMA RequestAction ==
    ASSUME Types, Blank, RequestInv, [Next]_vars, NEW s \in Streams, ~RequestMoves(s)
    PROVE  RequestRests(s) /\ DownRests(s)
  <1> HubTypes /\ TetherTypes
    BY DEF Types
  <1> USE DEF HubTypes, TetherTypes, hubVars, tetherVars, engineVars
  <1>1. ASSUME NEW i \in Streams, Open(i) PROVE RequestRests(s) /\ DownRests(s)
    <2>1. i # s
      BY <1>1 DEF RequestMoves
    <2>2. Frame("Open", i, 0) \in Messages /\ Place(RequestKinds, s, Frame("Open", i, 0)) = -1
      BY <2>1, FrameTypes DEF Place
    <2> QED
      BY <1>1, <2>1, <2>2 DEF Open, RequestRests, DownRests, TetherListens, NextDown
  <1>2. ASSUME NEW i \in Streams, UploadSends(i) PROVE RequestRests(s) /\ DownRests(s)
    <2>1. i # s /\ sent[i] + 1 \in Nat
      BY <1>2, CapacityAssumption DEF RequestMoves
    <2>2. /\ Frame("Data", i, sent[i] + 1) \in Messages
          /\ Place(RequestKinds, s, Frame("Data", i, sent[i] + 1)) = -1
          /\ Frame("HalfEnd", i, sent[i] + 1) \in Messages
          /\ Place(RequestKinds, s, Frame("HalfEnd", i, sent[i] + 1)) = -1
      BY <2>1, FrameTypes DEF Place
    <2>3. DownRests(s)
      BY <1>2, <2>2 DEF UploadSends, DownRests
    <2> QED
      BY <1>2, <2>1, <2>3 DEF UploadSends, RequestRests, TetherListens, NextDown
  <1>3. ASSUME NEW i \in Streams, UploadFails(i) PROVE RequestRests(s) /\ DownRests(s)
    <2>1. HubDrops(i, "cut")
      BY <1>3 DEF UploadFails
    <2> QED
      BY <1>3, <2>1, DropRests DEF UploadFails, RequestRests, TetherListens, NextDown
  <1>4. ASSUME NEW i \in Streams, UploadStops(i) PROVE RequestRests(s) /\ DownRests(s)
    BY <1>4 DEF UploadStops, RequestRests, DownRests, TetherListens, NextDown
  <1>5. ASSUME NEW i \in Streams, CallerLeaves(i) PROVE RequestRests(s) /\ DownRests(s)
    <2>1. HubDrops(i, "left")
      BY <1>5 DEF CallerLeaves
    <2> QED
      BY <1>5, <2>1, DropRests DEF CallerLeaves, RequestRests, TetherListens, NextDown
  <1>6. CASE HubHead
    BY <1>6 DEF HubHead, Arrives, RequestRests, DownRests, TetherListens, NextDown
  <1>7. CASE HubData
    BY <1>7 DEF HubData, Arrives, RequestRests, DownRests, TetherListens, NextDown
  <1>8. CASE HubRefuses
    <2> DEFINE i == Head(up).of
    <2>1. i \in Streams
      BY <1>8, HeadType DEF HubRefuses, Arrives, Types, QueueTypes
    <2>2. Frame("End", i, 0) \in Messages /\ Place(RequestKinds, s, Frame("End", i, 0)) = -1
      BY <2>1, FrameTypes DEF Place, RequestKinds
    <2>3. DownRests(s) /\ (hub' # "ended" => hub # "ended") /\ (stream'[s] = "new" <=> stream[s] = "new")
      BY <1>8, <2>1, <2>2, EndRests DEF HubRefuses, Arrives, DownRests
    <2> QED
      BY <1>8, <2>3 DEF HubRefuses, RequestRests, TetherListens, NextDown
  <1>9. CASE HubEnd
    BY <1>9 DEF HubEnd, Arrives, RequestRests, DownRests, TetherListens, NextDown
  <1>10. CASE HubPong
    BY <1>10 DEF HubPong, Arrives, RequestRests, DownRests, TetherListens, NextDown
  <1>11. CASE HubPings
    <2>1. Control("Ping") \in Messages /\ Place(RequestKinds, s, Control("Ping")) = -1
      BY ControlTypes DEF Place, RequestKinds
    <2>2. DownRests(s) /\ (hub' # "ended" => hub # "ended") /\ (stream'[s] = "new" <=> stream[s] = "new")
      BY <1>11, <2>1, EndRests DEF HubPings, DownRests
    <2> QED
      BY <1>11, <2>2 DEF HubPings, RequestRests, TetherListens, NextDown
  <1>12. CASE HubGivesUp \/ HubSeesClose
    <2>1. HubEnds
      BY <1>12 DEF HubGivesUp, HubSeesClose
    <2> QED
      BY <1>12, <2>1, EndRests DEF HubGivesUp, HubSeesClose, RequestRests, TetherListens, NextDown
  <1>13. CASE TetherOpen
    <2>1. Head(down).of # s /\ down # <<>>
      BY <1>13 DEF RequestMoves, TetherOpen, Comes
    <2>2. DownRests(s)
      BY <1>13, <2>1, OtherFrames DEF TetherOpen, Comes, DownRests
    <2> QED
      BY <1>13, <2>1, <2>2, OpensOnce DEF TetherOpen, TetherTells, TetherEnds, RequestRests, TetherListens, NextDown
  <1>14. CASE TetherData
    <2>1. Head(down).of # s /\ down # <<>> /\ Head(down).of \in Streams
      BY <1>14, HeadType DEF RequestMoves, TetherData, Comes, Types, QueueTypes
    <2>2. DownRests(s)
      BY <1>14, <2>1, OtherFrames DEF TetherData, Comes, DownRests
    <2>3. input'[s] = input[s] /\ table' \subseteq table
      BY <1>14, <2>1 DEF TetherData, Enqueue, TetherTells, TetherEnds
    <2> QED
      BY <1>14, <2>2, <2>3 DEF TetherData, RequestRests, TetherListens, NextDown
  <1>15. CASE TetherEnd
    <2>1. DownRests(s)
      BY <1>15, OtherFrames DEF TetherEnd, Comes, DownRests, RequestKinds
    <2> QED
      BY <1>15, <2>1 DEF TetherEnd, RequestRests, TetherListens, NextDown
  <1>16. CASE TetherPing
    <2>1. DownRests(s)
      BY <1>16, OtherFrames DEF TetherPing, Comes, DownRests, RequestKinds
    <2> QED
      BY <1>16, <2>1 DEF TetherPing, TetherTells, TetherEnds, RequestRests, TetherListens, NextDown
  <1>17. ASSUME NEW i \in Streams, TetherCompletion(i) PROVE RequestRests(s) /\ DownRests(s)
    BY <1>17 DEF TetherCompletion, RequestRests, DownRests, TetherListens, NextDown
  <1>18. CASE TetherGivesUp \/ TetherSeesClose
    BY <1>18 DEF TetherGivesUp, TetherSeesClose, RequestRests, DownRests, TetherListens, NextDown, TetherEnds
  <1>19. ASSUME NEW i \in Streams, EngineReads(i) PROVE RequestRests(s) /\ DownRests(s)
    <2>1. /\ UNCHANGED <<hubVars, down, tether, table>> /\ UNCHANGED <<pump, completions>>
          /\ pump[i] # "none" /\ input[i] # <<>> /\ accepted[i] = "open"
      BY <1>19 DEF EngineReads, PumpOnly, Connected
    <2>2. CASE s = i /\ accepted' = accepted
      <3>1. taken'[i] = Append(taken[i], Head(input[i])) /\ input'[i] = Tail(input[i])
        BY <1>19, <2>1, <2>2 DEF EngineReads, Closes
      <3>2. Len(taken'[i]) = Len(taken[i]) + 1 /\ Len(input'[i]) = Len(input[i]) - 1
        BY <2>1, <3>1
      <3> QED
        BY <2>1, <2>2, <3>2 DEF RequestRests, DownRests, TetherListens, NextDown
    <2>3. CASE s = i /\ accepted'[i] # "open"
      BY <2>1, <2>3 DEF RequestRests, DownRests, TetherListens, NextDown
    <2>4. CASE s # i
      BY <1>19, <2>1, <2>4 DEF EngineReads, Closes, RequestRests, DownRests, TetherListens, NextDown
    <2> QED
      BY <1>19, <2>2, <2>3, <2>4 DEF EngineReads, Closes
  <1>20. ASSUME NEW i \in Streams, EngineSeesCut(i) \/ EngineStopsReading(i) PROVE RequestRests(s) /\ DownRests(s)
    <2>1. pump[i] # "none"
      BY <1>20 DEF EngineSeesCut, EngineStopsReading, Connected
    <2> QED
      BY <1>20, <2>1 DEF EngineSeesCut, EngineStopsReading, Closes, PumpOnly, RequestRests, DownRests, TetherListens, NextDown
  <1>21. ASSUME NEW i \in Streams, EngineAnswers(i) PROVE RequestRests(s) /\ DownRests(s)
    BY <1>21 DEF EngineAnswers, Pump, PumpOnly, Queues, RequestRests, DownRests, TetherListens, NextDown
  <1>22. ASSUME NEW i \in Streams, EngineSends(i) PROVE RequestRests(s) /\ DownRests(s)
    BY <1>22 DEF EngineSends, Pump, PumpOnly, Queues, RequestRests, DownRests, TetherListens, NextDown
  <1>23. ASSUME NEW i \in Streams, EngineEnds(i) PROVE RequestRests(s) /\ DownRests(s)
    BY <1>23 DEF EngineEnds, Pump, PumpOnly, RequestRests, DownRests, TetherListens, NextDown
  <1>24. ASSUME NEW i \in Streams, PumpEnds(i) PROVE RequestRests(s) /\ DownRests(s)
    BY <1>24 DEF PumpEnds, Pump, PumpOnly, Queues, RequestRests, DownRests, TetherListens, NextDown
  <1>25. ASSUME NEW i \in Streams, PumpAborts(i) PROVE RequestRests(s) /\ DownRests(s)
    BY <1>25 DEF PumpAborts, PumpOnly, RequestRests, DownRests, TetherListens, NextDown, Running
  <1>26. CASE UNCHANGED vars
    BY <1>26 DEF vars, RequestRests, DownRests, TetherListens, NextDown
  <1> QED
    BY <1>1, <1>2, <1>3, <1>4, <1>5, <1>6, <1>7, <1>8, <1>9, <1>10, <1>11, <1>12, <1>13,
       <1>14, <1>15, <1>16, <1>17, <1>18, <1>19, <1>20, <1>21, <1>22, <1>23, <1>24, <1>25, <1>26
    DEF Next, HubStep, HubReceives, TetherStep, TetherReceives, EngineStep

\* What is queued and one more.
LEMMA LenSum ==
    ASSUME NEW x \in Seq(Nat), NEW y \in Seq(Nat), NEW n \in Nat
    PROVE  /\ Len(x) + Len(y) + 1 \in Nat
           /\ Len(x) + Len(Append(y, n)) + 1 = (Len(x) + Len(y) + 1) + 1
  OBVIOUS

\* The number of the next frame to the tether is a number.
LEMMA NextDownType == ASSUME Types, NEW s \in Streams PROVE NextDown(s) \in Nat
  <1>1. taken[s] \in Seq(Nat) /\ input[s] \in Seq(Nat)
    BY DEF Types, TetherTypes
  <1>2. Len(taken[s]) + Len(input[s]) + 1 \in Nat
    BY <1>1, LenSum
  <1>3. CASE pump[s] = "none"
    BY <1>3 DEF NextDown
  <1>4. CASE pump[s] # "none"
    BY <1>2, <1>4 DEF NextDown
  <1> QED
    BY <1>3, <1>4

\* A request that is left alone stays a run, whatever happens to the queue.
LEMMA RestsRun ==
    ASSUME Types, NEW s \in Streams, RequestRuns(s), RequestRests(s), DownRests(s)
    PROVE  RequestRuns(s)'
  <1>1. NextDown(s) \in Nat /\ sent[s] \in Nat /\ down \in Seq(Messages)
    BY NextDownType, CapacityAssumption DEF Types, HubTypes, QueueTypes
  <1>2. TetherListens(s)' => Runs(RequestKinds, s, down', NextDown(s))
    <2>1. ASSUME TetherListens(s)' PROVE Runs(RequestKinds, s, down, NextDown(s))
      BY <2>1 DEF RequestRuns, RequestRests
    <2> QED
      BY <1>1, <2>1, AppendOther, TailOther, PrefixRuns DEF DownRests
  <1>3. hub' # "ended" /\ Has(RequestKinds, s, down, sent[s]) => Has(RequestKinds, s, down', sent[s])
    BY <1>1, AppendOther, TailOther DEF DownRests
  <1> QED
    BY <1>2, <1>3 DEF RequestRuns, RequestRests

\* While an upload sends, none of its chunks is numbered above those it sent.
LEMMA PlacesSent ==
    ASSUME Types, RequestInv, NEW s \in Streams, upload[s] = "sending"
    PROVE  \A p \in 1..Len(down) : Place(RequestKinds, s, down[p]) <= sent[s]
  <1> SUFFICES ASSUME NEW p \in 1..Len(down), down[p].type \in RequestKinds, down[p].of = s
               PROVE  down[p].n <= sent[s]
    BY CapacityAssumption DEF Place, Types, HubTypes
  <1>1. sent[s] \in Nat
    BY CapacityAssumption DEF Types, HubTypes
  <1> QED
    BY <1>1 DEF RequestInv, RequestFrame, RequestKinds

\* The OPEN of a stream is the first frame of its request.
LEMMA OpenRuns ==
    ASSUME Types, Blank, RequestInv, NEW s \in Streams, Open(s)
    PROVE  RequestRuns(s)'
  <1> DEFINE frame == Frame("Open", s, 0)
  <1>1. down \in Seq(Messages) /\ frame \in Messages /\ Place(RequestKinds, s, frame) = 0
    BY FrameTypes DEF Types, QueueTypes, Place, RequestKinds
  <1>2. stream[s] = "new" /\ pump[s] = "none" /\ sent[s] = 0 /\ NextDown(s) = 0 /\ TetherListens(s)
    BY DEF Open, Blank, NextDown, TetherListens
  <1>3. \A p \in 1..Len(down) : Place(RequestKinds, s, down[p]) < 0
    BY <1>2 DEF RequestInv, RequestFrame, Place
  <1>4. Runs(RequestKinds, s, down, 0)
    BY <1>2 DEF RequestInv, RequestRuns
  <1>5. /\ Runs(RequestKinds, s, Append(down, frame), 0)
        /\ Has(RequestKinds, s, Append(down, frame), 0)
    <2> HIDE DEF frame
    <2> RequestKinds \cap {"Ping", "Pong"} = {}
      BY DEF RequestKinds
    <2> QED
      BY <1>1, <1>3, <1>4, AppendNext
  <1>6. /\ down' = Append(down, frame) /\ sent'[s] = sent[s] /\ pump' = pump
        /\ NextDown(s)' = NextDown(s)
    BY DEF Open, tetherVars, engineVars, NextDown
  <1> QED
    BY <1>2, <1>5, <1>6 DEF RequestRuns

\* What an upload sends comes right after what it sent before.
LEMMA UploadRuns ==
    ASSUME Types, RequestInv, NEW s \in Streams, UploadSends(s)
    PROVE  RequestRuns(s)'
  <1>1. /\ NextDown(s)' = NextDown(s) /\ TetherListens(s)' = TetherListens(s)
        /\ hub # "ended" /\ upload[s] = "sending"
    BY DEF UploadSends, tetherVars, engineVars, NextDown, TetherListens
  <1>2. NextDown(s) \in Nat /\ sent[s] \in Nat /\ down \in Seq(Messages)
    BY NextDownType, CapacityAssumption DEF Types, HubTypes, QueueTypes
  <1>3. ASSUME NEW frame \in Messages, Place(RequestKinds, s, frame) = sent[s] + 1, TetherListens(s)
        PROVE  /\ Runs(RequestKinds, s, Append(down, frame), NextDown(s))
               /\ Has(RequestKinds, s, Append(down, frame), sent[s] + 1)
    <2>1. /\ Runs(RequestKinds, s, down, NextDown(s))
          /\ NextDown(s) = sent[s] + 1 \/ Has(RequestKinds, s, down, sent[s])
      BY <1>1, <1>3 DEF RequestInv, RequestRuns
    <2>2. NextDown(s) <= sent[s] + 1
      BY <1>2, <2>1 DEF Runs, Has
    <2>3. \A p \in 1..Len(down) : Place(RequestKinds, s, down[p]) < sent[s] + 1
      <3> SUFFICES ASSUME NEW p \in 1..Len(down)
                   PROVE  Place(RequestKinds, s, down[p]) < sent[s] + 1
        OBVIOUS
      <3>1. down[p] \in Messages
        BY <1>2
      <3>2. RequestKinds \cap {"Ping", "Pong"} = {}
        BY DEF RequestKinds
      <3>4. Place(RequestKinds, s, down[p]) \in Int
        BY <3>1, <3>2, PlaceType
      <3>3. Place(RequestKinds, s, down[p]) <= sent[s]
        BY <1>1, PlacesSent
      <3> QED
        BY <1>2, <3>3, <3>4
    <2> RequestKinds \cap {"Ping", "Pong"} = {}
      BY DEF RequestKinds
    <2>4. (sent[s] + 1) - 1 = sent[s] /\ sent[s] + 1 \in Nat
      BY <1>2
    <2> QED
      BY <1>2, <1>3, <2>1, <2>2, <2>3, <2>4, AppendNext
  <1>4. CASE down' = Append(down, Frame("Data", s, sent[s] + 1)) /\ sent'[s] = sent[s] + 1
    <2>1. /\ Frame("Data", s, sent[s] + 1) \in Messages
          /\ Place(RequestKinds, s, Frame("Data", s, sent[s] + 1)) = sent[s] + 1
      BY <1>2, FrameTypes DEF Place, RequestKinds
    <2> QED
      BY <1>1, <1>3, <1>4, <2>1 DEF RequestRuns
  <1>5. CASE down' = Append(down, Frame("HalfEnd", s, sent[s] + 1)) /\ upload'[s] = "finished"
    <2>1. /\ Frame("HalfEnd", s, sent[s] + 1) \in Messages
          /\ Place(RequestKinds, s, Frame("HalfEnd", s, sent[s] + 1)) = sent[s] + 1
      BY <1>2, FrameTypes DEF Place, RequestKinds
    <2> QED
      BY <1>1, <1>3, <1>5, <2>1 DEF RequestRuns
  <1> QED
    BY <1>4, <1>5 DEF UploadSends, Types, HubTypes

\* The frame of a request that arrives is the next one, if the tether listens.
LEMMA NextArrives ==
    ASSUME Types, RequestInv, NEW s \in Streams, TetherListens(s),
           down # <<>>, Head(down).type \in RequestKinds, Head(down).of = s
    PROVE  /\ Head(down).n = NextDown(s)
           /\ Runs(RequestKinds, s, Tail(down), NextDown(s) + 1)
           /\ hub # "ended" /\ upload[s] = "sending" =>
                NextDown(s) = sent[s] \/ NextDown(s) = sent[s] + 1 \/ Has(RequestKinds, s, Tail(down), sent[s])
  <1>1. NextDown(s) \in Nat /\ sent[s] \in Nat /\ down \in Seq(Messages)
    BY NextDownType, CapacityAssumption DEF Types, HubTypes, QueueTypes
  <1>2. Place(RequestKinds, s, Head(down)) = Head(down).n /\ Head(down).n \in Nat
    BY <1>1, HeadType DEF Place, RequestKinds
  <1>3. Runs(RequestKinds, s, down, NextDown(s))
    BY DEF RequestInv, RequestRuns
  <1> RequestKinds \cap {"Ping", "Pong"} = {}
    BY DEF RequestKinds
  <1>4. /\ Head(down).n = NextDown(s) /\ Runs(RequestKinds, s, Tail(down), NextDown(s) + 1)
        /\ \A n \in Nat : Has(RequestKinds, s, down, n) => n = NextDown(s) \/ Has(RequestKinds, s, Tail(down), n)
    BY <1>1, <1>2, <1>3, TailNext
  <1> QED
    BY <1>1, <1>4 DEF RequestInv, RequestRuns

\* What arrives at the head obeys what is known of every frame.
LEMMA HeadFrame ==
    ASSUME Types, RequestInv, down # <<>>
    PROVE  RequestFrame(Head(down))
  <1>1. Head(down) = down[1] /\ 1 \in 1..Len(down)
    BY DEF Types, QueueTypes
  <1> QED
    BY <1>1 DEF RequestInv

\* The tether takes the OPEN, and listens from the first chunk on, or refuses it.
LEMMA OpenArrives ==
    ASSUME Types, Blank, RequestInv, NEW s \in Streams, TetherOpen, Head(down).of = s
    PROVE  RequestRuns(s)'
  <1>1. /\ down # <<>> /\ Head(down).type = "Open" /\ down' = Tail(down)
        /\ pump[s] = "none" /\ TetherListens(s) /\ NextDown(s) = 0
        /\ s \notin table /\ taken[s] = <<>> /\ input[s] = <<>>
    BY OpensOnce DEF TetherOpen, Comes, TetherListens, NextDown, Blank
  <1>2. /\ Runs(RequestKinds, s, Tail(down), 1)
        /\ hub # "ended" /\ upload[s] = "sending" => 1 = sent[s] + 1 \/ Has(RequestKinds, s, Tail(down), sent[s])
    <2>1. sent[s] \in Nat
      BY CapacityAssumption DEF Types, HubTypes
    <2> QED
      BY <1>1, <2>1, NextArrives DEF RequestKinds
  <1>3. UNCHANGED <<hub, upload, sent, taken, input>> /\ pump'[s] # "none"
    BY DEF TetherOpen, hubVars, Types, TetherTypes
  <1>4. NextDown(s)' = 1
    <2>1. NextDown(s)' = Len(taken'[s]) + Len(input'[s]) + 1
      BY <1>3 DEF NextDown
    <2>2. Len(taken'[s]) = 0 /\ Len(input'[s]) = 0
      BY <1>1, <1>3
    <2> QED
      BY <2>1, <2>2
  <1> QED
    BY <1>1, <1>2, <1>3, <1>4 DEF RequestRuns

\* A chunk that is not the next one is not queued for the engine.
LEMMA DataArrives ==
    ASSUME Types, Blank, RequestInv, NEW s \in Streams, TetherData, Head(down).of = s
    PROVE  /\ RequestRuns(s)'
           /\ input'[s] = input[s]
              \/ /\ pump[s] # "none" /\ Head(down).n = NextDown(s)
                 /\ input'[s] = Append(input[s], IF Head(down).type = "Data" THEN Head(down).n ELSE HalfEnd)
  <1>1. /\ down # <<>> /\ Head(down).type \in {"Data", "HalfEnd"} /\ down' = Tail(down)
        /\ UNCHANGED <<hub, upload, sent, taken, pump, accepted>>
        /\ Enqueue(s, IF Head(down).type = "Data" THEN Head(down).n ELSE HalfEnd)
    BY DEF TetherData, Comes, hubVars, engineVars
  <1>2. Head(down).n \in Nat \ {0}
    <2>1. sent[s] \in Nat
      BY CapacityAssumption DEF Types, HubTypes
    <2>2. /\ Head(down).type = "Data" => Head(down).n \in 1..sent[s]
          /\ Head(down).type = "HalfEnd" => Head(down).n = sent[s] + 1
      BY <1>1, HeadFrame DEF RequestFrame, RequestKinds
    <2> QED
      BY <1>1, <2>1, <2>2
  <1>3. TetherListens(s) => pump[s] # "none" /\ Head(down).n = NextDown(s)
    BY <1>1, <1>2, NextArrives DEF RequestKinds, NextDown
  <1>4. ASSUME TetherListens(s)'
        PROVE  /\ TetherListens(s)
               /\ input'[s] = Append(input[s], IF Head(down).type = "Data" THEN Head(down).n ELSE HalfEnd)
    <2>1. pump[s] = "none" => TetherListens(s)
      BY DEF TetherListens
    <2>2. s \in table' /\ accepted[s] = "open"
      BY <1>1, <1>3, <1>4, <2>1 DEF TetherListens
    <2> QED
      BY <1>1, <2>2 DEF TetherListens, Enqueue, TetherTells, TetherEnds, Types, TetherTypes
  <1>5. ASSUME TetherListens(s)' PROVE NextDown(s)' = NextDown(s) + 1
    <2> DEFINE chunk == IF Head(down).type = "Data" THEN Head(down).n ELSE HalfEnd
    <2>1. taken[s] \in Seq(Nat) /\ input[s] \in Seq(Nat) /\ chunk \in Nat
      BY <1>2, CapacityAssumption DEF Types, TetherTypes, HalfEnd
    <2>4. input'[s] = Append(input[s], chunk)
      BY <1>4, <1>5
    <2>2. NextDown(s) = Len(taken[s]) + Len(input[s]) + 1
      BY <1>3, <1>4, <1>5 DEF NextDown
    <2>3. NextDown(s)' = Len(taken[s]) + Len(input'[s]) + 1
      BY <1>1, <1>3, <1>4, <1>5 DEF NextDown
    <2> HIDE DEF chunk
    <2>5. Len(taken[s]) + Len(Append(input[s], chunk)) + 1 = (Len(taken[s]) + Len(input[s]) + 1) + 1
      BY <2>1, LenSum
    <2> QED
      BY <2>2, <2>3, <2>4, <2>5
  <1>6. RequestRuns(s)'
    <2>1. NextDown(s) \in Nat /\ sent[s] \in Nat /\ (NextDown(s) = sent[s] + 1 => Head(down).n = sent[s] + 1 \/ ~TetherListens(s))
      BY <1>3, NextDownType, CapacityAssumption DEF Types, HubTypes
    <2>2. upload[s] = "sending" => Head(down).n <= sent[s]
      BY <1>1, <2>1, HeadFrame DEF RequestFrame, RequestKinds
    <2> QED
      BY <1>1, <1>4, <1>5, <2>1, <2>2, NextArrives DEF RequestRuns, RequestKinds
  <1>7. \/ input'[s] = input[s]
        \/ /\ s \in table /\ accepted[s] = "open"
           /\ input'[s] = Append(input[s], IF Head(down).type = "Data" THEN Head(down).n ELSE HalfEnd)
    BY <1>1 DEF Enqueue, Types, TetherTypes
  <1> QED
    BY <1>3, <1>6, <1>7 DEF TetherListens

\* Every step keeps the frames of a request a run.
LEMMA RunsStep ==
    ASSUME Types, Blank, RequestInv, [Next]_vars, NEW s \in Streams
    PROVE  RequestRuns(s)'
  <1>1. CASE RequestMoves(s)
    BY <1>1, OpenRuns, UploadRuns, OpenArrives, DataArrives DEF RequestMoves
  <1>2. CASE ~RequestMoves(s)
    BY <1>2, RequestAction, RestsRun DEF RequestInv
  <1> QED
    BY <1>1, <1>2

\* What is known of the frames of a request stays true of them.
LEMMA FrameKept ==
    ASSUME Types, NEW frame \in Messages, NEW s \in Streams, frame.of = s, RequestFrame(frame),
           stream'[s] = "new" => stream[s] = "new",
           frame.type = "Open" => (pump[s] = "none" => pump'[s] = "none"),
           sent'[s] = sent[s] \/ (sent'[s] = sent[s] + 1 /\ upload[s] = "sending"),
           upload[s] = "finished" => upload'[s] = "finished"
    PROVE  RequestFrame(frame)'
  <1>1. sent[s] \in Nat
    BY CapacityAssumption DEF Types, HubTypes
  <1> QED
    BY <1>1 DEF RequestFrame, RequestKinds

\* A frame on its way down stays true of its sender, and so is one that joins it.
LEMMA FramesStep ==
    ASSUME Types, Blank, RequestInv, [Next]_vars,
           NEW frame \in Messages, NEW q \in 1..Len(down'), frame = down'[q]
    PROVE  RequestFrame(frame)'
  <1> DEFINE s   == frame.of
             Old == \E p \in 1..Len(down) : frame = down[p]
  <1> SUFFICES ASSUME frame.type \in RequestKinds
               PROVE  RequestFrame(frame)'
    BY DEF RequestFrame
  <1>1. s \in Streams
    BY DEF Messages, RequestKinds
  <1>2. Old => RequestFrame(frame)
    BY DEF RequestInv
  <1>3. down \in Seq(Messages)
    BY DEF Types, QueueTypes
  <1>4. Place(RequestKinds, s, frame) = frame.n /\ frame.n \in Nat
    BY <1>1 DEF Place, Messages, RequestKinds
  <1>5. CASE ~RequestMoves(s)
    <2>1. RequestRests(s) /\ DownRests(s)
      BY <1>1, <1>5, RequestAction
    <2>2. Old
      <3> HIDE DEF s
      <3>1. ASSUME NEW other \in Messages, Place(RequestKinds, s, other) = -1, down' = Append(down, other)
            PROVE  Old
        <4>1. frame = other \/ Old
          BY <1>3, <3>1, Queue
        <4>2. frame # other
          BY <1>4, <3>1
        <4> QED
          BY <4>1, <4>2
      <3>2. CASE down # <<>> /\ down' = Tail(down)
        BY <1>3, <3>2, Queue
      <3>3. ASSUME NEW k \in 0..Len(down), down' = SubSeq(down, 1, k)
            PROVE  Old
        BY <1>3, <3>3, Queue
      <3>4. CASE UNCHANGED down
        BY <3>4
      <3> QED
        BY <2>1, <3>1, <3>2, <3>3, <3>4 DEF DownRests
    <2> QED
      BY <1>1, <1>2, <2>1, <2>2, FrameKept DEF RequestRests
  <1>6. CASE Open(s)
    <2>1. Old \/ frame = Frame("Open", s, 0)
      <3>1. down' = Append(down, Frame("Open", s, 0)) /\ Frame("Open", s, 0) \in Messages
        BY <1>1, <1>6, FrameTypes DEF Open
      <3> QED
        BY <1>3, <3>1, Queue
    <2>2. ~Old
      BY <1>2, <1>6 DEF Open, RequestFrame
    <2>3. frame.type = "Open" /\ frame.n = 0
      BY <2>1, <2>2 DEF Frame
    <2>4. stream'[s] = "open" /\ pump'[s] = "none"
      BY <1>1, <1>6 DEF Open, Blank, Types, HubTypes, tetherVars, engineVars
    <2> QED
      BY <2>3, <2>4 DEF RequestFrame
  <1>7. CASE UploadSends(s)
    <2>1. /\ stream' = stream /\ pump' = pump /\ upload[s] = "sending"
          /\ sent'[s] = sent[s] \/ sent'[s] = sent[s] + 1
      BY <1>1, <1>7 DEF UploadSends, tetherVars, engineVars, Types, HubTypes
    <2>2. CASE Old
      BY <1>1, <1>2, <2>1, <2>2, FrameKept
    <2>3. CASE ~Old
      <3>1. sent[s] \in Nat
        BY <1>1, CapacityAssumption DEF Types, HubTypes
      <3>2. \/ frame = Frame("Data", s, sent[s] + 1) /\ sent'[s] = sent[s] + 1
            \/ frame = Frame("HalfEnd", s, sent[s] + 1) /\ sent'[s] = sent[s] /\ upload'[s] = "finished"
        <4>1. /\ Frame("Data", s, sent[s] + 1) \in Messages
              /\ Frame("HalfEnd", s, sent[s] + 1) \in Messages
          BY <1>1, <3>1, FrameTypes
        <4>2. \/ down' = Append(down, Frame("Data", s, sent[s] + 1)) /\ sent'[s] = sent[s] + 1
              \/ /\ down' = Append(down, Frame("HalfEnd", s, sent[s] + 1))
                 /\ sent'[s] = sent[s] /\ upload'[s] = "finished"
          BY <1>1, <1>7 DEF UploadSends, Types, HubTypes
        <4>3. ASSUME NEW other \in Messages, down' = Append(down, other)
              PROVE  frame = other
          BY <1>3, <2>3, <4>3, Queue
        <4> QED
          BY <4>1, <4>2, <4>3
      <3>3. stream[s] # "new"
        BY <1>1, <2>1 DEF Blank
      <3> QED
        BY <1>1, <2>1, <3>1, <3>2, <3>3 DEF RequestFrame, Frame
    <2> QED
      BY <2>2, <2>3
  <1>8. CASE Head(down).of = s /\ TetherOpen
    <2>1. /\ down # <<>> /\ Head(down).type = "Open" /\ down' = Tail(down) /\ pump[s] = "none"
          /\ UNCHANGED <<stream, sent, upload>>
      BY <1>8, OpensOnce DEF TetherOpen, Comes, hubVars
    <2>2. Old
      BY <1>3, <2>1, Queue
    <2>3. frame.type # "Open"
      <3>1. TetherListens(s) /\ NextDown(s) = 0
        BY <2>1 DEF TetherListens, NextDown
      <3>2. Runs(RequestKinds, s, Tail(down), 1)
        BY <1>1, <1>8, <2>1, <3>1, NextArrives DEF RequestKinds
      <3>3. frame.n >= 1
        BY <1>4, <2>1, <3>2 DEF Runs
      <3> QED
        BY <1>2, <1>4, <2>2, <3>3 DEF RequestFrame
    <2> QED
      BY <1>1, <1>2, <2>1, <2>2, <2>3, FrameKept
  <1>9. CASE Head(down).of = s /\ TetherData
    <2>1. /\ down # <<>> /\ down' = Tail(down) /\ UNCHANGED <<stream, sent, upload, pump>>
      BY <1>9 DEF TetherData, Comes, hubVars, engineVars
    <2>2. Old
      BY <1>3, <2>1, Queue
    <2> QED
      BY <1>1, <1>2, <2>1, <2>2, FrameKept
  <1> QED
    BY <1>5, <1>6, <1>7, <1>8, <1>9 DEF RequestMoves

\* Only an upload that sends adds to what was sent.
LEMMA SentMoves ==
    ASSUME Types, Blank, [Next]_vars, NEW s \in Streams
    PROVE  \/ sent'[s] = sent[s] /\ (upload[s] = "finished" => upload'[s] = "finished")
           \/ sent'[s] = sent[s] + 1 /\ upload[s] = "sending"
  <1> DEFINE Moves == \/ sent'[s] = sent[s] /\ (upload[s] = "finished" => upload'[s] = "finished")
                      \/ sent'[s] = sent[s] + 1 /\ upload[s] = "sending"
  <1> HubTypes
    BY DEF Types
  <1> USE DEF HubTypes, hubVars
  <1>1. ASSUME NEW i \in Streams, Open(i) PROVE Moves
    BY <1>1 DEF Open, Blank
  <1>2. ASSUME NEW i \in Streams, UploadSends(i) PROVE Moves
    BY <1>2 DEF UploadSends
  <1>3. ASSUME NEW i \in Streams, UploadFails(i) PROVE Moves
    BY <1>3 DEF UploadFails, HubDrops
  <1>4. ASSUME NEW i \in Streams, UploadStops(i) PROVE Moves
    BY <1>4 DEF UploadStops
  <1>5. ASSUME NEW i \in Streams, CallerLeaves(i) PROVE Moves
    BY <1>5 DEF CallerLeaves, HubDrops
  <1>6. CASE HubHead
    BY <1>6 DEF HubHead, Arrives
  <1>7. CASE HubData
    BY <1>7 DEF HubData, Arrives
  <1>8. CASE HubRefuses
    BY <1>8 DEF HubRefuses, Arrives
  <1>9. CASE HubEnd
    BY <1>9 DEF HubEnd, Arrives
  <1>10. CASE HubPong
    BY <1>10 DEF HubPong, Arrives
  <1>11. CASE HubPings
    BY <1>11 DEF HubPings
  <1>12. CASE HubGivesUp \/ HubSeesClose
    BY <1>12 DEF HubGivesUp, HubSeesClose
  <1>13. CASE TetherOpen
    BY <1>13 DEF TetherOpen, Comes, TetherTells
  <1>14. CASE TetherData
    BY <1>14 DEF TetherData, Comes, TetherTells, Enqueue
  <1>15. CASE TetherEnd
    BY <1>15 DEF TetherEnd, Comes
  <1>16. CASE TetherPing
    BY <1>16 DEF TetherPing, Comes, TetherTells
  <1>17. ASSUME NEW i \in Streams, TetherCompletion(i) PROVE Moves
    BY <1>17 DEF TetherCompletion
  <1>18. CASE TetherGivesUp \/ TetherSeesClose
    BY <1>18 DEF TetherGivesUp, TetherSeesClose
  <1>19. ASSUME NEW i \in Streams, EngineReads(i) PROVE Moves
    BY <1>19 DEF EngineReads, Closes, PumpOnly
  <1>20. ASSUME NEW i \in Streams, EngineSeesCut(i) \/ EngineStopsReading(i) PROVE Moves
    BY <1>20 DEF EngineSeesCut, EngineStopsReading, Closes, PumpOnly
  <1>21. ASSUME NEW i \in Streams, EngineAnswers(i) PROVE Moves
    BY <1>21 DEF EngineAnswers, Pump, PumpOnly, Queues
  <1>22. ASSUME NEW i \in Streams, EngineSends(i) PROVE Moves
    BY <1>22 DEF EngineSends, Pump, PumpOnly, Queues
  <1>23. ASSUME NEW i \in Streams, EngineEnds(i) PROVE Moves
    BY <1>23 DEF EngineEnds, Pump, PumpOnly
  <1>24. ASSUME NEW i \in Streams, PumpEnds(i) PROVE Moves
    BY <1>24 DEF PumpEnds, Pump, PumpOnly, Queues
  <1>25. ASSUME NEW i \in Streams, PumpAborts(i) PROVE Moves
    BY <1>25 DEF PumpAborts, PumpOnly
  <1>26. CASE UNCHANGED vars
    BY <1>26 DEF vars
  <1> QED
    BY <1>1, <1>2, <1>3, <1>4, <1>5, <1>6, <1>7, <1>8, <1>9, <1>10, <1>11, <1>12, <1>13,
       <1>14, <1>15, <1>16, <1>17, <1>18, <1>19, <1>20, <1>21, <1>22, <1>23, <1>24, <1>25, <1>26
    DEF Next, HubStep, HubReceives, TetherStep, TetherReceives, EngineStep

\* What a step does to the queue of a pump and to what its engine took.
InputMoves(s) ==
    \/ taken'[s] = taken[s] /\ input'[s] = input[s]
    \/ input'[s] = <<>>
    \/ /\ input[s] # <<>> /\ Head(input[s]) # HalfEnd
       /\ taken'[s] = Append(taken[s], Head(input[s])) /\ input'[s] = Tail(input[s])

\* Only a frame of its own stream adds to what is queued for an engine.
LEMMA InputAction ==
    ASSUME Types, Blank, [Next]_vars, NEW s \in Streams, ~(TetherData /\ Head(down).of = s)
    PROVE  InputMoves(s)
  <1> TetherTypes
    BY DEF Types
  <1> USE DEF InputMoves, TetherTypes, hubVars, tetherVars, engineVars
  <1>1. ASSUME NEW i \in Streams, Open(i) PROVE InputMoves(s)
    BY <1>1 DEF Open
  <1>2. ASSUME NEW i \in Streams, UploadSends(i) PROVE InputMoves(s)
    BY <1>2 DEF UploadSends
  <1>3. ASSUME NEW i \in Streams, UploadFails(i) PROVE InputMoves(s)
    BY <1>3 DEF UploadFails, HubDrops
  <1>4. ASSUME NEW i \in Streams, UploadStops(i) PROVE InputMoves(s)
    BY <1>4 DEF UploadStops
  <1>5. ASSUME NEW i \in Streams, CallerLeaves(i) PROVE InputMoves(s)
    BY <1>5 DEF CallerLeaves, HubDrops
  <1>6. CASE HubHead
    BY <1>6 DEF HubHead, Arrives
  <1>7. CASE HubData
    BY <1>7 DEF HubData, Arrives
  <1>8. CASE HubRefuses
    BY <1>8 DEF HubRefuses, Arrives
  <1>9. CASE HubEnd
    BY <1>9 DEF HubEnd, Arrives
  <1>10. CASE HubPong
    BY <1>10 DEF HubPong, Arrives
  <1>11. CASE HubPings
    BY <1>11 DEF HubPings
  <1>12. CASE HubGivesUp \/ HubSeesClose
    BY <1>12 DEF HubGivesUp, HubSeesClose
  <1>13. CASE TetherOpen
    BY <1>13 DEF TetherOpen, Comes, TetherTells
  <1>14. CASE TetherData
    <2>1. down # <<>> /\ Head(down).of # s /\ UNCHANGED taken
      BY <1>14 DEF TetherData, Comes, engineVars
    <2> QED
      BY <1>14, <2>1 DEF TetherData, Enqueue
  <1>15. CASE TetherEnd
    BY <1>15 DEF TetherEnd, Comes
  <1>16. CASE TetherPing
    BY <1>16 DEF TetherPing, Comes, TetherTells
  <1>17. ASSUME NEW i \in Streams, TetherCompletion(i) PROVE InputMoves(s)
    BY <1>17 DEF TetherCompletion
  <1>18. CASE TetherGivesUp \/ TetherSeesClose
    BY <1>18 DEF TetherGivesUp, TetherSeesClose
  <1>19. ASSUME NEW i \in Streams, EngineReads(i) PROVE InputMoves(s)
    BY <1>19 DEF EngineReads, Closes, PumpOnly
  <1>20. ASSUME NEW i \in Streams, EngineSeesCut(i) \/ EngineStopsReading(i) PROVE InputMoves(s)
    BY <1>20 DEF EngineSeesCut, EngineStopsReading, Closes, PumpOnly
  <1>21. ASSUME NEW i \in Streams, EngineAnswers(i) PROVE InputMoves(s)
    BY <1>21 DEF EngineAnswers, Pump, PumpOnly, Queues
  <1>22. ASSUME NEW i \in Streams, EngineSends(i) PROVE InputMoves(s)
    BY <1>22 DEF EngineSends, Pump, PumpOnly, Queues
  <1>23. ASSUME NEW i \in Streams, EngineEnds(i) PROVE InputMoves(s)
    BY <1>23 DEF EngineEnds, Pump, PumpOnly
  <1>24. ASSUME NEW i \in Streams, PumpEnds(i) PROVE InputMoves(s)
    BY <1>24 DEF PumpEnds, Pump, PumpOnly, Queues
  <1>25. ASSUME NEW i \in Streams, PumpAborts(i) PROVE InputMoves(s)
    BY <1>25 DEF PumpAborts, PumpOnly
  <1>26. CASE UNCHANGED vars
    BY <1>26 DEF vars
  <1> QED
    BY <1>1, <1>2, <1>3, <1>4, <1>5, <1>6, <1>7, <1>8, <1>9, <1>10, <1>11, <1>12, <1>13,
       <1>14, <1>15, <1>16, <1>17, <1>18, <1>19, <1>20, <1>21, <1>22, <1>23, <1>24, <1>25, <1>26
    DEF Next, HubStep, HubReceives, TetherStep, TetherReceives, EngineStep

\* What is queued for an engine stays the continuation of what it took.
LEMMA InputStep ==
    ASSUME Types, Blank, RequestInv, [Next]_vars, NEW s \in Streams
    PROVE  InputFollows(s)'
  <1>1. /\ sent[s] \in 0..RequestChunks /\ RequestChunks \in Nat /\ InputFollows(s)
        /\ taken[s] \in Seq(Nat) /\ input[s] \in Seq(Nat)
    BY CapacityAssumption DEF Types, HubTypes, TetherTypes, RequestInv
  <1>2. \/ sent'[s] = sent[s] /\ (upload[s] = "finished" => upload'[s] = "finished")
        \/ sent'[s] = sent[s] + 1 /\ upload[s] = "sending"
    BY SentMoves
  <1>5. PICK t \in Nat, m \in Nat, u \in Nat : t = Len(taken[s]) /\ m = Len(input[s]) /\ u = sent[s]
    <2>1. Len(taken[s]) \in Nat /\ Len(input[s]) \in Nat /\ sent[s] \in Nat
      BY <1>1
    <2> QED
      BY <2>1
  <1>6. \A k \in 1..m :
           \/ input[s][k] = t + k /\ t + k <= u
           \/ input[s][k] = HalfEnd /\ upload[s] = "finished" /\ k = m /\ t + k = u + 1
    BY <1>1, <1>5 DEF InputFollows
  <1>3. CASE TetherData /\ Head(down).of = s
    <2> DEFINE chunk == IF Head(down).type = "Data" THEN Head(down).n ELSE HalfEnd
    <2>1. down # <<>> /\ Head(down).type \in {"Data", "HalfEnd"} /\ UNCHANGED <<sent, upload, taken>>
      BY <1>3 DEF TetherData, Comes, hubVars, engineVars
    <2>2. CASE input'[s] = input[s]
      BY <1>1, <2>1, <2>2 DEF InputFollows
    <2>3. CASE /\ pump[s] # "none" /\ Head(down).n = NextDown(s)
               /\ input'[s] = Append(input[s], chunk)
      <3>1. Head(down).n = t + (m + 1)
        <4>1. Head(down).n = Len(taken[s]) + Len(input[s]) + 1
          BY <2>3 DEF NextDown
        <4>2. Head(down).n = t + m + 1
          BY <1>5, <4>1, Zenon
        <4> QED
          BY <4>2
      <3>2. \/ chunk = t + (m + 1) /\ t + (m + 1) <= u
            \/ /\ chunk = HalfEnd /\ upload[s] = "finished"
               /\ t + (m + 1) = u + 1
        <4>1. /\ Head(down).type = "Data" => Head(down).n \in 1..u
              /\ Head(down).type = "HalfEnd" => upload[s] = "finished" /\ Head(down).n = u + 1
          BY <1>3, <1>5, <2>1, HeadFrame DEF RequestFrame, RequestKinds
        <4> QED
          BY <2>1, <3>1, <4>1
      <3>3. \A k \in 1..m : input[s][k] = t + k /\ t + k <= u
        <4>1. \A k \in 1..m : t + k # u + 1
          BY <3>2
        <4> QED
          BY <1>6, <4>1
      <3> HIDE DEF chunk
      <3>4. /\ Len(input'[s]) = m + 1 /\ input'[s][m + 1] = chunk
            /\ \A k \in 1..m : input'[s][k] = input[s][k]
        BY <1>1, <1>5, <2>3
      <3>5. \A k \in 1..(m + 1) :
               \/ input'[s][k] = t + k /\ t + k <= u
               \/ input'[s][k] = chunk /\ k = m + 1
        BY <3>3, <3>4
      <3>6. \A k \in 1..(m + 1) :
               \/ input'[s][k] = t + k /\ t + k <= u
               \/ input'[s][k] = HalfEnd /\ upload[s] = "finished" /\ k = m + 1 /\ t + k = u + 1
        BY <3>2, <3>5
      <3> QED
        BY <1>5, <2>1, <3>4, <3>6 DEF InputFollows
    <2> QED
      BY <1>3, <2>2, <2>3, DataArrives
  <1>4. CASE ~(TetherData /\ Head(down).of = s)
    <2>1. CASE input'[s] = <<>>
      BY <2>1 DEF InputFollows
    <2>2. CASE taken'[s] = taken[s] /\ input'[s] = input[s]
      BY <1>1, <1>2, <2>2 DEF InputFollows
    <2>3. CASE /\ input[s] # <<>> /\ taken'[s] = Append(taken[s], Head(input[s]))
               /\ input'[s] = Tail(input[s])
      <3>1. /\ Len(taken'[s]) = t + 1 /\ m >= 1 /\ Len(input'[s]) = m - 1
            /\ \A k \in 1..(m - 1) : input'[s][k] = input[s][k + 1]
        BY <1>1, <1>5, <2>3
      <3>2. \A k \in 1..(m - 1) : k + 1 \in 1..m /\ t + (k + 1) = (t + 1) + k /\ (k + 1 = m => k = m - 1)
        BY <3>1
      <3>3. \A k \in 1..(m - 1) :
               \/ input'[s][k] = (t + 1) + k /\ (t + 1) + k <= sent'[s]
               \/ /\ input'[s][k] = HalfEnd /\ upload'[s] = "finished"
                  /\ k = m - 1 /\ (t + 1) + k = sent'[s] + 1
        <4> SUFFICES ASSUME NEW k \in 1..(m - 1)
                     PROVE  \/ input'[s][k] = (t + 1) + k /\ (t + 1) + k <= sent'[s]
                            \/ /\ input'[s][k] = HalfEnd /\ upload'[s] = "finished"
                               /\ k = m - 1 /\ (t + 1) + k = sent'[s] + 1
          OBVIOUS
        <4>1. input'[s][k] = input[s][k + 1] /\ k + 1 \in 1..m
          BY <3>1, <3>2
        <4>2. CASE input[s][k + 1] = t + (k + 1) /\ t + (k + 1) <= u
          <5>1. sent'[s] \in Nat /\ u <= sent'[s]
            BY <1>2, <1>5
          <5>2. (t + 1) + k = t + (k + 1)
            BY <3>2
          <5> QED
            BY <4>1, <4>2, <5>1, <5>2
        <4>3. CASE input[s][k + 1] = HalfEnd /\ upload[s] = "finished" /\ k + 1 = m /\ t + (k + 1) = u + 1
          BY <1>2, <1>5, <3>2, <4>1, <4>3
        <4> QED
          BY <1>6, <4>1, <4>2, <4>3
      <3> QED
        BY <3>1, <3>3 DEF InputFollows
    <2> QED
      BY <1>4, <2>1, <2>2, <2>3, InputAction DEF InputMoves
  <1> QED
    BY <1>3, <1>4

\* Every step keeps the invariant of the requests.
LEMMA RequestStep ==
    ASSUME Types, Types', Blank, RequestInv, [Next]_vars
    PROVE  RequestInv'
  <1>1. ASSUME NEW q \in 1..Len(down') PROVE RequestFrame(down[q])'
    <2>1. PICK frame : frame = down'[q]
      OBVIOUS
    <2>2. frame \in Messages
      BY <2>1 DEF Types, QueueTypes
    <2>3. RequestFrame(frame)'
      BY <2>1, <2>2, FramesStep
    <2> QED
      BY <2>1, <2>3 DEF RequestFrame
  <1>2. ASSUME NEW s \in Streams PROVE InputFollows(s)' /\ RequestRuns(s)'
    BY InputStep, RunsStep
  <1> QED
    BY <1>1, <1>2 DEF RequestInv

-----------------------------------------------------------------------------
(* The answer is a run *)

\* A step that leaves the answer of stream s alone, or ends the stream at the hub.
AnswerRests(s) ==
    /\ stream'[s] \in {"new", "open"} => stream[s] \in {"new", "open"}
    /\ got'[s] = got[s] /\ answered'[s].chunks = answered[s].chunks
    /\ tether' = "up" => tether = "up"
    /\ pump'[s] \in {"none", "requesting", "answering", "ended"} =>
         pump[s] \in {"none", "requesting", "answering", "ended"}
UpRests(s) ==
    \/ UNCHANGED up
    \/ \E frame \in Messages : Place(AnswerKinds, s, frame) = -1 /\ up' = Append(up, frame)
    \/ up # <<>> /\ Place(AnswerKinds, s, Head(up)) = -1 /\ up' = Tail(up)
    \/ up # <<>> /\ stream'[s] \notin {"new", "open"} /\ up' = Tail(up)
    \/ tether' = "ended" /\ \E k \in 0..Len(up) : up' = SubSeq(up, 1, k)

\* The steps that do not.
AnswerMoves(s) ==
    EngineSends(s) \/ PumpEnds(s) \/ (HubData /\ Head(up).of = s)

\* The frame that arrives at the hub is true of its pump.
LEMMA HeadAnswer ==
    ASSUME Types, Blank, AnswerInv, up # <<>>
    PROVE  /\ AnswerFrame(Head(up))
           /\ Head(up).type \notin {"Ping", "Pong"} => stream[Head(up).of] # "new"
  <1>1. Head(up) = up[1] /\ 1 \in 1..Len(up) /\ up \in Seq(Messages)
    BY DEF Types, QueueTypes
  <1>2. AnswerFrame(Head(up))
    BY <1>1 DEF AnswerInv
  <1> QED
    BY <1>1, <1>2, HeadType DEF AnswerFrame, Blank

\* A frame of another stream, or of no body, has no place in this answer.
LEMMA OtherAnswers ==
    ASSUME Types, NEW s \in Streams, up # <<>>, Head(up).type \notin AnswerKinds \/ Head(up).of # s
    PROVE  Place(AnswerKinds, s, Head(up)) = -1
  BY DEF Place

\* The session loop of the tether adds nothing to an answer.
LEMMA TellRests ==
    ASSUME Types, NEW s \in Streams, NEW frame \in Messages, NEW removed,
           frame.type \notin AnswerKinds, TetherTells(frame, removed)
    PROVE  UpRests(s) /\ (tether' = "up" => tether = "up")
  BY DEF TetherTells, TetherEnds, UpRests, Place

\* Every step but those of AnswerMoves leaves the answer of a stream alone.
LEMMA AnswerAction ==
    ASSUME Types, Blank, RequestInv, AnswerInv, [Next]_vars, NEW s \in Streams, ~AnswerMoves(s)
    PROVE  AnswerRests(s) /\ UpRests(s)
  <1> HubTypes /\ TetherTypes
    BY DEF Types
  <1> USE DEF HubTypes, TetherTypes, hubVars, tetherVars, engineVars
  <1>1. ASSUME NEW i \in Streams, Open(i) PROVE AnswerRests(s) /\ UpRests(s)
    BY <1>1 DEF Open, AnswerRests, UpRests
  <1>2. ASSUME NEW i \in Streams, UploadSends(i) PROVE AnswerRests(s) /\ UpRests(s)
    BY <1>2 DEF UploadSends, AnswerRests, UpRests
  <1>3. ASSUME NEW i \in Streams, UploadFails(i) PROVE AnswerRests(s) /\ UpRests(s)
    BY <1>3 DEF UploadFails, HubDrops, AnswerRests, UpRests
  <1>4. ASSUME NEW i \in Streams, UploadStops(i) PROVE AnswerRests(s) /\ UpRests(s)
    BY <1>4 DEF UploadStops, AnswerRests, UpRests
  <1>5. ASSUME NEW i \in Streams, CallerLeaves(i) PROVE AnswerRests(s) /\ UpRests(s)
    BY <1>5 DEF CallerLeaves, HubDrops, AnswerRests, UpRests
  <1>6. CASE HubHead
    <2>1. UpRests(s)
      BY <1>6, OtherAnswers DEF HubHead, Arrives, UpRests, AnswerKinds
    <2> QED
      BY <1>6, <2>1 DEF HubHead, AnswerRests
  <1>7. CASE HubData
    <2>1. up # <<>> /\ Head(up).of # s /\ Head(up).of \in Streams
      BY <1>7, HeadType DEF HubData, Arrives, AnswerMoves, Types, QueueTypes
    <2>2. UpRests(s)
      BY <1>7, <2>1, OtherAnswers DEF HubData, Arrives, UpRests
    <2> QED
      BY <1>7, <2>1, <2>2 DEF HubData, AnswerRests
  <1>8. CASE HubRefuses
    <2> DEFINE i == Head(up).of
    <2>1. /\ up # <<>> /\ i \in Streams /\ up' = Tail(up) /\ stream[i] # "new"
          /\ UNCHANGED <<got, answered, tether, pump>>
      BY <1>8, HeadType, HeadAnswer DEF HubRefuses, Arrives, Types, QueueTypes, AnswerFrame
    <2>2. /\ stream'[i] \notin {"new", "open"}
          /\ stream'[s] \in {"new", "open"} => stream[s] \in {"new", "open"}
      <3>1. CASE stream' = [stream EXCEPT ![i] = IF @ = "open" THEN "cut" ELSE @]
        BY <2>1, <3>1
      <3>2. CASE HubEnds
        BY <2>1, <3>2, EndKeepsNew
      <3> QED
        BY <1>8, <3>1, <3>2 DEF HubRefuses
    <2>3. UpRests(s)
      BY <2>1, <2>2, OtherAnswers DEF UpRests
    <2> QED
      BY <2>1, <2>2, <2>3 DEF AnswerRests
  <1>9. CASE HubEnd
    <2> DEFINE i == Head(up).of
    <2>1. /\ up # <<>> /\ i \in Streams /\ up' = Tail(up) /\ stream[i] # "new"
          /\ UNCHANGED <<got, answered, tether, pump>>
      BY <1>9, HeadType, HeadAnswer DEF HubEnd, Arrives, Types, QueueTypes, AnswerFrame
    <2>2. /\ stream'[i] \notin {"new", "open"}
          /\ stream'[s] \in {"new", "open"} => stream[s] \in {"new", "open"}
      BY <1>9, <2>1 DEF HubEnd
    <2>3. UpRests(s)
      BY <2>1, <2>2, OtherAnswers DEF UpRests
    <2> QED
      BY <2>1, <2>2, <2>3 DEF AnswerRests
  <1>10. CASE HubPong
    <2>1. UpRests(s)
      BY <1>10, OtherAnswers DEF HubPong, Arrives, UpRests, AnswerKinds
    <2> QED
      BY <1>10, <2>1 DEF HubPong, AnswerRests
  <1>11. CASE HubPings
    <2>1. stream'[s] \in {"new", "open"} => stream[s] \in {"new", "open"}
      BY <1>11, EndKeepsNew DEF HubPings
    <2> QED
      BY <1>11, <2>1 DEF HubPings, AnswerRests, UpRests
  <1>12. CASE HubGivesUp \/ HubSeesClose
    <2>1. HubEnds
      BY <1>12 DEF HubGivesUp, HubSeesClose
    <2>2. stream'[s] \in {"new", "open"} => stream[s] \in {"new", "open"}
      BY <2>1, EndKeepsNew
    <2> QED
      BY <1>12, <2>2 DEF HubGivesUp, HubSeesClose, AnswerRests, UpRests
  <1>13. CASE TetherOpen
    <2> DEFINE i == Head(down).of
    <2>1. /\ i \in Streams /\ pump[i] = "none" /\ Frame("Fail", i, 0) \in Messages
          /\ Frame("Fail", i, 0).type \notin AnswerKinds
      BY <1>13, OpensOnce, FrameTypes DEF TetherOpen, AnswerKinds
    <2>2. UpRests(s) /\ (tether' = "up" => tether = "up")
      <3>1. CASE TetherTells(Frame("Fail", i, 0), {})
        BY <2>1, <3>1, TellRests
      <3>2. CASE UNCHANGED <<tether, up>>
        BY <3>2 DEF UpRests
      <3> QED
        BY <1>13, <3>1, <3>2 DEF TetherOpen
    <2>3. pump'[s] = pump[s] \/ pump[s] = "none"
      BY <1>13, <2>1 DEF TetherOpen
    <2> QED
      BY <1>13, <2>2, <2>3 DEF TetherOpen, AnswerRests
  <1>14. CASE TetherData
    <2> DEFINE i == Head(down).of
    <2>1. i \in Streams
      BY <1>14, HeadType DEF TetherData, Comes, Types, QueueTypes
    <2>2. UpRests(s) /\ (tether' = "up" => tether = "up")
      <3>1. Frame("Fail", i, 0) \in Messages /\ Frame("Fail", i, 0).type \notin AnswerKinds
        <4> HIDE DEF i
        <4>1. Frame("Fail", i, 0) \in Messages /\ Frame("Fail", i, 0).type = "Fail"
          BY <2>1, FrameTypes
        <4> QED
          BY <4>1 DEF AnswerKinds
      <3>2. CASE TetherTells(Frame("Fail", i, 0), {i})
        BY <3>1, <3>2, TellRests
      <3>3. CASE UNCHANGED <<tether, up>>
        BY <3>3 DEF UpRests
      <3> QED
        BY <1>14, <3>2, <3>3 DEF TetherData, Enqueue
    <2> QED
      BY <1>14, <2>2 DEF TetherData, AnswerRests
  <1>15. CASE TetherEnd
    BY <1>15 DEF TetherEnd, Comes, AnswerRests, UpRests
  <1>16. CASE TetherPing
    <2>1. Control("Pong") \in Messages /\ Control("Pong").type = "Pong"
      BY ControlTypes
    <2>2. UpRests(s) /\ (tether' = "up" => tether = "up")
      <3>1. TetherTells(Control("Pong"), {})
        BY <1>16 DEF TetherPing
      <3>2. Control("Pong").type \notin AnswerKinds
        BY <2>1 DEF AnswerKinds
      <3> QED
        BY <2>1, <3>1, <3>2, TellRests
    <2> QED
      BY <1>16, <2>2 DEF TetherPing, AnswerRests
  <1>17. ASSUME NEW i \in Streams, TetherCompletion(i) PROVE AnswerRests(s) /\ UpRests(s)
    BY <1>17 DEF TetherCompletion, AnswerRests, UpRests
  <1>18. CASE TetherGivesUp \/ TetherSeesClose
    <2>1. TetherEnds
      BY <1>18 DEF TetherGivesUp, TetherSeesClose
    <2>2. UpRests(s) /\ tether' = "ended"
      BY <2>1 DEF TetherEnds, UpRests
    <2> QED
      BY <1>18, <2>2 DEF TetherGivesUp, TetherSeesClose, AnswerRests
  <1>19. ASSUME NEW i \in Streams, EngineReads(i) PROVE AnswerRests(s) /\ UpRests(s)
    BY <1>19 DEF EngineReads, Closes, PumpOnly, AnswerRests, UpRests
  <1>20. ASSUME NEW i \in Streams, EngineSeesCut(i) \/ EngineStopsReading(i) PROVE AnswerRests(s) /\ UpRests(s)
    BY <1>20 DEF EngineSeesCut, EngineStopsReading, Closes, PumpOnly, AnswerRests, UpRests
  <1>21. ASSUME NEW i \in Streams, EngineAnswers(i) PROVE AnswerRests(s) /\ UpRests(s)
    <2>1. /\ Frame("RespHead", i, 0) \in Messages
          /\ Place(AnswerKinds, s, Frame("RespHead", i, 0)) = -1
      BY FrameTypes DEF Place, AnswerKinds
    <2> QED
      BY <1>21, <2>1 DEF EngineAnswers, Pump, PumpOnly, Queues, AnswerRests, UpRests
  <1>22. ASSUME NEW i \in Streams, EngineSends(i) PROVE AnswerRests(s) /\ UpRests(s)
    <2>1. i # s /\ answered[i].chunks + 1 \in Nat
      BY <1>22 DEF AnswerMoves
    <2>2. /\ Frame("Data", i, answered[i].chunks + 1) \in Messages
          /\ Place(AnswerKinds, s, Frame("Data", i, answered[i].chunks + 1)) = -1
      BY <2>1, FrameTypes DEF Place
    <2> QED
      BY <1>22, <2>1, <2>2 DEF EngineSends, Pump, PumpOnly, Queues, AnswerRests, UpRests
  <1>23. ASSUME NEW i \in Streams, EngineEnds(i) PROVE AnswerRests(s) /\ UpRests(s)
    <2>1. answered'[s].chunks = answered[s].chunks
      <3>1. CASE answered' = [answered EXCEPT ![i] = Body(@.chunks, TRUE)]
        BY <3>1 DEF Body
      <3> QED
        BY <1>23, <3>1 DEF EngineEnds
    <2> QED
      BY <1>23, <2>1 DEF EngineEnds, Pump, PumpOnly, AnswerRests, UpRests
  <1>24. ASSUME NEW i \in Streams, PumpEnds(i) PROVE AnswerRests(s) /\ UpRests(s)
    <2>1. i # s /\ answered[i].chunks + 1 \in Nat
      BY <1>24 DEF AnswerMoves
    <2>2. /\ Frame("End", i, answered[i].chunks + 1) \in Messages
          /\ Place(AnswerKinds, s, Frame("End", i, answered[i].chunks + 1)) = -1
          /\ Frame("Fail", i, 0) \in Messages
          /\ Place(AnswerKinds, s, Frame("Fail", i, 0)) = -1
      BY <2>1, FrameTypes DEF Place
    <2>3. UpRests(s)
      BY <1>24, <2>2 DEF PumpEnds, Queues, UpRests
    <2> QED
      BY <1>24, <2>1, <2>3 DEF PumpEnds, Pump, PumpOnly, AnswerRests
  <1>25. ASSUME NEW i \in Streams, PumpAborts(i) PROVE AnswerRests(s) /\ UpRests(s)
    BY <1>25 DEF PumpAborts, PumpOnly, AnswerRests, UpRests, Running
  <1>26. CASE UNCHANGED vars
    BY <1>26 DEF vars, AnswerRests, UpRests
  <1> QED
    BY <1>1, <1>2, <1>3, <1>4, <1>5, <1>6, <1>7, <1>8, <1>9, <1>10, <1>11, <1>12, <1>13,
       <1>14, <1>15, <1>16, <1>17, <1>18, <1>19, <1>20, <1>21, <1>22, <1>23, <1>24, <1>25, <1>26
    DEF Next, HubStep, HubReceives, TetherStep, TetherReceives, EngineStep

\* An answer that is left alone stays a run.
LEMMA AnswerRestsRun ==
    ASSUME Types, NEW s \in Streams, AnswerRuns(s), AnswerRests(s), UpRests(s)
    PROVE  AnswerRuns(s)'
  <1>1. /\ up \in Seq(Messages) /\ answered[s].chunks \in Nat
        /\ Len(got[s]) \in Nat /\ Len(got[s]) + 1 \in Nat
    BY DEF Types, HubTypes, TetherTypes, QueueTypes
  <1>2. ASSUME stream'[s] \in {"new", "open"}
        PROVE  Runs(AnswerKinds, s, up', Len(got[s]) + 1)
    <2>1. Runs(AnswerKinds, s, up, Len(got[s]) + 1)
      BY <1>2 DEF AnswerRuns, AnswerRests
    <2> QED
      BY <1>1, <1>2, <2>1, AppendOther, TailOther, PrefixRuns DEF UpRests
  <1>3. ASSUME stream'[s] \in {"new", "open"}, tether' = "up",
               Has(AnswerKinds, s, up, answered[s].chunks)
        PROVE  Has(AnswerKinds, s, up', answered[s].chunks)
    BY <1>1, <1>3, AppendOther, TailOther DEF UpRests
  <1> QED
    BY <1>2, <1>3 DEF AnswerRuns, AnswerRests

\* While a pump answers, none of its chunks is numbered above those it sent.
LEMMA PlacesAnswered ==
    ASSUME Types, AnswerInv, NEW s \in Streams, pump[s] # "done"
    PROVE  \A p \in 1..Len(up) : Place(AnswerKinds, s, up[p]) < answered[s].chunks + 1
  <1> SUFFICES ASSUME NEW p \in 1..Len(up)
               PROVE  Place(AnswerKinds, s, up[p]) < answered[s].chunks + 1
    OBVIOUS
  <1>1. answered[s].chunks \in Nat
    BY DEF Types, TetherTypes
  <1>2. CASE up[p].type \in AnswerKinds /\ up[p].of = s
    <2>1. AnswerFrame(up[p])
      BY DEF AnswerInv
    <2> QED
      BY <1>1, <1>2, <2>1 DEF AnswerFrame, AnswerKinds, Place
  <1>3. CASE ~(up[p].type \in AnswerKinds /\ up[p].of = s)
    BY <1>1, <1>3 DEF Place
  <1> QED
    BY <1>2, <1>3

\* The next frame of an answer is queued: a chunk, or its end.
LEMMA AnswerQueues ==
    ASSUME Types, AnswerInv, NEW s \in Streams, NEW frame \in Messages,
           stream[s] \in {"new", "open"}, tether = "up", pump[s] \in {"answering", "ended"},
           Place(AnswerKinds, s, frame) = answered[s].chunks + 1
    PROVE  /\ Runs(AnswerKinds, s, Append(up, frame), Len(got[s]) + 1)
           /\ Has(AnswerKinds, s, Append(up, frame), answered[s].chunks + 1)
  <1> DEFINE low == Len(got[s]) + 1
             n   == answered[s].chunks + 1
  <1>0. up \in Seq(Messages) /\ answered[s].chunks \in Nat /\ Len(got[s]) \in Nat
    BY DEF Types, HubTypes, TetherTypes, QueueTypes
  <1>1. /\ up \in Seq(Messages) /\ answered[s].chunks \in Nat /\ n \in Nat /\ n - 1 = answered[s].chunks
        /\ Len(got[s]) \in Nat /\ low \in Nat
    BY <1>0
  <1>2. /\ Len(got[s]) <= answered[s].chunks
        /\ Runs(AnswerKinds, s, up, low)
        /\ Len(got[s]) = answered[s].chunks \/ Has(AnswerKinds, s, up, answered[s].chunks)
    BY DEF AnswerInv, AnswerRuns
  <1>3. low <= n /\ (low = n \/ Has(AnswerKinds, s, up, n - 1))
    BY <1>1, <1>2
  <1>4. \A p \in 1..Len(up) : Place(AnswerKinds, s, up[p]) < n
    BY PlacesAnswered
  <1> AnswerKinds \cap {"Ping", "Pong"} = {}
    BY DEF AnswerKinds
  <1>5. Place(AnswerKinds, s, frame) = n
    OBVIOUS
  <1> HIDE DEF low, n
  <1>6. Runs(AnswerKinds, s, Append(up, frame), low) /\ Has(AnswerKinds, s, Append(up, frame), n)
    BY <1>1, <1>2, <1>3, <1>4, <1>5, AppendNext
  <1> QED
    BY <1>6 DEF low, n

\* What a pump sends comes right after what it sent before, and so does its END.
LEMMA SendsRun ==
    ASSUME Types, AnswerInv, NEW s \in Streams, EngineSends(s)
    PROVE  AnswerRuns(s)'
  <1> DEFINE frame == Frame("Data", s, answered[s].chunks + 1)
  <1>1. answered[s].chunks \in Nat /\ Len(got[s]) \in Nat
    BY DEF Types, HubTypes, TetherTypes
  <1>2. frame \in Messages /\ Place(AnswerKinds, s, frame) = answered[s].chunks + 1
    BY <1>1, FrameTypes DEF Place, AnswerKinds
  <1>3. /\ stream' = stream /\ got' = got /\ tether = "up" /\ pump[s] = "answering"
        /\ up' = Append(up, frame) /\ answered'[s] = Body(answered[s].chunks + 1, FALSE)
    BY DEF EngineSends, Pump, PumpOnly, Queues, hubVars, Types, TetherTypes
  <1>4. answered'[s].chunks = answered[s].chunks + 1
    BY <1>3 DEF Body
  <1>5. Len(got[s]) <= answered[s].chunks
    BY DEF AnswerInv, AnswerRuns
  <1> HIDE DEF frame
  <1>6. stream[s] \in {"new", "open"} =>
          /\ Runs(AnswerKinds, s, up', Len(got[s]) + 1)
          /\ Has(AnswerKinds, s, up', answered[s].chunks + 1)
    BY <1>2, <1>3, AnswerQueues
  <1>7. Len(got[s]) <= answered[s].chunks + 1
    BY <1>1, <1>5
  <1>8. AnswerRuns(s)' <=>
          /\ Len(got[s]) <= answered[s].chunks + 1
          /\ stream[s] \in {"new", "open"} => Runs(AnswerKinds, s, up', Len(got[s]) + 1)
          /\ stream[s] \in {"new", "open"} /\ tether' = "up"
               /\ pump'[s] \in {"none", "requesting", "answering", "ended"} =>
               \/ Len(got[s]) = answered[s].chunks + 1
               \/ Has(AnswerKinds, s, up', answered[s].chunks + 1)
    BY <1>3, <1>4, Zenon DEF AnswerRuns
  <1> QED
    BY <1>6, <1>7, <1>8

\* The END a pump writes follows the chunks it wrote.
LEMMA EndRun ==
    ASSUME Types, AnswerInv, NEW s \in Streams, PumpEnds(s)
    PROVE  AnswerRuns(s)'
  <1>1. answered[s].chunks \in Nat /\ up \in Seq(Messages) /\ Len(got[s]) + 1 \in Nat
    BY DEF Types, HubTypes, TetherTypes, QueueTypes
  <1>2. /\ stream' = stream /\ got' = got /\ answered' = answered /\ tether = "up" /\ pump'[s] = "done"
    BY DEF PumpEnds, Pump, PumpOnly, hubVars, Types, TetherTypes
  <1>3. CASE pump[s] = "ended" /\ up' = Append(up, Frame("End", s, answered[s].chunks + 1))
    <2>1. /\ Frame("End", s, answered[s].chunks + 1) \in Messages
          /\ Place(AnswerKinds, s, Frame("End", s, answered[s].chunks + 1)) = answered[s].chunks + 1
      BY <1>1, FrameTypes DEF Place, AnswerKinds
    <2>2. stream[s] \in {"new", "open"} => Runs(AnswerKinds, s, up', Len(got[s]) + 1)
      BY <1>2, <1>3, <2>1, AnswerQueues
    <2> QED
      BY <1>2, <2>2 DEF AnswerInv, AnswerRuns
  <1>4. CASE up' = Append(up, Frame("Fail", s, 0))
    <2>1. Frame("Fail", s, 0) \in Messages /\ Place(AnswerKinds, s, Frame("Fail", s, 0)) = -1
      BY FrameTypes DEF Place, AnswerKinds
    <2>2. Runs(AnswerKinds, s, up, Len(got[s]) + 1) => Runs(AnswerKinds, s, up', Len(got[s]) + 1)
      BY <1>1, <1>4, <2>1, AppendOther
    <2> QED
      BY <1>2, <2>2 DEF AnswerInv, AnswerRuns
  <1> QED
    BY <1>3, <1>4 DEF PumpEnds, Pump, Queues

\* The frame of an answer that arrives is the next one, if the stream is open.
LEMMA AnswerArrives ==
    ASSUME Types, AnswerInv, NEW s \in Streams, stream[s] \in {"new", "open"},
           up # <<>>, Head(up).type \in AnswerKinds, Head(up).of = s
    PROVE  /\ Head(up).n = Len(got[s]) + 1
           /\ Runs(AnswerKinds, s, Tail(up), Len(got[s]) + 2)
           /\ \A n \in Nat : Has(AnswerKinds, s, up, n) => n = Len(got[s]) + 1 \/ Has(AnswerKinds, s, Tail(up), n)
  <1> DEFINE low == Len(got[s]) + 1
  <1>1. up \in Seq(Messages) /\ Len(got[s]) \in Nat
    BY DEF Types, HubTypes, QueueTypes
  <1>2. low \in Nat /\ low + 1 = Len(got[s]) + 2
    BY <1>1
  <1>3. Place(AnswerKinds, s, Head(up)) = Head(up).n /\ Head(up).n \in Nat
    BY <1>1, HeadType DEF Place, AnswerKinds
  <1>4. Runs(AnswerKinds, s, up, low)
    BY DEF AnswerInv, AnswerRuns
  <1> AnswerKinds \cap {"Ping", "Pong"} = {}
    BY DEF AnswerKinds
  <1> HIDE DEF low
  <1>5. /\ Head(up).n = low /\ Runs(AnswerKinds, s, Tail(up), low + 1)
        /\ \A n \in Nat : Has(AnswerKinds, s, up, n) => n = low \/ Has(AnswerKinds, s, Tail(up), n)
    BY <1>1, <1>2, <1>3, <1>4, TailNext
  <1> QED
    BY <1>2, <1>5 DEF low

\* A chunk that the caller gets is the next one of the answer.
LEMMA ArrivesRun ==
    ASSUME Types, Blank, AnswerInv, NEW s \in Streams, HubData, Head(up).of = s
    PROVE  /\ AnswerRuns(s)' /\ got'[s] = Append(got[s], Len(got[s]) + 1)
           /\ stream[s] = "open" /\ Len(got[s]) < answered[s].chunks
  <1>1. /\ up # <<>> /\ Head(up).type = "Data" /\ up' = Tail(up) /\ stream[s] = "open"
        /\ got'[s] = Append(got[s], Head(up).n) /\ UNCHANGED <<stream, answered, tether, pump>>
    BY DEF HubData, Arrives, tetherVars, engineVars, Types, HubTypes
  <1>2. PICK m \in Nat, n \in Nat : m = Len(got[s]) /\ n = answered[s].chunks
    <2>1. Len(got[s]) \in Nat /\ answered[s].chunks \in Nat
      BY DEF Types, HubTypes, TetherTypes
    <2> QED
      BY <2>1
  <1>3. /\ Head(up).n = m + 1 /\ Runs(AnswerKinds, s, up', m + 2)
        /\ Has(AnswerKinds, s, up, n) => n = m + 1 \/ Has(AnswerKinds, s, up', n)
    BY <1>1, <1>2, AnswerArrives DEF AnswerKinds
  <1>4. Head(up).n \in 1..n
    BY <1>1, <1>2, HeadAnswer DEF AnswerFrame
  <1>5. m + 1 <= n /\ m + 2 = (m + 1) + 1
    BY <1>3, <1>4
  <1>6. Len(got'[s]) = m + 1
    BY <1>1, <1>2 DEF Types, HubTypes
  <1>7. tether = "up" /\ pump[s] \in {"none", "requesting", "answering", "ended"} =>
          n = m \/ Has(AnswerKinds, s, up, n)
    BY <1>1, <1>2 DEF AnswerInv, AnswerRuns
  <1>8. AnswerRuns(s)'
    <2>1. tether = "up" /\ pump[s] \in {"none", "requesting", "answering", "ended"} =>
            m + 1 = n \/ Has(AnswerKinds, s, up', n)
      BY <1>3, <1>5, <1>7
    <2> QED
      BY <1>1, <1>2, <1>3, <1>5, <1>6, <2>1 DEF AnswerRuns
  <1> QED
    BY <1>1, <1>2, <1>3, <1>5, <1>8

\* How a pump and its answer may move in one step.
PumpMoves(s) ==
    /\ pump'[s] = "none" => pump[s] = "none"
    /\ pump[s] = "done" => pump'[s] = "done"
    /\ \/ answered'[s] = answered[s]
       \/ /\ pump[s] = "answering"
          /\ answered'[s] \in {Body(answered[s].chunks + 1, FALSE), Body(answered[s].chunks, TRUE)}

\* Every step moves a pump and its answer only in these ways.
LEMMA PumpAction ==
    ASSUME Types, Blank, RequestInv, [Next]_vars, NEW s \in Streams
    PROVE  PumpMoves(s)
  <1> TetherTypes
    BY DEF Types
  <1> USE DEF PumpMoves, TetherTypes, tetherVars, engineVars
  <1>1. ASSUME NEW i \in Streams, Open(i) PROVE PumpMoves(s)
    BY <1>1 DEF Open
  <1>2. ASSUME NEW i \in Streams, UploadSends(i) PROVE PumpMoves(s)
    BY <1>2 DEF UploadSends
  <1>3. ASSUME NEW i \in Streams, UploadFails(i) PROVE PumpMoves(s)
    BY <1>3 DEF UploadFails, HubDrops
  <1>4. ASSUME NEW i \in Streams, UploadStops(i) PROVE PumpMoves(s)
    BY <1>4 DEF UploadStops
  <1>5. ASSUME NEW i \in Streams, CallerLeaves(i) PROVE PumpMoves(s)
    BY <1>5 DEF CallerLeaves, HubDrops
  <1>6. CASE HubHead
    BY <1>6 DEF HubHead, Arrives
  <1>7. CASE HubData
    BY <1>7 DEF HubData, Arrives
  <1>8. CASE HubRefuses
    BY <1>8 DEF HubRefuses, Arrives
  <1>9. CASE HubEnd
    BY <1>9 DEF HubEnd, Arrives
  <1>10. CASE HubPong
    BY <1>10 DEF HubPong, Arrives
  <1>11. CASE HubPings
    BY <1>11 DEF HubPings
  <1>12. CASE HubGivesUp \/ HubSeesClose
    BY <1>12 DEF HubGivesUp, HubSeesClose
  <1>13. CASE TetherOpen
    BY <1>13, OpensOnce DEF TetherOpen, Comes, TetherTells
  <1>14. CASE TetherData
    BY <1>14 DEF TetherData, Comes, TetherTells, Enqueue
  <1>15. CASE TetherEnd
    BY <1>15 DEF TetherEnd, Comes
  <1>16. CASE TetherPing
    BY <1>16 DEF TetherPing, Comes, TetherTells
  <1>17. ASSUME NEW i \in Streams, TetherCompletion(i) PROVE PumpMoves(s)
    BY <1>17 DEF TetherCompletion
  <1>18. CASE TetherGivesUp \/ TetherSeesClose
    BY <1>18 DEF TetherGivesUp, TetherSeesClose
  <1>19. ASSUME NEW i \in Streams, EngineReads(i) PROVE PumpMoves(s)
    BY <1>19 DEF EngineReads, Closes, PumpOnly
  <1>20. ASSUME NEW i \in Streams, EngineSeesCut(i) \/ EngineStopsReading(i) PROVE PumpMoves(s)
    BY <1>20 DEF EngineSeesCut, EngineStopsReading, Closes, PumpOnly
  <1>21. ASSUME NEW i \in Streams, EngineAnswers(i) PROVE PumpMoves(s)
    BY <1>21 DEF EngineAnswers, Pump, PumpOnly, Queues
  <1>22. ASSUME NEW i \in Streams, EngineSends(i) PROVE PumpMoves(s)
    BY <1>22 DEF EngineSends, Pump, PumpOnly, Queues
  <1>23. ASSUME NEW i \in Streams, EngineEnds(i) PROVE PumpMoves(s)
    BY <1>23 DEF EngineEnds, Pump, PumpOnly
  <1>24. ASSUME NEW i \in Streams, PumpEnds(i) PROVE PumpMoves(s)
    BY <1>24 DEF PumpEnds, Pump, PumpOnly, Queues
  <1>25. ASSUME NEW i \in Streams, PumpAborts(i) PROVE PumpMoves(s)
    BY <1>25 DEF PumpAborts, PumpOnly, Running
  <1>26. CASE UNCHANGED vars
    BY <1>26 DEF vars
  <1> QED
    BY <1>1, <1>2, <1>3, <1>4, <1>5, <1>6, <1>7, <1>8, <1>9, <1>10, <1>11, <1>12, <1>13,
       <1>14, <1>15, <1>16, <1>17, <1>18, <1>19, <1>20, <1>21, <1>22, <1>23, <1>24, <1>25, <1>26
    DEF Next, HubStep, HubReceives, TetherStep, TetherReceives, EngineStep

\* The frames on their way up stay true, and those that join them are.
LEMMA UpFrameKept ==
    ASSUME Types, NEW frame \in Messages, AnswerFrame(frame), frame.of \in Streams => PumpMoves(frame.of)
    PROVE  AnswerFrame(frame)'
  <1> SUFFICES ASSUME frame.type \notin {"Ping", "Pong"}
               PROVE  AnswerFrame(frame)'
    BY DEF AnswerFrame
  <1> DEFINE s == frame.of
  <1>1. s \in Streams /\ frame.n \in Nat
    BY DEF Messages
  <1>2. answered[s].chunks \in Nat
    BY <1>1 DEF Types, TetherTypes
  <1>3. /\ pump'[s] # "none"
        /\ pump[s] = "done" => pump'[s] = "done" /\ answered'[s] = answered[s]
    BY <1>1 DEF AnswerFrame, PumpMoves
  <1>4. answered[s].chunks <= answered'[s].chunks /\ answered'[s].chunks \in Nat
    <2>1. PICK c \in Nat : c = answered[s].chunks
      BY <1>2
    <2>2. CASE answered'[s] = answered[s]
      BY <1>2, <2>2
    <2>3. CASE answered'[s] = Body(answered[s].chunks + 1, FALSE)
      <3>1. answered'[s].chunks = c + 1
        BY <2>1, <2>3 DEF Body
      <3> QED
        BY <2>1, <3>1
    <2>4. CASE answered'[s] = Body(answered[s].chunks, TRUE)
      <3>1. answered'[s].chunks = c
        BY <2>1, <2>4 DEF Body
      <3> QED
        BY <2>1, <3>1
    <2> QED
      BY <1>1, <2>2, <2>3, <2>4 DEF PumpMoves
  <1>5. frame.type = "Data" => frame.n \in 1..answered'[s].chunks
    BY <1>1, <1>2, <1>4 DEF AnswerFrame
  <1> QED
    BY <1>3, <1>5 DEF AnswerFrame

\* A frame on its way up stays true of its pump, and so is one that joins it.
LEMMA UpFramesStep ==
    ASSUME Types, Blank, Answering, RequestInv, AnswerInv, [Next]_vars,
           NEW frame \in Messages, NEW q \in 1..Len(up'), frame = up'[q]
    PROVE  AnswerFrame(frame)'
  <1> DEFINE Old  == \E p \in 1..Len(up) : frame = up[p]
             Fine == Old \/ AnswerFrame(frame)'
  <1>1. up \in Seq(Messages) /\ TetherTypes
    BY DEF Types, QueueTypes
  <1>2. ASSUME NEW other \in Messages, up' = Append(up, other), AnswerFrame(other)'
        PROVE  Fine
    BY <1>1, <1>2, Queue
  <1>3. up' = up \/ (up # <<>> /\ up' = Tail(up)) \/ TetherEnds => Fine
    <2>1. CASE up # <<>> /\ up' = Tail(up)
      BY <1>1, <2>1, Queue
    <2>2. CASE TetherEnds
      BY <1>1, <2>2, Queue DEF TetherEnds
    <2> QED
      BY <2>1, <2>2
  <1>4. Fine
    <2> USE DEF hubVars, tetherVars, engineVars
    <2> HIDE DEF Fine, Old
    <2>1. ASSUME NEW i \in Streams, Open(i) PROVE Fine
      BY <2>1, <1>3 DEF Open
    <2>2. ASSUME NEW i \in Streams, UploadSends(i) PROVE Fine
      BY <2>2, <1>3 DEF UploadSends
    <2>3. ASSUME NEW i \in Streams, UploadFails(i) PROVE Fine
      BY <2>3, <1>3 DEF UploadFails, HubDrops
    <2>4. ASSUME NEW i \in Streams, UploadStops(i) PROVE Fine
      BY <2>4, <1>3 DEF UploadStops
    <2>5. ASSUME NEW i \in Streams, CallerLeaves(i) PROVE Fine
      BY <2>5, <1>3 DEF CallerLeaves, HubDrops
    <2>6. CASE HubHead
      BY <2>6, <1>3 DEF HubHead, Arrives
    <2>7. CASE HubData
      BY <2>7, <1>3 DEF HubData, Arrives
    <2>8. CASE HubRefuses
      BY <2>8, <1>3 DEF HubRefuses, Arrives
    <2>9. CASE HubEnd
      BY <2>9, <1>3 DEF HubEnd, Arrives
    <2>10. CASE HubPong
      BY <2>10, <1>3 DEF HubPong, Arrives
    <2>11. CASE HubPings
      BY <2>11, <1>3 DEF HubPings
    <2>12. CASE HubGivesUp \/ HubSeesClose
      BY <2>12, <1>3 DEF HubGivesUp, HubSeesClose
    <2>13. CASE TetherOpen
      <3>1. PICK i \in Streams : i = Head(down).of
        BY <2>13, OpensOnce DEF TetherOpen
      <3>2. CASE TetherTells(Frame("Fail", i, 0), {}) /\ pump' = [pump EXCEPT ![i] = "refused"]
        <4>1. AnswerFrame(Frame("Fail", i, 0))'
          BY <1>1, <3>2 DEF AnswerFrame, Frame, TetherTypes
        <4>2. Frame("Fail", i, 0) \in Messages
          BY <3>1, FrameTypes
        <4> QED
          BY <1>2, <1>3, <3>2, <4>1, <4>2 DEF TetherTells
      <3>3. CASE UNCHANGED up
        BY <1>3, <3>3
      <3> QED
        BY <2>13, <3>1, <3>2, <3>3 DEF TetherOpen
    <2>14. CASE TetherData
      <3>1. PICK i \in Streams : i = Head(down).of
        BY <2>14, HeadType DEF TetherData, Comes, Types, QueueTypes
      <3>4. pump' = pump
        BY <2>14 DEF TetherData
      <3>2. CASE TetherTells(Frame("Fail", i, 0), {i}) /\ i \in table
        <4>1. AnswerFrame(Frame("Fail", i, 0))'
          BY <3>2, <3>4 DEF AnswerFrame, Frame, Blank
        <4>2. Frame("Fail", i, 0) \in Messages
          BY <3>1, FrameTypes
        <4> QED
          BY <1>2, <1>3, <3>2, <4>1, <4>2 DEF TetherTells
      <3>3. CASE UNCHANGED up
        BY <1>3, <3>3
      <3> QED
        BY <2>14, <3>1, <3>2, <3>3 DEF TetherData, Enqueue
    <2>15. CASE TetherEnd
      BY <2>15, <1>3 DEF TetherEnd, Comes
    <2>16. CASE TetherPing
      <3>1. Control("Pong") \in Messages /\ AnswerFrame(Control("Pong"))'
        BY ControlTypes DEF AnswerFrame, Control
      <3> QED
        BY <1>2, <1>3, <2>16, <3>1 DEF TetherPing, TetherTells
    <2>17. ASSUME NEW i \in Streams, TetherCompletion(i) PROVE Fine
      BY <2>17, <1>3 DEF TetherCompletion
    <2>18. CASE TetherGivesUp \/ TetherSeesClose
      BY <1>3, <2>18 DEF TetherGivesUp, TetherSeesClose
    <2>19. ASSUME NEW i \in Streams, EngineReads(i) PROVE Fine
      BY <2>19, <1>3 DEF EngineReads, Closes, PumpOnly
    <2>20. ASSUME NEW i \in Streams, EngineSeesCut(i) \/ EngineStopsReading(i) PROVE Fine
      BY <2>20, <1>3 DEF EngineSeesCut, EngineStopsReading, Closes, PumpOnly
    <2>21. ASSUME NEW i \in Streams, EngineAnswers(i) PROVE Fine
      <3>1. Frame("RespHead", i, 0) \in Messages /\ up' = Append(up, Frame("RespHead", i, 0))
        BY <2>21, FrameTypes DEF EngineAnswers, Queues
      <3>2. AnswerFrame(Frame("RespHead", i, 0))'
        BY <1>1, <2>21 DEF EngineAnswers, Pump, AnswerFrame, Frame, TetherTypes
      <3> QED
        BY <1>2, <3>1, <3>2
    <2>22. ASSUME NEW i \in Streams, EngineSends(i) PROVE Fine
      <3>1. answered[i].chunks \in Nat /\ answered[i].chunks + 1 \in Nat
        BY <1>1 DEF TetherTypes
      <3>2. /\ Frame("Data", i, answered[i].chunks + 1) \in Messages
            /\ up' = Append(up, Frame("Data", i, answered[i].chunks + 1))
        BY <2>22, <3>1, FrameTypes DEF EngineSends, Queues
      <3>3. pump'[i] = "answering" /\ answered'[i].chunks = answered[i].chunks + 1
        BY <1>1, <2>22 DEF EngineSends, Pump, TetherTypes, Body
      <3>4. PICK n \in Nat : n = answered[i].chunks + 1 /\ n >= 1
        BY <3>1
      <3>5. AnswerFrame(Frame("Data", i, n))'
        BY <3>3, <3>4 DEF AnswerFrame, Frame
      <3> QED
        BY <1>2, <3>2, <3>4, <3>5
    <2>23. ASSUME NEW i \in Streams, EngineEnds(i) PROVE Fine
      BY <2>23, <1>3 DEF EngineEnds, Pump, PumpOnly
    <2>24. ASSUME NEW i \in Streams, PumpEnds(i) PROVE Fine
      <3>1. answered[i].chunks + 1 \in Nat
        BY <1>1 DEF TetherTypes
      <3>2. pump'[i] = "done" /\ answered' = answered
        BY <1>1, <2>24 DEF PumpEnds, Pump, TetherTypes
      <3>3. CASE pump[i] = "ended" /\ up' = Append(up, Frame("End", i, answered[i].chunks + 1))
        <4>1. PICK n \in Nat : n = answered[i].chunks + 1
          BY <3>1
        <4>2. answered[i].complete
          BY <3>3 DEF Answering
        <4>3. AnswerFrame(Frame("End", i, n))' /\ Frame("End", i, n) \in Messages
          BY <3>2, <4>1, <4>2, FrameTypes DEF AnswerFrame, Frame
        <4> QED
          BY <1>2, <3>3, <4>1, <4>3
      <3>4. CASE up' = Append(up, Frame("Fail", i, 0))
        <4>1. AnswerFrame(Frame("Fail", i, 0))' /\ Frame("Fail", i, 0) \in Messages
          BY <3>2, FrameTypes DEF AnswerFrame, Frame
        <4> QED
          BY <1>2, <3>4, <4>1
      <3> QED
        BY <2>24, <3>3, <3>4 DEF PumpEnds, Pump, Queues
    <2>25. ASSUME NEW i \in Streams, PumpAborts(i) PROVE Fine
      BY <2>25, <1>3 DEF PumpAborts, PumpOnly
    <2>26. CASE UNCHANGED vars
      BY <1>3, <2>26 DEF vars
    <2> QED
      BY <2>1, <2>2, <2>3, <2>4, <2>5, <2>6, <2>7, <2>8, <2>9, <2>10, <2>11, <2>12, <2>13,
         <2>14, <2>15, <2>16, <2>17, <2>18, <2>19, <2>20, <2>21, <2>22, <2>23, <2>24, <2>25, <2>26
      DEF Next, HubStep, HubReceives, TetherStep, TetherReceives, EngineStep
  <1>5. Old => AnswerFrame(frame)'
    <2>1. Old => AnswerFrame(frame)
      BY DEF AnswerInv
    <2> QED
      BY <2>1, PumpAction, UpFrameKept
  <1> QED
    BY <1>4, <1>5

\* Every step keeps the invariant of the answers.
LEMMA AnswerStep ==
    ASSUME Types, Types', Blank, Answering, RequestInv, AnswerInv, [Next]_vars
    PROVE  AnswerInv'
  <1>1. ASSUME NEW q \in 1..Len(up') PROVE AnswerFrame(up[q])'
    <2>1. PICK frame : frame = up'[q]
      OBVIOUS
    <2>2. frame \in Messages
      BY <2>1 DEF Types, QueueTypes
    <2>3. AnswerFrame(frame)'
      BY <2>1, <2>2, UpFramesStep
    <2> QED
      BY <2>1, <2>3 DEF AnswerFrame
  <1>2. ASSUME NEW s \in Streams PROVE AnswerRuns(s)'
    <2>1. CASE AnswerMoves(s)
      BY <2>1, SendsRun, EndRun, ArrivesRun DEF AnswerMoves
    <2>2. CASE ~AnswerMoves(s)
      BY <2>2, AnswerAction, AnswerRestsRun DEF AnswerInv
    <2> QED
      BY <2>1, <2>2
  <1> QED
    BY <1>1, <1>2 DEF AnswerInv

-----------------------------------------------------------------------------
(* The exchange *)

\* The invariant holds at first, and every step keeps it.
LEMMA TunnelInit == Init => TunnelInv /\ SlotIsHeld
  <1> SUFFICES ASSUME Init PROVE TunnelInv /\ SlotIsHeld
    OBVIOUS
  <1>1. Types
    BY TypesInit
  <1>2. \A i \in Streams :
          /\ stream[i] = "new" /\ upload[i] = "idle" /\ sent[i] = 0 /\ got[i] = <<>>
          /\ pump[i] = "none" /\ taken[i] = <<>> /\ input[i] = <<>> /\ accepted[i] = "open"
          /\ answered[i] = Body(0, FALSE)
    BY DEF Init
  <1>3. table = {} /\ completions = {} /\ Len(down) = 0 /\ Len(up) = 0
    BY DEF Init
  <1>4. Blank /\ SlotIsHeld
    BY <1>2, <1>3 DEF Blank, SlotIsHeld
  <1>5. \A i \in Streams : answered[i].chunks = 0 /\ ~answered[i].complete
    BY <1>2 DEF Body
  <1>6. Answering
    BY <1>2, <1>5 DEF Answering
  <1>7. RequestInv
    <2>1. ASSUME NEW i \in Streams PROVE InputFollows(i) /\ RequestRuns(i)
      <3>1. Len(input[i]) = 0 /\ 1..0 = {}
        <4>1. input[i] = <<>>
          BY <1>2
        <4> QED
          BY <4>1
      <3>2. NextDown(i) = 0 /\ upload[i] # "sending"
        BY <1>2 DEF NextDown
      <3> QED
        BY <1>3, <3>1, <3>2 DEF InputFollows, RequestRuns, Runs
    <2> QED
      BY <1>3, <2>1 DEF RequestInv
  <1>8. AnswerInv
    <2>1. ASSUME NEW i \in Streams PROVE AnswerRuns(i)
      <3>1. got[i] = <<>> /\ answered[i].chunks = 0
        BY <1>2, <1>5
      <3>2. Len(got[i]) = 0 /\ 1..0 = {}
        BY <3>1
      <3> QED
        BY <1>3, <3>1, <3>2 DEF AnswerRuns, Runs
    <2> QED
      BY <1>3, <2>1 DEF AnswerInv
  <1> QED
    BY <1>1, <1>4, <1>6, <1>7, <1>8 DEF TunnelInv

\* Every step keeps the invariant and the slots.
LEMMA TunnelStep == TunnelInv /\ SlotIsHeld /\ [Next]_vars => TunnelInv' /\ SlotIsHeld'
  BY TypesStep, BlankStep, AnsweringStep, RequestStep, AnswerStep, SlotStep DEF TunnelInv

\* A step that leaves the two ends of a request alone, or those of an answer, and
\* one that cuts the answer.
RequestStays(s) ==
    /\ sent'[s] = sent[s] /\ taken'[s] = taken[s] /\ accepted'[s] = accepted[s]
    /\ upload'[s] = upload[s] \/ (upload[s] # "finished" /\ upload'[s] # "finished")
AnswerStays(s) ==
    /\ answered'[s] = answered[s] /\ got'[s] = got[s]
    /\ stream'[s] = stream[s] \/ (stream[s] = "new" /\ stream'[s] = "open")
AnswerCut(s) ==
    /\ answered'[s] = answered[s] /\ got'[s] = got[s]
    /\ stream[s] = "open" /\ stream'[s] \in {"cut", "left"}

\* Which of the two sides a step leaves alone.
Sides(s) == RequestStays(s) /\ (AnswerStays(s) \/ AnswerCut(s))

\* What stays is the same state of the exchange.
LEMMA RequestEqual ==
    ASSUME NEW s, RequestStays(s)
    PROVE  /\ Body(sent[s], upload[s] = "finished")' = Body(sent[s], upload[s] = "finished")
           /\ taken'[s] = taken[s] /\ accepted'[s] = accepted[s]
  <1>1. CASE upload'[s] = upload[s]
    BY <1>1 DEF RequestStays
  <1>2. CASE upload[s] # "finished" /\ upload'[s] # "finished"
    <2>1. (upload[s] = "finished") = FALSE /\ (upload'[s] = "finished") = FALSE
      BY <1>2
    <2> QED
      BY <2>1 DEF RequestStays
  <1> QED
    BY <1>1, <1>2 DEF RequestStays

\* A step that leaves an answer alone leaves its outcome alone.
LEMMA AnswerEqual ==
    ASSUME NEW s, AnswerStays(s)
    PROVE  Outcome(s)' = Outcome(s) /\ got'[s] = got[s] /\ answered'[s] = answered[s]
  BY DEF AnswerStays, Outcome

\* A step that leaves both sides alone is no step of the exchange; one that only
\* cuts the answer is the caller seeing the cut.
LEMMA SidesMap ==
    ASSUME NEW s, Sides(s)
    PROVE  Promise(s)!Next \/ UNCHANGED Promise(s)!vars
  <1>1. CASE AnswerStays(s)
    BY <1>1, RequestEqual, AnswerEqual DEF Sides, Promise!vars
  <1>2. CASE AnswerCut(s)
    <2>1. Outcome(s) = "open" /\ Outcome(s)' = "cut"
      BY <1>2 DEF AnswerCut, Outcome
    <2>2. Promise(s)!CallerSeesEnd
      BY <1>2, <2>1, RequestEqual DEF Sides, AnswerCut, Promise!CallerSeesEnd
    <2> QED
      BY <2>2 DEF Promise!Next
  <1> QED
    BY <1>1, <1>2 DEF Sides

\* The steps that move an exchange.
ExchangeMoves(s) ==
    \/ UploadSends(s) \/ EngineSends(s) \/ EngineEnds(s)
    \/ EngineReads(s) \/ EngineSeesCut(s) \/ EngineStopsReading(s)
    \/ Head(up).of = s /\ (HubData \/ HubEnd)

\* Every step but those of ExchangeMoves is of that kind.
LEMMA SidesAction ==
    ASSUME Types, Blank, RequestInv, AnswerInv, [Next]_vars, NEW s \in Streams, ~ExchangeMoves(s)
    PROVE  Sides(s)
  <1> HubTypes /\ TetherTypes
    BY DEF Types
  <1> USE DEF HubTypes, TetherTypes, hubVars, tetherVars, engineVars, Sides, RequestStays
  <1>1. ASSUME NEW i \in Streams, Open(i) PROVE Sides(s)
    <2>1. upload[i] = "idle"
      BY <1>1 DEF Open, Blank
    <2> QED
      BY <1>1, <2>1 DEF Open, AnswerStays
  <1>2. ASSUME NEW i \in Streams, UploadSends(i) PROVE Sides(s)
    <2>1. i # s
      BY <1>2 DEF ExchangeMoves
    <2> QED
      BY <1>2, <2>1 DEF UploadSends, AnswerStays
  <1>3. ASSUME NEW i \in Streams, UploadFails(i) PROVE Sides(s)
    BY <1>3 DEF UploadFails, HubDrops, AnswerStays, AnswerCut
  <1>4. ASSUME NEW i \in Streams, UploadStops(i) PROVE Sides(s)
    BY <1>4 DEF UploadStops, AnswerStays
  <1>5. ASSUME NEW i \in Streams, CallerLeaves(i) PROVE Sides(s)
    BY <1>5 DEF CallerLeaves, HubDrops, AnswerStays, AnswerCut
  <1>6. CASE HubHead
    BY <1>6 DEF HubHead, Arrives, AnswerStays
  <1>7. CASE HubData
    BY <1>7 DEF HubData, Arrives, ExchangeMoves, AnswerStays
  <1>8. CASE HubRefuses
    <2>1. \/ stream'[s] = stream[s]
          \/ stream[s] = "open" /\ stream'[s] \in {"cut", "left"}
      BY <1>8 DEF HubRefuses, HubEnds
    <2> QED
      BY <1>8, <2>1 DEF HubRefuses, Arrives, AnswerStays, AnswerCut
  <1>9. CASE HubEnd
    <2>1. Head(up).of # s
      BY <1>9 DEF ExchangeMoves
    <2>2. stream'[s] = stream[s]
      BY <1>9, <2>1 DEF HubEnd
    <2> QED
      BY <1>9, <2>2 DEF HubEnd, Arrives, AnswerStays
  <1>10. CASE HubPong
    BY <1>10 DEF HubPong, Arrives, AnswerStays
  <1>11. CASE HubPings
    <2>1. \/ stream'[s] = stream[s]
          \/ stream[s] = "open" /\ stream'[s] \in {"cut", "left"}
      BY <1>11 DEF HubPings, HubEnds
    <2> QED
      BY <1>11, <2>1 DEF HubPings, AnswerStays, AnswerCut
  <1>12. CASE HubGivesUp \/ HubSeesClose
    BY <1>12 DEF HubGivesUp, HubSeesClose, HubEnds, AnswerStays, AnswerCut
  <1>13. CASE TetherOpen
    BY <1>13 DEF TetherOpen, Comes, AnswerStays
  <1>14. CASE TetherData
    BY <1>14 DEF TetherData, AnswerStays
  <1>15. CASE TetherEnd
    BY <1>15 DEF TetherEnd, AnswerStays
  <1>16. CASE TetherPing
    BY <1>16 DEF TetherPing, AnswerStays
  <1>17. ASSUME NEW i \in Streams, TetherCompletion(i) PROVE Sides(s)
    BY <1>17 DEF TetherCompletion, AnswerStays
  <1>18. CASE TetherGivesUp \/ TetherSeesClose
    BY <1>18 DEF TetherGivesUp, TetherSeesClose, AnswerStays
  <1>19. ASSUME NEW i \in Streams, EngineReads(i) \/ EngineSeesCut(i) \/ EngineStopsReading(i)
         PROVE  Sides(s)
    <2>1. i # s
      BY <1>19 DEF ExchangeMoves
    <2> QED
      BY <1>19, <2>1 DEF EngineReads, EngineSeesCut, EngineStopsReading, Closes, PumpOnly, AnswerStays
  <1>20. ASSUME NEW i \in Streams, EngineAnswers(i) PROVE Sides(s)
    BY <1>20 DEF EngineAnswers, Pump, PumpOnly, AnswerStays
  <1>21. ASSUME NEW i \in Streams, EngineSends(i) \/ EngineEnds(i) PROVE Sides(s)
    <2>1. i # s
      BY <1>21 DEF ExchangeMoves
    <2> QED
      BY <1>21, <2>1 DEF EngineSends, EngineEnds, Pump, PumpOnly, AnswerStays
  <1>22. ASSUME NEW i \in Streams, PumpEnds(i) PROVE Sides(s)
    BY <1>22 DEF PumpEnds, Pump, PumpOnly, AnswerStays
  <1>23. ASSUME NEW i \in Streams, PumpAborts(i) PROVE Sides(s)
    BY <1>23 DEF PumpAborts, PumpOnly, AnswerStays
  <1>24. CASE UNCHANGED vars
    BY <1>24 DEF vars, AnswerStays
  <1> QED
    BY <1>1, <1>2, <1>3, <1>4, <1>5, <1>6, <1>7, <1>8, <1>9, <1>10, <1>11, <1>12, <1>13,
       <1>14, <1>15, <1>16, <1>17, <1>18, <1>19, <1>20, <1>21, <1>22, <1>23, <1>24
    DEF Next, HubStep, HubReceives, TetherStep, TetherReceives, EngineStep

\* The caller's body moves on, or ends.
LEMMA UploadMaps ==
    ASSUME Types, NEW s \in Streams, UploadSends(s)
    PROVE  Promise(s)!CallerSends
  <1>1. /\ UNCHANGED <<stream, got, taken, accepted, answered>>
        /\ (upload[s] = "finished") = FALSE
    BY DEF UploadSends, tetherVars, engineVars
  <1>2. Body(sent[s], FALSE).chunks = sent[s] /\ Body(sent[s], FALSE).complete = FALSE
    BY DEF Body
  <1>3. \/ sent'[s] = sent[s] + 1 /\ (upload'[s] = "finished") = FALSE
        \/ sent'[s] = sent[s] /\ (upload'[s] = "finished") = TRUE
    BY DEF UploadSends, Types, HubTypes
  <1>4. \/ Body(sent[s], upload[s] = "finished")' = Promise(s)!Body(sent[s] + 1, FALSE)
        \/ Body(sent[s], upload[s] = "finished")' = Promise(s)!Body(sent[s], TRUE)
    BY <1>3 DEF Body, Promise!Body
  <1> QED
    BY <1>1, <1>2, <1>4 DEF Promise!CallerSends, Promise!Produces, Outcome

\* The engine's answer does.
LEMMA AnswerMaps ==
    ASSUME Types, Answering, NEW s \in Streams, EngineSends(s) \/ EngineEnds(s)
    PROVE  Promise(s)!EngineAnswers \/ Sides(s)
  <1>1. UNCHANGED <<stream, got, taken, accepted, sent, upload>>
    BY DEF EngineSends, EngineEnds, Pump, PumpOnly, hubVars
  <1>2. CASE UNCHANGED answered
    BY <1>1, <1>2 DEF Sides, RequestStays, AnswerStays
  <1>3. CASE answered' # answered
    <2>1. /\ pump[s] = "answering"
          /\ \/ answered'[s] = Body(answered[s].chunks + 1, FALSE)
             \/ answered'[s] = Body(answered[s].chunks, TRUE)
      BY <1>3 DEF EngineSends, EngineEnds, Pump, Types, TetherTypes
    <2>2. ~answered[s].complete
      BY <2>1 DEF Answering
    <2> QED
      BY <1>1, <2>1, <2>2 DEF Promise!EngineAnswers, Promise!Produces, Promise!Body, Body, Outcome
  <1> QED
    BY <1>2, <1>3

\* What the engine takes is the next chunk that was sent, and an end it sees comes
\* after the last.
LEMMA ReadMaps ==
    ASSUME Types, RequestInv, NEW s \in Streams,
           EngineReads(s) \/ EngineSeesCut(s) \/ EngineStopsReading(s)
    PROVE  Promise(s)!EngineTakes \/ Promise(s)!EngineSeesEnd
  <1>1. UNCHANGED <<stream, got, answered, sent, upload>> /\ accepted[s] = "open"
    BY DEF EngineReads, EngineSeesCut, EngineStopsReading, Connected, PumpOnly, hubVars
  <1>2. Body(sent[s], upload[s] = "finished").chunks = sent[s]
    BY DEF Body
  <1>3. Body(sent[s], upload[s] = "finished").complete = (upload[s] = "finished")
    BY DEF Body
  <1>4. Body(sent[s], upload[s] = "finished")' = Body(sent[s], upload[s] = "finished")
    BY <1>1
  <1>5. Outcome(s)' = Outcome(s)
    BY <1>1 DEF Outcome
  <1>6. CASE EngineSeesCut(s) \/ EngineStopsReading(s)
    <2>1. accepted'[s] = "cut" /\ taken' = taken
      BY <1>6 DEF EngineSeesCut, EngineStopsReading, Closes, Types, TetherTypes
    <2> QED
      BY <1>1, <1>4, <1>5, <2>1 DEF Promise!EngineSeesEnd
  <1>7. CASE EngineReads(s)
    <2>1. PICK t \in Nat, u \in Nat, m \in Nat : t = Len(taken[s]) /\ u = sent[s] /\ m = Len(input[s])
      <3>1. Len(taken[s]) \in Nat /\ sent[s] \in Nat /\ Len(input[s]) \in Nat
        BY CapacityAssumption DEF Types, HubTypes, TetherTypes
      <3> QED
        BY <3>1
    <2>2. input[s] \in Seq(Nat) /\ input[s] # <<>>
      BY <1>7 DEF EngineReads, Types, TetherTypes
    <2>3. 1 \in 1..m /\ Head(input[s]) = input[s][1]
      BY <2>1, <2>2
    <2>4. \/ Head(input[s]) = t + 1 /\ t + 1 <= u
          \/ Head(input[s]) = HalfEnd /\ upload[s] = "finished" /\ t + 1 = u + 1
      BY <2>1, <2>3 DEF RequestInv, InputFollows
    <2>5. CASE Head(input[s]) = HalfEnd
      <3>1. t + 1 # u + 1 => t + 1 <= u /\ t + 1 = HalfEnd
        BY <2>4, <2>5
      <3>2. u <= RequestChunks /\ RequestChunks \in Nat
        BY <2>1, CapacityAssumption DEF Types, HubTypes
      <3>3. t = u /\ upload[s] = "finished"
        BY <2>4, <2>5, <3>2 DEF HalfEnd
      <3>4. accepted'[s] = "whole" /\ taken' = taken
        BY <1>7, <2>5 DEF EngineReads, Closes, Types, TetherTypes
      <3>5. Len(taken[s]) = Body(sent[s], upload[s] = "finished").chunks
        BY <1>2, <2>1, <3>3, Zenon
      <3> QED
        BY <1>1, <1>3, <1>4, <1>5, <3>3, <3>4, <3>5 DEF Promise!EngineSeesEnd
    <2>6. CASE Head(input[s]) # HalfEnd
      <3>1. taken'[s] = Append(taken[s], t + 1) /\ accepted' = accepted
        BY <1>7, <2>4, <2>6 DEF EngineReads, Types, TetherTypes
      <3>2. t < u
        BY <2>4, <2>6
      <3>3. Len(taken[s]) < Body(sent[s], upload[s] = "finished").chunks
        BY <1>2, <2>1, <3>2, Zenon
      <3>4. taken'[s] = Append(taken[s], Len(taken[s]) + 1)
        BY <2>1, <3>1, Zenon
      <3> QED
        BY <1>1, <1>4, <1>5, <3>1, <3>3, <3>4 DEF Promise!EngineTakes
    <2> QED
      BY <2>5, <2>6
  <1> QED
    BY <1>6, <1>7

\* What the caller gets is the next chunk of the answer.
LEMMA DataMaps ==
    ASSUME Types, Blank, AnswerInv, NEW s \in Streams, HubData, Head(up).of = s
    PROVE  Promise(s)!CallerGets
  <1>1. UNCHANGED <<stream, taken, accepted, answered, sent, upload>>
    BY DEF HubData, tetherVars, engineVars
  <1>2. /\ got'[s] = Append(got[s], Len(got[s]) + 1)
        /\ stream[s] = "open" /\ Len(got[s]) < answered[s].chunks
    BY ArrivesRun
  <1>3. Outcome(s) = "open" /\ Outcome(s)' = Outcome(s)
    BY <1>1, <1>2 DEF Outcome
  <1>4. Body(sent[s], upload[s] = "finished")' = Body(sent[s], upload[s] = "finished")
    BY <1>1
  <1> QED
    BY <1>1, <1>2, <1>3, <1>4 DEF Promise!CallerGets

\* A clean END of the answer comes after its last chunk.
LEMMA EndMaps ==
    ASSUME Types, Blank, AnswerInv, NEW s \in Streams, HubEnd, Head(up).of = s
    PROVE  Promise(s)!CallerSeesEnd \/ Sides(s)
  <1>1. UNCHANGED <<got, taken, accepted, answered, sent, upload>>
        /\ up # <<>> /\ Head(up).type \in {"End", "Fail"}
    BY DEF HubEnd, Arrives, tetherVars, engineVars
  <1>2. stream[s] # "open" => stream'[s] = stream[s]
    BY DEF HubEnd, Types, HubTypes
  <1>3. CASE stream[s] # "open"
    BY <1>1, <1>2, <1>3 DEF Sides, RequestStays, AnswerStays
  <1>4. CASE stream[s] = "open"
    <2>1. Outcome(s) = "open"
      BY <1>4 DEF Outcome
    <2>2. Body(sent[s], upload[s] = "finished")' = Body(sent[s], upload[s] = "finished")
      BY <1>1
    <2>3. CASE Head(up).type = "Fail"
      <3>1. stream'[s] = "cut"
        BY <1>4, <2>3 DEF HubEnd, Types, HubTypes
      <3>2. Outcome(s)' = "cut"
        BY <3>1 DEF Outcome
      <3> QED
        BY <1>1, <2>1, <2>2, <3>2 DEF Promise!CallerSeesEnd
    <2>4. CASE Head(up).type = "End"
      <3>1. stream'[s] = "whole"
        BY <1>4, <2>4 DEF HubEnd, Types, HubTypes
      <3>2. Outcome(s)' = "whole"
        BY <3>1 DEF Outcome
      <3>3. Head(up).n = Len(got[s]) + 1
        BY <1>1, <1>4, <2>4, AnswerArrives DEF AnswerKinds
      <3>4. answered[s].complete /\ Head(up).n = answered[s].chunks + 1
        BY <1>1, <2>4, HeadAnswer DEF AnswerFrame
      <3>5. Len(got[s]) \in Nat /\ answered[s].chunks \in Nat
        BY DEF Types, HubTypes, TetherTypes
      <3>6. Len(got[s]) = answered[s].chunks
        BY <3>3, <3>4, <3>5
      <3> QED
        BY <1>1, <2>1, <2>2, <3>2, <3>4, <3>6 DEF Promise!CallerSeesEnd
    <2> QED
      BY <1>1, <2>3, <2>4
  <1> QED
    BY <1>3, <1>4

\* A step of the session is a step of each of its exchanges, or none of it.  What
\* the engine takes and what the caller gets is next; an end either sees is the end.
LEMMA ExchangeStep ==
    ASSUME TunnelInv, [Next]_vars, NEW s \in Streams
    PROVE  Promise(s)!Next \/ UNCHANGED Promise(s)!vars
  <1>1. Types /\ Blank /\ Answering /\ RequestInv /\ AnswerInv
    BY DEF TunnelInv
  <1>2. CASE ~ExchangeMoves(s)
    BY <1>1, <1>2, SidesAction, SidesMap
  <1>3. CASE ExchangeMoves(s)
    BY <1>1, <1>3, SidesMap, UploadMaps, AnswerMaps, ReadMaps, DataMaps, EndMaps
    DEF ExchangeMoves, Promise!Next
  <1> QED
    BY <1>2, <1>3

\* The invariant holds, and with it every stream in the tether's table has a pump
\* that runs or one whose completion is waiting (tunnel.rs:284-287, 317-321).
THEOREM TunnelIsSafe == Spec => [](TunnelInv /\ SlotIsHeld)
  BY TunnelInit, TunnelStep, PTL DEF Spec

\* A slot of the tether is never lost.
THEOREM SlotHeld == Spec => []SlotIsHeld
  BY TunnelIsSafe, PTL

\* Each stream implements the exchange, with queues of any capacity: neither end of
\* it takes a chunk out of order, or an end that is not the end, whatever overflows,
\* fails or is cut off on the way (hub.rs:1115-1141, tunnel.rs:88-111, 387-397, 493-509).
THEOREM TunnelImplementsExchange == Spec => ImplementsExchange
  <1>1. Init => \A i \in Streams : Promise(i)!Init
    <2> SUFFICES ASSUME Init, NEW i \in Streams PROVE Promise(i)!Init
      OBVIOUS
    <2>1. (upload[i] = "finished") = FALSE /\ sent[i] = 0
      BY DEF Init
    <2> QED
      BY <2>1 DEF Init, Promise!Init, Promise!Body, Body, Outcome
  <1>2. TunnelInv /\ [Next]_vars
          => [\A i \in Streams : Promise(i)!Next \/ UNCHANGED Promise(i)!vars]_vars
    BY ExchangeStep
  <1> QED
    BY <1>1, <1>2, TunnelIsSafe, PTL DEF Spec, ImplementsExchange
=============================================================================
