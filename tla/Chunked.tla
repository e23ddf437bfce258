------------------------------- MODULE Chunked ------------------------------
(***************************************************************************)
(* ChunkedDecoder, the incremental decoder of a chunked HTTP body.  An        *)
(* engine's bytes reach it in pieces of any length and may stop anywhere.    *)
(* Each byte of the wire carries a mark, data or framing, that the decoder   *)
(* does not see: the marks are the reference it is compared with.            *)
(***************************************************************************)
EXTENDS Integers, Sequences

CONSTANTS
    ChunkData,  \* contents of a chunk; they may look like framing
    SizeForms,  \* how sizes are written: "plain", "padded", "extended"
    Spoilt,     \* what may be wrong in the wire: "no", "size", "huge", "crlf"
    MaxSize,    \* usize::MAX
    MaxChunks,  \* chunks in one body
    MaxPiece    \* the longest piece

ASSUME EngineAssumption ==
    /\ \A data \in ChunkData : data \in Seq(Nat) /\ Len(data) \in 1..MaxSize
    /\ SizeForms \subseteq {"plain", "padded", "extended"}
    /\ Spoilt \subseteq {"no", "size", "huge", "crlf"}
ASSUME DecoderAssumption == MaxSize \in Nat /\ MaxChunks \in Nat /\ MaxPiece \in Nat

VARIABLES
    wire,    \* the bytes of the engine, marked
    pushed,  \* how many of them the decoder was given
    mode,    \* mode of the decoder: "size", "body", "crlf", "done"
    remaining,  \* of the pending chunk
    buf,     \* bytes not yet decoded
    out,     \* what was handed on
    verdict  \* "more", "done", "error", or what the end of input gave: "ended", "short"

chunkedVars == <<wire, pushed, mode, remaining, buf, out, verdict>>

CR == 13
LF == 10
Zero == 48
Semicolon == 59
LetterX == 120

Marks == {"size", "last", "data", "after", "trailer", "bad"}
MarkedByte == [byte : Nat, mark : Marks]

Bytes(s) == [i \in DOMAIN s |-> s[i].byte]
Marked(s, mark) == [i \in DOMAIN s |-> [byte |-> s[i], mark |-> mark]]

\* The digits of a size.
DigitOf(v) == IF v < 10 THEN Zero + v ELSE 87 + v
HexOf[n \in Nat] == IF n < 16 THEN <<DigitOf(n)>> ELSE Append(HexOf[n \div 16], DigitOf(n % 16))

SizeLine(n, form) ==
    CASE form = "plain" -> HexOf[n]
      [] form = "padded" -> <<Zero>> \o HexOf[n]
      [] form = "extended" -> HexOf[n] \o <<Semicolon, LetterX>>

Line(c) ==
    CASE c.spoilt = "size" -> <<LetterX>>
      [] c.spoilt = "huge" -> HexOf[MaxSize + 1]
      [] OTHER -> SizeLine(Len(c.data), c.form)

\* A line; the mark of its last byte says what the decoder can know by it.
Ended(line, mark) == Marked(line \o <<CR>>, "size") \o Marked(<<LF>>, mark)

\* A byte is marked "bad" where the decoder can first know that the wire is wrong.
ChunkOf(c) ==
    Ended(Line(c), IF c.spoilt \in {"size", "huge"} THEN "bad" ELSE "size")
    \o Marked(c.data, "data")
    \o (IF c.spoilt = "crlf" THEN Marked(<<LetterX>>, "after") \o Marked(<<LetterX>>, "bad")
        ELSE Marked(<<CR, LF>>, "after"))

\* The last chunk, and trailers that read like a chunk.
LastChunk == Ended(<<Zero>>, "last") \o Marked(<<Zero + 1, CR, LF, LetterX, CR, LF>>, "trailer")

Chunk == [data : ChunkData, form : SizeForms, spoilt : Spoilt]
Bodies == UNION {[1..n -> Chunk] : n \in 0..MaxChunks}
WireOf[body \in Seq(Chunk)] ==
    IF body = <<>> THEN LastChunk ELSE ChunkOf(Head(body)) \o WireOf[Tail(body)]

ChunkedInit ==
    /\ \E body \in Bodies : wire = WireOf[body]
    /\ pushed = 0 /\ mode = "size" /\ remaining = 0 /\ buf = <<>> /\ out = <<>> /\ verdict = "more"
-----------------------------------------------------------------------------
IsNewline(s, i) == s[i] = CR /\ s[i + 1] = LF
HasLine(s) == \E i \in 1..(Len(s) - 1) : IsNewline(s, i)
LineEnd(s) == CHOOSE i \in 1..(Len(s) - 1) :
                  IsNewline(s, i) /\ \A j \in 1..(i - 1) : ~IsNewline(s, j)

\* The size line without its extension.
Hex(line) ==
    IF \E i \in DOMAIN line : line[i] = Semicolon
      THEN SubSeq(line, 1, (CHOOSE i \in DOMAIN line :
                                line[i] = Semicolon /\ \A j \in 1..(i - 1) : line[j] # Semicolon) - 1)
      ELSE line

\* from_str_radix; the engine writes no sign and no white space about a size.
HexDigits == Zero..(Zero + 9) \cup 65..70 \cup 97..102
ValueOf(b) == IF b >= 97 THEN b - 87 ELSE IF b >= 65 THEN b - 55 ELSE b - Zero
HexValue[s \in Seq(HexDigits)] ==
    IF s = <<>> THEN 0 ELSE 16 * HexValue[SubSeq(s, 1, Len(s) - 1)] + ValueOf(s[Len(s)])
IsSize(s) == s # <<>> /\ s \in Seq(HexDigits) /\ HexValue[s] <= MaxSize

\* A decoder: what the loop of push works on.
Decoders == [mode : {"size", "body", "crlf", "done"}, remaining : Nat, buf : Seq(Nat),
             out : Seq(Nat), ok : BOOLEAN]
Decoder == [mode |-> mode, remaining |-> remaining, buf |-> buf, out |-> <<>>, ok |-> TRUE]

\* Mode::Size.
TakesSize(d) ==
    LET end == LineEnd(d.buf)
        hex == Hex(SubSeq(d.buf, 1, end - 1))
        rest == SubSeq(d.buf, end + 2, Len(d.buf))
    IN IF ~IsSize(hex) THEN [d EXCEPT !.mode = "done", !.ok = FALSE]
       ELSE IF HexValue[hex] = 0 THEN [d EXCEPT !.mode = "done", !.buf = <<>>]
       ELSE [d EXCEPT !.mode = "body", !.remaining = HexValue[hex], !.buf = rest]

\* Mode::Body: as much of the chunk as is there.
TakesBody(d) ==
    LET take == IF d.remaining < Len(d.buf) THEN d.remaining ELSE Len(d.buf)
    IN [d EXCEPT !.mode = IF take = d.remaining THEN "crlf" ELSE "body",
                 !.remaining = @ - take,
                 !.out = @ \o SubSeq(d.buf, 1, take),
                 !.buf = SubSeq(@, take + 1, Len(@))]

\* Mode::CrLf.
TakesCrLf(d) ==
    IF IsNewline(d.buf, 1)
      THEN [d EXCEPT !.mode = "size", !.buf = SubSeq(@, 3, Len(@))]
      ELSE [d EXCEPT !.mode = "done", !.ok = FALSE]

\* One pass of the loop; the decoder itself when it waits for more.
Pass(d) ==
    CASE d.mode = "size" /\ HasLine(d.buf) -> TakesSize(d)
      [] d.mode = "body" /\ d.buf # <<>> -> TakesBody(d)
      [] d.mode = "crlf" /\ Len(d.buf) >= 2 -> TakesCrLf(d)
      [] OTHER -> d

\* The loop, until it waits for more or is done.
Loop[d \in Decoders] == IF Pass(d) = d THEN d ELSE Loop[Pass(d)]

\* push: what it decoded before an error is lost with the error.  A caller stops at the
\* first error and at the end, which the guards here and of FeedEof say.  One that went on
\* after an error would be told of success: the mode is then Mode::Done.
Push(n) ==
    /\ verdict = "more" /\ n \in 1..(Len(wire) - pushed)
    /\ LET piece == SubSeq(Bytes(wire), pushed + 1, pushed + n)
           d == Loop[[Decoder EXCEPT !.buf = @ \o piece]]
       IN /\ mode' = d.mode /\ remaining' = d.remaining /\ buf' = d.buf
          /\ out' = IF d.ok THEN out \o d.out ELSE out
          /\ verdict' = IF ~d.ok THEN "error" ELSE IF d.mode = "done" THEN "done" ELSE "more"
    /\ pushed' = pushed + n
    /\ UNCHANGED wire

\* feed_eof: is the body whole where the input ended?
EndsWhole_AtData == mode = "crlf" \/ mode = "body" \/ (mode = "size" /\ buf = <<>>)
EndsWhole == mode = "crlf" \/ (mode = "size" /\ buf = <<>>)

FeedEof ==
    /\ verdict = "more"
    /\ verdict' = IF EndsWhole THEN "ended" ELSE "short"
    /\ buf' = <<>> /\ mode' = IF mode = "crlf" THEN "done" ELSE mode
    /\ UNCHANGED <<wire, pushed, remaining, out>>

ChunkedNext == FeedEof \/ \E n \in 1..MaxPiece : Push(n)

ChunkedSpec == ChunkedInit /\ [][ChunkedNext]_chunkedVars
-----------------------------------------------------------------------------
(* The reference: what the marks say *)

Given == SubSeq(wire, 1, pushed)
DataIn[s \in Seq(MarkedByte)] ==
    IF s = <<>> THEN <<>>
    ELSE LET before == DataIn[SubSeq(s, 1, Len(s) - 1)]
         IN IF s[Len(s)].mark = "data" THEN Append(before, s[Len(s)].byte) ELSE before
HasMark(s, mark) == \E i \in DOMAIN s : s[i].mark = mark

\* Every chunk that was begun has all its data.
WholeSoFar ==
    \/ pushed = 0
    \/ wire[pushed].mark = "after"
    \/ wire[pushed].mark = "data" /\ wire[pushed + 1].mark # "data"

\* However the bytes are split, what is handed on is the data given so far, no
\* framing and nothing twice; the end is reported at the last chunk and nowhere
\* else, a wire that is wrong as soon as it can be known, and an input that stops
\* inside a chunk is not taken for a whole body (chunked.rs:70-177).
DecodesExactly ==
    /\ (verdict = "error") = HasMark(Given, "bad")
    /\ verdict = "error" => Len(out) <= Len(DataIn[Given]) /\ out = SubSeq(DataIn[Given], 1, Len(out))
    /\ verdict # "error" => out = DataIn[Given] /\ (verdict = "done") = HasMark(Given, "last")
    /\ verdict = "ended" => WholeSoFar
    /\ verdict = "short" => ~WholeSoFar
=============================================================================
