--------------------------------- MODULE Wire ---------------------------------
(***************************************************************************)
(* The peer-to-peer encoding, node/p2p.py, and that of blocks, block.py.   *)
(*                                                                         *)
(* A byte is a number below Base, and field widths are scaled down with    *)
(* it: an integer of four or eight bytes takes one or two.  A varint below *)
(* Base - 3 is one byte; the last three bytes announce a width.            *)
(*                                                                         *)
(* Two messages travel over one connection, framed one after the other,    *)
(* with at most one fault.  The reader does what parse_frame asks of its   *)
(* caller: read on while the frame is incomplete, drop the bytes consumed  *)
(* after a frame, give the connection up on any other error.               *)
(***************************************************************************)
EXTENDS Bytes

CONSTANTS Base,            \* byte values
          VarWidths,       \* widths announced by the three varint markers
          MaxMessageSize,
          Noise,           \* bytes a corrupted byte may turn into
          Streams          \* pairs of messages the peer may send, a message being
                           \* a command and its field values

\* A length up to the limit fits its field and a varint.
LengthWidth == 2
ASSUME WireAssumption ==
    /\ Base \in Nat /\ Base >= 4 /\ Noise \subseteq 0 .. Base - 1
    /\ VarWidths \in [1 .. 3 -> Nat \ {0}] /\ MaxMessageSize \in Nat
    /\ MaxMessageSize < Power(Base, LengthWidth) /\ MaxMessageSize < Power(Base, VarWidths[3])

VARIABLES sent,      \* the messages the peer sends
          fault,     \* what goes wrong on the way
          line,      \* bytes still on their way
          buf,       \* bytes received and not consumed
          got,       \* messages handed over
          closed     \* the reader met a P2PError

wireVars == <<sent, fault, line, buf, got, closed>>

-----------------------------------------------------------------------------
(* Integers and varints. *)

\* int.to_bytes and int.from_bytes, little endian; reading fewer bytes than the
\* field has is not an error there.
ToBytes(n, w) == ToDigits(n, Base, w)
FromBytes(s) == FromDigits(s, Base)

\* The same with signed=True, two's complement in the bytes there are.
FromSigned(s) ==
    LET n == FromBytes(s)  p == Power(Base, Len(s))
    IN IF s # << >> /\ 2 * n >= p THEN n - p ELSE n

FirstMarker == Base - 3
PlainTooFar(n) == IF n <= FirstMarker THEN <<n>> ELSE <<FirstMarker>> \o ToBytes(n, VarWidths[1])
EncodeVarint(n) ==
    IF n < FirstMarker THEN <<n>>
    ELSE LET k == CHOOSE k \in 1 .. 3 : /\ k = 3 \/ n < Power(Base, VarWidths[k])
                                        /\ \A j \in 1 .. k - 1 : n >= Power(Base, VarWidths[j])
         IN <<FirstMarker + k - 1>> \o ToBytes(n, VarWidths[k])

-----------------------------------------------------------------------------
(***************************************************************************)
(* Reading from BytesIO: a cursor with the fields read so far and, in n,   *)
(* the last varint.  read(w) returns what there is, up to w bytes.         *)
(***************************************************************************)
Cursor(p) == [data |-> p, pos |-> 0, ok |-> TRUE, n |-> 0, out |-> << >>]
Rest(c) == Len(c.data) - c.pos
Peek(c, w) == SubSeq(c.data, c.pos + 1, c.pos + IF w < Rest(c) THEN w ELSE Rest(c))
Advance(c, w) == [c EXCEPT !.pos = @ + IF w < Rest(c) THEN w ELSE Rest(c)]
Field(c, w, v) == [Advance(c, w) EXCEPT !.out = Append(@, v)]
Raise(c) == [c EXCEPT !.ok = FALSE]

\* Byte strings are checked for their length; integers are not.
ShortRead(c, w) == Field(c, w, Peek(c, w))
Exact(c, w) == IF Rest(c) < w THEN Raise(c) ELSE Field(c, w, Peek(c, w))

ReadVarint(c) ==
    IF Rest(c) = 0 THEN Raise(c)
    ELSE LET v == Peek(c, 1)[1]
             w == IF v < FirstMarker THEN 0 ELSE VarWidths[v - FirstMarker + 1]
             d == Advance(c, 1)
         IN IF v < FirstMarker THEN [d EXCEPT !.n = v]
            ELSE IF Rest(d) < w THEN Raise(d)
            ELSE [Advance(d, w) EXCEPT !.n = FromBytes(Peek(d, w))]

EncodeVarBytes(b) == EncodeVarint(Len(b)) \o b
ReadVarBytes(c) ==
    LET d == ReadVarint(c) IN
    IF ~d.ok THEN d ELSE IF d.n > MaxMessageSize THEN Raise(d) ELSE Exact(d, d.n)

\* One field of a layout.  A value is a sequence: an integer is <<n>>.
ReadField(c, f) ==
    IF ~c.ok THEN c
    ELSE CASE f.as = "bytes"  -> Exact(c, f.w)
           [] f.as = "int"    -> Field(c, f.w, <<FromBytes(Peek(c, f.w))>>)
           [] f.as = "signed" -> Field(c, f.w, <<FromSigned(Peek(c, f.w))>>)
           [] f.as = "big"    -> Field(c, f.w, <<FromBytes(Reverse(Peek(c, f.w)))>>)
           [] f.as = "var"    -> ReadVarBytes(c)
           [] f.as = "flag"   -> Field(c, 1, <<IF Peek(c, 1) \in {<< >>, <<0>>} THEN 0 ELSE 1>>)
           [] f.as = "count"  -> ReadVarint(c)

ReadFields(c, layout) == FoldLeft(ReadField, c, layout)

\* A varint and that many times the layout.
Times(n, layout) == FlattenSeq([i \in 1 .. n |-> layout])
ReadList(c, layout) ==
    LET d == ReadVarint(c) IN IF d.ok THEN ReadFields(d, Times(d.n, layout)) ELSE d

\* Writing the values of a layout.
WriteField(f, v) ==
    CASE f.as = "bytes" -> v
      [] f.as \in {"int", "signed", "flag"} -> ToBytes(v[1], f.w)
      [] f.as = "big"   -> Reverse(ToBytes(v[1], f.w))
      [] f.as = "var"   -> EncodeVarBytes(v)
WriteFields(layout, vs) == FlattenSeq([i \in 1 .. Len(vs) |-> WriteField(layout[i], vs[i])])
WriteList(layout, vs) ==
    EncodeVarint(Len(vs) \div Len(layout)) \o WriteFields(Times(Len(vs) \div Len(layout), layout), vs)

-----------------------------------------------------------------------------
(* The messages.  serialise() and parse() go through the same fields in the *)
(* same order; they differ in what parse() checks.                          *)

HashWidth == 2
PingWidth == 2
Item(as, w) == [as |-> as, w |-> w]

SerialisePing(vs) == ToBytes(vs[1][1], PingWidth)
ParsePing(p) == IF Len(p) < PingWidth THEN Raise(Cursor(p))
                ELSE ReadField(Cursor(p), Item("int", PingWidth))

NetAddrFields == << Item("int", 1), Item("bytes", HashWidth), Item("big", 2) >>
VersionFields ==
    << Item("signed", 1), Item("int", 1), Item("signed", 1) >> \o NetAddrFields
    \o NetAddrFields \o << Item("int", 1), Item("var", 0), Item("signed", 2), Item("flag", 1) >>
SerialiseVersion(vs) == WriteFields(VersionFields, vs)
ParseVersion(p) == ReadFields(Cursor(p), VersionFields)

InvFields == << Item("int", 1), Item("bytes", HashWidth) >>
EncodeInv(vs) == WriteList(InvFields, vs)
ParseInv(p) == ReadList(Cursor(p), InvFields)

\* GetHeadersMessage: the version, the locator hashes, hash_stop.
HashFields == << Item("bytes", HashWidth) >>
SerialiseGetHeaders(vs) ==
    ToBytes(vs[1][1], 1) \o WriteList(HashFields, SubSeq(vs, 2, Len(vs) - 1)) \o Last(vs)
ParseGetHeaders(p) ==
    ReadFields(ReadList(ReadField(Cursor(p), Item("int", 1)), HashFields), HashFields)

\* HeadersMessage: a transaction count of 0 after every header.
SerialiseHeaders(vs) ==
    EncodeVarint(Len(vs)) \o FlattenSeq([i \in 1 .. Len(vs) |-> Append(vs[i], 0)])
ParseHeaders(p) == ReadList(Cursor(p), << Item("bytes", HashWidth), Item("count", 0) >>)

\* A block: the fields of its raw header, then the transactions, which bitcoinx
\* writes and reads and which know their own length.
RawHeader ==
    << Item("signed", 1), Item("bytes", HashWidth), Item("bytes", HashWidth),
       Item("int", 1), Item("int", 1), Item("int", 1) >>
RawHeaderSize == 2 * HashWidth + 4
TxFields == << Item("var", 0) >>
SerialiseBlock(vs) ==
    WriteFields(RawHeader, SubSeq(vs, 1, Len(RawHeader)))
    \o WriteList(TxFields, SubSeq(vs, Len(RawHeader) + 1, Len(vs)))
ParseBlock(p) ==
    IF Len(p) < RawHeaderSize THEN Raise(Cursor(p))
    ELSE ReadList(ReadFields(Cursor(p), RawHeader), TxFields)

SerialiseMessage(m) ==
    CASE m.cmd = "ping"       -> SerialisePing(m.vals)
      [] m.cmd = "version"    -> SerialiseVersion(m.vals)
      [] m.cmd = "inv"        -> EncodeInv(m.vals)
      [] m.cmd = "getheaders" -> SerialiseGetHeaders(m.vals)
      [] m.cmd = "headers"    -> SerialiseHeaders(m.vals)
      [] m.cmd = "block"      -> SerialiseBlock(m.vals)

\* What follows the last field is not looked at.  A parser that fails raises
\* P2PError, or in parse_block a ValueError or what bitcoinx raises; the reader
\* (external) gives up on any exception, so they are one outcome here.
ParseMessage(cmd, p) ==
    CASE cmd = "ping"       -> ParsePing(p)
      [] cmd = "version"    -> ParseVersion(p)
      [] cmd = "inv"        -> ParseInv(p)
      [] cmd = "getheaders" -> ParseGetHeaders(p)
      [] cmd = "headers"    -> ParseHeaders(p)
      [] cmd = "block"      -> ParseBlock(p)

\* What can be sent: int.to_bytes refuses a number that its field does not hold, and
\* the receiver a payload above the limit.
Layout(m) ==
    LET n == Len(m.vals) IN
    CASE m.cmd = "ping"       -> << Item("int", PingWidth) >>
      [] m.cmd = "version"    -> VersionFields
      [] m.cmd = "inv"        -> Times(n \div 2, InvFields)
      [] m.cmd = "getheaders" -> << Item("int", 1) >> \o Times(n - 2, HashFields) \o HashFields
      [] m.cmd = "headers"    -> Times(n, HashFields)
      [] m.cmd = "block"      -> RawHeader \o Times(n - Len(RawHeader), TxFields)
Encodable(f, v) ==
    /\ f.as \in {"bytes", "var"} => v \in Seq(0 .. Base - 1)
    /\ f.as = "bytes" => Len(v) = f.w
    /\ f.as = "var" => Len(v) <= MaxMessageSize
    /\ f.as \in {"int", "signed", "big", "flag"} => v \in [1 .. 1 -> Int]
    /\ f.as \in {"int", "big"} => v[1] \in 0 .. Power(Base, f.w) - 1
    /\ f.as = "signed" => 2 * v[1] \in -Power(Base, f.w) .. Power(Base, f.w) - 1
    /\ f.as = "flag" => v[1] \in {0, 1}
Sendable(m) ==
    /\ Len(m.vals) = Len(Layout(m))
    /\ \A i \in 1 .. Len(m.vals) : Encodable(Layout(m)[i], m.vals[i])
    /\ Len(SerialiseMessage(m)) <= MaxMessageSize

-----------------------------------------------------------------------------
(* Frames. *)

Magic == <<1>>
CommandWidth == 2
ChecksumWidth == MaxMessageSize \div 8 + 1
HeaderSize == Len(Magic) + CommandWidth + LengthWidth + ChecksumWidth
LengthAt == Len(Magic) + CommandWidth + 1

CommandBytes == [ping |-> <<1>>, version |-> <<2>>, inv |-> <<1, 2>>,
                 headers |-> <<2, 1>>, getheaders |-> <<2, 2>>, block |-> <<1, 1>>]

ASSUME StreamsAssumption ==
    \A s \in Streams :
        /\ s \in [1 .. 2 -> [cmd : DOMAIN CommandBytes, vals : Seq(Seq(Int))]]
        /\ Sendable(s[1]) /\ Sendable(s[2])

\* The double SHA-256 of a payload, cut to the checksum's width: an injective code
\* in symbols that are no bytes, each for eight bytes of the payload.  A payload that
\* took in part of another frame may hold such symbols; they count as one further
\* byte.
Code(p, k) == IF k > Len(p) THEN 0 ELSE 1 + IF p[k] < Base THEN p[k] ELSE Base
Checksum(p) ==
    [i \in 1 .. ChecksumWidth |->
        Base + FromDigits([j \in 1 .. 8 |-> Code(p, 8 * (i - 1) + j)], Base + 2)]

\* Frame.serialise
Padded(c) == c \o [i \in 1 .. CommandWidth - Len(c) |-> 0]
Frame(cmd, p) ==
    Magic \o Padded(CommandBytes[cmd]) \o ToBytes(Len(p), LengthWidth) \o Checksum(p) \o p

\* rstrip(b"\x00")
Stripped(s) == SubSeq(s, 1, Max({0} \cup {i \in DOMAIN s : s[i] # 0}))

Incomplete == [tag |-> "incomplete"]
P2PError == [tag |-> "error"]
ParseFrame(d) ==
    LET length == FromBytes(SubSeq(d, LengthAt, LengthAt + LengthWidth - 1))
        end == HeaderSize + length
        payload == SubSeq(d, HeaderSize + 1, end)
    IN IF Len(d) < HeaderSize THEN Incomplete
       ELSE IF SubSeq(d, 1, Len(Magic)) # Magic \/ length > MaxMessageSize THEN P2PError
       ELSE IF Len(d) < end THEN Incomplete
       ELSE IF SubSeq(d, LengthAt + LengthWidth, HeaderSize) # Checksum(payload) THEN P2PError
       ELSE [tag |-> "frame", end |-> end, payload |-> payload,
             command |-> Stripped(SubSeq(d, Len(Magic) + 1, Len(Magic) + CommandWidth))]

-----------------------------------------------------------------------------
\* The faults: a byte of the first frame altered, or the first payload cut short
\* before it was framed, so that its frame is well formed.
Faults(m) ==
    LET p == SerialiseMessage(m) IN
    [kind : {"none"}, at : {0}, byte : {0}]
    \cup [kind : {"noise"}, at : 1 .. Len(Frame(m.cmd, p)), byte : Noise]
    \cup [kind : {"cut"}, at : 0 .. Len(p) - 1, byte : {0}]

OnTheLine(m, f) ==
    LET p == SerialiseMessage(m) IN
    CASE f.kind = "none"  -> Frame(m.cmd, p)
      [] f.kind = "cut"   -> Frame(m.cmd, SubSeq(p, 1, f.at))
      [] f.kind = "noise" -> [Frame(m.cmd, p) EXCEPT ![f.at] = f.byte]

WireInit ==
    /\ sent \in Streams
    /\ fault \in Faults(sent[1])
    /\ line = OnTheLine(sent[1], fault) \o Frame(sent[2].cmd, SerialiseMessage(sent[2]))
    /\ buf = << >> /\ got = << >> /\ closed = FALSE

Arrive ==
    /\ line # << >> /\ ~closed
    /\ buf' = Append(buf, Head(line)) /\ line' = Tail(line)
    /\ UNCHANGED <<sent, fault, got, closed>>

\* A frame with a known command is parsed; one with another command is skipped.
Handed(f) ==
    LET known == {c \in DOMAIN CommandBytes : CommandBytes[c] = f.command}
    IN IF known = {} THEN [cmd |-> "unknown", vals |-> << >>, ok |-> TRUE]
       ELSE LET c == CHOOSE c \in known : TRUE
                r == ParseMessage(c, f.payload)
            IN [cmd |-> c, vals |-> r.out, ok |-> r.ok]
ReadFrame ==
    LET f == ParseFrame(buf) IN
    /\ ~closed /\ f.tag = "frame"
    /\ LET m == Handed(f) IN
         IF m.ok THEN /\ got' = Append(got, [cmd |-> m.cmd, vals |-> m.vals])
                      /\ UNCHANGED closed
         ELSE closed' = TRUE /\ UNCHANGED got
    /\ buf' = SubSeq(buf, f.end + 1, Len(buf))
    /\ UNCHANGED <<sent, fault, line>>
GiveUp ==
    /\ ~closed /\ ParseFrame(buf).tag = "error"
    /\ closed' = TRUE
    /\ UNCHANGED <<sent, fault, line, buf, got>>

WireNext == Arrive \/ ReadFrame \/ GiveUp
WireSpec == WireInit /\ [][WireNext]_wireVars

-----------------------------------------------------------------------------
\* The two fields of a version message behind its user agent may be missing.
TailMissing(m, g) ==
    /\ m.cmd = "version" /\ g.cmd = "version" /\ Len(m.vals) = Len(g.vals)
    /\ \A i \in 1 .. Len(m.vals) - 2 : m.vals[i] = g.vals[i]

\* However the bytes of the frames arrive, what is handed over is what was sent,
\* in order: a frame is not mistaken for complete or for another, a byte altered
\* on the way (outside the command, which the checksum does not cover) never
\* yields a different message, and a payload that was cut short is refused.  The
\* exception is a version message cut after its user agent.
MessagesIntact ==
    (fault.kind = "noise" => fault.at \notin Len(Magic) + 1 .. Len(Magic) + CommandWidth) =>
        \A i \in DOMAIN got :
            \/ i <= Len(sent) /\ got[i] = sent[i]
            \/ i = 1 /\ fault.kind = "cut" /\ TailMissing(sent[1], got[1])

\* Without a fault nothing is refused, and once every byte has arrived and no
\* frame is left to read, both messages have been handed over and no byte is left.
CleanStreamDelivered ==
    fault.kind = "none" =>
        /\ ~closed
        /\ (line = << >> /\ ParseFrame(buf).tag # "frame") => (got = sent /\ buf = << >>)
=============================================================================
