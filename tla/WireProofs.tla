------------------------------ MODULE WireProofs -------------------------------
(***************************************************************************)
(* The peer-to-peer encoding and the reader of a connection, for every     *)
(* base, every varint width, every limit on the size of a message and all  *)
(* messages that can be sent.                                              *)
(*                                                                         *)
(* The invariant says how far two messages have come over a connection     *)
(* with at most one fault.  Under it lie, from the bottom up: cursors and  *)
(* varints, fields, layouts (folds), the six messages, the checksum and    *)
(* the frame.                                                              *)
(***************************************************************************)
EXTENDS Wire, FoldProofs

-----------------------------------------------------------------------------
(***************************************************************************)
(* Cursors.  A read is described by the chunk w that stands at the cursor  *)
(* and the values o that it adds: Result if it succeeds, Succeeds when     *)
(* all of w has arrived, Refuses when it has not.                          *)
(***************************************************************************)
\* A cursor on bytes that may have been cut short.
Byte == 0 .. Base - 1
Cursors == [data : Seq(Byte), pos : Nat, ok : BOOLEAN, n : Nat, out : Seq(Seq(Int))]
Open(c) == c \in Cursors /\ c.ok /\ c.pos <= Len(c.data)

\* As far as p goes, it holds w from q on.
Holds(p, q, w) == \A j \in 1 .. Len(w) : q + j <= Len(p) => p[q + j] = w[j]

\* From c, reading what was written as w gives d: the values o if all of w is
\* there; otherwise an error, or as many other values and the end of the bytes.
Result(c, d, w, o) ==
    d.ok =>
      /\ Open(d) /\ d.data = c.data
      /\ c.pos + Len(w) <= Len(c.data) => d.pos = c.pos + Len(w) /\ d.out = c.out \o o
      /\ c.pos + Len(w) > Len(c.data) =>
            /\ d.pos = Len(c.data)
            /\ \E x \in Seq(Seq(Int)) : Len(x) = Len(o) /\ d.out = c.out \o x
Succeeds(c, d, w) == c.pos + Len(w) <= Len(c.data) => d.ok
Refuses(c, d, w) == c.pos + Len(w) > Len(c.data) => ~d.ok

\* What the assumptions say of the base and the widths.
LEMMA BaseIs ==
  /\ Base \in Nat /\ Base >= 4 /\ FirstMarker \in 1 .. Base - 1 /\ FirstMarker + 3 = Base
  /\ MaxMessageSize \in Nat /\ MaxMessageSize < Power(Base, LengthWidth)
  /\ MaxMessageSize < Power(Base, VarWidths[3])
  /\ \A k \in 1 .. 3 : VarWidths[k] \in Nat /\ VarWidths[k] >= 1
BY WireAssumption DEF FirstMarker

\* Two chunks that stand one after the other in the data.
LEMMA HoldsParts ==
  ASSUME NEW p \in Seq(Byte), NEW q \in Nat, NEW w1 \in Seq(Byte), NEW w2 \in Seq(Byte),
         Holds(p, q, w1 \o w2)
  PROVE  Holds(p, q, w1) /\ Holds(p, q + Len(w1), w2)
<1>1. /\ Len(w1) \in Nat /\ Len(w2) \in Nat /\ Len(w1 \o w2) = Len(w1) + Len(w2)
      /\ \A i \in 1 .. Len(w1) : (w1 \o w2)[i] = w1[i]
      /\ \A i \in 1 .. Len(w2) : (w1 \o w2)[Len(w1) + i] = w2[i]
  BY ConcatProperties, LenProperties
<1>2. PICK v : v = w1 \o w2
  OBVIOUS
<1>3. ASSUME NEW j \in 1 .. Len(w1), q + j <= Len(p) PROVE p[q + j] = w1[j]
  BY <1>1, <1>2, <1>3 DEF Holds
<1>4. ASSUME NEW j \in 1 .. Len(w2), q + Len(w1) + j <= Len(p)
      PROVE  p[q + Len(w1) + j] = w2[j]
  <2>1. Len(w1) + j \in 1 .. Len(v) /\ v[Len(w1) + j] = w2[j]
    BY <1>1, <1>2
  <2>2. q + (Len(w1) + j) = q + Len(w1) + j
    BY <1>1
  <2> QED BY <1>2, <1>4, <2>1, <2>2 DEF Holds
<1> QED BY <1>3, <1>4 DEF Holds

\* Values read in two parts.
LEMMA Joined ==
  ASSUME NEW s \in Seq(Seq(Int)), NEW x \in Seq(Seq(Int)), NEW y \in Seq(Seq(Int))
  PROVE  /\ x \o y \in Seq(Seq(Int)) /\ Len(x \o y) = Len(x) + Len(y)
         /\ s \o (x \o y) = (s \o x) \o y
         /\ Len(x) \in Nat /\ Len(y) \in Nat
<1> DEFINE V == Seq(Int)
<1> HIDE DEF V
<1>1. ASSUME NEW a \in Seq(V), NEW b \in Seq(V), NEW d \in Seq(V)
      PROVE  /\ b \o d \in Seq(V) /\ Len(b \o d) = Len(b) + Len(d)
             /\ a \o (b \o d) = (a \o b) \o d
  <2>1. b \o d \in Seq(V) /\ Len(b \o d) = Len(b) + Len(d)
    BY ConcatProperties, Zenon
  <2>2. (a \o b) \o d = a \o (b \o d)
    BY ConcatAssociative, SMTT(60)
  <2> QED BY <2>1, <2>2, Zenon
<1>2. Len(x) \in Nat /\ Len(y) \in Nat
  BY LenProperties
<1>3. /\ x \o y \in Seq(V) /\ Len(x \o y) = Len(x) + Len(y)
      /\ s \o (x \o y) = (s \o x) \o y
  <2>1. x \in Seq(V) /\ y \in Seq(V) /\ s \in Seq(V)
    BY DEF V
  <2> QED BY <1>1, <2>1, Zenon
<1> QED BY <1>2, <1>3 DEF V

\* One read after the other.
LEMMA Compose ==
  ASSUME NEW c, Open(c), NEW d, NEW e, NEW w1 \in Seq(Byte), NEW w2 \in Seq(Byte),
         NEW o1 \in Seq(Seq(Int)), NEW o2 \in Seq(Seq(Int)),
         Result(c, d, w1, o1), Succeeds(c, d, w1),
         Holds(c.data, c.pos, w1 \o w2),
         ~d.ok => ~e.ok,
         (d.ok /\ Holds(d.data, d.pos, w2)) => Result(d, e, w2, o2) /\ Succeeds(d, e, w2)
  PROVE  /\ Result(c, e, w1 \o w2, o1 \o o2) /\ Succeeds(c, e, w1 \o w2)
         /\ d.ok => Open(d) /\ d.data = c.data /\ Holds(d.data, d.pos, w2)
<1>1. /\ c.data \in Seq(Byte) /\ c.pos \in Nat /\ c.out \in Seq(Seq(Int)) /\ Len(c.data) \in Nat
      /\ Len(w1) \in Nat /\ Len(w2) \in Nat /\ Len(w1 \o w2) = Len(w1) + Len(w2)
  BY ConcatProperties, LenProperties DEF Open, Cursors
<1>2. /\ Len(o1 \o o2) = Len(o1) + Len(o2) /\ Len(o1) \in Nat /\ Len(o2) \in Nat
      /\ c.out \o (o1 \o o2) = (c.out \o o1) \o o2
  BY <1>1, Joined, Zenon
<1>3. ASSUME d.ok PROVE Open(d) /\ d.data = c.data /\ Holds(d.data, d.pos, w2)
  <2>1. Open(d) /\ d.data = c.data /\ d.pos \in Nat
    BY <1>3 DEF Result, Open, Cursors
  <2>2. CASE c.pos + Len(w1) <= Len(c.data)
    <3>1. d.pos = c.pos + Len(w1)
      BY <1>3, <2>2 DEF Result
    <3> QED BY <1>1, <2>1, <3>1, HoldsParts
  <2>3. CASE c.pos + Len(w1) > Len(c.data)
    <3>1. d.pos = Len(c.data)
      BY <1>3, <2>3 DEF Result
    <3> QED BY <1>1, <2>1, <3>1 DEF Holds
  <2> QED BY <1>1, <2>1, <2>2, <2>3
<1>4. Succeeds(c, e, w1 \o w2)
  <2> SUFFICES ASSUME c.pos + Len(w1 \o w2) <= Len(c.data) PROVE e.ok
    BY DEF Succeeds
  <2>1. d.ok /\ d.pos = c.pos + Len(w1) /\ d.data = c.data
    BY <1>1 DEF Result, Succeeds
  <2> QED BY <1>1, <1>3, <2>1 DEF Succeeds
<1>5. Result(c, e, w1 \o w2, o1 \o o2)
  <2> SUFFICES ASSUME e.ok
               PROVE  /\ Open(e) /\ e.data = c.data
                      /\ c.pos + Len(w1 \o w2) <= Len(c.data) =>
                            /\ e.pos = c.pos + Len(w1 \o w2)
                            /\ e.out = c.out \o (o1 \o o2)
                      /\ c.pos + Len(w1 \o w2) > Len(c.data) =>
                            /\ e.pos = Len(c.data)
                            /\ \E x \in Seq(Seq(Int)) : /\ Len(x) = Len(o1 \o o2)
                                                        /\ e.out = c.out \o x
    BY DEF Result
  <2>1. d.ok /\ Open(d) /\ d.data = c.data /\ Result(d, e, w2, o2)
    BY <1>3
  <2>2. d.pos \in Nat /\ Open(e) /\ e.data = c.data
    BY <2>1 DEF Result, Open, Cursors
  <2>3. ASSUME c.pos + Len(w1 \o w2) <= Len(c.data)
        PROVE  e.pos = c.pos + Len(w1 \o w2) /\ e.out = c.out \o (o1 \o o2)
    <3>1. d.pos = c.pos + Len(w1) /\ d.out = c.out \o o1
      BY <1>1, <2>1, <2>3 DEF Result
    <3>2. e.pos = d.pos + Len(w2) /\ e.out = d.out \o o2
      <4>1. d.pos + Len(w2) <= Len(d.data)
        BY <1>1, <2>1, <2>3, <3>1
      <4> QED BY <2>1, <4>1 DEF Result
    <3> QED BY <1>1, <1>2, <3>1, <3>2
  <2>4. ASSUME c.pos + Len(w1 \o w2) > Len(c.data)
        PROVE  /\ e.pos = Len(c.data)
               /\ \E x \in Seq(Seq(Int)) : Len(x) = Len(o1 \o o2) /\ e.out = c.out \o x
    <3>1. \E x \in Seq(Seq(Int)) : Len(x) = Len(o1) /\ d.out = c.out \o x
      <4>1. CASE c.pos + Len(w1) <= Len(c.data)
        <5>1. d.out = c.out \o o1
          BY <2>1, <4>1 DEF Result
        <5> QED BY <5>1
      <4>2. CASE c.pos + Len(w1) > Len(c.data)
        BY <2>1, <4>2, Zenon DEF Result
      <4>3. c.pos + Len(w1) <= Len(c.data) \/ c.pos + Len(w1) > Len(c.data)
        BY <1>1
      <4> QED BY <4>1, <4>2, <4>3, Zenon
    <3>2. e.pos = Len(c.data) /\ \E y \in Seq(Seq(Int)) : Len(y) = Len(o2) /\ e.out = d.out \o y
      <4>1. CASE d.pos + Len(w2) <= Len(c.data)
        <5>1. d.pos = Len(c.data) /\ Len(w2) = 0
          BY <1>1, <2>1, <2>2, <2>4, <4>1 DEF Result
        <5>2. e.pos = d.pos + Len(w2) /\ e.out = d.out \o o2
          BY <2>1, <4>1 DEF Result
        <5>3. e.pos = Len(c.data)
          BY <1>1, <5>1, <5>2
        <5> QED BY <5>2, <5>3
      <4>2. CASE d.pos + Len(w2) > Len(c.data)
        <5>1. d.pos + Len(w2) > Len(d.data)
          BY <2>1, <4>2
        <5>2. Result(d, e, w2, o2) /\ e.ok /\ d.data = c.data
          BY <2>1
        <5>3. /\ e.pos = Len(d.data)
              /\ \E y \in Seq(Seq(Int)) : Len(y) = Len(o2) /\ e.out = d.out \o y
          BY <5>1, <5>2, Zenon DEF Result
        <5> QED BY <5>2, <5>3, Zenon
      <4>3. d.pos + Len(w2) <= Len(c.data) \/ d.pos + Len(w2) > Len(c.data)
        BY <1>1, <2>2
      <4> QED BY <4>1, <4>2, <4>3
    <3>3. PICK x \in Seq(Seq(Int)) : Len(x) = Len(o1) /\ d.out = c.out \o x
      BY <3>1
    <3>4. PICK y \in Seq(Seq(Int)) : Len(y) = Len(o2) /\ e.out = d.out \o y
      BY <3>2
    <3>5. /\ x \o y \in Seq(Seq(Int)) /\ Len(x \o y) = Len(x) + Len(y)
          /\ c.out \o (x \o y) = (c.out \o x) \o y
      <4>1. PICK s \in Seq(Seq(Int)) : s = c.out
        BY <1>1
      <4>2. /\ x \o y \in Seq(Seq(Int)) /\ Len(x \o y) = Len(x) + Len(y)
            /\ s \o (x \o y) = (s \o x) \o y
        BY Joined
      <4> QED BY <4>1, <4>2, Zenon
    <3> QED BY <1>2, <3>2, <3>3, <3>4, <3>5
  <2> QED BY <2>2, <2>3, <2>4
<1> QED BY <1>3, <1>4, <1>5

\* If the second read refuses a cut, and reads something or the first refuses one
\* as well, so do both.
LEMMA ComposeRefuses ==
  ASSUME NEW c, Open(c), NEW d, NEW e, NEW w1 \in Seq(Byte), NEW w2 \in Seq(Byte),
         NEW o1 \in Seq(Seq(Int)),
         Result(c, d, w1, o1), Len(w2) >= 1 \/ Refuses(c, d, w1),
         ~d.ok => ~e.ok, d.ok => Refuses(d, e, w2)
  PROVE  Refuses(c, e, w1 \o w2)
<1>1. /\ c.data \in Seq(Byte) /\ c.pos \in Nat /\ Len(c.data) \in Nat
      /\ Len(w1) \in Nat /\ Len(w2) \in Nat /\ Len(w1 \o w2) = Len(w1) + Len(w2)
  BY ConcatProperties, LenProperties DEF Open, Cursors
<1> SUFFICES ASSUME c.pos + Len(w1 \o w2) > Len(c.data), d.ok PROVE ~e.ok
  BY DEF Refuses
<1>2. d.data = c.data
  BY DEF Result
<1>3. CASE c.pos + Len(w1) <= Len(c.data)
  <2>1. d.pos = c.pos + Len(w1)
    BY <1>3 DEF Result
  <2> QED BY <1>1, <1>2, <2>1 DEF Refuses
<1>4. CASE c.pos + Len(w1) > Len(c.data)
  <2>1. d.pos = Len(c.data) /\ ~Refuses(c, d, w1)
    BY <1>4 DEF Result, Refuses
  <2> QED BY <1>1, <1>2, <2>1 DEF Refuses
<1> QED BY <1>1, <1>3, <1>4

-----------------------------------------------------------------------------
(***************************************************************************)
(* Reading one field.                                                      *)
(***************************************************************************)
LEMMA PeekIs ==
  ASSUME NEW c, Open(c), NEW w \in Nat
  PROVE  /\ Rest(c) \in Nat /\ Rest(c) = Len(c.data) - c.pos /\ Len(c.data) \in Nat
         /\ c.data \in Seq(Byte) /\ c.pos \in Nat /\ c.out \in Seq(Seq(Int)) /\ c.n \in Nat
         /\ Peek(c, w) \in Seq(Byte)
         /\ Len(Peek(c, w)) = IF w < Rest(c) THEN w ELSE Rest(c)
         /\ \A j \in 1 .. Len(Peek(c, w)) : Peek(c, w)[j] = c.data[c.pos + j]
<1>1. /\ c.data \in Seq(Byte) /\ c.pos \in Nat /\ Len(c.data) \in Nat /\ c.pos <= Len(c.data)
      /\ c.out \in Seq(Seq(Int)) /\ c.n \in Nat
  BY LenProperties DEF Open, Cursors
<1>2. Rest(c) = Len(c.data) - c.pos /\ Rest(c) \in Nat
  BY <1>1 DEF Rest
<1>3. PICK r \in Nat : r = IF w < Rest(c) THEN w ELSE Rest(c)
  BY <1>2
<1>4. Peek(c, w) = SubSeq(c.data, c.pos + 1, c.pos + r) /\ c.pos + r <= Len(c.data)
  BY <1>1, <1>2, <1>3 DEF Peek
<1>5. PICK p \in Seq(Byte), a \in Nat : p = c.data /\ a = c.pos
  BY <1>1
<1>6. /\ SubSeq(p, a + 1, a + r) \in Seq(Byte) /\ Len(SubSeq(p, a + 1, a + r)) = r
      /\ \A j \in 1 .. r : SubSeq(p, a + 1, a + r)[j] = p[a + j]
  <2>1. Len(p) \in Nat /\ a + r <= Len(p) /\ DOMAIN p = 1 .. Len(p)
    BY <1>1, <1>4, <1>5, LenProperties
  <2>2. \A i \in a + 1 .. a + r : i \in 1 .. Len(p) /\ p[i] \in Byte
    <3> SUFFICES ASSUME NEW i \in a + 1 .. a + r PROVE i \in 1 .. Len(p) /\ p[i] \in Byte
      OBVIOUS
    <3>1. i \in 1 .. Len(p)
      BY <2>1
    <3> QED BY <3>1, LenProperties
  <2>3. PICK e \in Int, m \in Int : m = a + 1 /\ e = a + r
    OBVIOUS
  <2>4. \A i \in m .. e : i \in 1 .. Len(p)
    BY <2>2, <2>3
  <2>5. /\ SubSeq(p, m, e) \in Seq(Byte)
        /\ Len(SubSeq(p, m, e)) = IF m <= e THEN e - m + 1 ELSE 0
        /\ \A i \in 1 .. e - m + 1 : SubSeq(p, m, e)[i] = p[m + i - 1]
    BY <2>4, SubSeqProperties
  <2>6. /\ e - m + 1 = r /\ (IF m <= e THEN e - m + 1 ELSE 0) = r
        /\ \A i \in 1 .. r : m + i - 1 = a + i
    BY <2>3
  <2> QED BY <2>3, <2>5, <2>6
<1> QED BY <1>1, <1>2, <1>3, <1>4, <1>5, <1>6

\* A read finds the chunk that stands there, or the part of it that has arrived.
LEMMA PeekHeld ==
  ASSUME NEW c, Open(c), NEW s \in Seq(Byte), Holds(c.data, c.pos, s),
         c.pos + Len(s) <= Len(c.data)
  PROVE  Peek(c, Len(s)) = s
<1>1. Len(s) \in Nat /\ s \in Seq(Byte)
  BY LenProperties
<1>2. PICK k : k = Peek(c, Len(s))
  OBVIOUS
<1>3. /\ k \in Seq(Byte) /\ Len(k) = Len(s) /\ c.pos \in Nat /\ Len(c.data) \in Nat
      /\ \A j \in 1 .. Len(k) : k[j] = c.data[c.pos + j]
  <2>1. PICK w \in Nat : w = Len(s)
    BY <1>1
  <2>2. /\ Rest(c) \in Nat /\ Rest(c) = Len(c.data) - c.pos
        /\ c.pos \in Nat /\ Len(c.data) \in Nat
        /\ Peek(c, w) \in Seq(Byte)
        /\ Len(Peek(c, w)) = IF w < Rest(c) THEN w ELSE Rest(c)
        /\ \A j \in 1 .. Len(Peek(c, w)) : Peek(c, w)[j] = c.data[c.pos + j]
    BY PeekIs, Zenon
  <2>3. Len(Peek(c, w)) = w
    BY <2>1, <2>2
  <2> QED BY <1>2, <2>1, <2>2, <2>3
<1>4. \A j \in 1 .. Len(s) : k[j] = s[j]
  BY <1>1, <1>3 DEF Holds
<1>5. k = s
  BY <1>1, <1>3, <1>4, SeqEqual
<1> QED BY <1>2, <1>5

\* Reading a field moves the cursor and adds a value.
LEMMA FieldIs ==
  ASSUME NEW c, Open(c), NEW w \in Nat, NEW v \in Seq(Int), NEW d, d = Field(c, w, v)
  PROVE  /\ Open(d) /\ d.data = c.data /\ d.out = Append(c.out, v) /\ d.n = c.n
         /\ c.pos + w <= Len(c.data) => d.pos = c.pos + w
         /\ c.pos + w > Len(c.data) => d.pos = Len(c.data)
<1>1. /\ c.data \in Seq(Byte) /\ c.pos \in Nat /\ Len(c.data) \in Nat /\ c.pos <= Len(c.data)
      /\ c.out \in Seq(Seq(Int)) /\ c.n \in Nat /\ c.ok = TRUE
      /\ c = [data |-> c.data, pos |-> c.pos, ok |-> c.ok, n |-> c.n, out |-> c.out]
  BY LenProperties DEF Open, Cursors
<1>2. PICK q \in Nat : q = c.pos + IF w < Rest(c) THEN w ELSE Rest(c)
  BY <1>1 DEF Rest
<1>3. q <= Len(c.data)
  BY <1>1, <1>2 DEF Rest
<1>4. PICK o \in Seq(Seq(Int)) : o = Append(c.out, v)
  BY <1>1, AppendProperties
<1>5. d = [data |-> c.data, pos |-> q, ok |-> c.ok, n |-> c.n, out |-> o]
  BY <1>1, <1>2, <1>4 DEF Field, Advance
<1>6. Open(d)
  BY <1>1, <1>3, <1>5 DEF Open, Cursors
<1>7. d.data = c.data /\ d.out = o /\ d.n = c.n /\ d.pos = q
  BY <1>5
<1> QED BY <1>1, <1>2, <1>4, <1>6, <1>7 DEF Rest

\* Adding one value is appending a sequence of one.
LEMMA ValueAppended ==
  ASSUME NEW s \in Seq(Seq(Int)), NEW v \in Seq(Int)
  PROVE  /\ <<v>> \in Seq(Seq(Int)) /\ Len(<<v>>) = 1 /\ Append(s, v) = s \o <<v>>
<1> DEFINE V == Seq(Int)
<1>1. \A t \in Seq(V), u \in V : <<u>> \in Seq(V) /\ Len(<<u>>) = 1 /\ Append(t, u) = t \o <<u>>
  <2> HIDE DEF V
  <2> SUFFICES ASSUME NEW t \in Seq(V), NEW u \in V
               PROVE  <<u>> \in Seq(V) /\ Len(<<u>>) = 1 /\ Append(t, u) = t \o <<u>>
    OBVIOUS
  <2>1. <<u>> \in Seq(V) /\ Len(<<u>>) = 1 /\ <<u>>[1] = u
    OBVIOUS
  <2>2. PICK b \in Seq(V) : b = <<u>>
    BY <2>1
  <2>3. /\ t \o b \in Seq(V) /\ Len(t \o b) = Len(t) + 1
        /\ \A i \in 1 .. Len(t) + 1 : (t \o b)[i] = IF i <= Len(t) THEN t[i] ELSE b[i - Len(t)]
    BY <2>1, <2>2, ConcatProperties
  <2>4. /\ Append(t, u) \in Seq(V) /\ Len(Append(t, u)) = Len(t) + 1
        /\ \A i \in 1 .. Len(t) : Append(t, u)[i] = t[i]
        /\ Append(t, u)[Len(t) + 1] = u
    BY AppendProperties
  <2>5. Len(t) \in Nat
    BY LenProperties
  <2>6. \A i \in 1 .. Len(t) + 1 : Append(t, u)[i] = (t \o b)[i]
    <3> SUFFICES ASSUME NEW i \in 1 .. Len(t) + 1 PROVE Append(t, u)[i] = (t \o b)[i]
      OBVIOUS
    <3>1. CASE i <= Len(t)
      <4>1. i \in 1 .. Len(t) /\ (t \o b)[i] = t[i]
        BY <2>3, <2>5, <3>1
      <4> QED BY <2>4, <4>1
    <3>2. CASE i = Len(t) + 1
      <4>1. (t \o b)[i] = b[1]
        BY <2>3, <2>5, <3>2
      <4> QED BY <2>1, <2>2, <2>4, <3>2, <4>1
    <3>3. i <= Len(t) \/ i = Len(t) + 1
      BY <2>5
    <3> QED BY <3>1, <3>2, <3>3, Zenon
  <2>7. Append(t, u) = t \o b
    BY <2>3, <2>4, <2>6, SeqEqual
  <2> QED BY <2>1, <2>2, <2>7
<1>2. s \in Seq(V) /\ v \in V
  OBVIOUS
<1> HIDE DEF V
<1>3. <<v>> \in Seq(V) /\ Len(<<v>>) = 1 /\ Append(s, v) = s \o <<v>>
  BY <1>1, <1>2, Zenon
<1> QED BY <1>3 DEF V

\* A field of a fixed width, which reads u, and v if the bytes are there.
LEMMA FieldResult ==
  ASSUME NEW c, Open(c), NEW s \in Seq(Byte), NEW u \in Seq(Int), NEW v \in Seq(Int),
         c.pos + Len(s) <= Len(c.data) => u = v, NEW d, d = Field(c, Len(s), u)
  PROVE  Result(c, d, s, <<v>>) /\ Succeeds(c, d, s)
<1>1. Len(s) \in Nat
  BY LenProperties
<1>2. PICK w \in Nat : w = Len(s)
  BY <1>1
<1>3. /\ Open(d) /\ d.data = c.data /\ d.out = Append(c.out, u)
      /\ c.pos + w <= Len(c.data) => d.pos = c.pos + w
      /\ c.pos + w > Len(c.data) => d.pos = Len(c.data)
  <2>1. d = Field(c, w, u)
    BY <1>2
  <2>2. /\ Open(d) /\ d.data = c.data /\ d.out = Append(c.out, u) /\ d.n = c.n
        /\ c.pos + w <= Len(c.data) => d.pos = c.pos + w
        /\ c.pos + w > Len(c.data) => d.pos = Len(c.data)
    <3> DEFINE G(x, y) == /\ Open(x) /\ x.data = c.data /\ x.out = Append(c.out, y) /\ x.n = c.n
                          /\ c.pos + w <= Len(c.data) => x.pos = c.pos + w
                          /\ c.pos + w > Len(c.data) => x.pos = Len(c.data)
    <3>1. \A y \in Seq(Int) : \A x : x = Field(c, w, y) => G(x, y)
      BY FieldIs
    <3> HIDE DEF G
    <3>2. G(d, u)
      BY <2>1, <3>1, Zenon
    <3> QED BY <3>2 DEF G
  <2> QED BY <2>2, Zenon
<1>4. c.out \in Seq(Seq(Int))
  BY DEF Open, Cursors
<1>5. /\ <<u>> \in Seq(Seq(Int)) /\ Len(<<u>>) = 1 /\ Append(c.out, u) = c.out \o <<u>>
      /\ <<v>> \in Seq(Seq(Int)) /\ Len(<<v>>) = 1
  BY <1>4, ValueAppended
<1>6. PICK x \in Seq(Seq(Int)), y \in Seq(Seq(Int)) : x = <<u>> /\ y = <<v>>
  BY <1>5
<1>7. Len(x) = Len(y) /\ d.out = c.out \o x
  BY <1>3, <1>5, <1>6
<1>8. c.pos + Len(s) <= Len(c.data) => x = y
  BY <1>6
<1>9. d.ok
  BY <1>3 DEF Open
<1>10. Result(c, d, s, y)
  BY <1>2, <1>3, <1>7, <1>8 DEF Result
<1> QED BY <1>6, <1>9, <1>10 DEF Succeeds

-----------------------------------------------------------------------------
(* Integers. *)
LEMMA BytesAs ==
  ASSUME NEW w \in Nat, NEW n \in Int
  PROVE  /\ ToBytes(n, w) \in Seq(Byte) /\ Len(ToBytes(n, w)) = w
         /\ n \in 0 .. Power(Base, w) - 1 => FromBytes(ToBytes(n, w)) = n
         /\ w >= 1 /\ 2 * n \in 0 - Power(Base, w) .. Power(Base, w) - 1 =>
               FromSigned(ToBytes(n, w)) = n
<1>1. Base \in Nat /\ Base >= 2
  BY BaseIs
<1>2. Power(Base, w) \in Nat /\ Power(Base, w) >= 1
  BY <1>1, PowerIs
<1>3. ToDigits(n, Base, w) \in Seq(0 .. Base - 1) /\ Len(ToDigits(n, Base, w)) = w
  BY <1>1, ToDigitsType
<1>4. /\ n \in 0 .. Power(Base, w) - 1 => FromDigits(ToDigits(n, Base, w), Base) = n
      /\ n < 0 /\ n >= 0 - Power(Base, w) =>
            FromDigits(ToDigits(n, Base, w), Base) = n + Power(Base, w)
  BY <1>1, DigitsBack
<1>5. PICK s, P : s = ToDigits(n, Base, w) /\ P = Power(Base, w)
  OBVIOUS
<1>6. ToBytes(n, w) = s /\ FromBytes(s) = FromDigits(s, Base)
  BY <1>5 DEF ToBytes, FromBytes
<1>7. ASSUME w >= 1, 2 * n \in 0 - P .. P - 1 PROVE FromSigned(s) = n
  <2>1. s # << >> /\ Len(s) = w
    BY <1>3, <1>5, <1>7
  <2>2. FromSigned(s) = IF 2 * FromBytes(s) >= P THEN FromBytes(s) - P ELSE FromBytes(s)
    BY <1>5, <2>1 DEF FromSigned
  <2>3. P \in Nat /\ P >= 1
    BY <1>2, <1>5
  <2>4. CASE n >= 0
    <3>1. FromBytes(s) = n
      <4>1. n \in 0 .. P - 1
        BY <1>7, <2>3, <2>4
      <4> QED BY <1>4, <1>5, <1>6, <4>1
    <3> QED BY <1>7, <2>2, <2>3, <3>1
  <2>5. CASE n < 0
    <3>1. FromBytes(s) = n + P
      <4>1. n >= 0 - P
        BY <1>7, <2>3, <2>5
      <4> QED BY <1>4, <1>5, <1>6, <2>5, <4>1
    <3> QED BY <1>7, <2>2, <2>3, <2>5, <3>1
  <2> QED BY <2>4, <2>5
<1> QED BY <1>3, <1>4, <1>5, <1>6, <1>7 DEF Byte

\* What a read of the width of a chunk returns.
LEMMA BytesRead ==
  ASSUME NEW s \in Seq(Byte)
  PROVE  /\ FromBytes(s) \in 0 .. Power(Base, Len(s)) - 1 /\ FromBytes(s) \in Nat
         /\ FromSigned(s) \in Int
<1>1. Base \in Nat /\ Base >= 2 /\ Len(s) \in Nat
  BY BaseIs, LenProperties
<1>2. s \in Seq(0 .. Base - 1)
  BY DEF Byte
<1>3. FromDigits(s, Base) \in 0 .. Power(Base, Len(s)) - 1
  BY <1>1, <1>2, DigitsBelow
<1>4. Power(Base, Len(s)) \in Nat
  BY <1>1, PowerIs
<1> QED BY <1>3, <1>4 DEF FromBytes, FromSigned

\* A big-endian field, read backwards.
LEMMA ReverseTwice ==
  ASSUME NEW E, NEW s \in Seq(E)
  PROVE  Reverse(s) \in Seq(E) /\ Len(Reverse(s)) = Len(s) /\ Reverse(Reverse(s)) = s
<1>1. Len(s) \in Nat /\ \A i \in 1 .. Len(s) : s[i] \in E
  BY LenProperties
<1>2. PICK n \in Nat : n = Len(s)
  BY <1>1
<1>3. Reverse(s) = [i \in 1 .. n |-> s[(n - i) + 1]]
  BY <1>2 DEF Reverse
<1>4. \A i \in 1 .. n : (n - i) + 1 \in 1 .. n /\ (n - ((n - i) + 1)) + 1 = i
  OBVIOUS
<1>5. PICK r : r = Reverse(s)
  OBVIOUS
<1>6. r \in [1 .. n -> E] /\ \A i \in 1 .. n : r[i] = s[(n - i) + 1]
  BY <1>1, <1>2, <1>3, <1>4, <1>5
<1>7. r \in Seq(E) /\ Len(r) = n
  BY <1>6, SeqDef, LenProperties
<1>8. Reverse(r) = [i \in 1 .. n |-> r[(n - i) + 1]]
  BY <1>7 DEF Reverse
<1>9. PICK t : t = Reverse(r)
  OBVIOUS
<1>10. t \in [1 .. n -> E] /\ \A i \in 1 .. n : t[i] = s[i]
  <2>1. \A i \in 1 .. n : t[i] = r[(n - i) + 1]
    BY <1>8, <1>9
  <2>2. \A i \in 1 .. n : r[(n - i) + 1] = s[i]
    BY <1>4, <1>6
  <2> QED BY <1>1, <1>2, <1>8, <1>9, <2>1, <2>2
<1>11. t \in Seq(E) /\ Len(t) = n
  BY <1>10, SeqDef, LenProperties
<1>12. t = s
  BY <1>2, <1>10, <1>11, SeqEqual
<1> QED BY <1>2, <1>5, <1>7, <1>9, <1>12

-----------------------------------------------------------------------------
(* Varints. *)
LEMMA VarintBytes ==
  ASSUME NEW n \in Nat
  PROVE  \/ n < FirstMarker /\ EncodeVarint(n) = <<n>>
         \/ /\ n >= FirstMarker
            /\ \E k \in 1 .. 3 :
                 /\ EncodeVarint(n) = <<FirstMarker + k - 1>> \o ToBytes(n, VarWidths[k])
                 /\ n < Power(Base, VarWidths[3]) => n < Power(Base, VarWidths[k])
<1>1. CASE n < FirstMarker
  BY <1>1 DEF EncodeVarint
<1>2. CASE ~(n < FirstMarker)
  <2> DEFINE P(k) == n < Power(Base, VarWidths[k])
             F(k) == /\ k = 3 \/ P(k)
                     /\ \A j \in 1 .. k - 1 : n >= Power(Base, VarWidths[j])
             kk == CHOOSE k \in 1 .. 3 : F(k)
  <2>0. \A k \in 1 .. 3 : Power(Base, VarWidths[k]) \in Nat
    <3> SUFFICES ASSUME NEW k \in 1 .. 3 PROVE Power(Base, VarWidths[k]) \in Nat
      OBVIOUS
    <3>1. PICK w \in Nat : w = VarWidths[k]
      BY BaseIs
    <3>2. Base \in Nat /\ Base >= 2
      BY BaseIs
    <3>3. Power(Base, w) \in Nat
      BY <3>2, PowerIs
    <3> QED BY <3>1, <3>3
  <2>1. EncodeVarint(n) = <<FirstMarker + kk - 1>> \o ToBytes(n, VarWidths[kk])
    BY <1>2, Zenon DEF EncodeVarint
  <2>2. \E k \in 1 .. 3 : F(k)
    <3>1. CASE P(1)
      <4>1. F(1)
        BY <3>1
      <4> QED BY <4>1
    <3>2. CASE ~P(1) /\ P(2)
      <4>1. \A j \in 1 .. 2 - 1 : j = 1
        OBVIOUS
      <4>2. F(2)
        BY <2>0, <3>2, <4>1
      <4> QED BY <4>2
    <3>3. CASE ~P(1) /\ ~P(2)
      <4>1. \A j \in 1 .. 3 - 1 : j = 1 \/ j = 2
        OBVIOUS
      <4>2. F(3)
        BY <2>0, <3>3, <4>1
      <4> QED BY <4>2
    <3> QED BY <3>1, <3>2, <3>3
  <2> HIDE DEF F
  <2>3. kk \in 1 .. 3 /\ F(kk)
    BY <2>2, Zenon
  <2> HIDE DEF kk
  <2>4. n < Power(Base, VarWidths[3]) => n < Power(Base, VarWidths[kk])
    BY <2>3 DEF F
  <2>5. n >= FirstMarker
    BY <1>2, BaseIs
  <2> QED BY <2>1, <2>3, <2>4, <2>5
<1> QED BY <1>1, <1>2

\* A byte is a sequence of one.
LEMMA OneByte ==
  ASSUME NEW b \in Byte
  PROVE  <<b>> \in Seq(Byte) /\ Len(<<b>>) = 1 /\ <<b>>[1] = b
OBVIOUS

\* A varint is bytes, at least one.
LEMMA VarintType ==
  ASSUME NEW n \in Nat
  PROVE  EncodeVarint(n) \in Seq(Byte) /\ Len(EncodeVarint(n)) >= 1
<1>1. CASE n < FirstMarker /\ EncodeVarint(n) = <<n>>
  <2>1. n \in Byte
    BY <1>1, BaseIs DEF Byte
  <2> QED BY <1>1, <2>1, OneByte
<1>2. ASSUME NEW k \in 1 .. 3,
             EncodeVarint(n) = <<FirstMarker + k - 1>> \o ToBytes(n, VarWidths[k])
      PROVE  EncodeVarint(n) \in Seq(Byte) /\ Len(EncodeVarint(n)) >= 1
  <2>1. PICK w \in Nat, m \in Byte : w = VarWidths[k] /\ m = FirstMarker + k - 1
    BY BaseIs DEF Byte
  <2>2. PICK a \in Seq(Byte), s \in Seq(Byte) : a = <<m>> /\ Len(a) = 1 /\ s = ToBytes(n, w)
    <3>1. ToBytes(n, w) \in Seq(Byte)
      BY BytesAs
    <3> QED BY <3>1, OneByte
  <2>3. a \o s \in Seq(Byte) /\ Len(a \o s) = 1 + Len(s) /\ Len(s) \in Nat
    BY <2>2, ConcatProperties, LenProperties
  <2> QED BY <1>2, <2>1, <2>2, <2>3
<1> QED BY <1>1, <1>2, VarintBytes

\* Reading on without keeping a value.
LEMMA AdvanceIs ==
  ASSUME NEW c, Open(c), NEW w \in Nat, c.pos + w <= Len(c.data), NEW d, d = Advance(c, w)
  PROVE  Open(d) /\ d.data = c.data /\ d.out = c.out /\ d.n = c.n /\ d.pos = c.pos + w
<1>1. /\ c.data \in Seq(Byte) /\ c.pos \in Nat /\ Len(c.data) \in Nat /\ c.pos <= Len(c.data)
      /\ c.out \in Seq(Seq(Int)) /\ c.n \in Nat /\ c.ok = TRUE
      /\ c = [data |-> c.data, pos |-> c.pos, ok |-> c.ok, n |-> c.n, out |-> c.out]
  BY LenProperties DEF Open, Cursors
<1>2. PICK q \in Nat : q = c.pos + w
  BY <1>1
<1>3. q = c.pos + IF w < Rest(c) THEN w ELSE Rest(c)
  BY <1>1, <1>2 DEF Rest
<1>4. d = [data |-> c.data, pos |-> q, ok |-> c.ok, n |-> c.n, out |-> c.out]
  BY <1>1, <1>3 DEF Advance
<1>5. /\ Open(d) /\ d.data = c.data /\ d.out = c.out /\ d.n = c.n /\ d.pos = q
  BY <1>1, <1>2, <1>4 DEF Open, Cursors
<1> QED BY <1>2, <1>5

\* The last varint.
LEMMA NumberSet ==
  ASSUME NEW x, Open(x), NEW n \in Nat
  PROVE  \E d : /\ d = [x EXCEPT !.n = n]
                /\ Open(d) /\ d.data = x.data /\ d.out = x.out /\ d.pos = x.pos /\ d.n = n
<1>1. /\ x.data \in Seq(Byte) /\ x.pos \in Nat /\ x.pos <= Len(x.data)
      /\ x.out \in Seq(Seq(Int)) /\ x.ok = TRUE
      /\ x = [data |-> x.data, pos |-> x.pos, ok |-> x.ok, n |-> x.n, out |-> x.out]
  BY DEF Open, Cursors
<1> DEFINE d == [x EXCEPT !.n = n]
<1>2. d = [data |-> x.data, pos |-> x.pos, ok |-> x.ok, n |-> n, out |-> x.out]
  BY <1>1
<1>3. Open(d) /\ d.data = x.data /\ d.out = x.out /\ d.pos = x.pos /\ d.n = n
  BY <1>1, <1>2 DEF Open, Cursors
<1> QED BY <1>3

\* A cursor that raised is refused.
LEMMA Raised ==
  ASSUME NEW c \in Cursors
  PROVE ~Raise(c).ok
BY DEF Raise, Cursors

\* A read that takes all or fails.
LEMMA AllOrError ==
  ASSUME NEW c, Open(c), NEW s \in Seq(Byte), NEW o \in Seq(Seq(Int)), NEW d,
         c.pos + Len(s) > Len(c.data) => ~d.ok,
         c.pos + Len(s) <= Len(c.data) =>
            Open(d) /\ d.data = c.data /\ d.pos = c.pos + Len(s) /\ d.out = c.out \o o
  PROVE  Result(c, d, s, o) /\ Succeeds(c, d, s) /\ Refuses(c, d, s)
<1>1. c.pos \in Nat /\ Len(c.data) \in Nat /\ Len(s) \in Nat
  BY LenProperties DEF Open, Cursors
<1>2. c.pos + Len(s) <= Len(c.data) \/ c.pos + Len(s) > Len(c.data)
  BY <1>1
<1>3. CASE c.pos + Len(s) <= Len(c.data)
  <2>1. ~(c.pos + Len(s) > Len(c.data))
    BY <1>1, <1>3
  <2> QED BY <1>3, <2>1, Zenon DEF Result, Succeeds, Refuses, Open
<1>4. CASE c.pos + Len(s) > Len(c.data)
  <2>1. ~(c.pos + Len(s) <= Len(c.data))
    BY <1>1, <1>4
  <2> QED BY <1>4, <2>1, Zenon DEF Result, Succeeds, Refuses, Open
<1> QED BY <1>2, <1>3, <1>4

\* A read that adds no value.
LEMMA NoValues ==
  ASSUME NEW c, Open(c)
  PROVE  << >> \in Seq(Seq(Int)) /\ Len(<< >>) = 0 /\ c.out \o << >> = c.out
<1>1. c.out \in Seq(Seq(Int))
  BY DEF Open, Cursors
<1>2. \A s \in Seq(Seq(Int)) : s \o << >> = s
  BY ConcatEmptySeq
<1> QED BY <1>1, <1>2

\* read_varint reads what encode_varint wrote, or refuses what is cut short.
LEMMA VarintRead ==
  ASSUME NEW n \in Nat, n < Power(Base, VarWidths[3])
  PROVE  /\ EncodeVarint(n) \in Seq(Byte) /\ Len(EncodeVarint(n)) >= 1
         /\ \A c : (Open(c) /\ Holds(c.data, c.pos, EncodeVarint(n))) =>
              /\ Result(c, ReadVarint(c), EncodeVarint(n), << >>)
              /\ Succeeds(c, ReadVarint(c), EncodeVarint(n))
              /\ Refuses(c, ReadVarint(c), EncodeVarint(n))
              /\ ReadVarint(c).ok => ReadVarint(c).n = n
<1>1. PICK w : w = EncodeVarint(n)
  OBVIOUS
<1>2. ASSUME NEW c, Open(c)
      PROVE  /\ c.pos \in Nat /\ Len(c.data) \in Nat /\ c \in Cursors
             /\ Rest(c) = Len(c.data) - c.pos /\ Rest(c) \in Nat
             /\ ReadVarint(c) =
                  IF Rest(c) = 0 THEN Raise(c)
                  ELSE IF Peek(c, 1)[1] < FirstMarker
                  THEN [Advance(c, 1) EXCEPT !.n = Peek(c, 1)[1]]
                  ELSE IF Rest(Advance(c, 1)) < VarWidths[Peek(c, 1)[1] - FirstMarker + 1]
                  THEN Raise(Advance(c, 1))
                  ELSE [Advance(Advance(c, 1), VarWidths[Peek(c, 1)[1] - FirstMarker + 1])
                          EXCEPT !.n = FromBytes(Peek(Advance(c, 1),
                                           VarWidths[Peek(c, 1)[1] - FirstMarker + 1]))]
  <2>1. c.pos \in Nat /\ Len(c.data) \in Nat /\ c \in Cursors /\ c.pos <= Len(c.data)
    BY <1>2, LenProperties DEF Open, Cursors
  <2>2. Rest(c) = Len(c.data) - c.pos /\ Rest(c) \in Nat
    BY <2>1 DEF Rest
  <2>3. PICK v : v = Peek(c, 1)[1]
    OBVIOUS
  <2>4. ReadVarint(c) =
          IF Rest(c) = 0 THEN Raise(c)
          ELSE IF v < FirstMarker THEN [Advance(c, 1) EXCEPT !.n = v]
          ELSE IF Rest(Advance(c, 1)) < VarWidths[v - FirstMarker + 1] THEN Raise(Advance(c, 1))
          ELSE [Advance(Advance(c, 1), VarWidths[v - FirstMarker + 1])
                  EXCEPT !.n = FromBytes(Peek(Advance(c, 1), VarWidths[v - FirstMarker + 1]))]
    BY <2>3 DEF ReadVarint
  <2> QED BY <2>1, <2>2, <2>3, <2>4, Zenon
<1>3. CASE n < FirstMarker /\ w = <<n>>
  <2>1. w \in Seq(Byte) /\ Len(w) = 1 /\ w[1] = n
    BY <1>3, BaseIs DEF Byte
  <2>2. ASSUME NEW c, Open(c), Holds(c.data, c.pos, w)
        PROVE  /\ Result(c, ReadVarint(c), w, << >>) /\ Succeeds(c, ReadVarint(c), w)
               /\ Refuses(c, ReadVarint(c), w)
               /\ ReadVarint(c).ok => ReadVarint(c).n = n
    <3>1. PICK d : d = ReadVarint(c)
      OBVIOUS
    <3>2. CASE c.pos + 1 > Len(c.data)
      <4>1. Rest(c) = 0
        BY <1>2, <2>2, <3>2
      <4>2. ~d.ok
        BY <1>2, <2>2, <3>1, <4>1, Raised
      <4>3. c.pos + Len(w) > Len(c.data) /\ ~(c.pos + Len(w) <= Len(c.data))
        BY <1>2, <2>1, <2>2, <3>2
      <4>4. Result(c, d, w, << >>) /\ Succeeds(c, d, w) /\ Refuses(c, d, w)
        BY <4>2, <4>3, Zenon DEF Result, Succeeds, Refuses
      <4> QED BY <3>1, <4>2, <4>4
    <3>3. CASE c.pos + 1 <= Len(c.data)
      <4>1. Rest(c) # 0 /\ c.pos + Len(w) <= Len(c.data)
        BY <1>2, <2>1, <2>2, <3>3
      <4>2. Peek(c, 1) = w
        <5>1. Peek(c, Len(w)) = w
          BY <2>1, <2>2, <4>1, PeekHeld
        <5> QED BY <2>1, <5>1
      <4>3. d = [Advance(c, 1) EXCEPT !.n = n]
        <5>1. Peek(c, 1)[1] = n
          BY <2>1, <4>2
        <5>2. d = IF Rest(c) = 0 THEN Raise(c)
                  ELSE IF n < FirstMarker THEN [Advance(c, 1) EXCEPT !.n = n]
                  ELSE IF Rest(Advance(c, 1)) < VarWidths[n - FirstMarker + 1]
                  THEN Raise(Advance(c, 1))
                  ELSE [Advance(Advance(c, 1), VarWidths[n - FirstMarker + 1])
                          EXCEPT !.n = FromBytes(Peek(Advance(c, 1),
                                           VarWidths[n - FirstMarker + 1]))]
          BY <1>2, <2>2, <3>1, <5>1, Zenon
        <5> QED BY <1>3, <4>1, <5>2, Zenon
      <4>4. Open(d) /\ d.data = c.data /\ d.out = c.out /\ d.n = n /\ d.pos = c.pos + 1
        <5>1. PICK u \in Nat : u = 1
          OBVIOUS
        <5>2. c.pos + u <= Len(c.data) /\ d = [Advance(c, u) EXCEPT !.n = n]
          BY <3>3, <4>3, <5>1
        <5>3. PICK x : x = Advance(c, u)
          OBVIOUS
        <5>4. Open(d) /\ d.data = c.data /\ d.out = c.out /\ d.n = n /\ d.pos = c.pos + u
          <6>1. Open(x) /\ x.data = c.data /\ x.out = c.out /\ x.pos = c.pos + u
            BY <2>2, <5>2, <5>3, AdvanceIs
          <6>2. d = [x EXCEPT !.n = n]
            BY <5>2, <5>3, Zenon
          <6>3. Open(d) /\ d.data = x.data /\ d.out = x.out /\ d.pos = x.pos /\ d.n = n
            <7>1. PICK y : /\ y = [x EXCEPT !.n = n]
                           /\ Open(y) /\ y.data = x.data /\ y.out = x.out /\ y.pos = x.pos /\ y.n = n
              BY <6>1, NumberSet, Zenon
            <7>2. y = d
              BY <6>2, <7>1, Zenon
            <7> QED BY <7>1, <7>2
          <6> QED BY <6>1, <6>3
        <5> QED BY <5>1, <5>4
      <4>5. ~(c.pos + Len(w) > Len(c.data))
        BY <1>2, <2>1, <2>2, <4>1
      <4>6. d.out = c.out \o << >> /\ d.pos = c.pos + Len(w) /\ << >> \in Seq(Seq(Int))
        BY <2>1, <2>2, <4>4, NoValues
      <4>7. Result(c, d, w, << >>) /\ Succeeds(c, d, w) /\ Refuses(c, d, w)
        BY <2>1, <2>2, <4>4, <4>5, <4>6, AllOrError
      <4> QED BY <3>1, <4>4, <4>7
    <3> QED BY <1>2, <2>2, <3>2, <3>3
  <2> QED BY <1>1, <2>1, <2>2
<1>4. CASE /\ n >= FirstMarker
           /\ \E k \in 1 .. 3 : /\ w = <<FirstMarker + k - 1>> \o ToBytes(n, VarWidths[k])
                                /\ n < Power(Base, VarWidths[3]) => n < Power(Base, VarWidths[k])
  <2>1. PICK k \in 1 .. 3 : /\ w = <<FirstMarker + k - 1>> \o ToBytes(n, VarWidths[k])
                            /\ n < Power(Base, VarWidths[k])
    BY <1>4
  <2>2. PICK l \in Nat, m \in Nat : l = VarWidths[k] /\ m = FirstMarker + k - 1
    BY BaseIs
  <2>3. l >= 1 /\ m \in Byte /\ ~(m < FirstMarker) /\ VarWidths[m - FirstMarker + 1] = l
    <3>1. m \in Byte /\ ~(m < FirstMarker) /\ m - FirstMarker + 1 = k
      BY <2>2, BaseIs DEF Byte
    <3> QED BY <2>2, <3>1, BaseIs
  <2>4. PICK t, a : t = ToBytes(n, l) /\ a = <<m>>
    OBVIOUS
  <2>5. t \in Seq(Byte) /\ Len(t) = l /\ FromBytes(t) = n
    <3>1. Power(Base, l) \in Nat /\ n \in 0 .. Power(Base, l) - 1
      <4>1. Base \in Nat /\ Base >= 2
        BY BaseIs
      <4>2. Power(Base, l) \in Nat
        BY <4>1, PowerIs
      <4> QED BY <2>1, <2>2, <4>2
    <3> QED BY <2>4, <3>1, BytesAs
  <2>6. a \in Seq(Byte) /\ Len(a) = 1 /\ a[1] = m
    BY <2>3, <2>4
  <2>7. w = a \o t /\ w \in Seq(Byte) /\ Len(w) = 1 + l
    BY <2>1, <2>2, <2>4, <2>5, <2>6, ConcatProperties
  <2>8. ASSUME NEW c, Open(c), Holds(c.data, c.pos, w)
        PROVE  /\ Result(c, ReadVarint(c), w, << >>) /\ Succeeds(c, ReadVarint(c), w)
               /\ Refuses(c, ReadVarint(c), w)
               /\ ReadVarint(c).ok => ReadVarint(c).n = n
    <3>1. PICK d : d = ReadVarint(c)
      OBVIOUS
    <3>2. CASE c.pos + 1 > Len(c.data)
      <4>1. Rest(c) = 0
        BY <1>2, <2>8, <3>2
      <4>2. ~d.ok
        BY <1>2, <2>8, <3>1, <4>1, Raised
      <4>3. c.pos + Len(w) > Len(c.data) /\ ~(c.pos + Len(w) <= Len(c.data))
        <5>1. PICK p \in Nat, q \in Nat : p = c.pos /\ q = Len(c.data)
          BY <1>2, <2>8
        <5>2. p + 1 > q /\ Len(w) = 1 + l /\ l \in Nat
          BY <2>2, <2>7, <3>2, <5>1
        <5>3. p + Len(w) > q /\ ~(p + Len(w) <= q)
          BY <5>2
        <5> QED BY <5>1, <5>3
      <4>4. Result(c, d, w, << >>) /\ Succeeds(c, d, w) /\ Refuses(c, d, w)
        BY <4>2, <4>3, Zenon DEF Result, Succeeds, Refuses
      <4> QED BY <3>1, <4>2, <4>4
    <3>3. CASE c.pos + 1 <= Len(c.data)
      <4>1. Rest(c) # 0 /\ c.pos + Len(a) <= Len(c.data)
        BY <1>2, <2>6, <2>8, <3>3
      <4>0. c.data \in Seq(Byte) /\ c.pos \in Nat /\ Len(c.data) \in Nat
        BY <1>2, <2>8 DEF Cursors
      <4>2. Holds(c.data, c.pos, a) /\ Holds(c.data, c.pos + Len(a), t)
        BY <2>5, <2>6, <2>7, <2>8, <4>0, HoldsParts
      <4>3. Peek(c, 1) = a
        <5>1. Peek(c, Len(a)) = a
          BY <2>6, <2>8, <4>1, <4>2, PeekHeld
        <5> QED BY <2>6, <5>1
      <4>4. PICK e : e = Advance(c, 1)
        OBVIOUS
      <4>5. Open(e) /\ e.data = c.data /\ e.out = c.out /\ e.pos = c.pos + 1
        <5>1. PICK u \in Nat : u = 1
          OBVIOUS
        <5>2. c.pos + u <= Len(c.data) /\ e = Advance(c, u)
          BY <3>3, <4>4, <5>1
        <5>3. Open(e) /\ e.data = c.data /\ e.out = c.out /\ e.pos = c.pos + u
          BY <2>8, <5>2, AdvanceIs
        <5> QED BY <5>1, <5>3
      <4>6. d = IF Rest(e) < l THEN Raise(e)
                ELSE [Advance(e, l) EXCEPT !.n = FromBytes(Peek(e, l))]
        BY <1>2, <2>3, <2>6, <2>8, <3>1, <4>1, <4>3, <4>4, Zenon
      <4>7. Rest(e) = Len(c.data) - c.pos - 1 /\ e \in Cursors
        BY <1>2, <4>0, <4>5
      <4>8. CASE Rest(e) < l
        <5>1. ~d.ok
          BY <4>6, <4>7, <4>8, Raised
        <5>3. c.pos + Len(w) > Len(c.data) /\ ~(c.pos + Len(w) <= Len(c.data))
          BY <2>7, <4>0, <4>7, <4>8
        <5>4. Result(c, d, w, << >>) /\ Succeeds(c, d, w) /\ Refuses(c, d, w)
          BY <5>1, <5>3, Zenon DEF Result, Succeeds, Refuses
        <5> QED BY <3>1, <5>1, <5>4
      <4>9. CASE ~(Rest(e) < l)
        <5>1. e.pos + Len(t) <= Len(e.data) /\ Holds(e.data, e.pos, t)
          BY <2>5, <2>6, <4>0, <4>2, <4>5, <4>7, <4>9
        <5>2. Peek(e, l) = t
          BY <2>5, <4>5, <5>1, PeekHeld
        <5>3. d = [Advance(e, l) EXCEPT !.n = n]
          BY <2>5, <4>6, <4>9, <5>2, Zenon
        <5>4. Open(d) /\ d.data = e.data /\ d.out = e.out /\ d.n = n /\ d.pos = e.pos + l
          <6>1. e.pos + l <= Len(e.data)
            BY <2>5, <5>1
          <6>2. PICK x : x = Advance(e, l)
            OBVIOUS
          <6>3. Open(x) /\ x.data = e.data /\ x.out = e.out /\ x.pos = e.pos + l
            BY <4>5, <6>1, <6>2, AdvanceIs
          <6>4. d = [x EXCEPT !.n = n]
            BY <5>3, <6>2, Zenon
          <6>5. Open(d) /\ d.data = x.data /\ d.out = x.out /\ d.pos = x.pos /\ d.n = n
            <7>1. PICK y : /\ y = [x EXCEPT !.n = n]
                           /\ Open(y) /\ y.data = x.data /\ y.out = x.out /\ y.pos = x.pos /\ y.n = n
              BY <6>3, NumberSet, Zenon
            <7>2. y = d
              BY <6>4, <7>1, Zenon
            <7> QED BY <7>1, <7>2
          <6> QED BY <6>3, <6>5
        <5>5. /\ ~(c.pos + Len(w) > Len(c.data)) /\ d.pos = c.pos + Len(w)
              /\ c.pos + Len(w) <= Len(c.data)
          <6>1. d.pos = c.pos + 1 + l /\ Len(w) = 1 + l /\ c.pos + 1 + l <= Len(c.data)
            BY <2>7, <4>0, <4>5, <4>7, <4>9, <5>4
          <6> QED BY <4>0, <6>1
        <5>6. d.out = c.out \o << >> /\ << >> \in Seq(Seq(Int)) /\ d.data = c.data
          BY <2>8, <4>5, <5>4, NoValues
        <5>7. Result(c, d, w, << >>) /\ Succeeds(c, d, w) /\ Refuses(c, d, w)
          BY <2>7, <2>8, <5>4, <5>5, <5>6, AllOrError
        <5> QED BY <3>1, <5>4, <5>7
      <4> QED BY <4>8, <4>9
    <3> QED BY <1>2, <2>8, <3>2, <3>3
  <2> QED BY <1>1, <2>7, <2>8
<1> QED BY <1>1, <1>3, <1>4, VarintBytes

\* The fields of the layouts.
Checked == {"bytes", "var"}
FieldOK(f) ==
    /\ f \in [as : {"bytes", "int", "signed", "big", "var", "flag"}, w : Nat]
    /\ f.as # "var" => f.w >= 1
    /\ f.as = "flag" => f.w = 1

\* A field of one number.
LEMMA SingleValue ==
  ASSUME NEW v \in [1 .. 1 -> Int]
  PROVE  v \in Seq(Int) /\ v[1] \in Int /\ <<v[1]>> = v
<1>1. v \in Seq(Int) /\ Len(v) = 1 /\ v[1] \in Int
  <2>1. PICK m \in Nat : m = 1
    OBVIOUS
  <2>2. v \in [1 .. m -> Int]
    BY <2>1
  <2>3. v \in Seq(Int)
    BY <2>2, SeqDef
  <2>4. DOMAIN v = 1 .. Len(v) /\ Len(v) \in Nat
    BY <2>3, LenProperties
  <2>5. Len(v) = 1
    BY <2>4
  <2> QED BY <2>3, <2>5
<1>2. PICK n \in Int : n = v[1]
  BY <1>1
<1>3. <<n>> \in Seq(Int) /\ Len(<<n>>) = 1 /\ <<n>>[1] = n
  OBVIOUS
<1>4. <<n>> = v
  BY <1>1, <1>2, <1>3, SeqEqual
<1> QED BY <1>1, <1>2, <1>4

\* The relay flag is one byte, 0 or 1.
LEMMA FlagByte ==
  ASSUME NEW n \in {0, 1}
  PROVE  /\ ToBytes(n, 1) \in Seq(Byte) /\ Len(ToBytes(n, 1)) = 1
         /\ ToBytes(n, 1) \in {<< >>, <<0>>} <=> n = 0
<1>1. PICK w \in Nat : w = 1
  OBVIOUS
<1>2. ToBytes(n, w) \in Seq(Byte) /\ Len(ToBytes(n, w)) = w
  BY BytesAs
<1>3. PICK s : s = ToBytes(n, w)
  OBVIOUS
<1>4. s[1] = n
  <2>1. Base \in Nat /\ Base >= 2
    BY BaseIs
  <2>2. Quotients(n, Base, w)[0] = n
    BY <2>1, QuotientsAre
  <2>3. s = [i \in 1 .. w |-> Quotients(n, Base, w)[i - 1] % Base]
    BY <1>3 DEF ToBytes, ToDigits
  <2>4. s[1] = Quotients(n, Base, w)[1 - 1] % Base
    BY <1>1, <2>3
  <2>5. s[1] = n % Base
    BY <2>2, <2>4
  <2> QED BY <2>1, <2>5
<1>5. s \in Seq(Byte) /\ Len(s) = 1
  BY <1>1, <1>2, <1>3
<1>6. s \in {<< >>, <<0>>} <=> n = 0
  <2>1. s # << >>
    BY <1>5
  <2>2. ASSUME n = 0 PROVE s = <<0>>
    BY <1>4, <1>5, <2>2
  <2>3. ASSUME s = << 0 >> PROVE n = 0
    BY <1>4, <2>3
  <2> QED BY <2>1, <2>2, <2>3
<1> QED BY <1>1, <1>3, <1>5, <1>6

\* A byte string is read whole or refused.
LEMMA ExactReads ==
  ASSUME NEW v \in Seq(Byte), NEW n, n = Len(v), NEW c, Open(c), Holds(c.data, c.pos, v),
         NEW d, d = Exact(c, n)
  PROVE  Result(c, d, v, <<v>>) /\ Succeeds(c, d, v) /\ Refuses(c, d, v)
<1>1. /\ Rest(c) = Len(c.data) - c.pos /\ Len(c.data) \in Nat /\ c.pos \in Nat
      /\ c \in Cursors /\ n \in Nat /\ v \in Seq(Int)
  <2>1. Len(c.data) \in Nat /\ c.pos \in Nat /\ c \in Cursors /\ n \in Nat
    BY LenProperties DEF Open, Cursors
  <2>2. v \in Seq(Int)
    BY BaseIs DEF Byte
  <2> QED BY <2>1, <2>2 DEF Rest
<1>2. CASE Rest(c) < n
  <2>1. ~d.ok
    <3>1. d = Raise(c)
      BY <1>2 DEF Exact
    <3> QED BY <1>1, <3>1, Raised
  <2>2. ~(c.pos + Len(v) <= Len(c.data))
    BY <1>1, <1>2
  <2> QED BY <2>1, <2>2, Zenon DEF Result, Succeeds, Refuses
<1>3. CASE ~(Rest(c) < n)
  <2>1. c.pos + Len(v) <= Len(c.data) /\ ~(c.pos + Len(v) > Len(c.data))
    BY <1>1, <1>3
  <2>2. Peek(c, Len(v)) = v
    BY <2>1, PeekHeld
  <2>3. d = Field(c, Len(v), v)
    <3>1. d = Field(c, n, Peek(c, n))
      BY <1>3, Zenon DEF Exact
    <3> QED BY <2>2, <3>1, Zenon
  <2>4. Result(c, d, v, <<v>>) /\ Succeeds(c, d, v)
    BY <1>1, <2>3, FieldResult
  <2> QED BY <2>1, <2>4, Zenon DEF Refuses
<1> QED BY <1>2, <1>3

\* What is written of a field is bytes.
LEMMA WriteIs ==
  ASSUME NEW f, FieldOK(f), NEW v \in Seq(Int), Encodable(f, v)
  PROVE  /\ WriteField(f, v) \in Seq(Byte) /\ Len(WriteField(f, v)) >= 1
         /\ f.as = "bytes" => WriteField(f, v) = v /\ v \in Seq(Byte) /\ Len(v) = f.w
         /\ f.as \in {"int", "signed", "flag"} =>
               /\ WriteField(f, v) = ToBytes(v[1], f.w) /\ v \in [1 .. 1 -> Int]
               /\ Len(ToBytes(v[1], f.w)) = f.w
         /\ f.as = "big" =>
               /\ WriteField(f, v) = Reverse(ToBytes(v[1], f.w)) /\ v \in [1 .. 1 -> Int]
               /\ ToBytes(v[1], f.w) \in Seq(Byte) /\ Len(Reverse(ToBytes(v[1], f.w))) = f.w
         /\ f.as = "var" => /\ WriteField(f, v) = EncodeVarint(Len(v)) \o v /\ v \in Seq(Byte)
                            /\ Len(WriteField(f, v)) >= Len(v)
<1>1. f.w \in Nat /\ f.as \in {"bytes", "int", "signed", "big", "var", "flag"}
  BY DEF FieldOK
<1>2. CASE f.as = "bytes"
  <2>1. WriteField(f, v) = v
    BY <1>2 DEF WriteField
  <2>2. v \in Seq(Byte) /\ Len(v) = f.w /\ f.w >= 1
    BY <1>2 DEF Encodable, FieldOK, Byte
  <2> QED BY <1>2, <2>1, <2>2
<1>3. CASE f.as \in {"int", "signed", "flag"}
  <2>1. WriteField(f, v) = ToBytes(v[1], f.w)
    BY <1>3 DEF WriteField
  <2>2. v \in [1 .. 1 -> Int] /\ f.w >= 1
    BY <1>3 DEF Encodable, FieldOK
  <2>3. ToBytes(v[1], f.w) \in Seq(Byte) /\ Len(ToBytes(v[1], f.w)) = f.w
    <3>1. PICK w \in Nat, n \in Int : w = f.w /\ n = v[1]
      BY <1>1, <2>2
    <3>2. ToBytes(n, w) \in Seq(Byte) /\ Len(ToBytes(n, w)) = w
      BY BytesAs
    <3> QED BY <3>1, <3>2
  <2> QED BY <1>3, <2>1, <2>2, <2>3
<1>4. CASE f.as = "big"
  <2>1. WriteField(f, v) = Reverse(ToBytes(v[1], f.w))
    BY <1>4 DEF WriteField
  <2>2. v \in [1 .. 1 -> Int] /\ f.w >= 1
    BY <1>4 DEF Encodable, FieldOK
  <2>3. PICK s : s = ToBytes(v[1], f.w)
    OBVIOUS
  <2>4. s \in Seq(Byte) /\ Len(s) = f.w
    BY <1>1, <2>2, <2>3, BytesAs
  <2>5. Reverse(s) \in Seq(Byte) /\ Len(Reverse(s)) = f.w
    BY <2>4, ReverseTwice
  <2> QED BY <1>4, <2>1, <2>2, <2>3, <2>4, <2>5
<1>5. CASE f.as = "var"
  <2>1. WriteField(f, v) = EncodeVarint(Len(v)) \o v
    BY <1>5 DEF WriteField, EncodeVarBytes
  <2>2. v \in Seq(Byte) /\ Len(v) \in Nat
    BY <1>5, LenProperties DEF Encodable, Byte
  <2>3. PICK n, e : n \in Nat /\ n = Len(v) /\ e = EncodeVarint(n)
    BY <2>2
  <2>4. e \in Seq(Byte) /\ Len(e) >= 1
    BY <2>3, VarintType
  <2>5. e \o v \in Seq(Byte) /\ Len(e \o v) = Len(e) + Len(v) /\ Len(e) \in Nat
    BY <2>2, <2>4, ConcatProperties, LenProperties
  <2>6. Len(e \o v) >= 1 /\ Len(e \o v) >= Len(v)
    BY <2>2, <2>4, <2>5
  <2> QED BY <1>5, <2>1, <2>2, <2>3, <2>5, <2>6
<1> QED BY <1>1, <1>2, <1>3, <1>4, <1>5

\* Every field is read back; byte strings refuse a cut.
LEMMA FieldReads ==
  ASSUME NEW f, FieldOK(f), NEW v \in Seq(Int), Encodable(f, v),
         NEW c, Open(c), Holds(c.data, c.pos, WriteField(f, v)), NEW d, d = ReadField(c, f),
         NEW s, s = WriteField(f, v)
  PROVE  /\ Result(c, d, s, <<v>>) /\ Succeeds(c, d, s)
         /\ f.as \in Checked => Refuses(c, d, s)
<1>0. f.as = "var" => /\ Len(v) < Power(Base, VarWidths[3]) /\ Len(v) \in Nat
                      /\ Len(v) <= MaxMessageSize
  <2>1. PICK w \in Nat : w = VarWidths[3]
    BY BaseIs
  <2>2. Base \in Nat /\ Base >= 2
    BY BaseIs
  <2>3. Power(Base, w) \in Nat
    BY <2>2, PowerIs
  <2> QED BY <2>1, <2>3, BaseIs, LenProperties DEF Encodable
<1>1. /\ s \in Seq(Byte) /\ Len(s) >= 1
      /\ f.as = "bytes" => s = v /\ v \in Seq(Byte) /\ Len(v) = f.w
      /\ f.as \in {"int", "signed", "flag"} =>
            /\ s = ToBytes(v[1], f.w) /\ v \in [1 .. 1 -> Int] /\ Len(ToBytes(v[1], f.w)) = f.w
      /\ f.as = "big" =>
            /\ s = Reverse(ToBytes(v[1], f.w)) /\ v \in [1 .. 1 -> Int]
            /\ ToBytes(v[1], f.w) \in Seq(Byte) /\ Len(Reverse(ToBytes(v[1], f.w))) = f.w
      /\ f.as = "var" => s = EncodeVarint(Len(v)) \o v /\ v \in Seq(Byte)
  BY WriteIs
<1>2. /\ c.ok /\ Holds(c.data, c.pos, s) /\ c \in Cursors
      /\ f.w \in Nat /\ f.as \in {"bytes", "int", "signed", "big", "var", "flag"}
  BY DEF FieldOK, Open
<1>3. CASE f.as = "bytes"
  <2>1. d = Exact(c, f.w)
    BY <1>2, <1>3 DEF ReadField
  <2>2. s = v /\ v \in Seq(Byte) /\ f.w = Len(v)
    BY <1>1, <1>3
  <2>3. Result(c, d, v, <<v>>) /\ Succeeds(c, d, v) /\ Refuses(c, d, v)
    BY <1>2, <2>1, <2>2, ExactReads
  <2> QED BY <2>2, <2>3
<1>4. ASSUME NEW u \in Seq(Int), d = Field(c, Len(s), u), f.as \notin Checked,
             c.pos + Len(s) <= Len(c.data) => u = v
      PROVE  Result(c, d, s, <<v>>) /\ Succeeds(c, d, s) /\ (f.as \in Checked => Refuses(c, d, s))
  BY <1>1, <1>4, FieldResult
<1>5. PICK k : k = Peek(c, Len(s))
  OBVIOUS
<1>6. k \in Seq(Byte) /\ (c.pos + Len(s) <= Len(c.data) => k = s)
  <2>1. PICK w \in Nat : w = Len(s)
    BY <1>1, LenProperties
  <2>2. Peek(c, w) \in Seq(Byte)
    BY PeekIs
  <2> QED BY <1>1, <1>2, <1>5, <2>1, <2>2, PeekHeld
<1>7. CASE f.as = "int"
  <2>1. s = ToBytes(v[1], f.w) /\ v \in [1 .. 1 -> Int] /\ Len(s) = f.w
    BY <1>1, <1>7
  <2>2. v[1] \in 0 .. Power(Base, f.w) - 1
    BY <1>7 DEF Encodable
  <2>3. d = Field(c, Len(s), <<FromBytes(k)>>)
    BY <1>2, <1>5, <1>7, <2>1 DEF ReadField
  <2>4. PICK n \in Int, u \in Seq(Int) : n = FromBytes(k) /\ u = <<n>>
    <3>1. FromBytes(k) \in Int
      BY <1>6, BytesRead
    <3>3. PICK n \in Int : n = FromBytes(k)
      BY <3>1
    <3>4. <<n>> \in Seq(Int)
      OBVIOUS
    <3> QED BY <3>3, <3>4, Zenon
  <2>5. v[1] \in Int /\ <<v[1]>> = v
    BY <2>1, SingleValue
  <2>6. FromBytes(s) = v[1]
    BY <1>2, <2>1, <2>2, <2>5, BytesAs
  <2>7. c.pos + Len(s) <= Len(c.data) => u = v
    BY <1>6, <2>4, <2>5, <2>6
  <2> QED BY <1>4, <1>7, <2>3, <2>4, <2>7 DEF Checked
<1>8. CASE f.as = "signed"
  <2>1. s = ToBytes(v[1], f.w) /\ v \in [1 .. 1 -> Int] /\ Len(s) = f.w /\ f.w >= 1
    BY <1>1, <1>8 DEF FieldOK
  <2>2. 2 * v[1] \in 0 - Power(Base, f.w) .. Power(Base, f.w) - 1
    <3>1. 2 * v[1] \in -Power(Base, f.w) .. Power(Base, f.w) - 1
      BY <1>8 DEF Encodable
    <3>2. Base \in Nat /\ Base >= 2
      BY BaseIs
    <3>3. Power(Base, f.w) \in Nat
      BY <1>2, <3>2, PowerIs
    <3> QED BY <3>1, <3>3
  <2>3. d = Field(c, Len(s), <<FromSigned(k)>>)
    BY <1>2, <1>5, <1>8, <2>1 DEF ReadField
  <2>4. PICK n \in Int, u \in Seq(Int) : n = FromSigned(k) /\ u = <<n>>
    <3>1. FromSigned(k) \in Int
      BY <1>6, BytesRead
    <3>3. PICK n \in Int : n = FromSigned(k)
      BY <3>1
    <3>4. <<n>> \in Seq(Int)
      OBVIOUS
    <3> QED BY <3>3, <3>4, Zenon
  <2>5. v[1] \in Int /\ <<v[1]>> = v
    BY <2>1, SingleValue
  <2>6. FromSigned(s) = v[1]
    BY <1>2, <2>1, <2>2, <2>5, BytesAs
  <2>7. c.pos + Len(s) <= Len(c.data) => u = v
    BY <1>6, <2>4, <2>5, <2>6
  <2> QED BY <1>4, <1>8, <2>3, <2>4, <2>7 DEF Checked
<1>9. CASE f.as = "big"
  <2>0. PICK r : r = ToBytes(v[1], f.w)
    OBVIOUS
  <2>1. s = Reverse(r) /\ v \in [1 .. 1 -> Int] /\ r \in Seq(Byte) /\ Len(s) = f.w
    BY <1>1, <1>9, <2>0
  <2>2. v[1] \in 0 .. Power(Base, f.w) - 1
    BY <1>9 DEF Encodable
  <2>3. d = Field(c, Len(s), <<FromBytes(Reverse(k))>>)
    BY <1>2, <1>5, <1>9, <2>1 DEF ReadField
  <2>4. PICK n \in Int, u \in Seq(Int) : n = FromBytes(Reverse(k)) /\ u = <<n>>
    <3>1. Reverse(k) \in Seq(Byte)
      BY <1>6, ReverseTwice
    <3>2. FromBytes(Reverse(k)) \in Int
      BY <3>1, BytesRead
    <3>3. PICK n \in Int : n = FromBytes(Reverse(k))
      BY <3>2
    <3>4. <<n>> \in Seq(Int)
      OBVIOUS
    <3> QED BY <3>3, <3>4, Zenon
  <2>5. v[1] \in Int /\ <<v[1]>> = v
    BY <2>1, SingleValue
  <2>6. FromBytes(Reverse(s)) = v[1]
    <3>1. FromBytes(r) = v[1]
      BY <1>2, <2>0, <2>2, <2>5, BytesAs
    <3>2. Reverse(s) = r
      BY <2>1, ReverseTwice
    <3> QED BY <3>1, <3>2
  <2>7. c.pos + Len(s) <= Len(c.data) => u = v
    BY <1>6, <2>4, <2>5, <2>6
  <2> QED BY <1>4, <1>9, <2>3, <2>4, <2>7 DEF Checked
<1>10. CASE f.as = "flag"
  <2>1. f.w = 1 /\ s = ToBytes(v[1], 1) /\ v \in [1 .. 1 -> Int] /\ Len(s) = 1
    BY <1>1, <1>10 DEF FieldOK
  <2>2. v[1] \in {0, 1}
    BY <1>10 DEF Encodable
  <2>3. d = Field(c, Len(s), <<IF k \in {<< >>, <<0>>} THEN 0 ELSE 1>>)
    BY <1>2, <1>5, <1>10, <2>1 DEF ReadField
  <2>4. PICK n \in Int, u \in Seq(Int) : n = (IF k \in {<< >>, <<0>>} THEN 0 ELSE 1) /\ u = <<n>>
    <3>1. PICK n \in Int : n = IF k \in {<< >>, <<0>>} THEN 0 ELSE 1
      OBVIOUS
    <3>2. <<n>> \in Seq(Int)
      OBVIOUS
    <3> QED BY <3>1, <3>2, Zenon
  <2>5. v[1] \in Int /\ <<v[1]>> = v
    BY <2>1, SingleValue
  <2>6. s \in {<< >>, <<0>>} <=> v[1] = 0
    BY <2>1, <2>2, FlagByte
  <2>7. c.pos + Len(s) <= Len(c.data) => u = v
    <3>1. c.pos + Len(s) <= Len(c.data) => n = v[1]
      BY <1>6, <2>2, <2>4, <2>6
    <3> QED BY <2>4, <2>5, <3>1
  <2> QED BY <1>4, <1>10, <2>3, <2>4, <2>7 DEF Checked
<1>11. CASE f.as = "var"
  <2>1. v \in Seq(Byte)
    BY <1>1, <1>11
  <2>2. PICK n, a, e : n \in Nat /\ n = Len(v) /\ a = EncodeVarint(n) /\ e = ReadVarint(c)
    BY <1>0, <1>11
  <2>3. s = a \o v
    BY <1>1, <1>11, <2>2
  <2>4. a \in Seq(Byte) /\ Len(a) >= 1
    BY <2>2, VarintType
  <2>5. Holds(c.data, c.pos, a)
    <3>1. c.data \in Seq(Byte) /\ c.pos \in Nat
      BY <1>2 DEF Cursors
    <3> QED BY <1>2, <2>1, <2>3, <2>4, <3>1, HoldsParts
  <2>6. /\ Result(c, e, a, << >>) /\ Succeeds(c, e, a) /\ Refuses(c, e, a)
        /\ e.ok => e.n = n
    BY <1>0, <1>11, <2>2, <2>5, VarintRead
  <2>7. d = IF ~e.ok THEN e ELSE IF e.n > MaxMessageSize THEN Raise(e) ELSE Exact(e, e.n)
    <3>1. d = ReadVarBytes(c)
      BY <1>2, <1>11 DEF ReadField
    <3> QED BY <2>2, <3>1, Zenon DEF ReadVarBytes
  <2>8. ASSUME e.ok PROVE d = Exact(e, n)
    <3>1. e.n = n /\ n <= MaxMessageSize
      BY <1>0, <1>11, <2>2, <2>6, <2>8
    <3>2. ~(e.n > MaxMessageSize)
      <4>1. PICK q \in Nat : q = MaxMessageSize
        BY BaseIs
      <4>2. ~(n > q)
        BY <2>2, <3>1, <4>1
      <4> QED BY <3>1, <4>1, <4>2
    <3> QED BY <2>7, <2>8, <3>1, <3>2
  <2>9. ASSUME ~e.ok PROVE ~d.ok
    BY <2>7, <2>9
  <2>10. ASSUME e.ok, Holds(e.data, e.pos, v)
         PROVE  Result(e, d, v, <<v>>) /\ Succeeds(e, d, v) /\ Refuses(e, d, v)
    <3>1. Open(e)
      BY <2>6, <2>10 DEF Result
    <3> QED BY <2>1, <2>2, <2>8, <2>10, <3>1, ExactReads
  <2>11. << >> \in Seq(Seq(Int)) /\ <<v>> \in Seq(Seq(Int)) /\ << >> \o <<v>> = <<v>>
    OBVIOUS
  <2>12. PICK o, z : o = <<v>> /\ z = << >>
    OBVIOUS
  <2>13. /\ Result(c, d, a \o v, z \o o) /\ Succeeds(c, d, a \o v)
         /\ e.ok => Holds(e.data, e.pos, v)
    BY <1>2, <2>1, <2>3, <2>4, <2>6, <2>9, <2>10, <2>11, <2>12, Compose
  <2>14. e.ok => Refuses(e, d, v)
    BY <2>10, <2>13
  <2>15. Refuses(c, d, a \o v)
    BY <2>1, <2>4, <2>6, <2>9, <2>11, <2>14, ComposeRefuses
  <2> QED BY <2>3, <2>11, <2>12, <2>13, <2>15
<1> QED BY <1>2, <1>3, <1>7, <1>8, <1>9, <1>10, <1>11

-----------------------------------------------------------------------------
(***************************************************************************)
(* ReadFields is a fold over a layout; reading field by field, the chunks  *)
(* and the values add up.                                                  *)
(***************************************************************************)
\* The function that reads a layout field by field exists, and what is read is its
\* last cursor.
IsReadIter(g, layout, c0, n) ==
    g = [t \in SUBSET (1 .. n) |->
           IF t = {} THEN c0 ELSE ReadField(g[t \ {Max(t)}], layout[Max(t)])]

\* The recursion behind ReadFields exists.
LEMMA ReadIterExists ==
  ASSUME NEW c0, NEW layout, NEW n \in Nat
  PROVE  \E g : IsReadIter(g, layout, c0, n)
<1> DEFINE T == {m \in 0 .. n : \E g : IsReadIter(g, layout, c0, m)}
<1>1. 0 \in T
  <2> DEFINE g == [t \in SUBSET (1 .. 0) |-> c0]
  <2>1. \A t \in SUBSET (1 .. 0) : t = {}
    OBVIOUS
  <2>2. IsReadIter(g, layout, c0, 0)
    BY <2>1 DEF IsReadIter
  <2> QED BY <2>2
<1>2. ASSUME NEW m \in 1 .. n, m - 1 \in T PROVE m \in T
  <2> DEFINE P == SUBSET (1 .. m - 1)
             Q == SUBSET (1 .. m)
  <2>1. PICK g : IsReadIter(g, layout, c0, m - 1)
    BY <1>2
  <2>2. \A t \in P : g[t] = IF t = {} THEN c0 ELSE ReadField(g[t \ {Max(t)}], layout[Max(t)])
    BY <2>1 DEF IsReadIter
  <2> DEFINE h == [t \in Q |-> IF m \in t THEN ReadField(g[t \ {m}], layout[m]) ELSE g[t]]
  <2>3. ASSUME NEW t \in Q PROVE t \ {m} \in P /\ (m \notin t => t \in P)
    <3>1. \A i \in 1 .. m : i # m => i \in 1 .. m - 1
      OBVIOUS
    <3> QED BY <3>1
  <2>5. \A t \in P : t \in Q /\ h[t] = g[t]
    OBVIOUS
  <2>6. ASSUME NEW t \in Q
        PROVE  h[t] = IF t = {} THEN c0 ELSE ReadField(h[t \ {Max(t)}], layout[Max(t)])
    <3>1. CASE m \in t
      <4>1. Max(t) = m
        <5>1. m \in Int /\ \A i \in t : i \in Int /\ i <= m
          OBVIOUS
        <5> QED BY <3>1, <5>1, MaxIs
      <4>2. h[t \ {m}] = g[t \ {m}]
        BY <2>3, <2>5
      <4>3. h[t] = ReadField(g[t \ {m}], layout[m])
        BY <3>1
      <4> HIDE DEF h
      <4> QED BY <3>1, <4>1, <4>2, <4>3
    <3>2. CASE m \notin t
      <4>0. t \in P
        BY <2>3, <3>2
      <4>1. t \ {Max(t)} \in P
        BY <4>0
      <4>2. h[t] = g[t] /\ h[t \ {Max(t)}] = g[t \ {Max(t)}]
        BY <2>5, <4>0, <4>1
      <4> HIDE DEF h, P
      <4> QED BY <2>2, <4>0, <4>2
    <3> QED BY <3>1, <3>2
  <2>7. h = [t \in Q |-> h[t]]
    OBVIOUS
  <2> HIDE DEF h
  <2>8. IsReadIter(h, layout, c0, m)
    BY <2>6, <2>7 DEF IsReadIter
  <2> QED BY <2>8
<1> HIDE DEF T
<1>3. n \in T
  <2>1. 0 .. n \subseteq T
    BY <1>1, <1>2, SetInduction
  <2> QED BY <2>1
<1> QED BY <1>3 DEF T

IsReading(h, c0, layout, n) ==
    /\ h[0] = c0
    /\ \A i \in 1 .. n : h[i] = ReadField(h[i - 1], layout[i])
    /\ ReadFields(c0, layout) = h[n]

\* A layout is read field by field.
LEMMA ReadingExists ==
  ASSUME NEW c0, NEW layout, NEW n \in Nat, DOMAIN layout = 1 .. n
  PROVE  \E h : IsReading(h, c0, layout, n)
<1> DEFINE D(f) == [t \in SUBSET (1 .. n) |->
                      IF t = {} THEN c0 ELSE ReadField(f[t \ {Max(t)}], layout[Max(t)])]
           G == CHOOSE f : f = D(f)
<1>1. ReadFields(c0, layout) = G[1 .. n]
  BY Zenon DEF ReadFields, FoldLeft, MapThenFoldSet
<1>2. PICK g : IsReadIter(g, layout, c0, n)
  BY ReadIterExists
<1>3. g = D(g)
  BY <1>2, Zenon DEF IsReadIter
<1>4. G = D(G)
  <2> HIDE DEF D
  <2> QED BY <1>3, Zenon
<1>5. \A t \in SUBSET (1 .. n) :
         G[t] = IF t = {} THEN c0 ELSE ReadField(G[t \ {Max(t)}], layout[Max(t)])
  <2> HIDE DEF G
  <2> QED BY <1>4
<1> HIDE DEF G, D
<1> DEFINE h == [i \in 0 .. n |-> G[1 .. i]]
<1>6. h[0] = c0
  <2>1. 1 .. 0 = {}
    BY PrefixSets
  <2>2. h[0] = G[1 .. 0] /\ {} \in SUBSET (1 .. n)
    OBVIOUS
  <2>3. G[{}] = c0
    BY <1>5, <2>2
  <2> HIDE DEF h
  <2> QED BY <2>1, <2>2, <2>3
<1>7. ASSUME NEW i \in 1 .. n PROVE h[i] = ReadField(h[i - 1], layout[i])
  <2>1. /\ 1 .. i \in SUBSET (1 .. n) /\ 1 .. i # {}
        /\ Max(1 .. i) = i /\ (1 .. i) \ {i} = 1 .. i - 1
    BY PrefixSets
  <2>2. G[1 .. i] = ReadField(G[1 .. i - 1], layout[i])
    BY <1>5, <2>1
  <2>3. h[i] = G[1 .. i] /\ h[i - 1] = G[1 .. i - 1]
    OBVIOUS
  <2> QED BY <2>2, <2>3
<1>8. h[n] = G[1 .. n]
  OBVIOUS
<1> HIDE DEF h
<1>9. IsReading(h, c0, layout, n)
  BY <1>1, <1>6, <1>7, <1>8 DEF IsReading
<1> QED BY <1>9

\* Reading f where w was written gives the values o; Strict, if w is not cut.
Reads(f, w, o) ==
    /\ w \in Seq(Byte) /\ o \in Seq(Seq(Int))
    /\ \A c : (Open(c) /\ Holds(c.data, c.pos, w)) =>
         Result(c, ReadField(c, f), w, o) /\ Succeeds(c, ReadField(c, f), w)
Strict(f, w) ==
    /\ Len(w) >= 1
    /\ \A c : (Open(c) /\ Holds(c.data, c.pos, w)) => Refuses(c, ReadField(c, f), w)

\* What every step of reading a layout has read, hs being what was written for
\* its first fields and ks their values.
LEMMA LayoutReads ==
  ASSUME NEW n \in Nat, NEW layout, NEW ws \in Seq(Seq(Byte)), Len(ws) = n,
         NEW os \in Seq(Seq(Seq(Int))), Len(os) = n,
         \A i \in 1 .. n : Reads(layout[i], ws[i], os[i]),
         NEW hs, FlattenRun(hs, ws, Byte), NEW ks, FlattenRun(ks, os, Seq(Int)),
         NEW c, Open(c), Holds(c.data, c.pos, hs[n]),
         NEW h, IsReading(h, c, layout, n)
  PROVE  /\ \A i \in 0 .. n : Result(c, h[i], hs[i], ks[i]) /\ Succeeds(c, h[i], hs[i])
         /\ \A i \in 1 .. n :
              /\ h[i].ok => h[i - 1].ok
              /\ h[i - 1].ok => /\ Result(h[i - 1], h[i], ws[i], os[i])
                                /\ Open(h[i - 1])
              /\ Strict(layout[i], ws[i]) => Refuses(c, h[i], hs[i])
<1>1. /\ \A i \in 0 .. n : hs[i] \in Seq(Byte) /\ ks[i] \in Seq(Seq(Int))
      /\ \A i \in 1 .. n : /\ hs[i] = hs[i - 1] \o ws[i] /\ ks[i] = ks[i - 1] \o os[i]
                           /\ ws[i] \in Seq(Byte) /\ os[i] \in Seq(Seq(Int))
                           /\ h[i] = ReadField(h[i - 1], layout[i])
                           /\ i - 1 \in 0 .. n
      /\ hs[0] = << >> /\ ks[0] = << >> /\ h[0] = c
  <2>1. /\ hs \in [0 .. n -> Seq(Byte)] /\ hs[0] = << >>
        /\ \A i \in 1 .. n : hs[i] = hs[i - 1] \o ws[i]
    BY Zenon DEF FlattenRun
  <2>2. /\ ks \in [0 .. n -> Seq(Seq(Int))] /\ ks[0] = << >>
        /\ \A i \in 1 .. n : ks[i] = ks[i - 1] \o os[i]
    BY Zenon DEF FlattenRun
  <2>3. h[0] = c /\ \A i \in 1 .. n : h[i] = ReadField(h[i - 1], layout[i])
    BY Zenon DEF IsReading
  <2>4. \A i \in 1 .. n : ws[i] \in Seq(Byte) /\ os[i] \in Seq(Seq(Int))
    BY Zenon DEF Reads
  <2>5. \A i \in 1 .. n : i - 1 \in 0 .. n
    OBVIOUS
  <2>6. \A i \in 0 .. n : hs[i] \in Seq(Byte) /\ ks[i] \in Seq(Seq(Int))
    BY <2>1, <2>2, Zenon
  <2> QED BY <2>1, <2>2, <2>3, <2>4, <2>5, <2>6, Zenon
<1>2. \A i \in 0 .. n : Holds(c.data, c.pos, hs[i])
  <2> DEFINE T == {k \in 0 .. n : Holds(c.data, c.pos, hs[n - k])}
  <2>1. 0 \in T
    OBVIOUS
  <2>2. ASSUME NEW k \in 1 .. n, k - 1 \in T PROVE k \in T
    <3>1. n - (k - 1) \in 1 .. n /\ (n - (k - 1)) - 1 = n - k
      OBVIOUS
    <3>2. PICK i \in 1 .. n : i = n - (k - 1)
      BY <3>1
    <3>3. Holds(c.data, c.pos, hs[i - 1] \o ws[i])
      BY <1>1, <2>2, <3>2
    <3>4. hs[i - 1] \in Seq(Byte) /\ ws[i] \in Seq(Byte) /\ c.data \in Seq(Byte) /\ c.pos \in Nat
      BY <1>1 DEF Open, Cursors
    <3>5. Holds(c.data, c.pos, hs[i - 1])
      BY <3>3, <3>4, HoldsParts
    <3> QED BY <3>1, <3>2, <3>5
  <2> HIDE DEF T
  <2>3. 0 .. n \subseteq T
    BY <2>1, <2>2, SetInduction
  <2> SUFFICES ASSUME NEW i \in 0 .. n PROVE Holds(c.data, c.pos, hs[i])
    OBVIOUS
  <2>4. n - i \in T /\ n - (n - i) = i
    BY <2>3
  <2> QED BY <2>4 DEF T
<1>3. ASSUME NEW i \in 1 .. n, Result(c, h[i - 1], hs[i - 1], ks[i - 1]),
             Succeeds(c, h[i - 1], hs[i - 1])
      PROVE  /\ Result(c, h[i], hs[i], ks[i]) /\ Succeeds(c, h[i], hs[i])
             /\ h[i].ok => h[i - 1].ok
             /\ h[i - 1].ok => /\ Result(h[i - 1], h[i], ws[i], os[i])
                               /\ Open(h[i - 1])
             /\ Strict(layout[i], ws[i]) => Refuses(c, h[i], hs[i])
  <2>1. PICK d, e, f : d = h[i - 1] /\ e = h[i] /\ f = layout[i]
    OBVIOUS
  <2>2. PICK w1 \in Seq(Byte), w2 \in Seq(Byte), o1 \in Seq(Seq(Int)), o2 \in Seq(Seq(Int)) :
          w1 = hs[i - 1] /\ w2 = ws[i] /\ o1 = ks[i - 1] /\ o2 = os[i]
    BY <1>1
  <2>3. /\ e = ReadField(d, f) /\ hs[i] = w1 \o w2 /\ ks[i] = o1 \o o2
        /\ Result(c, d, w1, o1) /\ Succeeds(c, d, w1) /\ Reads(f, w2, o2)
        /\ Holds(c.data, c.pos, w1 \o w2)
    <3>1. i \in 0 .. n
      OBVIOUS
    <3>2. Holds(c.data, c.pos, hs[i]) /\ Reads(layout[i], ws[i], os[i])
      BY <1>2, <3>1
    <3> QED BY <1>1, <1>3, <2>1, <2>2, <3>2, Zenon
  <2>4. ~d.ok => e = d
    BY <2>3 DEF ReadField
  <2>5. (d.ok /\ Holds(d.data, d.pos, w2)) => Result(d, e, w2, o2) /\ Succeeds(d, e, w2)
    BY <2>3 DEF Reads, Result
  <2>6. ~d.ok => ~e.ok
    BY <2>4
  <2>7. /\ Result(c, e, w1 \o w2, o1 \o o2) /\ Succeeds(c, e, w1 \o w2)
        /\ d.ok => Open(d) /\ d.data = c.data /\ Holds(d.data, d.pos, w2)
    BY <2>3, <2>5, <2>6, Compose
  <2>8. ASSUME Strict(f, w2) PROVE Refuses(c, e, w1 \o w2)
    <3>1. d.ok => Refuses(d, e, w2)
      BY <2>3, <2>7, <2>8 DEF Strict
    <3>2. Len(w2) >= 1
      BY <2>8 DEF Strict
    <3> QED BY <2>3, <2>6, <3>1, <3>2, ComposeRefuses
  <2> QED BY <2>1, <2>2, <2>3, <2>5, <2>6, <2>7, <2>8
<1> DEFINE T == {i \in 0 .. n : Result(c, h[i], hs[i], ks[i]) /\ Succeeds(c, h[i], hs[i])}
<1>4. 0 \in T
  <2>0. << >> \in Seq(Byte) /\ << >> \in Seq(Seq(Int))
    BY EmptySeq
  <2>1. PICK w \in Seq(Byte), o \in Seq(Seq(Int)) : w = << >> /\ o = << >>
    BY <2>0, Zenon
  <2>2. Len(w) = 0 /\ Len(o) = 0 /\ c.out \o o = c.out
    BY <2>1, NoValues
  <2>3. c.pos \in Nat /\ Len(c.data) \in Nat /\ c.pos <= Len(c.data) /\ c.ok
    BY LenProperties DEF Open, Cursors
  <2>4. Result(c, c, w, o) /\ Succeeds(c, c, w)
    BY <2>2, <2>3 DEF Result, Succeeds
  <2>5. Result(c, h[0], hs[0], ks[0]) /\ Succeeds(c, h[0], hs[0])
    BY <1>1, <2>1, <2>4, Zenon
  <2> QED BY <2>5
<1>5. ASSUME NEW i \in 1 .. n, i - 1 \in T PROVE i \in T
  BY <1>3, <1>5
<1> HIDE DEF T
<1>6. 0 .. n \subseteq T
  BY <1>4, <1>5, SetInduction
<1>7. \A i \in 0 .. n : Result(c, h[i], hs[i], ks[i]) /\ Succeeds(c, h[i], hs[i])
  BY <1>6 DEF T
<1> QED BY <1>1, <1>3, <1>7

\* The values of a layout with one value a field.
LEMMA SingleValues ==
  ASSUME NEW V, NEW vs \in Seq(V), NEW ks, FlattenRun(ks, [i \in 1 .. Len(vs) |-> <<vs[i]>>], V)
  PROVE  /\ \A i \in 0 .. Len(vs) : Len(ks[i]) = i /\ \A j \in 1 .. i : ks[i][j] = vs[j]
         /\ ks[Len(vs)] = vs
<1> DEFINE n == Len(vs)
           os == [i \in 1 .. n |-> <<vs[i]>>]
           T == {i \in 0 .. n : Len(ks[i]) = i /\ \A j \in 1 .. i : ks[i][j] = vs[j]}
<1>1. n \in Nat /\ \A i \in 1 .. n : vs[i] \in V
  BY LenProperties
<1>2. Len(os) = n
  <2>1. \A v \in V : <<v>> \in Seq(V)
    OBVIOUS
  <2>2. os \in [1 .. n -> Seq(V)]
    BY <1>1, <2>1
  <2>3. os \in Seq(Seq(V))
    <3> HIDE DEF os
    <3> QED BY <1>1, <2>2, SeqDef
  <2> HIDE DEF os
  <2> QED BY <1>1, <2>2, <2>3, LenProperties
<1>3. /\ ks \in [0 .. n -> Seq(V)] /\ ks[0] = << >>
      /\ \A i \in 1 .. n : ks[i] = ks[i - 1] \o os[i]
  BY <1>2 DEF FlattenRun
<1>4. 0 \in T
  BY <1>1, <1>3
<1>5. ASSUME NEW i \in 1 .. n, i - 1 \in T PROVE i \in T
  <2>1. PICK a \in Seq(V), v \in V : a = ks[i - 1] /\ v = vs[i]
    <3>1. i - 1 \in 0 .. n
      BY <1>1
    <3>2. ks[i - 1] \in Seq(V)
      BY <1>3, <3>1, Zenon
    <3> QED BY <1>1, <3>2, Zenon
  <2>2. PICK b : b = <<v>>
    OBVIOUS
  <2>3. b \in Seq(V) /\ Len(b) = 1 /\ b[1] = v
    BY <2>2
  <2>4. Len(a) = i - 1 /\ \A j \in 1 .. i - 1 : a[j] = vs[j]
    BY <1>5, <2>1
  <2>5. ks[i] = a \o b
    BY <1>3, <2>1, <2>2
  <2>6. /\ Len(a \o b) = Len(a) + Len(b)
        /\ \A k \in 1 .. Len(a) : (a \o b)[k] = a[k]
        /\ \A k \in 1 .. Len(b) : (a \o b)[Len(a) + k] = b[k]
    <3>1. b \in Seq(V)
      BY <2>3
    <3> DEFINE G(s, t) == /\ Len(s \o t) = Len(s) + Len(t)
                          /\ \A k \in 1 .. Len(s) : (s \o t)[k] = s[k]
                          /\ \A k \in 1 .. Len(t) : (s \o t)[Len(s) + k] = t[k]
    <3>2. \A s, t \in Seq(V) : G(s, t)
      BY ConcatProperties, LenProperties
    <3> HIDE DEF G
    <3>3. G(a, b)
      BY <3>1, <3>2
    <3> QED BY <3>3 DEF G
  <2>7. Len(a \o b) = i /\ \A j \in 1 .. i - 1 : (a \o b)[j] = vs[j]
    BY <2>3, <2>4, <2>6
  <2>8. (a \o b)[i] = vs[i]
    <3>1. 1 \in 1 .. Len(b) /\ Len(a) + 1 = i
      BY <2>3, <2>4
    <3>2. (a \o b)[Len(a) + 1] = b[1]
      BY <2>6, <3>1, Zenon
    <3> QED BY <2>1, <2>3, <3>1, <3>2
  <2>9. \A j \in 1 .. i : j = i \/ j \in 1 .. i - 1
    OBVIOUS
  <2>10. Len(ks[i]) = i /\ \A j \in 1 .. i : ks[i][j] = vs[j]
    BY <2>5, <2>7, <2>8, <2>9, Zenon
  <2>11. i \in 0 .. n
    BY <1>1
  <2> QED BY <2>10, <2>11
<1> HIDE DEF T
<1>6. 0 .. n \subseteq T
  BY <1>1, <1>4, <1>5, SetInduction
<1>7. \A i \in 0 .. n : Len(ks[i]) = i /\ \A j \in 1 .. i : ks[i][j] = vs[j]
  BY <1>6 DEF T
<1>8. ks[n] = vs
  <2>1. n \in 0 .. n /\ ks[n] \in Seq(V)
    BY <1>1, <1>3
  <2> QED BY <1>7, <2>1, SeqEqual
<1> QED BY <1>7, <1>8

\* A function on 1 .. n is a sequence of n elements.
LEMMA IndexedSeq ==
  ASSUME NEW n \in Nat, NEW A, NEW f \in [1 .. n -> A]
  PROVE  f \in Seq(A) /\ Len(f) = n /\ \A i \in 1 .. n : f[i] \in A
<1>1. f \in Seq(A)
  BY SeqDef
<1> QED BY <1>1, LenProperties

\* A sequence of one value.
LEMMA OneValue ==
  ASSUME NEW V, NEW v \in V
  PROVE <<v>> \in Seq(V) /\ Len(<<v>>) = 1 /\ <<v>>[1] = v
OBVIOUS

\* A layout and values that fit it.
Fits(layout, vs, n) ==
    /\ n \in Nat /\ DOMAIN layout = 1 .. n /\ vs \in Seq(Seq(Int)) /\ Len(vs) = n
    /\ \A i \in 1 .. n : FieldOK(layout[i]) /\ Encodable(layout[i], vs[i])

\* The writer's chunks, field by field, and what reading them gives.
Chunks(layout, vs, n, ws, os) ==
    /\ ws = [i \in 1 .. n |-> WriteField(layout[i], vs[i])]
    /\ os = [i \in 1 .. n |-> <<vs[i]>>]
    /\ ws \in Seq(Seq(Byte)) /\ Len(ws) = n
    /\ os \in Seq(Seq(Seq(Int))) /\ Len(os) = n
    /\ \A i \in 1 .. n : /\ Reads(layout[i], ws[i], os[i])
                         /\ layout[i].as \in Checked => Strict(layout[i], ws[i])
                         /\ Len(ws[i]) >= 1 /\ ws[i] \in Seq(Byte)
    /\ WriteFields(layout, vs) = FlattenSeq(ws)

\* Every layout and values that fit it have their chunks.
LEMMA ChunksExist ==
  ASSUME NEW layout, NEW vs, NEW n, Fits(layout, vs, n)
  PROVE  \E ws, os : Chunks(layout, vs, n, ws, os)
<1>0. PICK ws, os : /\ ws = [i \in 1 .. n |-> WriteField(layout[i], vs[i])]
                    /\ os = [i \in 1 .. n |-> <<vs[i]>>]
  OBVIOUS
<1>1. /\ n \in Nat /\ vs \in Seq(Seq(Int)) /\ Len(vs) = n
      /\ \A i \in 1 .. n : FieldOK(layout[i]) /\ Encodable(layout[i], vs[i])
  BY DEF Fits
<1>2. \A i \in 1 .. n : vs[i] \in Seq(Int)
  BY <1>1, LenProperties
<1>3. \A i \in 1 .. n : /\ ws[i] = WriteField(layout[i], vs[i])
                        /\ os[i] = <<vs[i]>>
  BY <1>0
<1>4. ASSUME NEW i \in 1 .. n
      PROVE  /\ ws[i] \in Seq(Byte) /\ Len(ws[i]) >= 1 /\ os[i] \in Seq(Seq(Int))
             /\ Reads(layout[i], ws[i], os[i])
             /\ layout[i].as \in Checked => Strict(layout[i], ws[i])
  <2>0. PICK v \in Seq(Int) : v = vs[i]
    BY <1>2
  <2>1. PICK f, s, o : f = layout[i] /\ v = vs[i] /\ s = ws[i] /\ o = os[i]
    BY <2>0
  <2>2. FieldOK(f) /\ Encodable(f, v) /\ s = WriteField(f, v) /\ o = <<v>>
    BY <1>1, <1>3, <2>1, Zenon
  <2>3. s \in Seq(Byte) /\ Len(s) >= 1
    BY <2>2, WriteIs
  <2>4. \A c : (Open(c) /\ Holds(c.data, c.pos, s)) =>
           /\ Result(c, ReadField(c, f), s, o) /\ Succeeds(c, ReadField(c, f), s)
           /\ f.as \in Checked => Refuses(c, ReadField(c, f), s)
    <3> SUFFICES ASSUME NEW c, Open(c), Holds(c.data, c.pos, s)
                 PROVE  /\ Result(c, ReadField(c, f), s, o) /\ Succeeds(c, ReadField(c, f), s)
                        /\ f.as \in Checked => Refuses(c, ReadField(c, f), s)
      OBVIOUS
    <3>1. PICK d : d = ReadField(c, f)
      OBVIOUS
    <3>2. Holds(c.data, c.pos, WriteField(f, v))
      BY <2>2
    <3>3. /\ Result(c, d, s, <<v>>) /\ Succeeds(c, d, s)
          /\ f.as \in Checked => Refuses(c, d, s)
      BY <2>2, <3>1, <3>2, FieldReads
    <3> QED BY <2>2, <3>1, <3>3, Zenon
  <2>5. o \in Seq(Seq(Int))
    BY <2>2, OneValue
  <2>6. Reads(f, s, o) /\ (f.as \in Checked => Strict(f, s))
    BY <2>3, <2>4, <2>5 DEF Reads, Strict
  <2> QED BY <2>1, <2>3, <2>5, <2>6, Zenon
<1>5. ws \in [1 .. n -> Seq(Byte)] /\ os \in [1 .. n -> Seq(Seq(Int))]
  <2>1. \A i \in 1 .. n : WriteField(layout[i], vs[i]) \in Seq(Byte) /\ <<vs[i]>> \in Seq(Seq(Int))
    BY <1>3, <1>4, Zenon
  <2> QED BY <1>0, <2>1, Zenon
<1>6. /\ ws \in Seq(Seq(Byte)) /\ Len(ws) = n
      /\ os \in Seq(Seq(Seq(Int))) /\ Len(os) = n
  <2>1. \A A, f : f \in [1 .. n -> A] => f \in Seq(A) /\ Len(f) = n
    BY <1>1, IndexedSeq
  <2> QED BY <1>5, <2>1, Zenon
<1>7. WriteFields(layout, vs) = FlattenSeq(ws)
  BY <1>0, <1>1, Zenon DEF WriteFields
<1>8. Chunks(layout, vs, n, ws, os)
  BY <1>0, <1>4, <1>6, <1>7 DEF Chunks
<1> QED BY <1>8

\* The fields of a layout are read back; if the last one is a byte string, only
\* whole.
LEMMA FieldsRead ==
  ASSUME NEW layout, NEW vs, NEW n, Fits(layout, vs, n), NEW s, s = WriteFields(layout, vs)
  PROVE  /\ s \in Seq(Byte) /\ Len(s) >= n
         /\ \A c : (Open(c) /\ Holds(c.data, c.pos, s)) =>
              /\ Result(c, ReadFields(c, layout), s, vs)
              /\ Succeeds(c, ReadFields(c, layout), s)
              /\ (n = 0 \/ layout[n].as \in Checked) => Refuses(c, ReadFields(c, layout), s)
<1>0. PICK ws, os : Chunks(layout, vs, n, ws, os)
  BY ChunksExist
<1>1. ws = [i \in 1 .. n |-> WriteField(layout[i], vs[i])] /\ os = [i \in 1 .. n |-> <<vs[i]>>]
  BY <1>0 DEF Chunks
<1>2. /\ ws \in Seq(Seq(Byte)) /\ Len(ws) = n
      /\ os \in Seq(Seq(Seq(Int))) /\ Len(os) = n
      /\ \A i \in 1 .. n : /\ Reads(layout[i], ws[i], os[i])
                           /\ layout[i].as \in Checked => Strict(layout[i], ws[i])
                           /\ Len(ws[i]) >= 1 /\ ws[i] \in Seq(Byte)
      /\ s = FlattenSeq(ws)
  BY <1>0 DEF Chunks
<1>3. n \in Nat /\ DOMAIN layout = 1 .. n /\ vs \in Seq(Seq(Int)) /\ Len(vs) = n
  BY DEF Fits
<1>4. PICK hs : FlattenRun(hs, ws, Byte)
  BY <1>2, FlattenPrefixes
<1>5. PICK ks : FlattenRun(ks, os, Seq(Int))
  BY <1>2, FlattenPrefixes
<1>6. ks[n] = vs
  <2>1. FlattenRun(ks, [i \in 1 .. Len(vs) |-> <<vs[i]>>], Seq(Int))
    BY <1>1, <1>3, <1>5
  <2> QED BY <1>3, <2>1, SingleValues
<1>7. /\ hs[n] = s /\ hs \in [0 .. n -> Seq(Byte)] /\ hs[0] = << >>
      /\ \A i \in 1 .. n : hs[i] = hs[i - 1] \o ws[i]
  BY <1>2, <1>4, Zenon DEF FlattenRun
<1>8. s \in Seq(Byte) /\ Len(s) >= n
  <2> DEFINE T == {i \in 0 .. n : Len(hs[i]) >= i}
  <2>1. 0 \in T
    BY <1>3, <1>7
  <2>2. ASSUME NEW i \in 1 .. n, i - 1 \in T PROVE i \in T
    <3>1. i - 1 \in 0 .. n /\ i \in 0 .. n
      BY <1>3
    <3>2. PICK a \in Seq(Byte), b \in Seq(Byte) : a = hs[i - 1] /\ b = ws[i]
      BY <1>2, <1>7, <3>1, Zenon
    <3>3. Len(a \o b) = Len(a) + Len(b) /\ Len(a) \in Nat /\ Len(b) \in Nat
      BY ConcatProperties, LenProperties
    <3>4. Len(a) >= i - 1 /\ Len(b) >= 1
      BY <1>2, <2>2, <3>2
    <3>5. hs[i] = a \o b
      BY <1>7, <3>2
    <3> QED BY <3>1, <3>3, <3>4, <3>5
  <2> HIDE DEF T
  <2>3. 0 .. n \subseteq T
    BY <1>3, <2>1, <2>2, SetInduction
  <2>4. n \in T /\ n \in 0 .. n
    BY <1>3, <2>3
  <2>5. hs[n] \in Seq(Byte)
    BY <1>7, <2>4
  <2> QED BY <1>7, <2>4, <2>5 DEF T
<1>9. ASSUME NEW c, Open(c), Holds(c.data, c.pos, s), NEW d, d = ReadFields(c, layout)
      PROVE  /\ Result(c, d, s, vs) /\ Succeeds(c, d, s)
             /\ (n = 0 \/ layout[n].as \in Checked) => Refuses(c, d, s)
  <2>1. PICK h : IsReading(h, c, layout, n)
    BY <1>3, ReadingExists
  <2>2. d = h[n]
    BY <1>9, <2>1 DEF IsReading
  <2>3. Holds(c.data, c.pos, hs[n])
    BY <1>7, <1>9
  <2>4. /\ \A i \in 0 .. n : Result(c, h[i], hs[i], ks[i]) /\ Succeeds(c, h[i], hs[i])
        /\ \A i \in 1 .. n : Strict(layout[i], ws[i]) => Refuses(c, h[i], hs[i])
    BY <1>2, <1>3, <1>4, <1>5, <1>9, <2>1, <2>3, LayoutReads
  <2>5. Result(c, d, s, vs) /\ Succeeds(c, d, s)
    BY <1>3, <1>6, <1>7, <2>2, <2>4
  <2>6. CASE n = 0
    <3>1. Len(s) = 0
      BY <1>7, <2>6
    <3>2. c.pos <= Len(c.data) /\ c.pos \in Nat /\ Len(c.data) \in Nat
      BY <1>9, LenProperties DEF Open, Cursors
    <3>3. Refuses(c, d, s)
      BY <3>1, <3>2 DEF Refuses
    <3> QED BY <2>5, <3>3
  <2>7. CASE n # 0 /\ layout[n].as \in Checked
    <3>1. n \in 1 .. n
      BY <1>3, <2>7
    <3>2. Refuses(c, h[n], hs[n])
      BY <1>2, <2>4, <2>7, <3>1
    <3> QED BY <1>7, <2>2, <2>5, <3>2
  <2> QED BY <2>5, <2>6, <2>7
<1> QED BY <1>8, <1>9

\* Reading a whole layout where w was written gives the values o.
RunReads(layout, w, o) ==
    /\ w \in Seq(Byte) /\ o \in Seq(Seq(Int))
    /\ \A c : (Open(c) /\ Holds(c.data, c.pos, w)) =>
         /\ Result(c, ReadFields(c, layout), w, o)
         /\ Succeeds(c, ReadFields(c, layout), w)
         /\ Refuses(c, ReadFields(c, layout), w)

\* A layout whose last field is checked is read whole or refused.
LEMMA CheckedRun ==
  ASSUME NEW layout, NEW vs, NEW n, Fits(layout, vs, n), n = 0 \/ layout[n].as \in Checked,
         NEW s, s = WriteFields(layout, vs)
  PROVE  RunReads(layout, s, vs) /\ Len(s) >= n
<1>1. vs \in Seq(Seq(Int))
  BY DEF Fits
<1>2. /\ s \in Seq(Byte) /\ Len(s) >= n
      /\ \A c : (Open(c) /\ Holds(c.data, c.pos, s)) =>
              /\ Result(c, ReadFields(c, layout), s, vs)
              /\ Succeeds(c, ReadFields(c, layout), s)
              /\ (n = 0 \/ layout[n].as \in Checked) => Refuses(c, ReadFields(c, layout), s)
  BY FieldsRead
<1> QED BY <1>1, <1>2 DEF RunReads

\* A list: its count, then its entries.
LEMMA ListReads ==
  ASSUME NEW m \in Nat, m < Power(Base, VarWidths[3]), NEW layout, NEW w, NEW o,
         RunReads(Times(m, layout), w, o), NEW s, s = EncodeVarint(m) \o w
  PROVE  /\ s \in Seq(Byte) /\ Len(s) >= 1 + Len(w)
         /\ \A c : (Open(c) /\ Holds(c.data, c.pos, s)) =>
              /\ Result(c, ReadList(c, layout), s, o)
              /\ Succeeds(c, ReadList(c, layout), s)
              /\ Refuses(c, ReadList(c, layout), s)
<1>1. PICK u : u = EncodeVarint(m)
  OBVIOUS
<1>2. /\ u \in Seq(Byte) /\ Len(u) >= 1
      /\ \A c : (Open(c) /\ Holds(c.data, c.pos, u)) =>
              /\ Result(c, ReadVarint(c), u, << >>)
              /\ Succeeds(c, ReadVarint(c), u)
              /\ Refuses(c, ReadVarint(c), u)
              /\ ReadVarint(c).ok => ReadVarint(c).n = m
  BY <1>1, VarintRead
<1>3. w \in Seq(Byte) /\ o \in Seq(Seq(Int)) /\ s = u \o w
  BY <1>1 DEF RunReads
<1>4. s \in Seq(Byte) /\ Len(s) >= 1 + Len(w)
  BY <1>2, <1>3, ConcatProperties, LenProperties
<1>5. << >> \in Seq(Seq(Int)) /\ << >> \o o = o
  BY <1>3, ConcatEmptySeq, EmptySeq
<1>6. ASSUME NEW c, Open(c), Holds(c.data, c.pos, s), NEW e, e = ReadList(c, layout)
      PROVE  Result(c, e, s, o) /\ Succeeds(c, e, s) /\ Refuses(c, e, s)
  <2>1. PICK d : d = ReadVarint(c)
    OBVIOUS
  <2>2. e = IF d.ok THEN ReadFields(d, Times(d.n, layout)) ELSE d
    BY <1>6, <2>1 DEF ReadList
  <2>3. c.data \in Seq(Byte) /\ c.pos \in Nat
    BY <1>6 DEF Open, Cursors
  <2>4. Holds(c.data, c.pos, u \o w)
    BY <1>3, <1>6
  <2>5. Holds(c.data, c.pos, u)
    BY <1>2, <1>3, <2>3, <2>4, HoldsParts
  <2>6. /\ Result(c, d, u, << >>) /\ Succeeds(c, d, u) /\ Refuses(c, d, u)
        /\ d.ok => d.n = m
    BY <1>2, <1>6, <2>1, <2>5
  <2>7. ~d.ok => ~e.ok
    BY <2>2
  <2>8. d.ok => e = ReadFields(d, Times(m, layout))
    BY <2>2, <2>6
  <2>9. (d.ok /\ Holds(d.data, d.pos, w)) =>
           Result(d, e, w, o) /\ Succeeds(d, e, w) /\ Refuses(d, e, w)
    <3> SUFFICES ASSUME d.ok, Holds(d.data, d.pos, w)
                 PROVE  Result(d, e, w, o) /\ Succeeds(d, e, w) /\ Refuses(d, e, w)
      OBVIOUS
    <3>1. Open(d)
      BY <2>6 DEF Result
    <3> QED BY <2>8, <3>1 DEF RunReads
  <2>10. PICK z \in Seq(Seq(Int)) : z = << >>
    BY <1>5
  <2>11. /\ Result(c, e, u \o w, z \o o) /\ Succeeds(c, e, u \o w)
         /\ d.ok => Open(d) /\ d.data = c.data /\ Holds(d.data, d.pos, w)
    <3>1. Result(c, d, u, z)
      BY <2>6, <2>10
    <3> QED BY <1>2, <1>3, <1>6, <2>4, <2>6, <2>7, <2>9, <2>10, <3>1, Compose
  <2>12. Refuses(c, e, u \o w)
    <3>1. Result(c, d, u, z)
      BY <2>6, <2>10
    <3> QED BY <1>2, <1>3, <1>6, <2>6, <2>7, <2>9, <2>10, <2>11, <3>1, ComposeRefuses
  <2> QED BY <1>3, <1>5, <2>10, <2>11, <2>12
<1> QED BY <1>4, <1>6

-----------------------------------------------------------------------------
(***************************************************************************)
(* The layouts of lists.                                                   *)
(***************************************************************************)
LEMMA TimesOne ==
  ASSUME NEW f, NEW m \in Nat
  PROVE  Times(m, <<f>>) = [i \in 1 .. m |-> f] /\ Len(Times(m, <<f>>)) = m
<1> DEFINE V == {f}
<1>1. PICK vs : vs = [i \in 1 .. m |-> f]
  OBVIOUS
<1>2. vs \in [1 .. m -> V]
  BY <1>1
<1>3. vs \in Seq(V) /\ Len(vs) = m
  BY <1>2, IndexedSeq
<1>4. PICK ss : ss = [i \in 1 .. Len(vs) |-> <<vs[i]>>]
  OBVIOUS
<1>5. ss \in [1 .. m -> Seq(V)]
  <2>1. \A v \in V : <<v>> \in Seq(V)
    OBVIOUS
  <2>2. \A i \in 1 .. m : <<vs[i]>> \in Seq(V)
    BY <1>2, <2>1
  <2> HIDE DEF V
  <2> QED BY <1>3, <1>4, <2>2
<1>6. ss \in Seq(Seq(V)) /\ Len(ss) = m
  <2>1. \A A, g : g \in [1 .. m -> A] => g \in Seq(A) /\ Len(g) = m
    BY IndexedSeq
  <2> HIDE DEF V
  <2> QED BY <1>5, <2>1, Zenon
<1>7. PICK ks : FlattenRun(ks, ss, V)
  <2> HIDE DEF V
  <2> QED BY <1>6, FlattenPrefixes
<1>8. ks[m] = vs
  <2> HIDE DEF V
  <2> QED BY <1>3, <1>4, <1>7, SingleValues
<1>9. FlattenSeq(ss) = vs
  BY <1>6, <1>7, <1>8, Zenon DEF FlattenRun
<1>10. ss = [i \in 1 .. m |-> <<f>>]
  BY <1>1, <1>3, <1>4
<1> QED BY <1>1, <1>3, <1>9, <1>10 DEF Times

\* A layout of two fields, repeated.
LEMMA TimesTwo ==
  ASSUME NEW f, NEW g, NEW m \in Nat
  PROVE  /\ DOMAIN Times(m, <<f, g>>) = 1 .. 2 * m /\ Len(Times(m, <<f, g>>)) = 2 * m
         /\ \A i \in 1 .. 2 * m : Times(m, <<f, g>>)[i] = IF i % 2 = 1 THEN f ELSE g
<1> DEFINE V == {f, g}
<1>1. PICK p : p = <<f, g>>
  OBVIOUS
<1>2. p \in Seq(V) /\ Len(p) = 2 /\ p[1] = f /\ p[2] = g
  BY <1>1
<1>3. PICK ss : ss = [i \in 1 .. m |-> p]
  OBVIOUS
<1> HIDE DEF V
<1>4. ss \in [1 .. m -> Seq(V)]
  BY <1>2, <1>3
<1>5. ss \in Seq(Seq(V)) /\ Len(ss) = m
  <2>1. \A A, h : h \in [1 .. m -> A] => h \in Seq(A) /\ Len(h) = m
    BY IndexedSeq
  <2> QED BY <1>4, <2>1, Zenon
<1>6. PICK ks : FlattenRun(ks, ss, V)
  BY <1>5, FlattenPrefixes
<1>7. /\ ks \in [0 .. m -> Seq(V)] /\ ks[0] = << >> /\ ks[m] = FlattenSeq(ss)
      /\ \A i \in 1 .. m : ks[i] = ks[i - 1] \o ss[i]
  BY <1>5, <1>6, Zenon DEF FlattenRun
<1> DEFINE T == {i \in 0 .. m : /\ Len(ks[i]) = 2 * i
                                /\ \A j \in 1 .. 2 * i : ks[i][j] = IF j % 2 = 1 THEN f ELSE g}
<1>8. 0 \in T
  BY <1>7
<1>9. ASSUME NEW i \in 1 .. m, i - 1 \in T PROVE i \in T
  <2>1. i - 1 \in 0 .. m /\ i \in 0 .. m
    OBVIOUS
  <2>2. PICK a \in Seq(V) : a = ks[i - 1]
    BY <1>7, <2>1, Zenon
  <2>3. Len(a) = 2 * i - 2 /\ \A j \in 1 .. 2 * i - 2 : a[j] = IF j % 2 = 1 THEN f ELSE g
    BY <1>9, <2>2
  <2>4. ks[i] = a \o p
    BY <1>3, <1>7, <2>2
  <2>5. /\ Len(a \o p) = Len(a) + 2
        /\ \A j \in 1 .. Len(a) + 2 : (a \o p)[j] = IF j <= Len(a) THEN a[j] ELSE p[j - Len(a)]
    <3>1. \A t, u \in Seq(V) :
             /\ Len(t \o u) = Len(t) + Len(u)
             /\ \A j \in 1 .. Len(t) + Len(u) :
                  (t \o u)[j] = IF j <= Len(t) THEN t[j] ELSE u[j - Len(t)]
      BY ConcatProperties
    <3>2. p \in Seq(V)
      BY <1>2
    <3>3. /\ Len(a \o p) = Len(a) + Len(p)
          /\ \A j \in 1 .. Len(a) + Len(p) :
               (a \o p)[j] = IF j <= Len(a) THEN a[j] ELSE p[j - Len(a)]
      BY <3>1, <3>2, Zenon
    <3> QED BY <1>2, <3>3
  <2>6. PICK b : b = a \o p
    OBVIOUS
  <2>7. Len(b) = 2 * i
    BY <2>3, <2>5, <2>6
  <2>8. ASSUME NEW j \in 1 .. 2 * i PROVE b[j] = IF j % 2 = 1 THEN f ELSE g
    <3>1. CASE j <= 2 * i - 2
      <4>1. b[j] = a[j]
        BY <2>3, <2>5, <2>6, <3>1
      <4> QED BY <2>3, <3>1, <4>1
    <3>2. CASE j = 2 * i - 1
      <4>1. b[j] = p[1]
        BY <2>3, <2>5, <2>6, <3>2
      <4>2. j % 2 = 1
        BY <3>2
      <4> QED BY <1>2, <4>1, <4>2
    <3>3. CASE j = 2 * i
      <4>1. b[j] = p[2]
        BY <2>3, <2>5, <2>6, <3>3
      <4>2. j % 2 # 1
        BY <3>3
      <4> QED BY <1>2, <4>1, <4>2
    <3> QED BY <3>1, <3>2, <3>3
  <2> QED BY <2>1, <2>4, <2>6, <2>7, <2>8
<1> HIDE DEF T
<1>10. 0 .. m \subseteq T
  BY <1>8, <1>9, SetInduction
<1>11. m \in T /\ m \in 0 .. m
  BY <1>10
<1>12. PICK t \in Seq(V) : t = FlattenSeq(ss)
  BY <1>7, <1>11, Zenon
<1>13. Len(t) = 2 * m /\ \A j \in 1 .. 2 * m : t[j] = IF j % 2 = 1 THEN f ELSE g
  BY <1>7, <1>11, <1>12 DEF T
<1>14. DOMAIN t = 1 .. 2 * m
  BY <1>13, LenProperties
<1>15. Times(m, <<f, g>>) = t
  BY <1>1, <1>3, <1>12 DEF Times
<1> QED BY <1>13, <1>14, <1>15

-----------------------------------------------------------------------------
(***************************************************************************)
(* The messages, one after the other: what serialise() wrote, parse()      *)
(* reads, and a payload cut short is refused.                              *)
(***************************************************************************)
\* A new cursor stands at the beginning of its data.
LEMMA CursorOpen ==
  ASSUME NEW p \in Seq(Byte)
  PROVE  /\ Open(Cursor(p)) /\ Cursor(p).data = p /\ Cursor(p).pos = 0 /\ Cursor(p).out = << >>
         /\ Cursor(p) \in Cursors
<1>1. << >> \in Seq(Seq(Int)) /\ Len(p) \in Nat
  BY EmptySeq, LenProperties
<1>2. Cursor(p) = [data |-> p, pos |-> 0, ok |-> TRUE, n |-> 0, out |-> << >>]
  BY DEF Cursor
<1>3. Cursor(p) \in Cursors
  BY <1>1, <1>2 DEF Cursors
<1> QED BY <1>1, <1>2, <1>3 DEF Open

\* A list as it is written.
LEMMA WriteListReads ==
  ASSUME NEW layout, NEW vs, NEW m \in Nat, m = Len(vs) \div Len(layout), NEW n,
         Fits(Times(m, layout), vs, n), n = 0 \/ Times(m, layout)[n].as \in Checked, m <= n,
         NEW s, s = WriteList(layout, vs)
  PROVE  /\ s \in Seq(Byte) /\ Len(s) >= 1 + n
         /\ Len(s) <= MaxMessageSize =>
              \A c : (Open(c) /\ Holds(c.data, c.pos, s)) =>
                /\ Result(c, ReadList(c, layout), s, vs)
                /\ Succeeds(c, ReadList(c, layout), s)
                /\ Refuses(c, ReadList(c, layout), s)
<1>1. PICK w, u : w = WriteFields(Times(m, layout), vs) /\ u = EncodeVarint(m)
  OBVIOUS
<1>2. RunReads(Times(m, layout), w, vs) /\ Len(w) >= n
  <2>1. PICK k : k = Times(m, layout)
    OBVIOUS
  <2>2. Fits(k, vs, n) /\ (n = 0 \/ k[n].as \in Checked) /\ w = WriteFields(k, vs)
    BY <1>1, <2>1
  <2>3. RunReads(k, w, vs) /\ Len(w) >= n
    BY <2>2, CheckedRun
  <2> QED BY <2>1, <2>3
<1>3. s = u \o w
  BY <1>1 DEF WriteList
<1>4. u \in Seq(Byte) /\ Len(u) >= 1
  BY <1>1, VarintType
<1>5. w \in Seq(Byte) /\ Len(w) \in Nat /\ n \in Nat
  BY <1>2, LenProperties DEF RunReads, Fits
<1>6. s \in Seq(Byte) /\ Len(s) >= 1 + n
  <2>1. u \o w \in Seq(Byte) /\ Len(u \o w) = Len(u) + Len(w) /\ Len(u) \in Nat
    BY <1>4, <1>5, ConcatProperties, LenProperties
  <2> QED BY <1>2, <1>3, <1>4, <1>5, <2>1
<1>7. ASSUME Len(s) <= MaxMessageSize
      PROVE  \A c : (Open(c) /\ Holds(c.data, c.pos, s)) =>
                /\ Result(c, ReadList(c, layout), s, vs)
                /\ Succeeds(c, ReadList(c, layout), s)
                /\ Refuses(c, ReadList(c, layout), s)
  <2>1. Power(Base, VarWidths[3]) \in Nat
    <3>1. PICK v \in Nat : v = VarWidths[3]
      BY BaseIs
    <3>2. Base \in Nat /\ Base >= 2
      BY BaseIs
    <3>3. Power(Base, v) \in Nat
      BY <3>2, PowerIs
    <3> QED BY <3>1, <3>3
  <2>2. m < Power(Base, VarWidths[3])
    <3>1. Len(s) \in Nat
      BY <1>6, LenProperties
    <3> QED BY <1>5, <1>6, <1>7, <2>1, <3>1, BaseIs
  <2>3. s = EncodeVarint(m) \o w
    BY <1>1, <1>3
  <2> QED BY <1>2, <2>2, <2>3, ListReads
<1> QED BY <1>6, <1>7

-----------------------------------------------------------------------------
(***************************************************************************)
(* The messages.                                                           *)
(***************************************************************************)
\* Parsing s as cmd gives vs; a payload cut short is refused.
Parses(cmd, s, vs) ==
    /\ s \in Seq(Byte)
    /\ \A p \in Seq(Byte) : Holds(p, 0, s) =>
         /\ Result(Cursor(p), ParseMessage(cmd, p), s, vs)
         /\ Succeeds(Cursor(p), ParseMessage(cmd, p), s)
         /\ Refuses(Cursor(p), ParseMessage(cmd, p), s)

\* A message as the peer has it.
Message(m) == m \in [cmd : DOMAIN CommandBytes, vals : Seq(Seq(Int))] /\ Sendable(m)

\* The fields of a message that can be sent.
LEMMA MessageIs ==
  ASSUME NEW m, Message(m)
  PROVE  /\ m.vals \in Seq(Seq(Int)) /\ Len(m.vals) \in Nat /\ Len(m.vals) = Len(Layout(m))
         /\ \A i \in 1 .. Len(m.vals) : Encodable(Layout(m)[i], m.vals[i])
         /\ Len(SerialiseMessage(m)) <= MaxMessageSize
         /\ m.cmd \in {"ping", "version", "inv", "headers", "getheaders", "block"}
<1>1. m \in [cmd : DOMAIN CommandBytes, vals : Seq(Seq(Int))]
  BY DEF Message
<1>2. DOMAIN CommandBytes = {"ping", "version", "inv", "headers", "getheaders", "block"}
  BY DEF CommandBytes
<1>3. Len(m.vals) \in Nat
  BY <1>1, LenProperties
<1> QED BY <1>1, <1>2, <1>3 DEF Message, Sendable

\* One field, as a read of its own.
LEMMA OneField ==
  ASSUME NEW f, FieldOK(f), NEW v \in Seq(Int), Encodable(f, v), NEW s, s = WriteField(f, v)
  PROVE  Reads(f, s, <<v>>) /\ Len(s) >= 1 /\ (f.as \in Checked => Strict(f, s))
<1>1. s \in Seq(Byte) /\ Len(s) >= 1
  BY WriteIs
<1>2. PICK o : o = <<v>>
  OBVIOUS
<1>3. o \in Seq(Seq(Int))
  BY <1>2, OneValue
<1>4. ASSUME NEW c, Open(c), Holds(c.data, c.pos, s), NEW d, d = ReadField(c, f)
      PROVE  /\ Result(c, d, s, o) /\ Succeeds(c, d, s) /\ (f.as \in Checked => Refuses(c, d, s))
  <2>1. Holds(c.data, c.pos, WriteField(f, v))
    BY <1>4
  <2>2. Result(c, d, s, <<v>>) /\ Succeeds(c, d, s) /\ (f.as \in Checked => Refuses(c, d, s))
    BY <1>4, <2>1, FieldReads
  <2> QED BY <1>2, <2>2
<1>5. Reads(f, s, o)
  BY <1>1, <1>3, <1>4 DEF Reads
<1>6. f.as \in Checked => Strict(f, s)
  BY <1>1, <1>4 DEF Strict
<1> QED BY <1>1, <1>2, <1>5, <1>6

\* PingMessage.
LEMMA PingParses ==
  ASSUME NEW m, Message(m), m.cmd = "ping", NEW s, s = SerialiseMessage(m)
  PROVE  Parses(m.cmd, s, m.vals)
<1>1. PICK f : f = Item("int", PingWidth)
  OBVIOUS
<1>2. FieldOK(f) /\ f.as = "int" /\ f.w = PingWidth /\ PingWidth = 2
  BY <1>1 DEF Item, PingWidth, FieldOK
<1>3. Layout(m) = <<f>>
  BY <1>1 DEF Layout
<1>4. Len(m.vals) = 1 /\ m.vals \in Seq(Seq(Int)) /\ Encodable(f, m.vals[1])
  BY <1>3, MessageIs
<1>5. PICK v \in Seq(Int) : v = m.vals[1]
  BY <1>4
<1>6. m.vals = <<v>>
  BY <1>4, <1>5
<1>7. s = ToBytes(v[1], PingWidth) /\ s = WriteField(f, v)
  BY <1>2, <1>5 DEF SerialiseMessage, SerialisePing, WriteField
<1>8. Reads(f, s, <<v>>)
  BY <1>2, <1>4, <1>5, <1>7, OneField
<1>9. s \in Seq(Byte) /\ Len(s) = PingWidth
  <2>1. v[1] \in Int
    BY <1>2, <1>4, <1>5 DEF Encodable
  <2>2. PICK w \in Nat : w = PingWidth
    BY <1>2
  <2> QED BY <1>7, <2>1, <2>2, BytesAs
<1>10. ASSUME NEW p \in Seq(Byte), Holds(p, 0, s)
       PROVE  /\ Result(Cursor(p), ParseMessage("ping", p), s, m.vals)
              /\ Succeeds(Cursor(p), ParseMessage("ping", p), s)
              /\ Refuses(Cursor(p), ParseMessage("ping", p), s)
  <2>1. PICK c, d : c = Cursor(p) /\ d = ParseMessage("ping", p)
    OBVIOUS
  <2>2. Open(c) /\ c.data = p /\ c.pos = 0 /\ c \in Cursors /\ Len(p) \in Nat
    BY <2>1, CursorOpen, LenProperties
  <2>3. d = IF Len(p) < PingWidth THEN Raise(c) ELSE ReadField(c, f)
    BY <1>1, <2>1 DEF ParseMessage, ParsePing
  <2>4. CASE Len(p) < PingWidth
    <3>1. ~d.ok
      BY <2>2, <2>3, <2>4, Raised
    <3>2. c.pos + Len(s) > Len(c.data)
      BY <1>2, <1>9, <2>2, <2>4
    <3>3. Result(c, d, s, m.vals) /\ Succeeds(c, d, s) /\ Refuses(c, d, s)
      <4>1. Len(s) \in Nat /\ ~(c.pos + Len(s) <= Len(c.data))
        BY <1>2, <1>9, <2>2, <3>2
      <4> QED BY <3>1, <4>1, Zenon DEF Result, Succeeds, Refuses
    <3> QED BY <2>1, <3>3
  <2>5. CASE ~(Len(p) < PingWidth)
    <3>1. d = ReadField(c, f)
      BY <2>3, <2>5
    <3>2. Result(c, d, s, <<v>>) /\ Succeeds(c, d, s)
      BY <1>8, <1>10, <2>2, <3>1 DEF Reads
    <3>3. Refuses(c, d, s)
      BY <1>2, <1>9, <2>2, <2>5 DEF Refuses
    <3> QED BY <1>6, <2>1, <3>2, <3>3
  <2> QED BY <2>4, <2>5
<1>11. Parses("ping", s, m.vals)
  BY <1>9, <1>10 DEF Parses
<1> QED BY <1>11

\* encode_inv and parse_inv.
LEMMA InvParses ==
  ASSUME NEW m, Message(m), m.cmd = "inv", NEW s, s = SerialiseMessage(m)
  PROVE  Parses(m.cmd, s, m.vals)
<1>1. PICK f, g, n, k : /\ f = Item("int", 1) /\ g = Item("bytes", HashWidth)
                        /\ n = Len(m.vals) /\ k = n \div 2
  OBVIOUS
<1>2. /\ FieldOK(f) /\ FieldOK(g) /\ g.as = "bytes"
  BY <1>1 DEF Item, HashWidth, FieldOK
<1>3. InvFields = <<f, g>> /\ Len(InvFields) = 2
  BY <1>1 DEF InvFields
<1>4. n \in Nat /\ k \in Nat /\ Layout(m) = Times(k, <<f, g>>)
  <2>1. n \in Nat
    BY <1>1, MessageIs
  <2>2. k \in Nat
    <3>1. \A a \in Nat : a \div 2 \in Nat
      OBVIOUS
    <3> QED BY <1>1, <2>1, <3>1, Zenon
  <2>3. Layout(m) = Times(Len(m.vals) \div 2, InvFields)
    BY Zenon DEF Layout
  <2> QED BY <1>1, <1>3, <2>1, <2>2, <2>3, Zenon
<1>5. PICK t : t = Times(k, InvFields)
  OBVIOUS
<1>6. /\ DOMAIN t = 1 .. 2 * k /\ \A i \in 1 .. 2 * k : t[i] = IF i % 2 = 1 THEN f ELSE g
      /\ Len(t) = 2 * k
  <2>1. /\ DOMAIN Times(k, <<f, g>>) = 1 .. 2 * k /\ Len(Times(k, <<f, g>>)) = 2 * k
        /\ \A i \in 1 .. 2 * k : Times(k, <<f, g>>)[i] = IF i % 2 = 1 THEN f ELSE g
    BY <1>4, TimesTwo
  <2>2. t = Times(k, <<f, g>>)
    BY <1>3, <1>5, Zenon
  <2> QED BY <2>1, <2>2
<1>7. /\ n = 2 * k /\ m.vals \in Seq(Seq(Int)) /\ Len(s) <= MaxMessageSize
      /\ \A i \in 1 .. n : Encodable(t[i], m.vals[i])
  <2>1. Layout(m) = t
    BY <1>3, <1>4, <1>5, Zenon
  <2> QED BY <1>1, <1>6, <2>1, MessageIs
<1>8. Fits(t, m.vals, n)
  BY <1>1, <1>2, <1>4, <1>6, <1>7 DEF Fits
<1>9. n = 0 \/ t[n].as \in Checked
  <2> SUFFICES ASSUME n # 0 PROVE t[n].as \in Checked
    OBVIOUS
  <2>1. n \in 1 .. 2 * k /\ n % 2 # 1
    BY <1>4, <1>7
  <2> QED BY <1>2, <1>6, <2>1 DEF Checked
<1>10. s = WriteList(InvFields, m.vals)
  BY DEF SerialiseMessage, EncodeInv
<1>11. /\ s \in Seq(Byte)
       /\ \A c : (Open(c) /\ Holds(c.data, c.pos, s)) =>
                /\ Result(c, ReadList(c, InvFields), s, m.vals)
                /\ Succeeds(c, ReadList(c, InvFields), s)
                /\ Refuses(c, ReadList(c, InvFields), s)
  <2>1. k = Len(m.vals) \div Len(InvFields) /\ k <= n
    <3>1. Len(m.vals) \div Len(InvFields) = n \div 2
      BY <1>1, <1>3, Zenon
    <3>2. k = n \div 2
      BY <1>1
    <3>3. k <= n
      BY <1>4, <1>7
    <3> QED BY <3>1, <3>2, <3>3, Zenon
  <2>2. Fits(Times(k, InvFields), m.vals, n) /\ (n = 0 \/ Times(k, InvFields)[n].as \in Checked)
    BY <1>5, <1>8, <1>9
  <2> QED BY <1>4, <1>7, <1>10, <2>1, <2>2, WriteListReads
<1>12. ASSUME NEW p \in Seq(Byte), Holds(p, 0, s)
       PROVE  /\ Result(Cursor(p), ParseMessage("inv", p), s, m.vals)
              /\ Succeeds(Cursor(p), ParseMessage("inv", p), s)
              /\ Refuses(Cursor(p), ParseMessage("inv", p), s)
  <2>1. PICK c : c = Cursor(p)
    OBVIOUS
  <2>2. Open(c) /\ Holds(c.data, c.pos, s)
    BY <1>12, <2>1, CursorOpen
  <2>3. ParseMessage("inv", p) = ReadList(c, InvFields)
    BY <2>1 DEF ParseMessage, ParseInv
  <2> QED BY <1>11, <2>1, <2>2, <2>3
<1>13. Parses("inv", s, m.vals)
  BY <1>11, <1>12 DEF Parses
<1> QED BY <1>13

\* A sequence cut in two.
LEMMA SplitAt ==
  ASSUME NEW V, NEW s \in Seq(V), NEW k \in 0 .. Len(s)
  PROVE  /\ SubSeq(s, 1, k) \in Seq(V) /\ Len(SubSeq(s, 1, k)) = k
         /\ \A i \in 1 .. k : SubSeq(s, 1, k)[i] = s[i]
         /\ SubSeq(s, k + 1, Len(s)) \in Seq(V) /\ Len(SubSeq(s, k + 1, Len(s))) = Len(s) - k
         /\ \A i \in 1 .. Len(s) - k : SubSeq(s, k + 1, Len(s))[i] = s[k + i]
         /\ SubSeq(s, 1, k) \o SubSeq(s, k + 1, Len(s)) = s
<1>1. Len(s) \in Nat /\ DOMAIN s = 1 .. Len(s) /\ k \in Nat /\ \A i \in 1 .. Len(s) : s[i] \in V
  BY LenProperties
<1>2. \A m \in Int, n \in Int : (\A i \in m .. n : i \in 1 .. Len(s)) =>
        /\ SubSeq(s, m, n) \in Seq(V)
        /\ Len(SubSeq(s, m, n)) = IF m <= n THEN n - m + 1 ELSE 0
        /\ \A i \in 1 .. n - m + 1 : SubSeq(s, m, n)[i] = s[m + i - 1]
  BY <1>1, SubSeqProperties
<1>3. PICK a : a = SubSeq(s, 1, k)
  OBVIOUS
<1>4. a \in Seq(V) /\ Len(a) = k /\ \A i \in 1 .. k : a[i] = s[i]
  <2>1. 1 \in Int /\ k \in Int /\ \A i \in 1 .. k : i \in 1 .. Len(s)
    BY <1>1
  <2>2. /\ SubSeq(s, 1, k) \in Seq(V)
        /\ Len(SubSeq(s, 1, k)) = IF 1 <= k THEN k - 1 + 1 ELSE 0
        /\ \A i \in 1 .. k - 1 + 1 : SubSeq(s, 1, k)[i] = s[1 + i - 1]
    BY <1>2, <2>1, Zenon
  <2>3. (IF 1 <= k THEN k - 1 + 1 ELSE 0) = k /\ k - 1 + 1 = k
    BY <1>1
  <2>4. \A i \in 1 .. k : 1 + i - 1 = i
    OBVIOUS
  <2> QED BY <1>3, <2>2, <2>3, <2>4
<1>5. PICK b : b = SubSeq(s, k + 1, Len(s))
  OBVIOUS
<1>6. b \in Seq(V) /\ Len(b) = Len(s) - k /\ \A i \in 1 .. Len(s) - k : b[i] = s[k + i]
  <2>0. PICK l \in Nat : l = Len(s)
    BY <1>1
  <2>1. PICK m \in Int, n \in Int : m = k + 1 /\ n = l
    BY <1>1
  <2>2. \A i \in m .. n : i \in 1 .. Len(s)
    BY <1>1, <2>0, <2>1
  <2>3. /\ SubSeq(s, m, n) \in Seq(V)
        /\ Len(SubSeq(s, m, n)) = IF m <= n THEN n - m + 1 ELSE 0
        /\ \A i \in 1 .. n - m + 1 : SubSeq(s, m, n)[i] = s[m + i - 1]
    BY <1>2, <2>2
  <2>4. (IF m <= n THEN n - m + 1 ELSE 0) = Len(s) - k /\ n - m + 1 = Len(s) - k
    <3>1. l - k >= 0 /\ n - m + 1 = l - k
      BY <2>0, <2>1
    <3>2. m <= n \/ l - k = 0
      BY <2>1, <3>1
    <3> QED BY <2>0, <3>1, <3>2
  <2>5. \A i \in 1 .. Len(s) - k : m + i - 1 = k + i
    BY <2>1
  <2> QED BY <1>5, <2>0, <2>1, <2>3, <2>4, <2>5
<1>7. a \o b = s
  <2>1. /\ a \o b \in Seq(V) /\ Len(a \o b) = Len(a) + Len(b)
        /\ \A i \in 1 .. Len(a) + Len(b) :
             (a \o b)[i] = IF i <= Len(a) THEN a[i] ELSE b[i - Len(a)]
    BY <1>4, <1>6, ConcatProperties
  <2>2. Len(a) + Len(b) = Len(s)
    BY <1>1, <1>4, <1>6
  <2>3. ASSUME NEW i \in 1 .. Len(s) PROVE (a \o b)[i] = s[i]
    <3>1. CASE i <= k
      <4>1. i \in 1 .. k /\ (a \o b)[i] = a[i]
        BY <1>1, <1>4, <2>1, <2>2, <3>1
      <4> QED BY <1>4, <4>1
    <3>2. CASE i > k
      <4>1. i - k \in 1 .. Len(s) - k /\ (a \o b)[i] = b[i - k] /\ k + (i - k) = i
        BY <1>1, <1>4, <2>1, <2>2, <3>2
      <4> QED BY <1>6, <4>1
    <3>3. i <= k \/ i > k
      BY <1>1
    <3> QED BY <3>1, <3>2, <3>3, Zenon
  <2>4. PICK t : t = a \o b
    OBVIOUS
  <2>5. t \in Seq(V) /\ Len(t) = Len(s) /\ \A i \in 1 .. Len(s) : t[i] = s[i]
    BY <2>1, <2>2, <2>3, <2>4
  <2>6. t = s
    BY <2>5, SeqEqual
  <2> QED BY <2>4, <2>6
<1> QED BY <1>3, <1>4, <1>5, <1>6, <1>7

\* The bytes of a header and its transaction count.
LEMMA Appended ==
  ASSUME NEW V, NEW s \in Seq(V), NEW v \in V
  PROVE  Append(s, v) \in Seq(V) /\ Append(s, v) = s \o <<v>> /\ Len(Append(s, v)) = Len(s) + 1
<1>1. PICK b : b = <<v>>
  OBVIOUS
<1>2. b \in Seq(V) /\ Len(b) = 1 /\ b[1] = v
  BY <1>1
<1>3. /\ s \o b \in Seq(V) /\ Len(s \o b) = Len(s) + 1
      /\ \A i \in 1 .. Len(s) + 1 : (s \o b)[i] = IF i <= Len(s) THEN s[i] ELSE b[i - Len(s)]
  <2>1. \A t \in Seq(V) :
          /\ s \o t \in Seq(V) /\ Len(s \o t) = Len(s) + Len(t)
          /\ \A i \in 1 .. Len(s) + Len(t) : (s \o t)[i] = IF i <= Len(s) THEN s[i] ELSE t[i - Len(s)]
    BY ConcatProperties
  <2> QED BY <1>2, <2>1
<1>4. /\ Append(s, v) \in Seq(V) /\ Len(Append(s, v)) = Len(s) + 1
      /\ \A i \in 1 .. Len(s) : Append(s, v)[i] = s[i]
      /\ Append(s, v)[Len(s) + 1] = v
  BY AppendProperties
<1>5. Len(s) \in Nat
  BY LenProperties
<1>6. \A i \in 1 .. Len(s) + 1 : Append(s, v)[i] = (s \o b)[i]
  <2> SUFFICES ASSUME NEW i \in 1 .. Len(s) + 1 PROVE Append(s, v)[i] = (s \o b)[i]
    OBVIOUS
  <2>1. CASE i <= Len(s)
    <3>1. i \in 1 .. Len(s) /\ (s \o b)[i] = s[i]
      BY <1>3, <1>5, <2>1
    <3> QED BY <1>4, <3>1
  <2>2. CASE i = Len(s) + 1
    <3>1. (s \o b)[i] = b[1]
      BY <1>3, <1>5, <2>2
    <3> QED BY <1>2, <1>4, <2>2, <3>1
  <2>3. i <= Len(s) \/ i = Len(s) + 1
    BY <1>5
  <2> QED BY <2>1, <2>2, <2>3, Zenon
<1>7. Append(s, v) = s \o b
  BY <1>3, <1>4, <1>6, SeqEqual
<1> QED BY <1>1, <1>4, <1>7

\* Three chunks one after the other.
LEMMA ThreeParts ==
  ASSUME NEW s \in Seq(Byte), NEW t \in Seq(Byte), NEW u \in Seq(Byte)
  PROVE  (s \o t) \o u = s \o (t \o u)
BY ConcatAssociative

\* Headers, each with the zero count that follows it, as chunks of their own.
HeaderBytes(vs, n) == [q \in 1 .. 2 * n |-> IF q % 2 = 1 THEN vs[(q + 1) \div 2] ELSE <<0>>]
HeaderValues(vs, n) ==
    [q \in 1 .. 2 * n |-> IF q % 2 = 1 THEN << vs[(q + 1) \div 2] >> ELSE << >>]

\* The chunks of a headers message: each header with its count of 0.
LEMMA HeaderChunks ==
  ASSUME NEW n \in Nat, NEW vs \in Seq(Seq(Int)), Len(vs) = n,
         \A i \in 1 .. n : vs[i] \in Seq(Byte)
  PROVE  /\ HeaderBytes(vs, n) \in Seq(Seq(Byte)) /\ Len(HeaderBytes(vs, n)) = 2 * n
         /\ HeaderValues(vs, n) \in Seq(Seq(Seq(Int))) /\ Len(HeaderValues(vs, n)) = 2 * n
         /\ FlattenSeq(HeaderBytes(vs, n)) = FlattenSeq([i \in 1 .. n |-> Append(vs[i], 0)])
         /\ FlattenSeq(HeaderValues(vs, n)) = vs
         /\ FlattenSeq([i \in 1 .. n |-> Append(vs[i], 0)]) \in Seq(Byte)
         /\ Len(FlattenSeq([i \in 1 .. n |-> Append(vs[i], 0)])) >= n
<1> PICK ws : ws = HeaderBytes(vs, n)
  OBVIOUS
<1> PICK os : os = HeaderValues(vs, n)
  OBVIOUS
<1> PICK w : w = FlattenSeq([i \in 1 .. n |-> Append(vs[i], 0)])
  OBVIOUS
<1>0. 2 * n \in Nat /\ \A i \in 1 .. n : vs[i] \in Seq(Int)
  BY LenProperties
<1>1. PICK z \in Seq(Byte) : z = <<0>>
  <2>1. 0 \in Byte
    BY BaseIs DEF Byte
  <2> QED BY <2>1, OneByte
<1>2. << >> \in Seq(Seq(Int))
  BY EmptySeq
<1>3. ASSUME NEW q \in 1 .. 2 * n
      PROVE  /\ q % 2 = 1 => (q + 1) \div 2 \in 1 .. n
             /\ ws[q] \in Seq(Byte) /\ os[q] \in Seq(Seq(Int))
  <2>1. q % 2 = 1 => (q + 1) \div 2 \in 1 .. n
    OBVIOUS
  <2>2. CASE q % 2 = 1
    <3>1. PICK i \in 1 .. n : i = (q + 1) \div 2
      BY <2>1, <2>2
    <3>2. ws[q] = vs[i] /\ os[q] = <<vs[i]>>
      BY <2>2, <3>1 DEF HeaderBytes, HeaderValues
    <3>3. <<vs[i]>> \in Seq(Seq(Int))
      BY <1>0, OneValue
    <3> QED BY <2>1, <3>2, <3>3
  <2>3. CASE q % 2 # 1
    <3>1. ws[q] = z /\ os[q] = << >>
      BY <1>1, <2>3 DEF HeaderBytes, HeaderValues
    <3> QED BY <1>2, <2>3, <3>1
  <2> QED BY <2>2, <2>3
<1>4. ws \in [1 .. 2 * n -> Seq(Byte)] /\ os \in [1 .. 2 * n -> Seq(Seq(Int))]
  <2>1. /\ ws = [q \in 1 .. 2 * n |-> ws[q]]
        /\ os = [q \in 1 .. 2 * n |-> os[q]]
    BY DEF HeaderBytes, HeaderValues
  <2> QED BY <1>3, <2>1, Zenon
<1>5. \A A, f : f \in [1 .. 2 * n -> A] => f \in Seq(A) /\ Len(f) = 2 * n
  BY <1>0, IndexedSeq
<1>6. /\ ws \in Seq(Seq(Byte)) /\ Len(ws) = 2 * n
      /\ os \in Seq(Seq(Seq(Int))) /\ Len(os) = 2 * n
  BY <1>4, <1>5, Zenon
<1>7. PICK us : us = [i \in 1 .. n |-> Append(vs[i], 0)]
  OBVIOUS
<1>8. /\ us \in Seq(Seq(Byte)) /\ Len(us) = n
      /\ \A i \in 1 .. n : us[i] = vs[i] \o z /\ Len(us[i]) >= 1 /\ us[i] \in Seq(Byte)
  <2>1. ASSUME NEW i \in 1 .. n
        PROVE  /\ Append(vs[i], 0) \in Seq(Byte) /\ Append(vs[i], 0) = vs[i] \o z
               /\ Len(Append(vs[i], 0)) >= 1
    <3>1. PICK t \in Seq(Byte), v \in Byte : t = vs[i] /\ v = 0
      <4>1. 0 \in Byte
        BY BaseIs DEF Byte
      <4> QED BY <4>1
    <3>2. Append(t, v) \in Seq(Byte) /\ Append(t, v) = t \o <<v>> /\ Len(Append(t, v)) = Len(t) + 1
      BY Appended
    <3>3. Len(t) \in Nat
      BY LenProperties
    <3> QED BY <1>1, <3>1, <3>2, <3>3
  <2>2. us \in [1 .. n -> Seq(Byte)]
    BY <1>7, <2>1
  <2>3. us \in Seq(Seq(Byte)) /\ Len(us) = n
    BY <2>2, IndexedSeq
  <2> QED BY <1>7, <2>1, <2>3
<1>9. PICK h1, h2, k2 : /\ FlattenRun(h1, us, Byte) /\ FlattenRun(h2, ws, Byte)
                        /\ FlattenRun(k2, os, Seq(Int))
  BY <1>6, <1>8, FlattenPrefixes
<1>10. /\ h1 \in [0 .. n -> Seq(Byte)] /\ h1[0] = << >> /\ h1[n] = FlattenSeq(us)
       /\ \A i \in 1 .. n : h1[i] = h1[i - 1] \o us[i]
  BY <1>8, <1>9, Zenon DEF FlattenRun
<1>11. /\ h2 \in [0 .. 2 * n -> Seq(Byte)] /\ h2[0] = << >> /\ h2[2 * n] = FlattenSeq(ws)
       /\ \A i \in 1 .. 2 * n : h2[i] = h2[i - 1] \o ws[i]
  BY <1>6, <1>9, Zenon DEF FlattenRun
<1>12. /\ k2 \in [0 .. 2 * n -> Seq(Seq(Int))] /\ k2[0] = << >> /\ k2[2 * n] = FlattenSeq(os)
       /\ \A i \in 1 .. 2 * n : k2[i] = k2[i - 1] \o os[i]
  BY <1>6, <1>9, Zenon DEF FlattenRun
<1> DEFINE T == {i \in 0 .. n : /\ h2[2 * i] = h1[i] /\ Len(h1[i]) >= i
                                /\ Len(k2[2 * i]) = i /\ \A j \in 1 .. i : k2[2 * i][j] = vs[j]}
<1>13. 0 \in T
  <2>1. 2 * 0 = 0 /\ Len(<< >>) = 0
    OBVIOUS
  <2>2. h2[2 * 0] = << >> /\ h1[0] = << >> /\ k2[2 * 0] = << >>
    BY <1>10, <1>11, <1>12, <2>1, Zenon
  <2>3. Len(h1[0]) >= 0 /\ Len(k2[2 * 0]) = 0 /\ 0 \in 0 .. n /\ \A j \in 1 .. 0 : FALSE
    BY <2>1, <2>2
  <2> QED BY <2>2, <2>3, Zenon
<1>14. ASSUME NEW i \in 1 .. n, i - 1 \in T PROVE i \in T
  <2>1. /\ i - 1 \in 0 .. n /\ i \in 0 .. n /\ 2 * (i - 1) \in 0 .. 2 * n
        /\ 2 * i - 1 \in 1 .. 2 * n /\ 2 * i \in 1 .. 2 * n
        /\ (2 * i - 1) - 1 = 2 * (i - 1) /\ ((2 * i - 1) + 1) \div 2 = i
        /\ (2 * i - 1) % 2 = 1 /\ (2 * i) % 2 # 1
    OBVIOUS
  <2>2. PICK a \in Seq(Byte), t \in Seq(Byte), b \in Seq(Seq(Int)), v \in Seq(Int) :
          a = h2[2 * (i - 1)] /\ t = vs[i] /\ b = k2[2 * (i - 1)] /\ v = vs[i]
    BY <1>0, <1>11, <1>12, <2>1
  <2>3. /\ ws[2 * i - 1] = t /\ os[2 * i - 1] = <<v>> /\ ws[2 * i] = z /\ os[2 * i] = << >>
    BY <1>1, <2>1, <2>2 DEF HeaderBytes, HeaderValues
  <2>4. h2[2 * i] = (a \o t) \o z /\ k2[2 * i] = (b \o <<v>>) \o << >>
    <3>1. /\ h2[2 * i - 1] = a \o t /\ k2[2 * i - 1] = b \o <<v>>
      <4>1. /\ h2[2 * i - 1] = h2[(2 * i - 1) - 1] \o ws[2 * i - 1]
            /\ k2[2 * i - 1] = k2[(2 * i - 1) - 1] \o os[2 * i - 1]
        BY <1>11, <1>12, <2>1, Zenon
      <4> QED BY <2>1, <2>2, <2>3, <4>1, Zenon
    <3> QED BY <1>11, <1>12, <2>1, <2>3, <3>1, Zenon
  <2>5. h1[i - 1] = a /\ h1[i] = a \o (t \o z) /\ Len(a) >= i - 1
    BY <1>8, <1>10, <1>14, <2>2
  <2>6. (a \o t) \o z = a \o (t \o z)
    BY ThreeParts, Zenon
  <2>7. b \o <<v>> = Append(b, v) /\ Append(b, v) \in Seq(Seq(Int)) /\ Len(Append(b, v)) = Len(b) + 1
    <3> DEFINE V == Seq(Int)
    <3>1. \A s \in Seq(V), x \in V :
             s \o <<x>> = Append(s, x) /\ Append(s, x) \in Seq(V) /\ Len(Append(s, x)) = Len(s) + 1
      <4> HIDE DEF V
      <4> QED BY Appended
    <3>2. b \in Seq(V) /\ v \in V
      OBVIOUS
    <3> HIDE DEF V
    <3>3. b \o <<v>> = Append(b, v) /\ Append(b, v) \in Seq(V) /\ Len(Append(b, v)) = Len(b) + 1
      BY <3>1, <3>2, Zenon
    <3> QED BY <3>3 DEF V
  <2>8. k2[2 * i] = Append(b, v)
    <3>1. \A s \in Seq(Seq(Int)) : s \o << >> = s
      BY ConcatEmptySeq
    <3> QED BY <2>4, <2>7, <3>1, Zenon
  <2>9. Len(b) = i - 1 /\ \A j \in 1 .. i - 1 : b[j] = vs[j]
    BY <1>14, <2>2
  <2>10. Len(k2[2 * i]) = i /\ \A j \in 1 .. i : k2[2 * i][j] = vs[j]
    <3>1. /\ \A j \in 1 .. Len(b) : Append(b, v)[j] = b[j]
          /\ Append(b, v)[Len(b) + 1] = v
      BY AppendProperties
    <3>2. PICK e : e = Append(b, v)
      OBVIOUS
    <3>3. Len(e) = i /\ e[i] = vs[i] /\ \A j \in 1 .. i - 1 : e[j] = vs[j]
      <4>1. Len(b) + 1 = i
        BY <2>9
      <4> QED BY <2>2, <2>7, <2>9, <3>1, <3>2, <4>1
    <3>4. \A j \in 1 .. i : j = i \/ j \in 1 .. i - 1
      OBVIOUS
    <3>5. \A j \in 1 .. i : e[j] = vs[j]
      BY <3>3, <3>4, Zenon
    <3> QED BY <2>8, <3>2, <3>3, <3>5, Zenon
  <2>11. Len(h1[i]) >= i
    <3>1. PICK u \in Seq(Byte) : u = us[i]
      BY <1>8
    <3>2. Len(a \o u) = Len(a) + Len(u) /\ Len(a) \in Nat /\ Len(u) \in Nat
      BY ConcatProperties, LenProperties
    <3>3. h1[i] = a \o u /\ Len(u) >= 1
      BY <1>8, <1>10, <2>5, <3>1
    <3> QED BY <2>5, <3>2, <3>3
  <2>12. h2[2 * i] = h1[i]
    BY <2>4, <2>5, <2>6, Zenon
  <2> QED BY <2>1, <2>10, <2>11, <2>12
<1> HIDE DEF T
<1>15. 0 .. n \subseteq T
  BY <1>13, <1>14, SetInduction
<1>16. n \in T /\ n \in 0 .. n
  BY <1>15
<1>17. /\ h2[2 * n] = h1[n] /\ Len(h1[n]) >= n
       /\ Len(k2[2 * n]) = n /\ \A j \in 1 .. n : k2[2 * n][j] = vs[j]
  BY <1>16 DEF T
<1>18. w = h1[n] /\ w \in Seq(Byte)
  BY <1>7, <1>10, <1>16
<1>19. k2[2 * n] = vs
  <2>1. 2 * n \in 0 .. 2 * n
    BY <1>0
  <2>2. PICK e \in Seq(Seq(Int)) : e = k2[2 * n]
    BY <1>12, <2>1, Zenon
  <2>3. Len(e) = Len(vs) /\ \A j \in 1 .. Len(e) : e[j] = vs[j]
    BY <1>17, <2>2
  <2>4. e = vs
    BY <2>3, SeqEqual
  <2> QED BY <2>2, <2>4
<1> QED BY <1>6, <1>11, <1>12, <1>17, <1>18, <1>19, Zenon

\* The transaction count of a header is read and dropped.
LEMMA ZeroCount ==
  /\ Reads(Item("count", 0), <<0>>, << >>) /\ Strict(Item("count", 0), <<0>>)
  /\ <<0>> \in Seq(Byte)
<1>1. PICK z \in Nat : z = 0
  OBVIOUS
<1>2. Power(Base, VarWidths[3]) \in Nat /\ z < Power(Base, VarWidths[3])
  <2>1. PICK v \in Nat : v = VarWidths[3]
    BY BaseIs
  <2>2. Base \in Nat /\ Base >= 2
    BY BaseIs
  <2>3. Power(Base, v) \in Nat /\ Power(Base, v) >= 1
    BY <2>2, PowerIs
  <2> QED BY <1>1, <2>1, <2>3
<1>3. PICK u : u = EncodeVarint(z)
  OBVIOUS
<1>4. /\ u \in Seq(Byte) /\ Len(u) >= 1
      /\ \A c : (Open(c) /\ Holds(c.data, c.pos, u)) =>
              /\ Result(c, ReadVarint(c), u, << >>)
              /\ Succeeds(c, ReadVarint(c), u)
              /\ Refuses(c, ReadVarint(c), u)
              /\ ReadVarint(c).ok => ReadVarint(c).n = z
  BY <1>2, <1>3, VarintRead
<1>5. u = <<0>>
  BY <1>1, <1>3, BaseIs DEF EncodeVarint
<1>6. PICK f : f = Item("count", 0)
  OBVIOUS
<1>7. \A c : Open(c) => ReadField(c, f) = ReadVarint(c)
  BY <1>6 DEF ReadField, Item, Open
<1>8. << >> \in Seq(Seq(Int))
  BY EmptySeq
<1>9. Reads(f, u, << >>) /\ Strict(f, u)
  BY <1>4, <1>7, <1>8, Zenon DEF Reads, Strict
<1> QED BY <1>4, <1>5, <1>6, <1>9, Zenon

\* The layout of a list of hashes.
LEMMA HashesAre ==
  ASSUME NEW n \in Nat
  PROVE  \E g : /\ FieldOK(g) /\ g.as = "bytes" /\ g = Item("bytes", HashWidth)
                /\ HashFields = <<g>> /\ Len(HashFields) = 1
                /\ Times(n, HashFields) = [i \in 1 .. n |-> g]
                /\ Len(Times(n, HashFields)) = n
<1>1. PICK g : g = Item("bytes", HashWidth)
  OBVIOUS
<1>2. FieldOK(g) /\ g.as = "bytes"
  BY <1>1 DEF Item, HashWidth, FieldOK
<1>3. HashFields = <<g>> /\ Len(HashFields) = 1
  BY <1>1 DEF HashFields
<1>4. Times(n, <<g>>) = [i \in 1 .. n |-> g] /\ Len(Times(n, <<g>>)) = n
  BY TimesOne
<1> QED BY <1>1, <1>2, <1>3, <1>4

\* HeadersMessage.
LEMMA HeadersParses ==
  ASSUME NEW m, Message(m), m.cmd = "headers", NEW s, s = SerialiseMessage(m)
  PROVE  Parses(m.cmd, s, m.vals)
<1>1. PICK n \in Nat : n = Len(m.vals)
  BY MessageIs
<1>2. PICK g : /\ FieldOK(g) /\ g.as = "bytes" /\ g = Item("bytes", HashWidth)
               /\ HashFields = <<g>> /\ Len(HashFields) = 1
               /\ Times(n, HashFields) = [i \in 1 .. n |-> g]
               /\ Len(Times(n, HashFields)) = n
  BY HashesAre
<1>3. PICK vs \in Seq(Seq(Int)) : vs = m.vals
  BY MessageIs
<1>4. Len(vs) = n /\ \A i \in 1 .. n : vs[i] \in Seq(Int) /\ Encodable(g, vs[i])
  <2>1. Layout(m) = Times(n, HashFields)
    BY <1>1 DEF Layout
  <2>2. \A i \in 1 .. n : Layout(m)[i] = g
    BY <1>2, <2>1
  <2>3. \A i \in 1 .. n : vs[i] \in Seq(Int)
    BY <1>1, <1>3, LenProperties
  <2> QED BY <1>1, <1>3, <2>2, <2>3, MessageIs
<1>5. \A i \in 1 .. n : vs[i] \in Seq(Byte) /\ WriteField(g, vs[i]) = vs[i]
  BY <1>2, <1>4, WriteIs
<1>6. PICK e : e = Item("count", 0)
  OBVIOUS
<1>7. PICK ws, os, w : /\ ws = HeaderBytes(vs, n) /\ os = HeaderValues(vs, n)
                       /\ w = FlattenSeq([i \in 1 .. n |-> Append(vs[i], 0)])
  OBVIOUS
<1>8. /\ ws \in Seq(Seq(Byte)) /\ Len(ws) = 2 * n
      /\ os \in Seq(Seq(Seq(Int))) /\ Len(os) = 2 * n
      /\ FlattenSeq(ws) = w /\ FlattenSeq(os) = vs /\ w \in Seq(Byte) /\ Len(w) >= n
  <2>1. \A i \in 1 .. n : vs[i] \in Seq(Byte)
    BY <1>5
  <2>2. /\ HeaderBytes(vs, n) \in Seq(Seq(Byte)) /\ Len(HeaderBytes(vs, n)) = 2 * n
        /\ HeaderValues(vs, n) \in Seq(Seq(Seq(Int))) /\ Len(HeaderValues(vs, n)) = 2 * n
        /\ FlattenSeq(HeaderBytes(vs, n)) = FlattenSeq([i \in 1 .. n |-> Append(vs[i], 0)])
        /\ FlattenSeq(HeaderValues(vs, n)) = vs
        /\ FlattenSeq([i \in 1 .. n |-> Append(vs[i], 0)]) \in Seq(Byte)
        /\ Len(FlattenSeq([i \in 1 .. n |-> Append(vs[i], 0)])) >= n
    BY <1>4, <2>1, HeaderChunks
  <2> QED BY <1>7, <2>2, Zenon
<1>9. PICK t : t = Times(n, <<g, e>>)
  OBVIOUS
<1>10. DOMAIN t = 1 .. 2 * n /\ \A i \in 1 .. 2 * n : t[i] = IF i % 2 = 1 THEN g ELSE e
  BY <1>9, TimesTwo
<1>11. ASSUME NEW q \in 1 .. 2 * n
       PROVE  Reads(t[q], ws[q], os[q]) /\ (q % 2 # 1 => Strict(t[q], ws[q]))
  <2>1. CASE q % 2 = 1
    <3>1. (q + 1) \div 2 \in 1 .. n
      BY <2>1
    <3>2. PICK i \in 1 .. n : i = (q + 1) \div 2
      BY <3>1
    <3>3. t[q] = g /\ ws[q] = vs[i] /\ os[q] = <<vs[i]>>
      BY <1>7, <1>10, <2>1, <3>2 DEF HeaderBytes, HeaderValues
    <3>4. PICK v \in Seq(Int) : v = vs[i]
      BY <1>4
    <3>5. Reads(g, v, <<v>>)
      BY <1>2, <1>4, <1>5, <3>4, OneField
    <3> QED BY <2>1, <3>3, <3>4, <3>5
  <2>2. CASE q % 2 # 1
    <3>1. t[q] = e /\ ws[q] = <<0>> /\ os[q] = << >>
      BY <1>7, <1>10, <2>2 DEF HeaderBytes, HeaderValues
    <3> QED BY <1>6, <3>1, ZeroCount
  <2> QED BY <2>1, <2>2
<1>12. RunReads(t, w, vs)
  <2>1. PICK l \in Nat : l = 2 * n
    OBVIOUS
  <2>2. PICK hs, ks : FlattenRun(hs, ws, Byte) /\ FlattenRun(ks, os, Seq(Int))
    BY <1>8, FlattenPrefixes
  <2>3. hs[l] = w /\ ks[l] = vs
    BY <1>8, <2>1, <2>2, Zenon DEF FlattenRun
  <2>4. ASSUME NEW c, Open(c), Holds(c.data, c.pos, w), NEW d, d = ReadFields(c, t)
        PROVE  Result(c, d, w, vs) /\ Succeeds(c, d, w) /\ Refuses(c, d, w)
    <3>1. PICK h : IsReading(h, c, t, l)
      BY <1>10, <2>1, ReadingExists
    <3>2. d = h[l]
      BY <2>4, <3>1 DEF IsReading
    <3>3. Holds(c.data, c.pos, hs[l])
      BY <2>3, <2>4
    <3>4. \A i \in 1 .. l : Reads(t[i], ws[i], os[i]) /\ (i % 2 # 1 => Strict(t[i], ws[i]))
      BY <1>11, <2>1
    <3>5. /\ \A i \in 0 .. l : Result(c, h[i], hs[i], ks[i]) /\ Succeeds(c, h[i], hs[i])
          /\ \A i \in 1 .. l : Strict(t[i], ws[i]) => Refuses(c, h[i], hs[i])
      BY <1>8, <1>10, <2>1, <2>2, <2>4, <3>1, <3>3, <3>4, LayoutReads
    <3>6. Result(c, d, w, vs) /\ Succeeds(c, d, w)
      BY <2>3, <3>2, <3>5
    <3>7. Refuses(c, d, w)
      <4>1. CASE n = 0
        <5>1. Len(w) = 0
          <6>1. FlattenRun(hs, ws, Byte) /\ l = 0
            BY <2>1, <2>2, <4>1
          <6>2. hs[0] = << >>
            BY <6>1, Zenon DEF FlattenRun
          <6>3. w = << >>
            BY <2>3, <6>1, <6>2
          <6> QED BY <6>3
        <5>2. c.pos <= Len(c.data) /\ c.pos \in Nat /\ Len(c.data) \in Nat
          BY <2>4, LenProperties DEF Open, Cursors
        <5> QED BY <5>1, <5>2 DEF Refuses
      <4>2. CASE n # 0
        <5>1. l \in 1 .. l /\ l % 2 # 1
          BY <2>1, <4>2
        <5> QED BY <2>3, <3>2, <3>4, <3>5, <5>1
      <4> QED BY <4>1, <4>2
    <3> QED BY <3>6, <3>7
  <2> QED BY <1>8, <2>4 DEF RunReads
<1>13. s = EncodeVarint(n) \o w
  BY <1>1, <1>3, <1>7 DEF SerialiseMessage, SerialiseHeaders
<1>14. n < Power(Base, VarWidths[3])
  <2>1. PICK u \in Seq(Byte) : u = EncodeVarint(n)
    BY VarintType
  <2>2. Len(u \o w) = Len(u) + Len(w) /\ Len(u) \in Nat /\ Len(w) \in Nat
    BY <1>8, ConcatProperties, LenProperties
  <2>3. Len(u \o w) <= MaxMessageSize
    BY <1>13, <2>1, MessageIs
  <2>4. PICK v \in Nat : v = VarWidths[3]
    BY BaseIs
  <2>5. Base \in Nat /\ Base >= 2
    BY BaseIs
  <2>6. Power(Base, v) \in Nat
    BY <2>5, PowerIs
  <2> QED BY <1>8, <2>2, <2>3, <2>4, <2>6, BaseIs
<1>15. PICK layout : layout = << Item("bytes", HashWidth), Item("count", 0) >>
  OBVIOUS
<1>16. /\ s \in Seq(Byte)
       /\ \A c : (Open(c) /\ Holds(c.data, c.pos, s)) =>
              /\ Result(c, ReadList(c, layout), s, vs)
              /\ Succeeds(c, ReadList(c, layout), s)
              /\ Refuses(c, ReadList(c, layout), s)
  <2>1. RunReads(Times(n, layout), w, vs)
    BY <1>2, <1>6, <1>9, <1>12, <1>15, Zenon
  <2> QED BY <1>13, <1>14, <2>1, ListReads
<1>17. ASSUME NEW p \in Seq(Byte), Holds(p, 0, s)
       PROVE  /\ Result(Cursor(p), ParseMessage("headers", p), s, m.vals)
              /\ Succeeds(Cursor(p), ParseMessage("headers", p), s)
              /\ Refuses(Cursor(p), ParseMessage("headers", p), s)
  <2>1. PICK c : c = Cursor(p)
    OBVIOUS
  <2>2. Open(c) /\ Holds(c.data, c.pos, s)
    BY <1>17, <2>1, CursorOpen
  <2>3. ParseMessage("headers", p) = ReadList(c, layout)
    BY <1>15, <2>1 DEF ParseMessage, ParseHeaders
  <2> QED BY <1>3, <1>16, <2>1, <2>2, <2>3
<1>18. Parses("headers", s, m.vals)
  BY <1>16, <1>17 DEF Parses
<1> QED BY <1>18

\* Reading a layout of one field.
LEMMA ReadsOne ==
  ASSUME NEW f, NEW c, NEW layout, layout = <<f>>
  PROVE  ReadFields(c, layout) = ReadField(c, f)
<1>1. PICK n \in Nat : n = 1
  OBVIOUS
<1>2. DOMAIN layout = 1 .. n /\ layout[1] = f
  BY <1>1
<1>3. PICK h : IsReading(h, c, layout, n)
  BY <1>2, ReadingExists
<1>4. 1 \in 1 .. n /\ 1 - 1 = 0
  BY <1>1
<1>5. /\ h[0] = c /\ ReadFields(c, layout) = h[n]
      /\ \A i \in 1 .. n : h[i] = ReadField(h[i - 1], layout[i])
  BY <1>3, Zenon DEF IsReading
<1> QED BY <1>1, <1>2, <1>4, <1>5

\* Once refused, nothing more is read.
LEMMA RefusedStays ==
  ASSUME NEW f, NEW c, ~c.ok
  PROVE ReadField(c, f) = c
BY DEF ReadField

\* A list that does not fit its count, Times of less than nothing, is empty.
LEMMA TimesNone ==
  ASSUME NEW k \in Int, k < 0, NEW layout
  PROVE  Times(k, layout) = Times(0, layout)
<1>1. [i \in 1 .. k |-> layout] = [i \in 1 .. 0 |-> layout]
  <2>1. 1 .. k = 1 .. 0
    OBVIOUS
  <2> QED BY <2>1
<1> QED BY <1>1, Zenon DEF Times

\* The layouts of getheaders and block: some fields, a list of one-field entries,
\* and some fields.
IsList(F, x, y, g, n, k, layout) ==
    (/\ k = n - Len(x) - Len(y) /\ layout = (x \o Times(k, <<g>>)) \o y /\ Len(layout) = n) =>
      /\ k \in Nat /\ n = Len(x) + k + Len(y) /\ Len(x) \in Nat /\ Len(y) \in Nat
      /\ \A i \in 1 .. n : layout[i] = IF i <= Len(x) THEN x[i]
                                       ELSE IF i <= Len(x) + k THEN g
                                       ELSE y[i - Len(x) - k]

\* A list between two other parts of a layout.
LEMMA ListInside ==
  ASSUME NEW F, NEW x \in Seq(F), NEW y \in Seq(F), NEW g \in F, NEW n \in Nat,
         NEW k \in Int, NEW layout
  PROVE  IsList(F, x, y, g, n, k, layout)
<1> SUFFICES ASSUME k = n - Len(x) - Len(y), layout = (x \o Times(k, <<g>>)) \o y,
                    Len(layout) = n
             PROVE  /\ k \in Nat /\ n = Len(x) + k + Len(y) /\ Len(x) \in Nat /\ Len(y) \in Nat
                    /\ \A i \in 1 .. n : layout[i] = IF i <= Len(x) THEN x[i]
                                                     ELSE IF i <= Len(x) + k THEN g
                                                     ELSE y[i - Len(x) - k]
  BY Zenon DEF IsList
<1>0. Len(x) \in Nat /\ Len(y) \in Nat
  BY LenProperties
<1>1. PICK j \in Nat : (k >= 0 => j = k) /\ (k < 0 => j = 0)
  <2>1. \A a \in Int : \E j \in Nat : (a >= 0 => j = a) /\ (a < 0 => j = 0)
    <3> SUFFICES ASSUME NEW a \in Int
                 PROVE  \E j \in Nat : (a >= 0 => j = a) /\ (a < 0 => j = 0)
      OBVIOUS
    <3>1. CASE a >= 0
      <4>1. a \in Nat /\ ~(a < 0)
        BY <3>1
      <4> QED BY <4>1
    <3>2. CASE a < 0
      <4>1. ~(a >= 0)
        BY <3>2
      <4> QED BY <4>1
    <3> QED BY <3>1, <3>2
  <2> QED BY <2>1
<1>2. PICK t : t = Times(j, <<g>>)
  OBVIOUS
<1>3. Times(k, <<g>>) = t
  <2>1. CASE k >= 0
    BY <1>1, <1>2, <2>1
  <2>2. CASE k < 0
    BY <1>1, <1>2, <2>2, TimesNone
  <2> QED BY <2>1, <2>2
<1>4. t = [i \in 1 .. j |-> g] /\ Len(t) = j
  BY <1>2, TimesOne
<1>5. t \in Seq(F)
  <2>1. t \in [1 .. j -> F]
    BY <1>4
  <2> QED BY <2>1, IndexedSeq
<1>6. PICK xt : xt = x \o t
  OBVIOUS
<1>7. \A a, b \in Seq(F) :
        /\ a \o b \in Seq(F) /\ Len(a \o b) = Len(a) + Len(b)
        /\ \A i \in 1 .. Len(a) + Len(b) : (a \o b)[i] = IF i <= Len(a) THEN a[i] ELSE b[i - Len(a)]
  BY ConcatProperties
<1>8. /\ xt \in Seq(F) /\ Len(xt) = Len(x) + j
      /\ \A i \in 1 .. Len(x) + j : xt[i] = IF i <= Len(x) THEN x[i] ELSE t[i - Len(x)]
  BY <1>4, <1>5, <1>6, <1>7
<1>9. layout = xt \o y
  BY <1>3, <1>6
<1>10. /\ Len(layout) = Len(xt) + Len(y)
       /\ \A i \in 1 .. Len(xt) + Len(y) : layout[i] = IF i <= Len(xt) THEN xt[i]
                                                       ELSE y[i - Len(xt)]
  <2> DEFINE G(a, b) ==
        /\ a \o b \in Seq(F) /\ Len(a \o b) = Len(a) + Len(b)
        /\ \A i \in 1 .. Len(a) + Len(b) : (a \o b)[i] = IF i <= Len(a) THEN a[i] ELSE b[i - Len(a)]
  <2>1. \A a, b \in Seq(F) : G(a, b)
    BY <1>7
  <2> HIDE DEF G
  <2>2. G(xt, y)
    BY <1>8, <2>1
  <2> QED BY <1>9, <2>2, Zenon DEF G
<1>11. n = Len(x) + j + Len(y)
  BY <1>8, <1>10
<1>12. k = j
  BY <1>0, <1>1, <1>11
<1>13. ASSUME NEW i \in 1 .. n
       PROVE  layout[i] = IF i <= Len(x) THEN x[i] ELSE IF i <= Len(x) + k THEN g
                          ELSE y[i - Len(x) - k]
  <2>1. i \in 1 .. Len(xt) + Len(y)
    BY <1>8, <1>11
  <2>2. CASE i <= Len(x)
    <3>1. i <= Len(xt) /\ i \in 1 .. Len(x) + j
      BY <1>0, <1>8, <2>2
    <3>2. layout[i] = x[i]
      BY <1>8, <1>10, <2>1, <2>2, <3>1
    <3> QED BY <2>2, <3>2
  <2>3. CASE ~(i <= Len(x)) /\ i <= Len(x) + k
    <3>1. i <= Len(xt) /\ i \in 1 .. Len(x) + j /\ i - Len(x) \in 1 .. j
      BY <1>0, <1>8, <1>12, <2>3
    <3>2. layout[i] = t[i - Len(x)]
      BY <1>8, <1>10, <2>1, <2>3, <3>1
    <3>3. t[i - Len(x)] = g
      BY <1>4, <3>1
    <3> QED BY <2>3, <3>2, <3>3
  <2>4. CASE ~(i <= Len(x)) /\ ~(i <= Len(x) + k)
    <3>1. ~(i <= Len(xt)) /\ i - Len(xt) = i - Len(x) - k
      <4>1. Len(xt) = Len(x) + k /\ Len(x) \in Nat /\ k \in Int /\ i \in Int
        BY <1>0, <1>8, <1>12
      <4> QED BY <2>4, <4>1
    <3>2. layout[i] = y[i - Len(xt)]
      BY <1>10, <2>1, <3>1
    <3> QED BY <2>4, <3>1, <3>2
  <2> QED BY <2>2, <2>3, <2>4
<1> QED BY <1>0, <1>11, <1>12, <1>13

\* The locator of a getheaders message, between its version and hash_stop.
LEMMA MiddleOf ==
  ASSUME NEW V, NEW s \in Seq(V), NEW n \in Nat, n = Len(s), n >= 2
  PROVE  /\ SubSeq(s, 2, n - 1) \in Seq(V) /\ Len(SubSeq(s, 2, n - 1)) = n - 2
         /\ \A i \in 1 .. n - 2 : SubSeq(s, 2, n - 1)[i] = s[i + 1]
         /\ (<<s[1]>> \o SubSeq(s, 2, n - 1)) \o <<s[n]>> = s
         /\ Last(s) = s[n]
<1>1. \A i \in 1 .. n : s[i] \in V
  BY LenProperties
<1>2. PICK a \in Seq(V), b \in Seq(V) : a = <<s[1]>> /\ b = <<s[n]>>
  <2>1. s[1] \in V /\ s[n] \in V
    BY <1>1
  <2> QED BY <2>1, OneValue
<1>3. Len(a) = 1 /\ a[1] = s[1] /\ Len(b) = 1 /\ b[1] = s[n]
  BY <1>2
<1>4. PICK t : t = SubSeq(s, 2, n - 1)
  OBVIOUS
<1>5. t \in Seq(V) /\ Len(t) = n - 2 /\ \A i \in 1 .. n - 2 : t[i] = s[i + 1]
  <2>1. PICK l \in Int, r \in Int : l = 2 /\ r = n - 1
    OBVIOUS
  <2>2. \A i \in l .. r : i \in 1 .. Len(s)
    BY <2>1
  <2>3. /\ SubSeq(s, l, r) \in Seq(V)
        /\ Len(SubSeq(s, l, r)) = IF l <= r THEN r - l + 1 ELSE 0
        /\ \A i \in 1 .. r - l + 1 : SubSeq(s, l, r)[i] = s[l + i - 1]
    <3>1. \A i \in l .. r : s[i] \in V
      BY <1>1, <2>2
    <3> QED BY <2>2, SubSeqProperties
  <2>4. r - l + 1 = n - 2 /\ (IF l <= r THEN r - l + 1 ELSE 0) = n - 2
    BY <2>1
  <2>5. \A i \in 1 .. n - 2 : l + i - 1 = i + 1
    BY <2>1
  <2> QED BY <1>4, <2>1, <2>3, <2>4, <2>5
<1> DEFINE G(x, y) ==
      /\ x \o y \in Seq(V) /\ Len(x \o y) = Len(x) + Len(y)
      /\ \A i \in 1 .. Len(x) + Len(y) : (x \o y)[i] = IF i <= Len(x) THEN x[i] ELSE y[i - Len(x)]
<1>6. \A x, y \in Seq(V) : G(x, y)
  BY ConcatProperties
<1>7. PICK u : u = a \o t
  OBVIOUS
<1> HIDE DEF G
<1>8. /\ u \in Seq(V) /\ Len(u) = n - 1
      /\ \A i \in 1 .. n - 1 : u[i] = IF i <= 1 THEN a[i] ELSE t[i - 1]
  <2>1. G(a, t)
    BY <1>2, <1>5, <1>6
  <2>2. /\ u \in Seq(V) /\ Len(u) = Len(a) + Len(t)
        /\ \A i \in 1 .. Len(a) + Len(t) : u[i] = IF i <= Len(a) THEN a[i] ELSE t[i - Len(a)]
    BY <1>7, <2>1, Zenon DEF G
  <2>3. Len(a) = 1 /\ Len(a) + Len(t) = n - 1
    BY <1>3, <1>5
  <2> QED BY <2>2, <2>3
<1>9. PICK w : w = u \o b
  OBVIOUS
<1>10. /\ w \in Seq(V) /\ Len(w) = n
       /\ \A i \in 1 .. n : w[i] = IF i <= n - 1 THEN u[i] ELSE b[i - (n - 1)]
  <2>1. G(u, b)
    BY <1>2, <1>6, <1>8
  <2>2. /\ w \in Seq(V) /\ Len(w) = Len(u) + Len(b)
        /\ \A i \in 1 .. Len(u) + Len(b) : w[i] = IF i <= Len(u) THEN u[i] ELSE b[i - Len(u)]
    BY <1>9, <2>1, Zenon DEF G
  <2>3. Len(u) = n - 1 /\ Len(u) + Len(b) = n
    BY <1>3, <1>8
  <2> QED BY <2>2, <2>3
<1>11. ASSUME NEW i \in 1 .. n PROVE w[i] = s[i]
  <2>1. CASE i = 1
    <3>1. i <= n - 1 /\ i \in 1 .. n - 1
      BY <2>1
    <3> QED BY <1>3, <1>8, <1>10, <2>1, <3>1
  <2>2. CASE i > 1 /\ i < n
    <3>1. i <= n - 1 /\ i \in 1 .. n - 1 /\ i - 1 \in 1 .. n - 2 /\ (i - 1) + 1 = i /\ ~(i <= 1)
      BY <2>2
    <3>2. w[i] = t[i - 1]
      BY <1>8, <1>10, <3>1
    <3>3. t[i - 1] = s[(i - 1) + 1]
      BY <1>5, <3>1
    <3> QED BY <3>1, <3>2, <3>3
  <2>3. CASE i = n
    <3>1. ~(i <= n - 1) /\ i - (n - 1) = 1
      BY <2>3
    <3> QED BY <1>3, <1>10, <2>3, <3>1
  <2> QED BY <2>1, <2>2, <2>3
<1>12. w = s
  BY <1>10, <1>11, SeqEqual
<1>13. Last(s) = s[n]
  BY DEF Last
<1> QED BY <1>2, <1>4, <1>5, <1>7, <1>9, <1>12, <1>13

\* GetHeadersMessage.
LEMMA GetHeadersParses ==
  ASSUME NEW m, Message(m), m.cmd = "getheaders", NEW s, s = SerialiseMessage(m)
  PROVE  Parses(m.cmd, s, m.vals)
<1>1. PICK n \in Nat : n = Len(m.vals)
  BY MessageIs
<1>2. PICK vs \in Seq(Seq(Int)) : vs = m.vals
  BY MessageIs
<1>3. PICK f : f = Item("int", 1)
  OBVIOUS
<1>4. FieldOK(f) /\ f.as = "int" /\ f.w = 1
  BY <1>3 DEF Item, FieldOK
<1>5. PICK k \in Int : k = n - 2
  OBVIOUS
<1>6. PICK g : g = Item("bytes", HashWidth)
  OBVIOUS
<1>7. FieldOK(g) /\ g.as = "bytes" /\ HashFields = <<g>> /\ Len(HashFields) = 1
  <2>1. PICK z \in Nat : z = 0
    OBVIOUS
  <2> QED BY <1>6, <2>1, HashesAre
<1>8. PICK layout : layout = Layout(m)
  OBVIOUS
<1>9. /\ k \in Nat /\ n = k + 2
      /\ layout[1] = f /\ \A i \in 2 .. n : layout[i] = g
  <2>1. PICK F : F = {f, g}
    OBVIOUS
  <2>2. PICK x \in Seq(F), y \in Seq(F) : x = <<f>> /\ y = <<g>>
    <3>1. f \in F /\ g \in F
      BY <2>1
    <3>2. <<f>> \in Seq(F) /\ <<g>> \in Seq(F)
      BY <3>1, OneValue
    <3> QED BY <3>2
  <2>3. Len(x) = 1 /\ x[1] = f /\ Len(y) = 1 /\ y[1] = g
    BY <2>2
  <2>4. layout = (x \o Times(k, <<g>>)) \o y
    BY <1>1, <1>3, <1>5, <1>6, <1>7, <1>8, <2>2 DEF Layout
  <2>5. Len(layout) = n /\ k = n - Len(x) - Len(y) /\ g \in F
    BY <1>1, <1>5, <1>8, <2>1, <2>3, MessageIs
  <2>6. /\ k \in Nat /\ n = Len(x) + k + Len(y) /\ Len(x) \in Nat /\ Len(y) \in Nat
        /\ \A i \in 1 .. n : layout[i] = IF i <= Len(x) THEN x[i]
                                          ELSE IF i <= Len(x) + k THEN g
                                          ELSE y[i - Len(x) - k]
    <3>1. IsList(F, x, y, g, n, k, layout)
      BY <2>5, ListInside
    <3> QED BY <2>4, <2>5, <3>1, Zenon DEF IsList
  <2>7. n = k + 2 /\ 1 \in 1 .. n /\ layout[1] = x[1]
    BY <2>3, <2>6
  <2>8. ASSUME NEW i \in 2 .. n PROVE layout[i] = g
    <3>1. i \in 1 .. n /\ ~(i <= Len(x)) /\ (~(i <= Len(x) + k) => i - Len(x) - k = 1)
      BY <2>3, <2>6
    <3> QED BY <2>3, <2>6, <3>1
  <2> QED BY <2>3, <2>6, <2>7, <2>8
<1>10. Len(vs) = n /\ \A i \in 1 .. n : vs[i] \in Seq(Int) /\ Encodable(layout[i], vs[i])
  BY <1>1, <1>2, <1>8, LenProperties, MessageIs
<1>11. PICK mid, v1, vn : mid = SubSeq(vs, 2, n - 1) /\ v1 = vs[1] /\ vn = vs[n]
  OBVIOUS
<1>12. /\ mid \in Seq(Seq(Int)) /\ Len(mid) = k /\ \A i \in 1 .. k : mid[i] = vs[i + 1]
       /\ (<<v1>> \o mid) \o <<vn>> = vs /\ Last(vs) = vn
  <2>1. n >= 2 /\ n = Len(vs)
    BY <1>9, <1>10
  <2>2. /\ SubSeq(vs, 2, n - 1) \in Seq(Seq(Int)) /\ Len(SubSeq(vs, 2, n - 1)) = n - 2
        /\ \A i \in 1 .. n - 2 : SubSeq(vs, 2, n - 1)[i] = vs[i + 1]
        /\ (<<vs[1]>> \o SubSeq(vs, 2, n - 1)) \o <<vs[n]>> = vs
        /\ Last(vs) = vs[n]
    BY <2>1, MiddleOf
  <2> QED BY <1>5, <1>11, <2>2, Zenon
<1>13. /\ v1 \in Seq(Int) /\ vn \in Seq(Int) /\ Encodable(f, v1) /\ Encodable(g, vn)
       /\ \A i \in 1 .. k : Encodable(g, mid[i])
  <2>1. 1 \in 1 .. n /\ n \in 1 .. n /\ n \in 2 .. n
    BY <1>9
  <2>2. ASSUME NEW i \in 1 .. k PROVE Encodable(g, mid[i])
    <3>1. i + 1 \in 1 .. n /\ i + 1 \in 2 .. n
      BY <1>9
    <3> QED BY <1>9, <1>10, <1>12, <3>1
  <2> QED BY <1>9, <1>10, <1>11, <2>1, <2>2
<1>14. PICK w1, w2, w3, o1, o3 :
          /\ w1 = WriteField(f, v1) /\ w2 = WriteList(HashFields, mid) /\ w3 = WriteField(g, vn)
          /\ o1 = <<v1>> /\ o3 = <<vn>>
  OBVIOUS
<1>15. /\ Reads(f, w1, o1) /\ Reads(g, w3, o3) /\ Strict(g, w3)
       /\ w1 \in Seq(Byte) /\ w3 \in Seq(Byte) /\ o1 \in Seq(Seq(Int)) /\ o3 \in Seq(Seq(Int))
       /\ w1 = ToBytes(vs[1][1], 1) /\ w3 = Last(vs)
  <2>1. Reads(f, w1, <<v1>>)
    BY <1>4, <1>13, <1>14, OneField
  <2>2. Reads(g, w3, <<vn>>) /\ Strict(g, w3)
    BY <1>7, <1>13, <1>14, OneField DEF Checked
  <2>3. w1 = ToBytes(v1[1], f.w)
    BY <1>4, <1>13, <1>14, WriteIs
  <2>4. w3 = vn
    BY <1>7, <1>13, <1>14, WriteIs
  <2>5. Reads(f, w1, o1) /\ Reads(g, w3, o3)
    BY <1>14, <2>1, <2>2
  <2> QED BY <1>4, <1>11, <1>12, <2>2, <2>3, <2>4, <2>5 DEF Reads
<1>16. s = (w1 \o w2) \o w3
  BY <1>2, <1>10, <1>11, <1>14, <1>15 DEF SerialiseMessage, SerialiseGetHeaders
<1>17. w2 \in Seq(Byte) /\ Len(w2) >= 1 /\
       (Len(w2) <= MaxMessageSize =>
          \A c : (Open(c) /\ Holds(c.data, c.pos, w2)) =>
                /\ Result(c, ReadList(c, HashFields), w2, mid)
                /\ Succeeds(c, ReadList(c, HashFields), w2)
                /\ Refuses(c, ReadList(c, HashFields), w2))
  <2>1. PICK t : t = Times(k, HashFields)
    OBVIOUS
  <2>2. t = [i \in 1 .. k |-> g]
    <3>1. Times(k, <<g>>) = [i \in 1 .. k |-> g]
      BY <1>9, TimesOne
    <3> QED BY <1>7, <2>1, <3>1
  <2>3. Fits(t, mid, k)
    BY <1>7, <1>9, <1>12, <1>13, <2>2 DEF Fits
  <2>4. k = 0 \/ t[k].as \in Checked
    BY <1>7, <1>9, <2>2 DEF Checked
  <2>5. k = Len(mid) \div Len(HashFields)
    BY <1>7, <1>9, <1>12
  <2>6. /\ w2 \in Seq(Byte) /\ Len(w2) >= 1 + k
        /\ Len(w2) <= MaxMessageSize =>
              \A c : (Open(c) /\ Holds(c.data, c.pos, w2)) =>
                /\ Result(c, ReadList(c, HashFields), w2, mid)
                /\ Succeeds(c, ReadList(c, HashFields), w2)
                /\ Refuses(c, ReadList(c, HashFields), w2)
    BY <1>9, <1>14, <2>1, <2>3, <2>4, <2>5, WriteListReads
  <2>7. Len(w2) >= 1
    BY <1>9, <2>6, LenProperties
  <2> QED BY <2>6, <2>7
<1>18. /\ w1 \o w2 \in Seq(Byte) /\ s \in Seq(Byte) /\ Len(s) = Len(w1) + Len(w2) + Len(w3)
       /\ Len(w1) \in Nat /\ Len(w2) \in Nat /\ Len(w3) \in Nat
  <2>1. PICK u : u = w1 \o w2
    OBVIOUS
  <2>2. u \in Seq(Byte) /\ Len(u) = Len(w1) + Len(w2)
    BY <1>15, <1>17, <2>1, ConcatProperties
  <2>3. s = u \o w3
    BY <1>16, <2>1
  <2>4. s \in Seq(Byte) /\ Len(s) = Len(u) + Len(w3)
    BY <1>15, <2>2, <2>3, ConcatProperties
  <2> QED BY <1>15, <1>17, <2>1, <2>2, <2>4, LenProperties
<1>19. Len(w2) <= MaxMessageSize
  BY <1>18, BaseIs, MessageIs
<1>20. ASSUME NEW p \in Seq(Byte), Holds(p, 0, s)
       PROVE  /\ Result(Cursor(p), ParseMessage("getheaders", p), s, m.vals)
              /\ Succeeds(Cursor(p), ParseMessage("getheaders", p), s)
              /\ Refuses(Cursor(p), ParseMessage("getheaders", p), s)
  <2>1. PICK c, d, e, r : /\ c = Cursor(p) /\ d = ReadField(c, f) /\ e = ReadList(d, HashFields)
                          /\ r = ReadField(e, g)
    OBVIOUS
  <2>2. ParseMessage("getheaders", p) = r
    <3>1. ReadFields(e, HashFields) = ReadField(e, g)
      BY <1>7, ReadsOne
    <3> QED BY <1>3, <2>1, <3>1 DEF ParseMessage, ParseGetHeaders
  <2>3. Open(c) /\ Holds(c.data, c.pos, s)
    BY <1>20, <2>1, CursorOpen
  <2>4. Holds(c.data, c.pos, w1 \o w2) /\ Holds(c.data, c.pos, w1)
    <3>1. c.data \in Seq(Byte) /\ c.pos \in Nat
      BY <2>3 DEF Open, Cursors
    <3>2. PICK u \in Seq(Byte) : u = w1 \o w2
      BY <1>18
    <3>3. Holds(c.data, c.pos, u \o w3)
      BY <1>16, <2>3, <3>2, Zenon
    <3>4. Holds(c.data, c.pos, u)
      BY <1>15, <3>1, <3>2, <3>3, HoldsParts
    <3> QED BY <1>15, <1>17, <3>1, <3>2, <3>4, HoldsParts
  <2>5. Result(c, d, w1, o1) /\ Succeeds(c, d, w1)
    BY <1>15, <2>1, <2>3, <2>4 DEF Reads
  <2>6. d.ok
    <3>1. d = Field(c, 1, <<FromBytes(Peek(c, 1))>>)
      BY <1>4, <2>1, <2>3 DEF ReadField, Open
    <3>2. PICK v : v = FromBytes(Peek(c, 1))
      OBVIOUS
    <3>3. v \in Int
      <4>1. Peek(c, 1) \in Seq(Byte)
        BY <2>3, PeekIs
      <4> QED BY <3>2, <4>1, BytesRead
    <3>4. <<v>> \in Seq(Int)
      BY <3>3, OneValue
    <3>5. Open(d)
      BY <2>3, <3>1, <3>2, <3>4, FieldIs
    <3> QED BY <3>5 DEF Open
  <2>7. (d.ok /\ Holds(d.data, d.pos, w2)) =>
          Result(d, e, w2, mid) /\ Succeeds(d, e, w2) /\ Refuses(d, e, w2)
    BY <1>17, <1>19, <2>1, <2>5 DEF Result
  <2>8. /\ Result(c, e, w1 \o w2, o1 \o mid) /\ Succeeds(c, e, w1 \o w2)
        /\ d.ok => Open(d) /\ d.data = c.data /\ Holds(d.data, d.pos, w2)
    <3>1. Holds(c.data, c.pos, w1 \o w2) /\ (~d.ok => ~e.ok)
      BY <2>4, <2>6
    <3>2. (d.ok /\ Holds(d.data, d.pos, w2)) => Result(d, e, w2, mid) /\ Succeeds(d, e, w2)
      BY <2>7
    <3>3. mid \in Seq(Seq(Int)) /\ w2 \in Seq(Byte) /\ Open(c)
      BY <1>12, <1>17, <2>3
    <3>4. w1 \in Seq(Byte) /\ o1 \in Seq(Seq(Int))
      BY <1>15
    <3> QED BY <2>5, <3>1, <3>2, <3>3, <3>4, Compose
  <2>9. ~e.ok => ~r.ok
    BY <2>1, RefusedStays
  <2>10. (e.ok /\ Holds(e.data, e.pos, w3)) =>
           Result(e, r, w3, o3) /\ Succeeds(e, r, w3) /\ Refuses(e, r, w3)
    BY <1>15, <2>1, <2>8 DEF Result, Reads, Strict
  <2>11. PICK u, x : u = w1 \o w2 /\ x = o1 \o mid
    OBVIOUS
  <2>12. x \in Seq(Seq(Int)) /\ x \o o3 = m.vals /\ u \o w3 = s
    BY <1>2, <1>12, <1>14, <1>15, <1>16, <2>11, Joined
  <2>13. /\ Result(c, r, s, m.vals) /\ Succeeds(c, r, s)
         /\ e.ok => Open(e) /\ e.data = c.data /\ Holds(e.data, e.pos, w3)
    <3>1. /\ Result(c, r, u \o w3, x \o o3) /\ Succeeds(c, r, u \o w3)
          /\ e.ok => Open(e) /\ e.data = c.data /\ Holds(e.data, e.pos, w3)
      <4>1. Result(c, e, u, x) /\ Succeeds(c, e, u) /\ Holds(c.data, c.pos, u \o w3)
        BY <2>3, <2>8, <2>11, <2>12
      <4> QED BY <1>15, <1>18, <2>3, <2>9, <2>10, <2>11, <2>12, <4>1, Compose
    <3> QED BY <2>12, <3>1
  <2>14. Refuses(c, r, s)
    <3>1. Len(w3) >= 1
      BY <1>15 DEF Strict
    <3>2. Refuses(c, r, u \o w3)
      <4>1. Result(c, e, u, x)
        BY <2>8, <2>11
      <4> QED BY <1>15, <1>18, <2>3, <2>9, <2>10, <2>11, <2>12, <2>13, <3>1, <4>1, ComposeRefuses
    <3> QED BY <2>12, <3>2
  <2> QED BY <2>1, <2>2, <2>13, <2>14
<1>21. Parses("getheaders", s, m.vals)
  BY <1>18, <1>20 DEF Parses
<1> QED BY <1>21

\* FlattenSeq, one element at a time.
LEMMA FlattenStep ==
  ASSUME NEW ws \in Seq(Seq(Byte)), NEW hs, FlattenRun(hs, ws, Byte), NEW i \in 1 .. Len(ws)
  PROVE  Len(hs[i]) = Len(hs[i - 1]) + Len(ws[i]) /\ Len(hs[i]) \in Nat /\ Len(ws[i]) \in Nat
<1>1. Len(ws) \in Nat /\ i - 1 \in 0 .. Len(ws) /\ i \in 0 .. Len(ws)
  BY LenProperties
<1>2. PICK a \in Seq(Byte), b \in Seq(Byte) : a = hs[i - 1] /\ b = ws[i]
  <2>1. hs \in [0 .. Len(ws) -> Seq(Byte)]
    BY Zenon DEF FlattenRun
  <2>2. hs[i - 1] \in Seq(Byte)
    BY <1>1, <2>1
  <2>3. ws[i] \in Seq(Byte)
    BY LenProperties
  <2> QED BY <2>2, <2>3
<1>3. hs[i] = a \o b
  <2>1. hs[i] = hs[i - 1] \o ws[i]
    BY Zenon DEF FlattenRun
  <2> QED BY <1>2, <2>1
<1>4. Len(a \o b) = Len(a) + Len(b) /\ Len(a) \in Nat /\ Len(b) \in Nat
  BY ConcatProperties, LenProperties
<1>5. Len(hs[i]) = Len(a) + Len(b)
  BY <1>3, <1>4
<1>6. Len(a) + Len(b) \in Nat
  BY <1>4
<1>7. Len(hs[i]) \in Nat /\ Len(ws[i]) \in Nat
  BY <1>2, <1>4, <1>5, <1>6, Zenon
<1>8. Len(hs[i]) = Len(hs[i - 1]) + Len(ws[i])
  BY <1>2, <1>5, Zenon
<1> QED BY <1>7, <1>8, Zenon

\* A field of a hash.
LEMMA HashIs == HashWidth \in Nat /\ HashWidth = 2
BY DEF HashWidth

\* The six fields of a raw header and its size.
LEMMA RawHeaderIs ==
  /\ Len(RawHeader) = 6 /\ DOMAIN RawHeader = 1 .. 6
  /\ \A i \in 1 .. 6 : /\ FieldOK(RawHeader[i])
                       /\ RawHeader[i].as \in {"bytes", "int", "signed"}
                       /\ RawHeader[i].w = IF i \in {2, 3} THEN 2 ELSE 1
  /\ RawHeaderSize = 8
<1>1. PICK x, y, z : x = Item("signed", 1) /\ y = Item("bytes", HashWidth) /\ z = Item("int", 1)
  OBVIOUS
<1>2. /\ FieldOK(x) /\ x.as = "signed" /\ x.w = 1
      /\ FieldOK(y) /\ y.as = "bytes" /\ y.w = 2
      /\ FieldOK(z) /\ z.as = "int" /\ z.w = 1
  BY <1>1, HashIs DEF Item, FieldOK
<1>3. RawHeader = <<x, y, y, z, z, z>>
  BY <1>1 DEF RawHeader
<1>4. ASSUME NEW i \in 1 .. 6
      PROVE  RawHeader[i] = IF i = 1 THEN x ELSE IF i \in {2, 3} THEN y ELSE z
  BY <1>3
<1>5. RawHeaderSize = 8
  BY HashIs DEF RawHeaderSize
<1> QED BY <1>2, <1>3, <1>4, <1>5

\* A raw header is read back.
LEMMA HeaderReads ==
  ASSUME NEW vs, Fits(RawHeader, vs, 6), NEW s, s = WriteFields(RawHeader, vs)
  PROVE  s \in Seq(Byte) /\ Len(s) = 8
<1>1. PICK n \in Nat : n = 6
  OBVIOUS
<1>0. PICK ws, os : Chunks(RawHeader, vs, n, ws, os)
  <2>1. PICK layout : layout = RawHeader
    OBVIOUS
  <2>2. Fits(layout, vs, n)
    BY <1>1, <2>1
  <2>3. \E ws, os : Chunks(layout, vs, n, ws, os)
    BY <2>2, ChunksExist
  <2> QED BY <2>1, <2>3
<1>2. ws = [i \in 1 .. n |-> WriteField(RawHeader[i], vs[i])]
  BY <1>0 DEF Chunks
<1>3. /\ ws \in Seq(Seq(Byte)) /\ Len(ws) = n /\ s = FlattenSeq(ws)
  BY <1>0, Zenon DEF Chunks
<1>4. PICK hs : FlattenRun(hs, ws, Byte)
  BY <1>3, FlattenPrefixes
<1>5. hs[6] = s /\ Len(hs[0]) = 0 /\ hs[6] \in Seq(Byte)
  <2>1. /\ hs \in [0 .. Len(ws) -> Seq(Byte)] /\ hs[0] = << >> /\ hs[Len(ws)] = s
    BY <1>3, <1>4, Zenon DEF FlattenRun
  <2>2. 6 \in 0 .. Len(ws)
    BY <1>1, <1>3
  <2> QED BY <1>1, <1>3, <2>1, <2>2
<1>6. ASSUME NEW i \in 1 .. 6 PROVE Len(ws[i]) = IF i \in {2, 3} THEN 2 ELSE 1
  <2>1. PICK f, v : f = RawHeader[i] /\ v = vs[i]
    OBVIOUS
  <2>2. FieldOK(f) /\ f.as \in {"bytes", "int", "signed"} /\ f.w = IF i \in {2, 3} THEN 2 ELSE 1
    BY <2>1, RawHeaderIs
  <2>3. v \in Seq(Int) /\ Encodable(f, v)
    BY <2>1, LenProperties DEF Fits
  <2>4. Len(WriteField(f, v)) = f.w
    BY <2>2, <2>3, WriteIs
  <2>5. ws[i] = WriteField(f, v)
    BY <1>1, <1>2, <2>1
  <2> QED BY <2>2, <2>4, <2>5
<1>7. ASSUME NEW i \in 1 .. 6
      PROVE  Len(hs[i]) = Len(hs[i - 1]) + Len(ws[i])
  BY <1>1, <1>3, <1>4, FlattenStep
<1>8. Len(s) = 8
  <2> DEFINE L(i) == Len(hs[i])
  <2>1. \A i \in 1 .. 6 : L(i) = L(i - 1) + IF i \in {2, 3} THEN 2 ELSE 1
    BY <1>6, <1>7
  <2>2. L(0) = 0
    BY <1>5
  <2> HIDE DEF L
  <2>3. /\ L(1) = L(0) + 1 /\ L(2) = L(1) + 2 /\ L(3) = L(2) + 2
        /\ L(4) = L(3) + 1 /\ L(5) = L(4) + 1 /\ L(6) = L(5) + 1
    BY <2>1
  <2>4. L(6) = 8
    BY <2>2, <2>3
  <2> QED BY <1>5, <2>4 DEF L
<1> QED BY <1>5, <1>8

\* A repeated layout is a sequence of fields.
LEMMA TimesSeq ==
  ASSUME NEW F, NEW g \in F, NEW k \in Int
  PROVE  Times(k, <<g>>) \in Seq(F)
<1>1. ASSUME NEW j \in Nat PROVE Times(j, <<g>>) \in Seq(F)
  <2>1. PICK t : t = Times(j, <<g>>)
    OBVIOUS
  <2>2. t = [i \in 1 .. j |-> g]
    BY <2>1, TimesOne
  <2>3. t \in [1 .. j -> F]
    BY <2>2
  <2> QED BY <2>1, <2>3, IndexedSeq
<1>2. CASE k >= 0
  <2>1. PICK j \in Nat : j = k
    BY <1>2
  <2>2. Times(j, <<g>>) \in Seq(F)
    BY <1>1
  <2> QED BY <2>1, <2>2, Zenon
<1>3. CASE k < 0
  <2>1. PICK z \in Nat : z = 0
    OBVIOUS
  <2>2. Times(k, <<g>>) = Times(z, <<g>>)
    BY <1>3, <2>1, TimesNone
  <2> QED BY <1>1, <2>2
<1> QED BY <1>2, <1>3

\* serialise_block and parse_block.
LEMMA BlockParses ==
  ASSUME NEW m, Message(m), m.cmd = "block", NEW s, s = SerialiseMessage(m)
  PROVE  Parses(m.cmd, s, m.vals)
<1>1. PICK n \in Nat : n = Len(m.vals)
  BY MessageIs
<1>2. PICK vs \in Seq(Seq(Int)) : vs = m.vals
  BY MessageIs
<1>3. PICK k \in Int : k = n - 6
  OBVIOUS
<1>4. PICK g : g = Item("var", 0)
  OBVIOUS
<1>5. FieldOK(g) /\ g.as = "var" /\ TxFields = <<g>> /\ Len(TxFields) = 1
  BY <1>4 DEF Item, FieldOK, TxFields
<1>6. PICK layout, x, e : layout = Layout(m) /\ x = RawHeader /\ e = << >>
  OBVIOUS
<1>7. /\ k \in Nat /\ n = 6 + k
      /\ \A i \in 1 .. n : layout[i] = IF i <= 6 THEN RawHeader[i] ELSE g
  <2>1. PICK F : F = {x[i] : i \in 1 .. 6} \cup {g}
    OBVIOUS
  <2>2. x \in Seq(F) /\ Len(x) = 6
    <3>1. PICK l \in Nat : l = 6
      OBVIOUS
    <3>2. x \in [1 .. l -> F]
      <4>1. \A i \in 1 .. l : x[i] \in F
        BY <2>1, <3>1
      <4>2. x = [i \in 1 .. l |-> x[i]]
        BY <1>6, <3>1 DEF RawHeader
      <4> QED BY <4>1, <4>2
    <3>3. x \in Seq(F) /\ Len(x) = l
      BY <3>2, IndexedSeq
    <3> QED BY <3>1, <3>3
  <2>3. g \in F /\ e \in Seq(F) /\ Len(e) = 0
    BY <1>6, <2>1, EmptySeq
  <2>4. layout = x \o Times(k, <<g>>)
    BY <1>1, <1>3, <1>5, <1>6, <2>2 DEF Layout
  <2>5. PICK t \in Seq(F) : t = Times(k, <<g>>)
    BY <2>3, TimesSeq
  <2>6. layout = (x \o t) \o e
    <3>1. PICK u \in Seq(F) : u = x \o t
      BY <2>2, ConcatProperties
    <3>2. u \o << >> = u
      BY ConcatEmptySeq
    <3> QED BY <1>6, <2>4, <2>5, <3>1, <3>2, Zenon
  <2>7. IsList(F, x, e, g, n, k, layout)
    BY <2>2, <2>3, ListInside
  <2>8. k = n - Len(x) - Len(e) /\ Len(layout) = n
    BY <1>1, <1>3, <1>6, <2>2, <2>3, MessageIs
  <2>9. /\ k \in Nat /\ n = Len(x) + k + Len(e)
        /\ \A i \in 1 .. n : layout[i] = IF i <= Len(x) THEN x[i]
                                          ELSE IF i <= Len(x) + k THEN g
                                          ELSE e[i - Len(x) - k]
    BY <2>5, <2>6, <2>7, <2>8, Zenon DEF IsList
  <2>10. \A i \in 1 .. n : i <= Len(x) + k
    BY <2>2, <2>3, <2>9
  <2> QED BY <1>6, <2>2, <2>3, <2>9, <2>10
<1>8. Len(vs) = n /\ \A i \in 1 .. n : vs[i] \in Seq(Int) /\ Encodable(layout[i], vs[i])
  BY <1>1, <1>2, <1>6, LenProperties, MessageIs
<1>9. PICK a, b : a = SubSeq(vs, 1, 6) /\ b = SubSeq(vs, 7, n)
  OBVIOUS
<1>10. /\ a \in Seq(Seq(Int)) /\ Len(a) = 6 /\ \A i \in 1 .. 6 : a[i] = vs[i]
       /\ b \in Seq(Seq(Int)) /\ Len(b) = k /\ \A i \in 1 .. k : b[i] = vs[6 + i]
       /\ a \o b = vs
  <2>1. PICK j \in 0 .. Len(vs) : j = 6
    BY <1>7, <1>8
  <2>2. /\ SubSeq(vs, 1, j) \in Seq(Seq(Int)) /\ Len(SubSeq(vs, 1, j)) = j
        /\ \A i \in 1 .. j : SubSeq(vs, 1, j)[i] = vs[i]
        /\ SubSeq(vs, j + 1, Len(vs)) \in Seq(Seq(Int))
        /\ Len(SubSeq(vs, j + 1, Len(vs))) = Len(vs) - j
        /\ \A i \in 1 .. Len(vs) - j : SubSeq(vs, j + 1, Len(vs))[i] = vs[j + i]
        /\ SubSeq(vs, 1, j) \o SubSeq(vs, j + 1, Len(vs)) = vs
    BY SplitAt
  <2>3. a = SubSeq(vs, 1, j) /\ b = SubSeq(vs, j + 1, Len(vs)) /\ Len(vs) - j = k
    BY <1>3, <1>8, <1>9, <2>1
  <2> QED BY <2>1, <2>2, <2>3
<1>11. Fits(RawHeader, a, 6)
  <2>1. ASSUME NEW i \in 1 .. 6 PROVE FieldOK(RawHeader[i]) /\ Encodable(RawHeader[i], a[i])
    <3>1. i \in 1 .. n /\ i <= 6
      BY <1>7
    <3>2. layout[i] = RawHeader[i] /\ a[i] = vs[i] /\ Encodable(layout[i], vs[i])
      BY <1>7, <1>8, <1>10, <3>1
    <3> QED BY <3>2, RawHeaderIs
  <2>2. DOMAIN RawHeader = 1 .. 6
    BY RawHeaderIs
  <2> HIDE DEF RawHeader
  <2> QED BY <1>10, <2>1, <2>2 DEF Fits
<1>12. PICK w1, w2 : w1 = WriteFields(RawHeader, a) /\ w2 = WriteList(TxFields, b)
  OBVIOUS
<1>13. /\ w1 \in Seq(Byte) /\ Len(w1) = 8
       /\ \A c : (Open(c) /\ Holds(c.data, c.pos, w1)) =>
            /\ Result(c, ReadFields(c, RawHeader), w1, a)
            /\ Succeeds(c, ReadFields(c, RawHeader), w1)
  <2>1. w1 \in Seq(Byte) /\ Len(w1) = 8
    BY <1>11, <1>12, HeaderReads
  <2>2. PICK l : l = 6
    OBVIOUS
  <2>3. Fits(RawHeader, a, l)
    BY <1>11, <2>2
  <2> QED BY <1>12, <2>1, <2>3, FieldsRead
<1>14. s = w1 \o w2
  <2>1. Len(RawHeader) = 6
    BY RawHeaderIs
  <2>2. s = WriteFields(RawHeader, SubSeq(vs, 1, Len(RawHeader)))
              \o WriteList(TxFields, SubSeq(vs, Len(RawHeader) + 1, Len(vs)))
    BY <1>2 DEF SerialiseMessage, SerialiseBlock
  <2>3. Len(RawHeader) + 1 = 7
    BY <2>1
  <2> QED BY <1>8, <1>9, <1>12, <2>1, <2>2, <2>3, Zenon
<1>15. w2 \in Seq(Byte) /\ Len(w2) >= 1 /\
       (Len(w2) <= MaxMessageSize =>
          \A c : (Open(c) /\ Holds(c.data, c.pos, w2)) =>
                /\ Result(c, ReadList(c, TxFields), w2, b)
                /\ Succeeds(c, ReadList(c, TxFields), w2)
                /\ Refuses(c, ReadList(c, TxFields), w2))
  <2>1. PICK t : t = Times(k, TxFields)
    OBVIOUS
  <2>2. t = [i \in 1 .. k |-> g]
    <3>1. Times(k, <<g>>) = [i \in 1 .. k |-> g]
      BY <1>7, TimesOne
    <3> QED BY <1>5, <2>1, <3>1
  <2>3. Fits(t, b, k)
    <3>1. ASSUME NEW i \in 1 .. k PROVE Encodable(g, b[i])
      <4>1. 6 + i \in 1 .. n /\ ~(6 + i <= 6)
        BY <1>7
      <4> QED BY <1>7, <1>8, <1>10, <4>1
    <3> QED BY <1>5, <1>7, <1>10, <2>2, <3>1 DEF Fits
  <2>4. k = 0 \/ t[k].as \in Checked
    BY <1>5, <1>7, <2>2 DEF Checked
  <2>5. k = Len(b) \div Len(TxFields)
    BY <1>5, <1>7, <1>10
  <2>6. /\ w2 \in Seq(Byte) /\ Len(w2) >= 1 + k
        /\ Len(w2) <= MaxMessageSize =>
              \A c : (Open(c) /\ Holds(c.data, c.pos, w2)) =>
                /\ Result(c, ReadList(c, TxFields), w2, b)
                /\ Succeeds(c, ReadList(c, TxFields), w2)
                /\ Refuses(c, ReadList(c, TxFields), w2)
    BY <1>7, <1>12, <2>1, <2>3, <2>4, <2>5, WriteListReads
  <2>7. Len(w2) >= 1
    BY <1>7, <2>6, LenProperties
  <2> QED BY <2>6, <2>7
<1>16. s \in Seq(Byte) /\ Len(s) = Len(w1) + Len(w2) /\ Len(w2) \in Nat
  BY <1>13, <1>14, <1>15, ConcatProperties, LenProperties
<1>17. Len(w2) <= MaxMessageSize
  BY <1>13, <1>16, BaseIs, MessageIs
<1>18. ASSUME NEW p \in Seq(Byte), Holds(p, 0, s)
       PROVE  /\ Result(Cursor(p), ParseMessage("block", p), s, m.vals)
              /\ Succeeds(Cursor(p), ParseMessage("block", p), s)
              /\ Refuses(Cursor(p), ParseMessage("block", p), s)
  <2>1. PICK c, d, r : c = Cursor(p) /\ d = ReadFields(c, RawHeader) /\ r = ReadList(d, TxFields)
    OBVIOUS
  <2>2. Open(c) /\ Holds(c.data, c.pos, s) /\ c.data = p /\ c.pos = 0 /\ c \in Cursors
    BY <1>18, <2>1, CursorOpen
  <2>3. ParseMessage("block", p) = IF Len(p) < 8 THEN Raise(c) ELSE r
    BY <2>1, RawHeaderIs DEF ParseMessage, ParseBlock
  <2>4. Len(p) \in Nat
    BY LenProperties
  <2>5. CASE Len(p) < 8
    <3>1. PICK q : q = Raise(c)
      OBVIOUS
    <3>2. ~q.ok
      BY <2>2, <3>1, Raised
    <3>3. ~(c.pos + Len(s) <= Len(c.data))
      BY <1>13, <1>15, <1>16, <2>2, <2>4, <2>5
    <3>4. Result(c, q, s, m.vals) /\ Succeeds(c, q, s) /\ Refuses(c, q, s)
      BY <3>2, <3>3, Zenon DEF Result, Succeeds, Refuses
    <3> QED BY <2>1, <2>3, <2>5, <3>1, <3>4, Zenon
  <2>6. CASE ~(Len(p) < 8)
    <3>1. Holds(c.data, c.pos, w1)
      BY <1>13, <1>14, <1>15, <2>2, HoldsParts
    <3>2. Result(c, d, w1, a) /\ Succeeds(c, d, w1)
      BY <1>13, <2>1, <2>2, <3>1
    <3>3. d.ok
      <4>1. c.pos + Len(w1) <= Len(c.data)
        BY <1>13, <2>2, <2>4, <2>6
      <4> QED BY <3>2, <4>1 DEF Succeeds
    <3>4. (d.ok /\ Holds(d.data, d.pos, w2)) =>
             Result(d, r, w2, b) /\ Succeeds(d, r, w2) /\ Refuses(d, r, w2)
      BY <1>15, <1>17, <2>1, <3>2 DEF Result
    <3>5. Holds(c.data, c.pos, w1 \o w2) /\ (~d.ok => ~r.ok) /\ Open(c)
      BY <1>14, <2>2, <3>3
    <3>6. w1 \in Seq(Byte) /\ w2 \in Seq(Byte) /\ a \in Seq(Seq(Int)) /\ b \in Seq(Seq(Int))
      BY <1>10, <1>13, <1>15
    <3>7. (d.ok /\ Holds(d.data, d.pos, w2)) => Result(d, r, w2, b) /\ Succeeds(d, r, w2)
      BY <3>4
    <3>8. /\ Result(c, r, w1 \o w2, a \o b) /\ Succeeds(c, r, w1 \o w2)
          /\ d.ok => Open(d) /\ d.data = c.data /\ Holds(d.data, d.pos, w2)
      BY <3>2, <3>5, <3>6, <3>7, Compose
    <3>9. Refuses(c, r, w1 \o w2)
      <4>1. d.ok => Refuses(d, r, w2)
        BY <3>4, <3>8
      <4>2. Len(w2) >= 1
        BY <1>15
      <4> QED BY <3>2, <3>5, <3>6, <4>1, <4>2, ComposeRefuses
    <3>10. Result(c, r, s, m.vals) /\ Succeeds(c, r, s) /\ Refuses(c, r, s)
      BY <1>2, <1>10, <1>14, <3>8, <3>9, Zenon
    <3> QED BY <2>1, <2>3, <2>6, <3>10, Zenon
  <2> QED BY <2>5, <2>6
<1>19. Parses("block", s, m.vals)
  BY <1>16, <1>18 DEF Parses
<1> QED BY <1>19

\* The thirteen fields of a version message; the eleventh is the user agent.
LEMMA VersionFieldsAre ==
  /\ Len(VersionFields) = 13 /\ DOMAIN VersionFields = 1 .. 13
  /\ \A i \in 1 .. 13 : FieldOK(VersionFields[i])
  /\ VersionFields[11].as = "var"
<1>1. PICK s1, i1, h, b2, v, s2, fl :
        /\ s1 = Item("signed", 1) /\ i1 = Item("int", 1) /\ h = Item("bytes", HashWidth)
        /\ b2 = Item("big", 2) /\ v = Item("var", 0) /\ s2 = Item("signed", 2)
        /\ fl = Item("flag", 1)
  OBVIOUS
<1>2. PICK F : F = {s1, i1, h, b2, v, s2, fl}
  OBVIOUS
<1>3. \A f \in F : FieldOK(f)
  <2>1. FieldOK(s1) /\ FieldOK(i1)
    BY <1>1 DEF Item, FieldOK
  <2>2. FieldOK(h) /\ FieldOK(b2)
    BY <1>1, HashIs DEF Item, FieldOK
  <2>3. FieldOK(v) /\ FieldOK(s2)
    BY <1>1 DEF Item, FieldOK
  <2>4. FieldOK(fl)
    BY <1>1 DEF Item, FieldOK
  <2> QED BY <1>2, <2>1, <2>2, <2>3, <2>4
<1>4. s1 \in F /\ i1 \in F /\ h \in F /\ b2 \in F /\ v \in F /\ s2 \in F /\ fl \in F
  BY <1>2
<1>5. PICK x, y, z : x = <<s1, i1, s1>> /\ y = <<i1, h, b2>> /\ z = <<i1, v, s2, fl>>
  OBVIOUS
<1>6. /\ x \in Seq(F) /\ Len(x) = 3 /\ y \in Seq(F) /\ Len(y) = 3
      /\ z \in Seq(F) /\ Len(z) = 4 /\ z[2] = v
  BY <1>4, <1>5
<1>7. VersionFields = ((x \o y) \o y) \o z
  BY <1>1, <1>5 DEF VersionFields, NetAddrFields
<1> DEFINE G(a, b) == /\ a \o b \in Seq(F) /\ Len(a \o b) = Len(a) + Len(b)
                      /\ \A k \in 1 .. Len(b) : (a \o b)[Len(a) + k] = b[k]
<1>8. \A a, b \in Seq(F) : G(a, b)
  BY ConcatProperties, LenProperties
<1> HIDE DEF G
<1>9. PICK u : u = x \o y
  OBVIOUS
<1>10. u \in Seq(F) /\ Len(u) = 6
  <2>1. G(x, y)
    BY <1>6, <1>8
  <2>2. u \in Seq(F) /\ Len(u) = Len(x) + Len(y)
    BY <1>9, <2>1, Zenon DEF G
  <2> QED BY <1>6, <2>2
<1>11. PICK w : w = u \o y
  OBVIOUS
<1>12. w \in Seq(F) /\ Len(w) = 9
  <2>1. G(u, y)
    BY <1>6, <1>8, <1>10
  <2>2. w \in Seq(F) /\ Len(w) = Len(u) + Len(y)
    BY <1>11, <2>1, Zenon DEF G
  <2> QED BY <1>6, <1>10, <2>2
<1>13. PICK q : q = VersionFields
  OBVIOUS
<1>14. q \in Seq(F) /\ Len(q) = 13 /\ q[11] = v
  <2>1. G(w, z)
    BY <1>6, <1>8, <1>12
  <2>2. /\ q \in Seq(F) /\ Len(q) = Len(w) + Len(z)
        /\ \A k \in 1 .. Len(z) : q[Len(w) + k] = z[k]
    <3>1. q = w \o z
      BY <1>7, <1>9, <1>11, <1>13, Zenon
    <3> QED BY <2>1, <3>1, Zenon DEF G
  <2>3. 2 \in 1 .. Len(z) /\ Len(w) + 2 = 11 /\ Len(w) + Len(z) = 13
    BY <1>6, <1>12
  <2> QED BY <1>6, <2>2, <2>3
<1>15. DOMAIN q = 1 .. 13 /\ \A i \in 1 .. 13 : q[i] \in F
  BY <1>14, LenProperties
<1>16. v.as = "var"
  BY <1>1 DEF Item
<1> QED BY <1>3, <1>13, <1>14, <1>15, <1>16

\* A message is read back; the rest of a version message may be cut off.
Readable(m, s) ==
    /\ s \in Seq(Byte) /\ m.vals \in Seq(Seq(Int))
    /\ \A p \in Seq(Byte) : Holds(p, 0, s) =>
         /\ Result(Cursor(p), ParseMessage(m.cmd, p), s, m.vals)
         /\ Succeeds(Cursor(p), ParseMessage(m.cmd, p), s)
         /\ (ParseMessage(m.cmd, p).ok /\ Len(s) > Len(p)) =>
               TailMissing(m, [cmd |-> m.cmd, vals |-> ParseMessage(m.cmd, p).out])

\* The values read of a version message, the tail of which may be missing.
LEMMA TailRead ==
  ASSUME NEW layout, NEW vs, NEW n, Fits(layout, vs, n), n >= 2, layout[n - 2].as \in Checked,
         NEW s, s = WriteFields(layout, vs), NEW p \in Seq(Byte), Holds(p, 0, s),
         NEW r, r = ReadFields(Cursor(p), layout), r.ok
  PROVE  Len(r.out) = n /\ \A i \in 1 .. n - 2 : r.out[i] = vs[i]
<1>0. PICK ws, os : Chunks(layout, vs, n, ws, os)
  BY ChunksExist
<1>1. ws = [i \in 1 .. n |-> WriteField(layout[i], vs[i])] /\ os = [i \in 1 .. n |-> <<vs[i]>>]
  BY <1>0 DEF Chunks
<1>2. /\ ws \in Seq(Seq(Byte)) /\ Len(ws) = n
      /\ os \in Seq(Seq(Seq(Int))) /\ Len(os) = n
      /\ \A i \in 1 .. n : /\ Reads(layout[i], ws[i], os[i])
                           /\ layout[i].as \in Checked => Strict(layout[i], ws[i])
      /\ s = FlattenSeq(ws)
  BY <1>0 DEF Chunks
<1>3. ASSUME NEW i \in 1 .. n PROVE os[i] \in Seq(Seq(Int)) /\ Len(os[i]) = 1
  <2>1. os[i] = <<vs[i]>>
    BY <1>1
  <2>2. vs[i] \in Seq(Int)
    BY LenProperties DEF Fits
  <2>3. <<vs[i]>> \in Seq(Seq(Int)) /\ Len(<<vs[i]>>) = 1
    BY <2>2, OneValue
  <2> QED BY <2>1, <2>3
<1>4. n \in Nat /\ DOMAIN layout = 1 .. n /\ Len(vs) = n /\ vs \in Seq(Seq(Int))
  BY DEF Fits
<1>5. PICK hs : FlattenRun(hs, ws, Byte)
  BY <1>2, FlattenPrefixes
<1>6. PICK ks : FlattenRun(ks, os, Seq(Int))
  BY <1>2, FlattenPrefixes
<1>7. ks[n] = vs /\ \A i \in 0 .. n : Len(ks[i]) = i /\ \A j \in 1 .. i : ks[i][j] = vs[j]
  <2>1. FlattenRun(ks, [i \in 1 .. Len(vs) |-> <<vs[i]>>], Seq(Int))
    BY <1>1, <1>4, <1>6
  <2> QED BY <1>4, <2>1, SingleValues
<1>8. hs[n] = s /\ hs \in [0 .. n -> Seq(Byte)]
  BY <1>2, <1>5, Zenon DEF FlattenRun
<1>9. PICK c : c = Cursor(p)
  OBVIOUS
<1>10. Open(c) /\ Holds(c.data, c.pos, hs[n]) /\ c.out = << >> /\ c.pos = 0
  BY <1>8, <1>9, CursorOpen
<1>11. PICK h : IsReading(h, c, layout, n)
  BY <1>4, ReadingExists
<1>12. r = h[n]
  BY <1>9, <1>11, Zenon DEF IsReading
<1>13. /\ \A i \in 0 .. n : Result(c, h[i], hs[i], ks[i]) /\ Succeeds(c, h[i], hs[i])
       /\ \A i \in 1 .. n :
              /\ h[i].ok => h[i - 1].ok
              /\ h[i - 1].ok => /\ Result(h[i - 1], h[i], ws[i], os[i])
                                /\ Open(h[i - 1])
              /\ Strict(layout[i], ws[i]) => Refuses(c, h[i], hs[i])
  BY <1>2, <1>4, <1>5, <1>6, <1>10, <1>11, LayoutReads
<1>14. PICK i, k : i = n - 1 /\ k = n - 2
  OBVIOUS
<1>15. /\ n \in 1 .. n /\ n - 1 = i /\ i \in 1 .. n /\ i - 1 = k /\ k \in 0 .. n
       /\ k = 0 \/ k \in 1 .. n
  BY <1>4, <1>14
<1>16. h[n].ok /\ h[i].ok /\ h[k].ok
  <2>1. h[n].ok
    BY <1>12
  <2>2. h[i].ok
    BY <1>13, <1>15, <2>1
  <2>3. h[k].ok
    BY <1>13, <1>15, <2>2
  <2> QED BY <2>1, <2>2, <2>3
<1>17. h[k].out = ks[k]
  <2>1. hs[k] \in Seq(Byte)
    BY <1>8, <1>15
  <2>2. Len(c.data) \in Nat /\ Len(hs[k]) \in Nat /\ c.pos \in Nat /\ c.pos <= Len(c.data)
    BY <1>10, <2>1, LenProperties DEF Open, Cursors
  <2>3. c.pos + Len(hs[k]) <= Len(c.data)
    <3>1. CASE k \in 1 .. n
      <4>1. Refuses(c, h[k], hs[k])
        BY <1>2, <1>13, <1>14, <3>1
      <4> QED BY <1>16, <2>2, <4>1 DEF Refuses
    <3>2. CASE k = 0
      <4>1. hs[k] = << >>
        BY <1>5, <3>2, Zenon DEF FlattenRun
      <4> QED BY <2>2, <4>1
    <3> QED BY <1>15, <3>1, <3>2
  <2>4. h[k].out = c.out \o ks[k]
    BY <1>13, <1>15, <1>16, <2>3 DEF Result
  <2>5. ks[k] \in Seq(Seq(Int))
    <3>1. ks \in [0 .. n -> Seq(Seq(Int))]
      BY <1>2, <1>6, Zenon DEF FlattenRun
    <3> QED BY <1>15, <3>1
  <2>6. << >> \o ks[k] = ks[k]
    BY <2>5, ConcatEmptySeq
  <2> QED BY <1>10, <2>4, <2>6, Zenon
<1> DEFINE Longer(q1, q2) == Len(q2) = Len(q1) + 1 /\ \A j \in 1 .. Len(q1) : q2[j] = q1[j]
<1>18. ASSUME NEW l \in 1 .. n, h[l].ok PROVE Longer(h[l - 1].out, h[l].out)
  <2>1. PICK a, b, w, o : a = h[l - 1] /\ b = h[l] /\ w = ws[l] /\ o = os[l]
    OBVIOUS
  <2>2. Open(a) /\ Result(a, b, w, o) /\ b.ok
    BY <1>13, <1>18, <2>1
  <2>3. o \in Seq(Seq(Int)) /\ Len(o) = 1 /\ w \in Seq(Byte)
    BY <1>2, <1>3, <2>1, LenProperties
  <2>4. /\ a.out \in Seq(Seq(Int)) /\ a.pos \in Nat /\ Len(a.data) \in Nat /\ Len(w) \in Nat
    BY <2>2, <2>3, LenProperties DEF Open, Cursors
  <2>5. \E x \in Seq(Seq(Int)) : Len(x) = 1 /\ b.out = a.out \o x
    <3>1. CASE a.pos + Len(w) <= Len(a.data)
      <4>1. b.out = a.out \o o
        BY <2>2, <3>1 DEF Result
      <4> QED BY <2>3, <4>1
    <3>2. CASE a.pos + Len(w) > Len(a.data)
      <4>1. \E x \in Seq(Seq(Int)) : Len(x) = Len(o) /\ b.out = a.out \o x
        BY <2>2, <3>2, Zenon DEF Result
      <4> QED BY <2>3, <4>1
    <3>3. a.pos + Len(w) <= Len(a.data) \/ a.pos + Len(w) > Len(a.data)
      BY <2>4
    <3> QED BY <3>1, <3>2, <3>3, Zenon
  <2>6. PICK x \in Seq(Seq(Int)) : Len(x) = 1 /\ b.out = a.out \o x
    BY <2>5
  <2> DEFINE G(s1, t1) == /\ Len(s1 \o t1) = Len(s1) + Len(t1)
                          /\ \A z \in 1 .. Len(s1) : (s1 \o t1)[z] = s1[z]
  <2>7. \A s1, t1 \in Seq(Seq(Int)) : G(s1, t1)
    BY ConcatProperties, LenProperties
  <2> HIDE DEF G
  <2>8. PICK y \in Seq(Seq(Int)) : y = a.out
    BY <2>4
  <2>9. G(y, x)
    BY <2>7
  <2>10. Len(b.out) = Len(y) + 1 /\ \A z \in 1 .. Len(y) : b.out[z] = y[z]
    BY <2>6, <2>8, <2>9 DEF G
  <2> QED BY <2>1, <2>8, <2>10
<1> HIDE DEF Longer
<1>19. PICK q1, q2, q3 : q1 = h[k].out /\ q2 = h[i].out /\ q3 = h[n].out
  OBVIOUS
<1>20. Longer(q1, q2) /\ Longer(q2, q3)
  BY <1>15, <1>16, <1>18, <1>19
<1>21. Len(q1) = k /\ \A j \in 1 .. k : q1[j] = vs[j]
  BY <1>7, <1>15, <1>17, <1>19
<1>22. Len(q3) = n /\ \A j \in 1 .. n - 2 : q3[j] = vs[j]
  <2>1. k \in Nat /\ n = k + 2 /\ n - 2 = k
    BY <1>4, <1>14
  <2>2. Len(q2) = k + 1 /\ \A j \in 1 .. k : q2[j] = vs[j]
    BY <1>20, <1>21, <2>1 DEF Longer
  <2>3. Len(q3) = k + 2 /\ \A j \in 1 .. k : q3[j] = q2[j]
    BY <1>20, <2>1, <2>2 DEF Longer
  <2> QED BY <2>1, <2>2, <2>3
<1> QED BY <1>12, <1>19, <1>22

\* VersionMessage: read back, and cut short only behind the user agent.
LEMMA VersionParses ==
  ASSUME NEW m, Message(m), m.cmd = "version", NEW s, s = SerialiseMessage(m)
  PROVE  Readable(m, s)
<1>1. PICK layout, n : layout = VersionFields /\ n = 13
  OBVIOUS
<1>2. PICK vs \in Seq(Seq(Int)) : vs = m.vals
  BY MessageIs
<1>3. Fits(layout, vs, n)
  <2>1. Layout(m) = layout
    BY <1>1 DEF Layout
  <2>2. Len(vs) = n
    BY <1>1, <1>2, <2>1, MessageIs, VersionFieldsAre
  <2>3. \A i \in 1 .. n : Encodable(layout[i], vs[i])
    BY <1>2, <2>1, <2>2, MessageIs
  <2> QED BY <1>1, <1>2, <2>2, <2>3, VersionFieldsAre DEF Fits
<1>4. s = WriteFields(layout, vs)
  BY <1>1, <1>2 DEF SerialiseMessage, SerialiseVersion
<1>5. /\ s \in Seq(Byte)
      /\ \A c : (Open(c) /\ Holds(c.data, c.pos, s)) =>
              /\ Result(c, ReadFields(c, layout), s, vs)
              /\ Succeeds(c, ReadFields(c, layout), s)
  BY <1>3, <1>4, FieldsRead
<1>6. n >= 2 /\ layout[n - 2].as \in Checked
  BY <1>1, VersionFieldsAre DEF Checked
<1>7. ASSUME NEW p \in Seq(Byte), Holds(p, 0, s)
       PROVE  /\ Result(Cursor(p), ParseMessage(m.cmd, p), s, m.vals)
              /\ Succeeds(Cursor(p), ParseMessage(m.cmd, p), s)
              /\ (ParseMessage(m.cmd, p).ok /\ Len(s) > Len(p)) =>
                    TailMissing(m, [cmd |-> m.cmd, vals |-> ParseMessage(m.cmd, p).out])
  <2>1. PICK r : r = ReadFields(Cursor(p), layout)
    OBVIOUS
  <2>2. ParseMessage(m.cmd, p) = r
    BY <1>1, <2>1 DEF ParseMessage, ParseVersion
  <2>3. Open(Cursor(p)) /\ Holds(Cursor(p).data, Cursor(p).pos, s)
    BY <1>7, CursorOpen
  <2>4. Result(Cursor(p), r, s, vs) /\ Succeeds(Cursor(p), r, s)
    BY <1>5, <2>1, <2>3
  <2>5. r.ok => Len(r.out) = n /\ \A i \in 1 .. n - 2 : r.out[i] = vs[i]
    <3> SUFFICES ASSUME r.ok PROVE Len(r.out) = n /\ \A i \in 1 .. n - 2 : r.out[i] = vs[i]
      OBVIOUS
    <3> QED BY <1>3, <1>4, <1>6, <1>7, <2>1, TailRead
  <2>6. Len(vs) = n
    BY <1>3 DEF Fits
  <2>7. r.ok => TailMissing(m, [cmd |-> m.cmd, vals |-> r.out])
    BY <1>2, <2>5, <2>6 DEF TailMissing
  <2> QED BY <1>2, <2>2, <2>4, <2>7
<1> QED BY <1>2, <1>5, <1>7 DEF Readable

-----------------------------------------------------------------------------
(***************************************************************************)
(* Frames: the checksum tells payloads apart, parse_frame finds the parts  *)
(* of a header, and a frame with one byte altered is not taken for one.    *)
(***************************************************************************)
\* Two numbers with the same quotient and remainder.
LEMMA LastDigit ==
  ASSUME NEW b \in Nat, NEW x \in Int, NEW y \in Int, NEW d \in 0 .. b - 1, NEW e \in 0 .. b - 1,
         x * b + d = y * b + e
  PROVE  x = y /\ d = e
<1>1. ASSUME NEW u \in Int, NEW v \in Int, NEW f \in 0 .. b - 1, NEW g \in 0 .. b - 1,
             u * b + f = v * b + g
      PROVE  ~(u < v)
  <2> SUFFICES ASSUME u < v PROVE FALSE
    OBVIOUS
  <2>1. u * b <= (v - 1) * b
    BY TimesMonotone
  <2>2. (v - 1) * b = v * b - b /\ u * b \in Int /\ v * b \in Int
    OBVIOUS
  <2>3. PICK p, q : p = u * b /\ q = v * b
    OBVIOUS
  <2>4. p <= q - b /\ p + f = q + g /\ p \in Int /\ q \in Int
    BY <1>1, <2>1, <2>2, <2>3
  <2> QED BY <2>4
<1>2. x = y
  BY <1>1
<1>3. PICK p \in Int : p = x * b
  OBVIOUS
<1>4. p + d = p + e
  BY <1>2, <1>3
<1> QED BY <1>2, <1>4

\* Digits are determined by their number.
LEMMA DigitsUnique ==
  ASSUME NEW b \in Nat, b >= 2, NEW s \in Seq(0 .. b - 1), NEW t \in Seq(0 .. b - 1),
         Len(s) = Len(t), FromDigits(s, b) = FromDigits(t, b)
  PROVE  s = t
<1>1. PICK n \in Nat : n = Len(s)
  BY LenProperties
<1>2. \A i \in 1 .. n : s[i] \in 0 .. b - 1 /\ t[i] \in 0 .. b - 1
  BY <1>1, LenProperties
<1>3. s \in Seq(Int) /\ t \in Seq(Int)
  <2>1. s \in [1 .. n -> Int] /\ t \in [1 .. n -> Int]
    BY <1>1, <1>2, LenProperties
  <2> QED BY <2>1, SeqDef
<1>4. PICK h : DigitRun(h, s, b)
  BY <1>3, DigitRunExists
<1>5. PICK g : DigitRun(g, t, b)
  BY <1>3, DigitRunExists
<1>6. /\ h \in [1 .. n + 1 -> Int] /\ \A i \in 1 .. n : h[i] = h[i + 1] * b + s[i]
      /\ g \in [1 .. n + 1 -> Int] /\ \A i \in 1 .. n : g[i] = g[i + 1] * b + t[i]
      /\ h[1] = g[1]
  BY <1>1, <1>4, <1>5 DEF DigitRun
<1> DEFINE T == {m \in 0 .. n : h[m + 1] = g[m + 1] /\ \A i \in 1 .. m : s[i] = t[i]}
<1>7. 0 \in T
  <2>1. 0 + 1 = 1 /\ 1 .. 0 = {}
    OBVIOUS
  <2> QED BY <1>1, <1>6, <2>1
<1>8. ASSUME NEW m \in 1 .. n, m - 1 \in T PROVE m \in T
  <2>1. m - 1 + 1 = m /\ m + 1 \in 1 .. n + 1
    BY <1>1
  <2>2. h[m] = g[m] /\ \A i \in 1 .. m - 1 : s[i] = t[i]
    BY <1>8, <2>1
  <2>3. PICK x \in Int, y \in Int : x = h[m + 1] /\ y = g[m + 1]
    BY <1>6, <2>1
  <2>4. PICK d \in 0 .. b - 1, e \in 0 .. b - 1 : d = s[m] /\ e = t[m]
    BY <1>2
  <2>5. x * b + d = y * b + e
    BY <1>6, <2>2, <2>3, <2>4
  <2>6. x = y /\ d = e
    BY <2>5, LastDigit
  <2>7. \A i \in 1 .. m : i = m \/ i \in 1 .. m - 1
    OBVIOUS
  <2>8. \A i \in 1 .. m : s[i] = t[i]
    BY <2>2, <2>4, <2>6, <2>7
  <2>9. m \in 0 .. n /\ h[m + 1] = g[m + 1]
    BY <1>1, <2>3, <2>6
  <2> QED BY <2>8, <2>9
<1> HIDE DEF T
<1>9. 0 .. n \subseteq T
  BY <1>1, <1>7, <1>8, SetInduction
<1>10. n \in T
  BY <1>1, <1>9
<1>11. \A i \in 1 .. n : s[i] = t[i]
  BY <1>10 DEF T
<1> QED BY <1>1, <1>11, SeqEqual

\* Every byte of a payload has its place in one symbol of the checksum.
LEMMA ChecksumWidthIs ==
  /\ ChecksumWidth \in Nat /\ ChecksumWidth >= 1
  /\ \A k \in 1 .. MaxMessageSize : /\ ((k - 1) \div 8) + 1 \in 1 .. ChecksumWidth
                                    /\ ((k - 1) % 8) + 1 \in 1 .. 8
                                    /\ k = 8 * ((((k - 1) \div 8) + 1) - 1) + (((k - 1) % 8) + 1)
<1>1. PICK x \in Nat : x = MaxMessageSize
  BY BaseIs
<1>2. ChecksumWidth = (x \div 8) + 1
  BY <1>1 DEF ChecksumWidth
<1>3. x \div 8 \in Nat
  OBVIOUS
<1>4. ASSUME NEW k \in 1 .. x
      PROVE  /\ ((k - 1) \div 8) + 1 \in 1 .. (x \div 8) + 1
             /\ ((k - 1) % 8) + 1 \in 1 .. 8
             /\ k = 8 * ((((k - 1) \div 8) + 1) - 1) + (((k - 1) % 8) + 1)
  OBVIOUS
<1> QED BY <1>1, <1>2, <1>3, <1>4

\* The code of a byte; 0 stands for none.
LEMMA CodeIs ==
  ASSUME NEW p \in Seq(Nat), NEW k \in Nat, k >= 1
  PROVE  Code(p, k) \in 0 .. Base + 1 /\ (Code(p, k) = 0 <=> k > Len(p))
<1>1. Len(p) \in Nat /\ Base \in Nat
  BY BaseIs, LenProperties
<1>2. CASE k > Len(p)
  BY <1>1, <1>2 DEF Code
<1>3. CASE ~(k > Len(p))
  <2>1. p[k] \in Nat
    BY <1>1, <1>3, LenProperties
  <2> QED BY <1>1, <1>3, <2>1 DEF Code
<1> QED BY <1>2, <1>3

Group(p, i) == [j \in 1 .. 8 |-> Code(p, 8 * (i - 1) + j)]

\* The symbols of a checksum: none of them is a byte.
LEMMA ChecksumIs ==
  ASSUME NEW p \in Seq(Nat)
  PROVE  /\ Checksum(p) \in Seq(Nat) /\ Len(Checksum(p)) = ChecksumWidth
         /\ \A i \in 1 .. ChecksumWidth :
              /\ Group(p, i) \in Seq(0 .. (Base + 2) - 1) /\ Len(Group(p, i)) = 8
              /\ Checksum(p)[i] = Base + FromDigits(Group(p, i), Base + 2)
              /\ FromDigits(Group(p, i), Base + 2) \in Nat /\ Checksum(p)[i] >= Base
<1>1. PICK b \in Nat : b = Base + 2 /\ b >= 2
  BY BaseIs
<1>2. Base \in Nat
  BY BaseIs
<1>3. ASSUME NEW i \in 1 .. ChecksumWidth
      PROVE  /\ Group(p, i) \in Seq(0 .. b - 1) /\ Len(Group(p, i)) = 8
             /\ FromDigits(Group(p, i), b) \in Nat
  <2>1. PICK l \in Nat, g \in {Group(p, i)} : g = Group(p, i) /\ l = 8
    OBVIOUS
  <2>2. g \in [1 .. l -> 0 .. b - 1]
    <3>1. ASSUME NEW j \in 1 .. 8 PROVE Code(p, 8 * (i - 1) + j) \in 0 .. b - 1
      <4>1. 8 * (i - 1) + j \in Nat /\ 8 * (i - 1) + j >= 1
        BY ChecksumWidthIs
      <4>2. Code(p, 8 * (i - 1) + j) \in 0 .. Base + 1
        BY <4>1, CodeIs
      <4> QED BY <1>1, <1>2, <4>2
    <3> QED BY <2>1, <3>1 DEF Group
  <2>3. g \in Seq(0 .. b - 1) /\ Len(g) = l
    BY <2>2, IndexedSeq
  <2>4. FromDigits(g, b) \in 0 .. Power(b, Len(g)) - 1
    BY <1>1, <2>3, DigitsBelow
  <2>5. FromDigits(g, b) \in Nat
    <3>1. Power(b, l) \in Nat
      BY <1>1, PowerIs
    <3> QED BY <2>3, <2>4, <3>1
  <2> QED BY <2>1, <2>3, <2>5
<1>4. Checksum(p) = [i \in 1 .. ChecksumWidth |-> Base + FromDigits(Group(p, i), b)]
  BY <1>1 DEF Checksum, Group
<1>5. PICK w \in Nat, c \in {Checksum(p)} : c = Checksum(p) /\ w = ChecksumWidth
  BY ChecksumWidthIs
<1>6. c \in [1 .. w -> Nat]
  BY <1>2, <1>3, <1>4, <1>5
<1>7. c \in Seq(Nat) /\ Len(c) = w
  BY <1>6, IndexedSeq
<1>8. ASSUME NEW i \in 1 .. ChecksumWidth
      PROVE  Checksum(p)[i] = Base + FromDigits(Group(p, i), b) /\ Checksum(p)[i] >= Base
  BY <1>2, <1>3, <1>4
<1>9. 0 .. b - 1 = 0 .. (Base + 2) - 1
  BY <1>1
<1> QED BY <1>1, <1>3, <1>5, <1>7, <1>8, <1>9

\* Equal checksums of payloads up to the limit: the payloads have the same length,
\* and the same bytes where both have bytes.
LEMMA ChecksumTells ==
  ASSUME NEW p \in Seq(Nat), NEW q \in Seq(Nat), Len(p) <= MaxMessageSize,
         Len(q) <= MaxMessageSize, Checksum(p) = Checksum(q)
  PROVE  /\ Len(p) = Len(q)
         /\ (p \in Seq(Byte) /\ q \in Seq(Byte)) => p = q
<1>1. PICK b \in Nat : b = Base + 2 /\ b >= 2
  BY BaseIs
<1>2. Base \in Nat /\ MaxMessageSize \in Nat /\ Len(p) \in Nat /\ Len(q) \in Nat
  BY BaseIs, LenProperties
<1>3. ASSUME NEW i \in 1 .. ChecksumWidth PROVE Group(p, i) = Group(q, i)
  <2>1. PICK x, y : x = FromDigits(Group(p, i), b) /\ y = FromDigits(Group(q, i), b)
    OBVIOUS
  <2>2. /\ Group(p, i) \in Seq(0 .. b - 1) /\ Len(Group(p, i)) = 8
        /\ Group(q, i) \in Seq(0 .. b - 1) /\ Len(Group(q, i)) = 8
        /\ Checksum(p)[i] = Base + x /\ Checksum(q)[i] = Base + y /\ x \in Nat /\ y \in Nat
    <3>1. 0 .. b - 1 = 0 .. (Base + 2) - 1
      BY <1>1
    <3> QED BY <1>1, <2>1, <3>1, ChecksumIs
  <2>3. x = y
    BY <1>2, <2>2
  <2> QED BY <1>1, <2>1, <2>2, <2>3, DigitsUnique
<1>4. ASSUME NEW k \in 1 .. MaxMessageSize PROVE Code(p, k) = Code(q, k)
  <2>1. PICK i, j : i = ((k - 1) \div 8) + 1 /\ j = ((k - 1) % 8) + 1
    OBVIOUS
  <2>2. i \in 1 .. ChecksumWidth /\ j \in 1 .. 8 /\ k = 8 * (i - 1) + j
    BY <2>1, ChecksumWidthIs
  <2>3. Group(p, i)[j] = Group(q, i)[j]
    BY <1>3, <2>2
  <2>4. Group(p, i)[j] = Code(p, k) /\ Group(q, i)[j] = Code(q, k)
    BY <2>2 DEF Group
  <2> QED BY <2>3, <2>4
<1>5. Len(p) = Len(q)
  <2>1. ASSUME NEW k \in 1 .. MaxMessageSize PROVE k > Len(p) <=> k > Len(q)
    BY <1>4, CodeIs
  <2>2. CASE Len(p) < Len(q)
    <3>1. Len(q) \in 1 .. MaxMessageSize
      BY <1>2, <2>2
    <3> QED BY <1>2, <2>1, <2>2, <3>1
  <2>3. CASE Len(q) < Len(p)
    <3>1. Len(p) \in 1 .. MaxMessageSize
      BY <1>2, <2>3
    <3> QED BY <1>2, <2>1, <2>3, <3>1
  <2> QED BY <1>2, <2>2, <2>3
<1>6. ASSUME p \in Seq(Byte), q \in Seq(Byte) PROVE p = q
  <2>1. ASSUME NEW k \in 1 .. Len(p) PROVE p[k] = q[k]
    <3>1. p[k] \in Byte /\ q[k] \in Byte /\ k \in 1 .. MaxMessageSize
      BY <1>2, <1>5, <1>6, LenProperties
    <3>2. Code(p, k) = 1 + p[k] /\ Code(q, k) = 1 + q[k]
      BY <1>2, <1>5, <3>1 DEF Code, Byte
    <3>3. Code(p, k) = Code(q, k)
      BY <1>4, <3>1
    <3>4. PICK x \in Int, y \in Int : x = p[k] /\ y = q[k]
      BY <1>2, <3>1 DEF Byte
    <3>5. 1 + x = 1 + y
      BY <3>2, <3>3, <3>4
    <3> QED BY <3>4, <3>5
  <2> QED BY <1>5, <1>6, <2>1, SeqEqual
<1> QED BY <1>5, <1>6

\* The same of sequences of any kind.
LEMMA HoldsSplit ==
  ASSUME NEW V, NEW p, NEW q \in Nat, NEW w1 \in Seq(V), NEW w2 \in Seq(V), Holds(p, q, w1 \o w2)
  PROVE  Holds(p, q, w1) /\ Holds(p, q + Len(w1), w2)
<1>1. /\ Len(w1) \in Nat /\ Len(w2) \in Nat /\ Len(w1 \o w2) = Len(w1) + Len(w2)
      /\ \A i \in 1 .. Len(w1) : (w1 \o w2)[i] = w1[i]
      /\ \A i \in 1 .. Len(w2) : (w1 \o w2)[Len(w1) + i] = w2[i]
  BY ConcatProperties, LenProperties
<1>2. PICK v : v = w1 \o w2
  OBVIOUS
<1>3. ASSUME NEW j \in 1 .. Len(w1), q + j <= Len(p) PROVE p[q + j] = w1[j]
  BY <1>1, <1>2, <1>3 DEF Holds
<1>4. ASSUME NEW j \in 1 .. Len(w2), q + Len(w1) + j <= Len(p)
      PROVE  p[q + Len(w1) + j] = w2[j]
  <2>1. Len(w1) + j \in 1 .. Len(v) /\ v[Len(w1) + j] = w2[j]
    BY <1>1, <1>2
  <2>2. q + (Len(w1) + j) = q + Len(w1) + j
    BY <1>1
  <2> QED BY <1>2, <1>4, <2>1, <2>2 DEF Holds
<1> QED BY <1>3, <1>4 DEF Holds

\* What stands at a place is what is cut out there.
LEMMA CutOut ==
  ASSUME NEW d \in Seq(Nat), NEW q \in Nat, NEW w \in Seq(Nat), Holds(d, q, w),
         q + Len(w) <= Len(d)
  PROVE  SubSeq(d, q + 1, q + Len(w)) = w
<1>1. Len(d) \in Nat /\ Len(w) \in Nat
  BY LenProperties
<1>2. PICK l \in Int, r \in Int : l = q + 1 /\ r = q + Len(w)
  BY <1>1
<1>3. PICK t : t = SubSeq(d, l, r)
  OBVIOUS
<1>4. t \in Seq(Nat) /\ Len(t) = Len(w) /\ \A i \in 1 .. Len(w) : t[i] = d[q + i]
  <2>1. \A i \in l .. r : d[i] \in Nat
    <3>1. \A i \in l .. r : i \in 1 .. Len(d)
      BY <1>1, <1>2
    <3> QED BY <3>1, LenProperties
  <2>2. /\ SubSeq(d, l, r) \in Seq(Nat)
        /\ Len(SubSeq(d, l, r)) = IF l <= r THEN r - l + 1 ELSE 0
        /\ \A i \in 1 .. r - l + 1 : SubSeq(d, l, r)[i] = d[l + i - 1]
    BY <2>1, SubSeqProperties
  <2>3. r - l + 1 = Len(w) /\ (IF l <= r THEN r - l + 1 ELSE 0) = Len(w)
    BY <1>1, <1>2
  <2>4. \A i \in 1 .. Len(w) : l + i - 1 = q + i
    BY <1>1, <1>2
  <2> QED BY <1>3, <2>2, <2>3, <2>4
<1>5. ASSUME NEW i \in 1 .. Len(w) PROVE t[i] = w[i]
  <2>1. q + i <= Len(d)
    BY <1>1
  <2> QED BY <1>4, <2>1 DEF Holds
<1>6. t = w
  BY <1>4, <1>5, SeqEqual
<1> QED BY <1>2, <1>3, <1>6

\* The commands: one or two bytes other than 0, and no two alike.
LEMMA CommandsAre ==
  /\ \A c \in DOMAIN CommandBytes :
       \/ \E x \in {1, 2} : CommandBytes[c] = <<x>>
       \/ \E x, y \in {1, 2} : CommandBytes[c] = <<x, y>>
  /\ \A c, e \in DOMAIN CommandBytes : CommandBytes[c] = CommandBytes[e] => c = e
BY DEF CommandBytes

\* The widths of the header.
LEMMA WidthsAre ==
  /\ CommandWidth = 2 /\ LengthWidth = 2 /\ Magic = <<1>> /\ Len(Magic) = 1
  /\ LengthAt = 4 /\ HeaderSize = 5 + ChecksumWidth
<1>1. ChecksumWidth \in Nat
  BY ChecksumWidthIs
<1>2. PICK w \in Nat : w = ChecksumWidth
  BY <1>1
<1>3. Len(Magic) = 1 /\ CommandWidth = 2 /\ LengthWidth = 2
  BY DEF Magic, CommandWidth, LengthWidth
<1>4. HeaderSize = 1 + 2 + 2 + w
  BY <1>2, <1>3 DEF HeaderSize
<1> QED BY <1>2, <1>3, <1>4 DEF LengthAt, Magic

\* A padded command is stripped to itself.
LEMMA CommandField ==
  ASSUME NEW c \in DOMAIN CommandBytes
  PROVE  /\ Padded(CommandBytes[c]) \in Seq(Nat) /\ Len(Padded(CommandBytes[c])) = 2
         /\ Stripped(Padded(CommandBytes[c])) = CommandBytes[c]
<1>1. ASSUME NEW x \in {1, 2}
      PROVE  Padded(<<x>>) = <<x, 0>> /\ Stripped(<<x, 0>>) = <<x>>
  <2>1. [i \in 1 .. CommandWidth - Len(<<x>>) |-> 0] = <<0>>
    BY WidthsAre
  <2>2. Padded(<<x>>) = <<x, 0>>
    <3>1. PICK a \in Seq(Nat), b \in Seq(Nat), e \in Seq(Nat) : a = <<x>> /\ b = <<0>> /\ e = <<x, 0>>
      <4>1. <<x>> \in Seq(Nat) /\ <<0>> \in Seq(Nat) /\ <<x, 0>> \in Seq(Nat)
        OBVIOUS
      <4> QED BY <4>1
    <3>2. Len(a) = 1 /\ a[1] = x /\ Len(b) = 1 /\ b[1] = 0 /\ Len(e) = 2 /\ e[1] = x /\ e[2] = 0
      BY <3>1
    <3> DEFINE G(u, v) == /\ u \o v \in Seq(Nat) /\ Len(u \o v) = Len(u) + Len(v)
                          /\ \A i \in 1 .. Len(u) + Len(v) :
                               (u \o v)[i] = IF i <= Len(u) THEN u[i] ELSE v[i - Len(u)]
    <3>3. \A u, v \in Seq(Nat) : G(u, v)
      BY ConcatProperties
    <3> HIDE DEF G
    <3>4. G(a, b)
      BY <3>3
    <3>5. PICK r : r = a \o b
      OBVIOUS
    <3>6. r \in Seq(Nat) /\ Len(r) = 2 /\ r[1] = x /\ r[2] = 0
      BY <3>2, <3>4, <3>5 DEF G
    <3>7. r = e
      <4>1. \A i \in 1 .. Len(r) : r[i] = e[i]
        <5>1. \A i \in 1 .. 2 : i = 1 \/ i = 2
          OBVIOUS
        <5> QED BY <3>2, <3>6, <5>1
      <4> QED BY <3>2, <3>6, <4>1, SeqEqual
    <3> QED BY <2>1, <3>1, <3>5, <3>7, Zenon DEF Padded
  <2>3. PICK s : s = <<x, 0>>
    OBVIOUS
  <2>4. PICK u : u = {0} \cup {i \in DOMAIN s : s[i] # 0}
    OBVIOUS
  <2>5. u = {0, 1}
    BY <2>3, <2>4
  <2>6. Max(u) = 1
    BY <2>5, MaxIs
  <2>7. Stripped(s) = SubSeq(s, 1, 1)
    BY <2>4, <2>6 DEF Stripped
  <2>8. SubSeq(s, 1, 1) = <<x>>
    <3>0. PICK q \in Nat : q = 0
      OBVIOUS
    <3>1. PICK d \in Seq(Nat), w \in Seq(Nat) : d = s /\ w = <<x>>
      <4>1. <<x>> \in Seq(Nat) /\ s \in Seq(Nat)
        BY <2>3
      <4> QED BY <4>1
    <3>2. Len(d) = 2 /\ d[1] = x /\ Len(w) = 1 /\ w[1] = x
      BY <2>3, <3>1
    <3>3. Holds(d, q, w) /\ q + Len(w) <= Len(d)
      BY <3>0, <3>2 DEF Holds
    <3>4. SubSeq(d, q + 1, q + Len(w)) = w
      BY <3>3, CutOut
    <3>5. q + 1 = 1 /\ q + Len(w) = 1
      BY <3>0, <3>2
    <3> QED BY <3>1, <3>4, <3>5
  <2> QED BY <2>2, <2>3, <2>7, <2>8
<1>2. ASSUME NEW x \in {1, 2}, NEW y \in {1, 2}
      PROVE  Padded(<<x, y>>) = <<x, y>> /\ Stripped(<<x, y>>) = <<x, y>>
  <2>1. [i \in 1 .. CommandWidth - Len(<<x, y>>) |-> 0] = << >>
    BY WidthsAre
  <2>2. Padded(<<x, y>>) = <<x, y>>
    <3>1. PICK s : s = <<x, y>>
      OBVIOUS
    <3>2. s \in Seq(Nat)
      BY <3>1
    <3>3. s \o << >> = s
      BY <3>2, ConcatEmptySeq
    <3> QED BY <2>1, <3>1, <3>3 DEF Padded
  <2>3. PICK s : s = <<x, y>>
    OBVIOUS
  <2>4. PICK u : u = {0} \cup {i \in DOMAIN s : s[i] # 0}
    OBVIOUS
  <2>5. u = {0, 1, 2}
    BY <2>3, <2>4
  <2>6. Max(u) = 2
    BY <2>5, MaxIs
  <2>7. Stripped(s) = SubSeq(s, 1, 2)
    BY <2>4, <2>6 DEF Stripped
  <2>8. SubSeq(s, 1, 2) = <<x, y>>
    <3>0. PICK q \in Nat : q = 0
      OBVIOUS
    <3>1. PICK d \in Seq(Nat) : d = s
      <4>1. s \in Seq(Nat)
        BY <2>3
      <4> QED BY <4>1
    <3>2. Len(d) = 2
      BY <2>3, <3>1
    <3>3. Holds(d, q, d) /\ q + Len(d) <= Len(d)
      BY <3>0, <3>2 DEF Holds
    <3>4. SubSeq(d, q + 1, q + Len(d)) = d
      BY <3>3, CutOut
    <3>5. q + 1 = 1 /\ q + Len(d) = 2
      BY <3>0, <3>2
    <3> QED BY <2>3, <3>1, <3>4, <3>5
  <2> QED BY <2>2, <2>3, <2>7, <2>8
<1>3. CASE \E x \in {1, 2} : CommandBytes[c] = <<x>>
  <2>1. PICK x \in {1, 2} : CommandBytes[c] = <<x>>
    BY <1>3
  <2>2. Padded(CommandBytes[c]) = <<x, 0>>
    BY <1>1, <2>1
  <2>3. <<x, 0>> \in Seq(Nat) /\ Len(<<x, 0>>) = 2
    OBVIOUS
  <2> QED BY <1>1, <2>1, <2>2, <2>3
<1>4. CASE \E x, y \in {1, 2} : CommandBytes[c] = <<x, y>>
  <2>1. PICK x \in {1, 2}, y \in {1, 2} : CommandBytes[c] = <<x, y>>
    BY <1>4
  <2>2. Padded(CommandBytes[c]) = <<x, y>>
    BY <1>2, <2>1
  <2>3. <<x, y>> \in Seq(Nat) /\ Len(<<x, y>>) = 2
    OBVIOUS
  <2> QED BY <1>2, <2>1, <2>2, <2>3
<1> QED BY <1>3, <1>4, CommandsAre, Zenon

BytesOf(n) == ToBytes(n, LengthWidth)
FrameParts(f, cmd, p) ==
    /\ f \in Seq(Nat) /\ Len(f) = HeaderSize + Len(p)
    /\ Holds(f, 0, Magic) /\ Holds(f, 1, Padded(CommandBytes[cmd]))
    /\ Holds(f, 3, BytesOf(Len(p))) /\ Holds(f, 5, Checksum(p)) /\ Holds(f, HeaderSize, p)

\* Bytes are natural numbers.
LEMMA BytesAreNaturals == Byte \subseteq Nat /\ \A s \in Seq(Byte) : s \in Seq(Nat)
<1>1. Byte \subseteq Nat
  BY BaseIs DEF Byte
<1>2. ASSUME NEW s \in Seq(Byte) PROVE s \in Seq(Nat)
  <2>1. PICK n \in Nat : n = Len(s)
    BY LenProperties
  <2>2. s \in [1 .. n -> Nat]
    BY <1>1, <2>1, LenProperties
  <2> QED BY <2>2, IndexedSeq
<1> QED BY <1>1, <1>2

\* The length field holds every length up to the limit.
LEMMA LengthField ==
  ASSUME NEW n \in Nat, n <= MaxMessageSize
  PROVE  /\ BytesOf(n) \in Seq(Byte) /\ Len(BytesOf(n)) = 2 /\ FromBytes(BytesOf(n)) = n
<1>1. PICK w \in Nat : w = LengthWidth
  BY WidthsAre
<1>2. Base \in Nat /\ Base >= 2 /\ MaxMessageSize \in Nat
  BY BaseIs
<1>3. Power(Base, w) \in Nat
  BY <1>2, PowerIs
<1>4. n \in 0 .. Power(Base, w) - 1
  BY <1>1, <1>2, <1>3, BaseIs
<1>5. ToBytes(n, w) \in Seq(Byte) /\ Len(ToBytes(n, w)) = w /\ FromBytes(ToBytes(n, w)) = n
  BY <1>4, BytesAs
<1> QED BY <1>1, <1>5, WidthsAre DEF BytesOf

\* Frame.serialise puts the parts where FrameParts has them.
LEMMA FrameIs ==
  ASSUME NEW cmd \in DOMAIN CommandBytes, NEW p \in Seq(Byte), Len(p) <= MaxMessageSize
  PROVE  FrameParts(Frame(cmd, p), cmd, p)
<1>1. PICK a, b, c, k : /\ a = Magic /\ b = Padded(CommandBytes[cmd]) /\ c = BytesOf(Len(p))
                        /\ k = Checksum(p)
  OBVIOUS
<1>2. /\ a \in Seq(Nat) /\ Len(a) = 1
  <2>1. <<1>> \in Seq(Nat)
    OBVIOUS
  <2> QED BY <1>1, <2>1, WidthsAre
<1>3. b \in Seq(Nat) /\ Len(b) = 2
  BY <1>1, CommandField
<1>4. p \in Seq(Nat) /\ Len(p) \in Nat
  BY BytesAreNaturals, LenProperties
<1>5. c \in Seq(Nat) /\ Len(c) = 2
  BY <1>1, <1>4, BytesAreNaturals, LengthField
<1>6. k \in Seq(Nat) /\ Len(k) = ChecksumWidth /\ ChecksumWidth \in Nat
  BY <1>1, <1>4, ChecksumIs, ChecksumWidthIs
<1> DEFINE G(x, y) == x \o y \in Seq(Nat) /\ Len(x \o y) = Len(x) + Len(y)
<1>7. \A x, y \in Seq(Nat) : G(x, y)
  BY ConcatProperties
<1> HIDE DEF G
<1>8. PICK f1, f2, f3, f : f1 = a \o b /\ f2 = f1 \o c /\ f3 = f2 \o k /\ f = f3 \o p
  OBVIOUS
<1>9. f1 \in Seq(Nat) /\ Len(f1) = 3
  <2>1. G(a, b)
    BY <1>2, <1>3, <1>7
  <2>2. f1 \in Seq(Nat) /\ Len(f1) = Len(a) + Len(b)
    BY <1>8, <2>1, Zenon DEF G
  <2> QED BY <1>2, <1>3, <2>2
<1>10. f2 \in Seq(Nat) /\ Len(f2) = 5
  <2>1. G(f1, c)
    BY <1>5, <1>7, <1>9
  <2>2. f2 \in Seq(Nat) /\ Len(f2) = Len(f1) + Len(c)
    BY <1>8, <2>1, Zenon DEF G
  <2> QED BY <1>5, <1>9, <2>2
<1>11. f3 \in Seq(Nat) /\ Len(f3) = HeaderSize /\ HeaderSize \in Nat
  <2>1. G(f2, k)
    BY <1>6, <1>7, <1>10
  <2>2. f3 \in Seq(Nat) /\ Len(f3) = Len(f2) + Len(k)
    BY <1>8, <2>1, Zenon DEF G
  <2> QED BY <1>6, <1>10, <2>2, WidthsAre
<1>12. f \in Seq(Nat) /\ Len(f) = HeaderSize + Len(p)
  <2>1. G(f3, p)
    BY <1>4, <1>7, <1>11
  <2>2. f \in Seq(Nat) /\ Len(f) = Len(f3) + Len(p)
    BY <1>8, <2>1, Zenon DEF G
  <2> QED BY <1>11, <2>2
<1>13. f = Frame(cmd, p)
  BY <1>1, <1>8 DEF Frame, BytesOf
<1>14. PICK z \in Nat : z = 0
  OBVIOUS
<1>15. Holds(f, z, f)
  BY <1>12, <1>14, LenProperties DEF Holds
<1>16. Holds(f, z, f3) /\ Holds(f, z + Len(f3), p)
  <2>1. Holds(f, z, f3 \o p)
    BY <1>8, <1>15, Zenon
  <2> QED BY <1>4, <1>11, <2>1, HoldsSplit
<1>17. Holds(f, z, f2) /\ Holds(f, z + Len(f2), k)
  <2>1. Holds(f, z, f2 \o k)
    BY <1>8, <1>16, Zenon
  <2> QED BY <1>6, <1>10, <2>1, HoldsSplit
<1>18. Holds(f, z, f1) /\ Holds(f, z + Len(f1), c)
  <2>1. Holds(f, z, f1 \o c)
    BY <1>8, <1>17, Zenon
  <2> QED BY <1>5, <1>9, <2>1, HoldsSplit
<1>19. Holds(f, z, a) /\ Holds(f, z + Len(a), b)
  <2>1. Holds(f, z, a \o b)
    BY <1>8, <1>18, Zenon
  <2> QED BY <1>2, <1>3, <2>1, HoldsSplit
<1>20. z + Len(a) = 1 /\ z + Len(f1) = 3 /\ z + Len(f2) = 5 /\ z + Len(f3) = HeaderSize
  BY <1>2, <1>9, <1>10, <1>11, <1>14
<1> QED BY <1>1, <1>12, <1>13, <1>14, <1>16, <1>17, <1>18, <1>19, <1>20 DEF FrameParts

\* What ParseFrame makes of the parts of the header.
Verdict(d, mg, n, ck, cb) ==
    IF mg # Magic \/ n > MaxMessageSize THEN P2PError
    ELSE IF Len(d) < HeaderSize + n THEN Incomplete
    ELSE IF ck # Checksum(SubSeq(d, HeaderSize + 1, HeaderSize + n)) THEN P2PError
    ELSE [tag |-> "frame", end |-> HeaderSize + n,
          payload |-> SubSeq(d, HeaderSize + 1, HeaderSize + n), command |-> Stripped(cb)]

\* parse_frame in terms of the parts that stand in the header.
LEMMA HeaderParsed ==
  ASSUME NEW d \in Seq(Nat), Len(d) >= HeaderSize,
         NEW mg \in Seq(Nat), Len(mg) = 1, Holds(d, 0, mg),
         NEW cb \in Seq(Nat), Len(cb) = 2, Holds(d, 1, cb),
         NEW lb \in Seq(Nat), Len(lb) = 2, Holds(d, 3, lb),
         NEW ck \in Seq(Nat), Len(ck) = ChecksumWidth, Holds(d, 5, ck)
  PROVE  ParseFrame(d) = Verdict(d, mg, FromBytes(lb), ck, cb)
<1>1. PICK w \in Nat, h \in Nat : w = ChecksumWidth /\ h = HeaderSize /\ h = 5 + w
  <2>1. ChecksumWidth \in Nat /\ 5 + ChecksumWidth \in Nat
    BY ChecksumWidthIs
  <2> QED BY <2>1, WidthsAre
<1>2. Len(d) \in Nat /\ Len(d) >= h
  BY <1>1, LenProperties
<1>3. SubSeq(d, 1, Len(Magic)) = mg
  <2>1. PICK q \in Nat : q = 0
    OBVIOUS
  <2>2. Holds(d, q, mg) /\ q + Len(mg) <= Len(d)
    BY <1>1, <1>2, <2>1
  <2>3. SubSeq(d, q + 1, q + Len(mg)) = mg
    BY <2>2, CutOut
  <2>4. q + 1 = 1 /\ q + Len(mg) = Len(Magic)
    BY <2>1, WidthsAre
  <2> QED BY <2>3, <2>4
<1>4. SubSeq(d, Len(Magic) + 1, Len(Magic) + CommandWidth) = cb
  <2>1. PICK q \in Nat : q = 1
    OBVIOUS
  <2>2. Holds(d, q, cb) /\ q + Len(cb) <= Len(d)
    BY <1>1, <1>2, <2>1
  <2>3. SubSeq(d, q + 1, q + Len(cb)) = cb
    BY <2>2, CutOut
  <2>4. q + 1 = Len(Magic) + 1 /\ q + Len(cb) = Len(Magic) + CommandWidth
    BY <2>1, WidthsAre
  <2> QED BY <2>3, <2>4
<1>5. SubSeq(d, LengthAt, LengthAt + LengthWidth - 1) = lb
  <2>1. PICK q \in Nat : q = 3
    OBVIOUS
  <2>2. Holds(d, q, lb) /\ q + Len(lb) <= Len(d)
    BY <1>1, <1>2, <2>1
  <2>3. SubSeq(d, q + 1, q + Len(lb)) = lb
    BY <2>2, CutOut
  <2>4. q + 1 = LengthAt /\ q + Len(lb) = LengthAt + LengthWidth - 1
    BY <2>1, WidthsAre
  <2> QED BY <2>3, <2>4
<1>6. SubSeq(d, LengthAt + LengthWidth, HeaderSize) = ck
  <2>1. PICK q \in Nat : q = 5
    OBVIOUS
  <2>2. Holds(d, q, ck) /\ q + Len(ck) <= Len(d)
    BY <1>1, <1>2, <2>1
  <2>3. SubSeq(d, q + 1, q + Len(ck)) = ck
    BY <2>2, CutOut
  <2>4. q + 1 = LengthAt + LengthWidth /\ q + Len(ck) = HeaderSize
    BY <1>1, <2>1, WidthsAre
  <2> QED BY <2>3, <2>4
<1>7. ~(Len(d) < HeaderSize)
  BY <1>1, <1>2
<1> QED BY <1>3, <1>4, <1>5, <1>6, <1>7, Zenon DEF ParseFrame, Verdict

\* d begins with f, as far as both go.
LEMMA HoldsPart ==
  ASSUME NEW d, NEW f \in Seq(Nat), Holds(d, 0, f), NEW q \in Nat, NEW w, Len(w) \in Nat,
         Holds(f, q, w), q + Len(w) <= Len(f)
  PROVE  Holds(d, q, w)
<1>1. Len(f) \in Nat
  BY LenProperties
<1>2. ASSUME NEW j \in 1 .. Len(w), q + j <= Len(d) PROVE d[q + j] = w[j]
  <2>1. q + j \in 1 .. Len(f) /\ 0 + (q + j) = q + j
    BY <1>1
  <2>2. f[q + j] = w[j]
    BY <2>1 DEF Holds
  <2>3. d[q + j] = f[q + j]
    BY <1>2, <2>1 DEF Holds
  <2> QED BY <2>2, <2>3
<1> QED BY <1>2 DEF Holds

\* The parts of a frame, with their types.
LEMMA PartsAre ==
  ASSUME NEW cmd \in DOMAIN CommandBytes, NEW p \in Seq(Byte), Len(p) <= MaxMessageSize,
         NEW f, FrameParts(f, cmd, p)
  PROVE  /\ f \in Seq(Nat) /\ Len(f) = HeaderSize + Len(p) /\ Len(f) \in Nat
         /\ HeaderSize \in Nat /\ HeaderSize = 5 + ChecksumWidth /\ ChecksumWidth \in Nat
         /\ Magic \in Seq(Nat) /\ Len(Magic) = 1 /\ Holds(f, 0, Magic)
         /\ Padded(CommandBytes[cmd]) \in Seq(Nat) /\ Len(Padded(CommandBytes[cmd])) = 2
         /\ Holds(f, 1, Padded(CommandBytes[cmd]))
         /\ BytesOf(Len(p)) \in Seq(Byte) /\ BytesOf(Len(p)) \in Seq(Nat)
         /\ Len(BytesOf(Len(p))) = 2 /\ FromBytes(BytesOf(Len(p))) = Len(p)
         /\ Holds(f, 3, BytesOf(Len(p)))
         /\ Checksum(p) \in Seq(Nat) /\ Len(Checksum(p)) = ChecksumWidth /\ Holds(f, 5, Checksum(p))
         /\ p \in Seq(Nat) /\ Len(p) \in Nat /\ Holds(f, HeaderSize, p)
<1>1. p \in Seq(Nat) /\ Len(p) \in Nat
  BY BytesAreNaturals, LenProperties
<1>2. /\ BytesOf(Len(p)) \in Seq(Byte) /\ BytesOf(Len(p)) \in Seq(Nat)
      /\ Len(BytesOf(Len(p))) = 2 /\ FromBytes(BytesOf(Len(p))) = Len(p)
  BY <1>1, BytesAreNaturals, LengthField
<1>3. Checksum(p) \in Seq(Nat) /\ Len(Checksum(p)) = ChecksumWidth /\ ChecksumWidth \in Nat
  BY <1>1, ChecksumIs, ChecksumWidthIs
<1>4. Magic \in Seq(Nat) /\ Len(Magic) = 1 /\ HeaderSize = 5 + ChecksumWidth
  <2>1. <<1>> \in Seq(Nat)
    OBVIOUS
  <2> QED BY <2>1, WidthsAre
<1>5. HeaderSize \in Nat
  BY <1>3, <1>4
<1>6. /\ f \in Seq(Nat) /\ Len(f) = HeaderSize + Len(p)
      /\ Holds(f, 0, Magic) /\ Holds(f, 1, Padded(CommandBytes[cmd]))
      /\ Holds(f, 3, BytesOf(Len(p))) /\ Holds(f, 5, Checksum(p)) /\ Holds(f, HeaderSize, p)
  BY DEF FrameParts
<1>7. Len(f) \in Nat
  BY <1>6, LenProperties
<1> QED BY <1>1, <1>2, <1>3, <1>4, <1>5, <1>6, <1>7, CommandField

\* A frame is read when all of it is there, and until then it is incomplete.
LEMMA FrameParsed ==
  ASSUME NEW cmd \in DOMAIN CommandBytes, NEW p \in Seq(Byte), Len(p) <= MaxMessageSize,
         NEW f, FrameParts(f, cmd, p), NEW d \in Seq(Nat), Holds(d, 0, f)
  PROVE  ParseFrame(d) = IF Len(d) < Len(f) THEN Incomplete
                         ELSE [tag |-> "frame", end |-> Len(f), payload |-> p,
                               command |-> CommandBytes[cmd]]
<1>1. PICK mg, cb, lb, ck : /\ mg = Magic /\ cb = Padded(CommandBytes[cmd])
                            /\ lb = BytesOf(Len(p)) /\ ck = Checksum(p)
  OBVIOUS
<1>2. /\ f \in Seq(Nat) /\ Len(f) = HeaderSize + Len(p) /\ Len(f) \in Nat
      /\ HeaderSize \in Nat /\ HeaderSize = 5 + ChecksumWidth /\ ChecksumWidth \in Nat
      /\ mg \in Seq(Nat) /\ Len(mg) = 1 /\ Holds(f, 0, mg)
      /\ cb \in Seq(Nat) /\ Len(cb) = 2 /\ Holds(f, 1, cb)
      /\ lb \in Seq(Nat) /\ Len(lb) = 2 /\ FromBytes(lb) = Len(p) /\ Holds(f, 3, lb)
      /\ ck \in Seq(Nat) /\ Len(ck) = ChecksumWidth /\ Holds(f, 5, ck)
      /\ p \in Seq(Nat) /\ Len(p) \in Nat /\ Holds(f, HeaderSize, p)
  BY <1>1, PartsAre
<1>3. Len(d) \in Nat /\ MaxMessageSize \in Nat
  BY BaseIs, LenProperties
<1>4. CASE Len(d) < HeaderSize
  <2>1. Len(d) < Len(f)
    BY <1>2, <1>3, <1>4
  <2>2. ParseFrame(d) = Incomplete
    BY <1>4, Zenon DEF ParseFrame
  <2> QED BY <2>1, <2>2
<1>5. CASE ~(Len(d) < HeaderSize)
  <2>0. PICK q0 \in Nat, q1 \in Nat, q3 \in Nat, q5 \in Nat : q0 = 0 /\ q1 = 1 /\ q3 = 3 /\ q5 = 5
    OBVIOUS
  <2>1. Holds(d, 0, mg)
    <3>1. Holds(f, q0, mg) /\ q0 + Len(mg) <= Len(f) /\ Len(mg) \in Nat
      BY <1>2, <2>0
    <3> QED BY <1>2, <2>0, <3>1, HoldsPart
  <2>2. Holds(d, 1, cb)
    <3>1. Holds(f, q1, cb) /\ q1 + Len(cb) <= Len(f) /\ Len(cb) \in Nat
      BY <1>2, <2>0
    <3> QED BY <1>2, <2>0, <3>1, HoldsPart
  <2>3. Holds(d, 3, lb)
    <3>1. Holds(f, q3, lb) /\ q3 + Len(lb) <= Len(f) /\ Len(lb) \in Nat
      BY <1>2, <2>0
    <3> QED BY <1>2, <2>0, <3>1, HoldsPart
  <2>4. Holds(d, 5, ck)
    <3>1. Holds(f, q5, ck) /\ q5 + Len(ck) <= Len(f) /\ Len(ck) \in Nat
      BY <1>2, <2>0
    <3> QED BY <1>2, <2>0, <3>1, HoldsPart
  <2>5. Holds(d, HeaderSize, p)
    <3>1. HeaderSize + Len(p) <= Len(f)
      BY <1>2
    <3> QED BY <1>2, <3>1, HoldsPart
  <2>6. ParseFrame(d) = Verdict(d, mg, FromBytes(lb), ck, cb)
    <3>1. Len(d) >= HeaderSize
      BY <1>2, <1>3, <1>5
    <3> QED BY <1>2, <2>1, <2>2, <2>3, <2>4, <3>1, HeaderParsed
  <2>7. FromBytes(lb) = Len(p) /\ ~(Len(p) > MaxMessageSize) /\ mg = Magic
    BY <1>1, <1>2, <1>3
  <2>8. CASE Len(d) < Len(f)
    <3>1. Len(d) < HeaderSize + Len(p)
      BY <1>2, <2>8
    <3> QED BY <2>6, <2>7, <2>8, <3>1, Zenon DEF Verdict
  <2>9. CASE ~(Len(d) < Len(f))
    <3>1. ~(Len(d) < HeaderSize + Len(p)) /\ HeaderSize + Len(p) <= Len(d)
      BY <1>2, <1>3, <2>9
    <3>2. SubSeq(d, HeaderSize + 1, HeaderSize + Len(p)) = p
      BY <1>2, <2>5, <3>1, CutOut
    <3>3. Stripped(cb) = CommandBytes[cmd]
      BY <1>1, CommandField
    <3>4. ParseFrame(d) = [tag |-> "frame", end |-> HeaderSize + Len(p), payload |-> p,
                           command |-> CommandBytes[cmd]]
      BY <1>1, <2>6, <2>7, <3>1, <3>2, <3>3, Zenon DEF Verdict
    <3>5. HeaderSize + Len(p) = Len(f)
      BY <1>2
    <3> QED BY <2>9, <3>4, <3>5, Zenon
  <2> QED BY <2>8, <2>9
<1> QED BY <1>4, <1>5

-----------------------------------------------------------------------------
\* What stands at q, once the byte at the place at is altered.
Alter(w, q, at, b) == [i \in 1 .. Len(w) |-> IF q + i = at THEN b ELSE w[i]]

\* Altered bytes are bytes.
LEMMA AlterBytes ==
  ASSUME NEW w \in Seq(Byte), NEW q \in Nat, NEW at \in Nat, NEW b \in Byte
  PROVE  Alter(w, q, at, b) \in Seq(Byte)
<1>1. PICK n \in Nat : n = Len(w)
  BY LenProperties
<1>2. Alter(w, q, at, b) \in [1 .. n -> Byte]
  BY <1>1, LenProperties DEF Alter
<1> QED BY <1>2, IndexedSeq

\* A byte altered to another makes the part another.
LEMMA AlterShows ==
  ASSUME NEW f \in Seq(Nat), NEW q \in Nat, NEW w \in Seq(Nat), Holds(f, q, w),
         NEW at \in 1 .. Len(f), at \in q + 1 .. q + Len(w), NEW b \in Nat, b # f[at]
  PROVE  /\ at - q \in 1 .. Len(w) /\ Alter(w, q, at, b)[at - q] = b
         /\ Alter(w, q, at, b) # w
<1>1. Len(f) \in Nat /\ Len(w) \in Nat
  BY LenProperties
<1>2. PICK i \in Nat : i = at - q
  BY <1>1
<1>3. i \in 1 .. Len(w) /\ q + i = at
  BY <1>1, <1>2
<1>4. f[at] = w[i]
  BY <1>1, <1>3 DEF Holds
<1>5. Alter(w, q, at, b)[i] = b
  BY <1>3 DEF Alter
<1> QED BY <1>2, <1>3, <1>4, <1>5

Altered(f, at, b, d) ==
    /\ f \in Seq(Nat) /\ at \in 1 .. Len(f) /\ at \notin 2 .. 3 /\ b \in Byte /\ b # f[at]
    /\ d \in Seq(Nat) /\ Holds(d, 0, [f EXCEPT ![at] = b])
PartOf(f, q, w) == q \in Nat /\ w \in Seq(Nat) /\ Holds(f, q, w) /\ q + Len(w) <= Len(f)
AlteredTo(v, q, w, at, b, d) ==
    /\ v = Alter(w, q, at, b) /\ v \in Seq(Nat) /\ Len(v) = Len(w) /\ Holds(d, q, v)
    /\ at \notin q + 1 .. q + Len(w) => v = w
    /\ at \in q + 1 .. q + Len(w) => at - q \in 1 .. Len(w) /\ v[at - q] = b /\ v # w
    /\ w \in Seq(Byte) => v \in Seq(Byte)

\* What becomes of a part of the frame.
LEMMA PartAltered ==
  ASSUME NEW f, NEW at, NEW b, NEW d, Altered(f, at, b, d), NEW q, NEW w, PartOf(f, q, w)
  PROVE  AlteredTo(Alter(w, q, at, b), q, w, at, b, d)
<1>1. PICK v : v = Alter(w, q, at, b)
  OBVIOUS
<1>2. f \in Seq(Nat) /\ at \in 1 .. Len(f) /\ at \in Nat /\ b \in Byte /\ b \in Nat /\ b # f[at]
  <2>1. Len(f) \in Nat /\ f \in Seq(Nat) /\ at \in 1 .. Len(f) /\ b \in Byte /\ b # f[at]
    BY LenProperties DEF Altered
  <2> QED BY <2>1, BytesAreNaturals
<1>3. Holds(d, 0, [f EXCEPT ![at] = b])
  BY DEF Altered
<1>4. q \in Nat /\ w \in Seq(Nat) /\ Holds(f, q, w) /\ q + Len(w) <= Len(f)
  BY DEF PartOf
<1>5. /\ v \in Seq(Nat) /\ Len(v) = Len(w) /\ Holds(d, q, v)
      /\ at \notin q + 1 .. q + Len(w) => v = w
  <2>1. Len(f) \in Nat /\ Len(w) \in Nat /\ \A i \in 1 .. Len(w) : w[i] \in Nat
    BY <1>2, <1>4, LenProperties
  <2>2. PICK n \in Nat : n = Len(w)
    BY <2>1
  <2>4. v \in Seq(Nat) /\ Len(v) = n /\ \A i \in 1 .. n : v[i] = IF q + i = at THEN b ELSE w[i]
    <3>1. v = [i \in 1 .. n |-> IF q + i = at THEN b ELSE w[i]]
      BY <1>1, <2>2 DEF Alter
    <3>2. v \in [1 .. n -> Nat]
      BY <1>2, <2>1, <2>2, <3>1
    <3>3. v \in Seq(Nat) /\ Len(v) = n
      BY <3>2, IndexedSeq
    <3> QED BY <3>1, <3>3
  <2>5. PICK g : g = [f EXCEPT ![at] = b]
    OBVIOUS
  <2>6. DOMAIN f = 1 .. Len(f)
    BY <1>2, LenProperties
  <2>7. Len(g) = Len(f) /\ \A i \in 1 .. Len(f) : g[i] = IF i = at THEN b ELSE f[i]
    <3>1. PICK l \in Nat : l = Len(f)
      BY <2>1
    <3>2. g \in [1 .. l -> Nat]
      <4>1. f \in [1 .. l -> Nat]
        BY <1>2, <2>6, <3>1, LenProperties
      <4> QED BY <1>2, <2>5, <3>1, <4>1
    <3>3. Len(g) = l
      BY <3>2, IndexedSeq
    <3>4. \A i \in 1 .. l : g[i] = IF i = at THEN b ELSE f[i]
      BY <1>2, <2>5, <2>6, <3>1
    <3> QED BY <3>1, <3>3, <3>4
  <2>8. Holds(d, q, v)
    <3> SUFFICES ASSUME NEW j \in 1 .. n, q + j <= Len(d) PROVE d[q + j] = v[j]
      BY <2>4 DEF Holds
    <3>1. q + j \in 1 .. Len(f) /\ 0 + (q + j) = q + j
      BY <1>4, <2>1, <2>2
    <3>2. d[q + j] = g[q + j]
      BY <1>3, <2>5, <2>7, <3>1 DEF Holds
    <3>3. f[q + j] = w[j]
      BY <1>4, <2>2, <3>1 DEF Holds
    <3> QED BY <1>2, <2>4, <2>7, <3>1, <3>2, <3>3
  <2>9. ASSUME at \notin q + 1 .. q + n PROVE v = w
    <3>1. \A i \in 1 .. n : q + i \in q + 1 .. q + n
      BY <1>4
    <3>2. \A i \in 1 .. n : v[i] = w[i]
      BY <2>4, <2>9, <3>1
    <3> QED BY <1>4, <2>2, <2>4, <3>2, SeqEqual
  <2> QED BY <2>2, <2>4, <2>8, <2>9
<1>6. at \in q + 1 .. q + Len(w) => at - q \in 1 .. Len(w) /\ v[at - q] = b /\ v # w
  BY <1>1, <1>2, <1>4, AlterShows
<1>7. w \in Seq(Byte) => v \in Seq(Byte)
  BY <1>1, <1>2, <1>4, AlterBytes
<1> QED BY <1>1, <1>5, <1>6, <1>7 DEF AlteredTo

\* What a frame that is taken for one has to show.
LEMMA TakenForFrame ==
  ASSUME NEW d, NEW mg, NEW n, NEW ck, NEW cb, Verdict(d, mg, n, ck, cb).tag = "frame"
  PROVE  /\ mg = Magic /\ ~(n > MaxMessageSize) /\ ~(Len(d) < HeaderSize + n)
         /\ ck = Checksum(SubSeq(d, HeaderSize + 1, HeaderSize + n))
BY DEF Verdict, P2PError, Incomplete

\* A payload cut out of the buffer.
LEMMA PayloadIs ==
  ASSUME NEW d \in Seq(Nat), NEW h \in Nat, NEW n \in Nat, ~(Len(d) < h + n)
  PROVE  SubSeq(d, h + 1, h + n) \in Seq(Nat) /\ Len(SubSeq(d, h + 1, h + n)) = n
<1>1. Len(d) \in Nat
  BY LenProperties
<1>2. PICK q : q = SubSeq(d, h + 1, h + n)
  OBVIOUS
<1>3. \A i \in 1 .. n : d[h + i] \in Nat
  BY <1>1, LenProperties
<1>4. q = [i \in 1 .. n |-> d[h + i]]
  BY <1>1, <1>2
<1>5. q \in [1 .. n -> Nat]
  BY <1>3, <1>4
<1> QED BY <1>2, <1>5, IndexedSeq

\* A frame one byte of which was altered, outside the command, is not taken for a frame.
LEMMA FrameNoise ==
  ASSUME NEW cmd \in DOMAIN CommandBytes, NEW p \in Seq(Byte), Len(p) <= MaxMessageSize,
         NEW f, FrameParts(f, cmd, p), NEW at, NEW b, NEW d, Altered(f, at, b, d)
  PROVE  ParseFrame(d).tag # "frame"
<1>1. PICK mg, cb, lb, ck : /\ mg = Magic /\ cb = Padded(CommandBytes[cmd])
                            /\ lb = BytesOf(Len(p)) /\ ck = Checksum(p)
  OBVIOUS
<1>2. /\ f \in Seq(Nat) /\ Len(f) = HeaderSize + Len(p) /\ Len(f) \in Nat
      /\ HeaderSize \in Nat /\ HeaderSize = 5 + ChecksumWidth /\ ChecksumWidth \in Nat
      /\ mg \in Seq(Nat) /\ Len(mg) = 1 /\ Holds(f, 0, mg)
      /\ cb \in Seq(Nat) /\ Len(cb) = 2 /\ Holds(f, 1, cb)
      /\ lb \in Seq(Byte) /\ lb \in Seq(Nat) /\ Len(lb) = 2 /\ FromBytes(lb) = Len(p)
      /\ Holds(f, 3, lb)
      /\ ck \in Seq(Nat) /\ Len(ck) = ChecksumWidth /\ Holds(f, 5, ck)
      /\ p \in Seq(Nat) /\ Len(p) \in Nat /\ Holds(f, HeaderSize, p)
  BY <1>1, PartsAre
<1>20. PICK h \in Nat, cw \in Nat, lp \in Nat, lf \in Nat :
         h = HeaderSize /\ cw = ChecksumWidth /\ h = 5 + cw /\ lp = Len(p) /\ lf = Len(f)
         /\ lf = h + lp
  BY <1>2
<1>21. f \in Seq(Nat) /\ mg \in Seq(Nat) /\ Len(mg) = 1 /\ Holds(f, 0, mg)
  BY <1>2
<1>22. cb \in Seq(Nat) /\ Len(cb) = 2 /\ Holds(f, 1, cb)
  BY <1>2
<1>23. lb \in Seq(Byte) /\ lb \in Seq(Nat) /\ Len(lb) = 2 /\ Holds(f, 3, lb)
  BY <1>2
<1>24. ck \in Seq(Nat) /\ Len(ck) = cw /\ Holds(f, 5, ck)
  BY <1>2, <1>20
<1>25. p \in Seq(Nat) /\ Len(p) = lp /\ Holds(f, h, p)
  BY <1>2, <1>20
<1>26. at \in Nat /\ at >= 1 /\ at <= lf /\ at \notin 2 .. 3 /\ at \in 1 .. Len(f)
  <2>1. at \in 1 .. Len(f) /\ at \notin 2 .. 3
    BY DEF Altered
  <2> QED BY <1>20, <2>1
<1>3. d \in Seq(Nat) /\ b \in Byte /\ b # f[at] /\ Holds(d, 0, [f EXCEPT ![at] = b])
  BY DEF Altered
<1>27. b \in Nat /\ b < Base /\ Len(d) \in Nat /\ MaxMessageSize \in Nat /\ Base \in Nat
  BY <1>3, BaseIs, LenProperties DEF Byte
<1>4. PICK q0 \in Nat, q1 \in Nat, q3 \in Nat, q5 \in Nat : q0 = 0 /\ q1 = 1 /\ q3 = 3 /\ q5 = 5
  OBVIOUS
<1>7. PICK mg1, cb1, lb1, ck1, p1 :
        /\ mg1 = Alter(mg, q0, at, b) /\ cb1 = Alter(cb, q1, at, b) /\ lb1 = Alter(lb, q3, at, b)
        /\ ck1 = Alter(ck, q5, at, b) /\ p1 = Alter(p, h, at, b)
  OBVIOUS
<1>51. AlteredTo(mg1, q0, mg, at, b, d)
  <2>1. PartOf(f, q0, mg)
    BY <1>4, <1>20, <1>21 DEF PartOf
  <2> QED BY <1>7, <2>1, PartAltered
<1>52. AlteredTo(cb1, q1, cb, at, b, d)
  <2>1. PartOf(f, q1, cb)
    BY <1>4, <1>20, <1>22 DEF PartOf
  <2> QED BY <1>7, <2>1, PartAltered
<1>53. AlteredTo(lb1, q3, lb, at, b, d)
  <2>1. PartOf(f, q3, lb)
    BY <1>4, <1>20, <1>23 DEF PartOf
  <2> QED BY <1>7, <2>1, PartAltered
<1>54. AlteredTo(ck1, q5, ck, at, b, d)
  <2>1. PartOf(f, q5, ck)
    BY <1>4, <1>20, <1>24 DEF PartOf
  <2> QED BY <1>7, <2>1, PartAltered
<1>55. AlteredTo(p1, h, p, at, b, d)
  <2>1. PartOf(f, h, p)
    BY <1>20, <1>25 DEF PartOf
  <2> QED BY <1>7, <2>1, PartAltered
<1>8. /\ mg1 \in Seq(Nat) /\ Len(mg1) = 1 /\ Holds(d, 0, mg1)
      /\ cb1 \in Seq(Nat) /\ Len(cb1) = 2 /\ Holds(d, 1, cb1)
      /\ lb1 \in Seq(Nat) /\ Len(lb1) = 2 /\ Holds(d, 3, lb1)
      /\ ck1 \in Seq(Nat) /\ Len(ck1) = ChecksumWidth /\ Holds(d, 5, ck1)
      /\ p1 \in Seq(Nat) /\ Len(p1) = Len(p) /\ Holds(d, HeaderSize, p1)
  <2>1. mg1 \in Seq(Nat) /\ Len(mg1) = 1 /\ Holds(d, 0, mg1)
    BY <1>4, <1>21, <1>51 DEF AlteredTo
  <2>2. cb1 \in Seq(Nat) /\ Len(cb1) = 2 /\ Holds(d, 1, cb1)
    BY <1>4, <1>22, <1>52 DEF AlteredTo
  <2>3. lb1 \in Seq(Nat) /\ Len(lb1) = 2 /\ Holds(d, 3, lb1)
    BY <1>4, <1>23, <1>53 DEF AlteredTo
  <2>4. ck1 \in Seq(Nat) /\ Len(ck1) = ChecksumWidth /\ Holds(d, 5, ck1)
    BY <1>4, <1>20, <1>24, <1>54 DEF AlteredTo
  <2>5. p1 \in Seq(Nat) /\ Len(p1) = Len(p) /\ Holds(d, HeaderSize, p1)
    BY <1>20, <1>25, <1>55 DEF AlteredTo
  <2> QED BY <2>1, <2>2, <2>3, <2>4, <2>5
<1>9. /\ at \notin q3 + 1 .. q3 + 2 => lb1 = lb
      /\ at \notin q5 + 1 .. h => ck1 = ck
  <2>1. at \notin q3 + 1 .. q3 + 2 => lb1 = lb
    BY <1>23, <1>53 DEF AlteredTo
  <2>2. at \notin q5 + 1 .. h => ck1 = ck
    <3>1. q5 + Len(ck) = h
      BY <1>4, <1>20, <1>24
    <3> QED BY <1>54, <3>1 DEF AlteredTo
  <2> QED BY <2>1, <2>2
<1>10. CASE Len(d) < HeaderSize
  <2>1. ParseFrame(d) = Incomplete
    BY <1>10, Zenon DEF ParseFrame
  <2> QED BY <2>1 DEF Incomplete
<1>11. CASE ~(Len(d) < HeaderSize)
  <2> SUFFICES ASSUME ParseFrame(d).tag = "frame" PROVE FALSE
    OBVIOUS
  <2>1. PICK n : n = FromBytes(lb1)
    OBVIOUS
  <2>2. lb1 \in Seq(Byte)
    BY <1>2, <1>3, <1>4, <1>7, <1>20, <1>26, AlterBytes
  <2>3. n \in Nat
    <3>1. FromDigits(lb1, Base) \in 0 .. Power(Base, Len(lb1)) - 1
      BY <2>2, BaseIs, DigitsBelow DEF Byte
    <3> QED BY <2>1, <3>1 DEF FromBytes
  <2>4. Verdict(d, mg1, n, ck1, cb1).tag = "frame"
    <3>1. Len(d) >= HeaderSize
      BY <1>20, <1>27, <1>11
    <3>2. ParseFrame(d) = Verdict(d, mg1, FromBytes(lb1), ck1, cb1)
      BY <1>3, <1>8, <3>1, HeaderParsed
    <3> QED BY <2>1, <3>2
  <2>5. /\ mg1 = Magic /\ ~(n > MaxMessageSize) /\ ~(Len(d) < HeaderSize + n)
        /\ ck1 = Checksum(SubSeq(d, HeaderSize + 1, HeaderSize + n))
    BY <2>4, TakenForFrame
  <2>6. PICK r : r = SubSeq(d, HeaderSize + 1, HeaderSize + n)
    OBVIOUS
  <2>7. r \in Seq(Nat) /\ Len(r) = n /\ n <= MaxMessageSize /\ ck1 = Checksum(r)
    <3>1. r \in Seq(Nat) /\ Len(r) = n
      <4>1. HeaderSize \in Nat
        BY <1>20
      <4> QED BY <1>3, <2>3, <2>5, <2>6, <4>1, PayloadIs
    <3>2. n <= MaxMessageSize
      BY <1>27, <2>3, <2>5
    <3> QED BY <2>5, <2>6, <3>1, <3>2
  <2>8. CASE at = 1
    <3>1. at \in q0 + 1 .. q0 + Len(mg)
      BY <1>4, <1>21, <2>8
    <3>2. Holds(f, q0, mg)
      BY <1>4, <1>21
    <3>3. mg1 # mg
      BY <1>51, <3>1 DEF AlteredTo
    <3> QED BY <1>1, <2>5, <3>3
  <2>9. CASE at \in 4 .. 5
    <3>1. at \in q3 + 1 .. q3 + Len(lb) /\ Holds(f, q3, lb)
      BY <1>4, <1>23, <2>9
    <3>2. lb1 # lb
      BY <1>53, <3>1 DEF AlteredTo
    <3>3. n # Len(p)
      <4>1. SUFFICES ASSUME n = Len(p) PROVE FALSE
        OBVIOUS
      <4>2. FromDigits(lb1, Base) = FromDigits(lb, Base) /\ Len(lb1) = Len(lb)
        BY <1>2, <1>8, <2>1, <4>1 DEF FromBytes
      <4>3. lb1 = lb
        BY <1>2, <2>2, <4>2, BaseIs, DigitsUnique DEF Byte
      <4> QED BY <3>2, <4>3
    <3>4. ck1 = ck
      BY <1>4, <1>9, <1>20, <2>9
    <3>5. Checksum(p) = Checksum(r)
      BY <1>1, <2>7, <3>4
    <3>6. Len(p) = Len(r)
      BY <1>2, <2>7, <3>5, ChecksumTells
    <3> QED BY <2>7, <3>3, <3>6
  <2>10. CASE at \in 6 .. HeaderSize
    <3>1. at \in q5 + 1 .. q5 + Len(ck) /\ Holds(f, q5, ck)
      BY <1>4, <1>20, <1>24, <2>10
    <3>2. at - q5 \in 1 .. Len(ck) /\ ck1[at - q5] = b
      BY <1>54, <3>1 DEF AlteredTo
    <3>3. PICK i \in 1 .. ChecksumWidth : i = at - q5
      BY <1>2, <3>2
    <3>4. Checksum(r)[i] >= Base
      BY <2>7, ChecksumIs
    <3>5. Checksum(r)[i] = b
      BY <2>7, <3>2, <3>3
    <3> QED BY <1>3, <1>27, <3>4, <3>5
  <2>11. CASE at > HeaderSize
    <3>1. at \in h + 1 .. h + Len(p)
      BY <1>20, <1>26, <2>11
    <3>2. p1 # p
      BY <1>55, <3>1 DEF AlteredTo
    <3>3. p1 \in Seq(Byte)
      BY <1>55 DEF AlteredTo
    <3>4. lb1 = lb /\ ck1 = ck
      BY <1>4, <1>9, <1>20, <1>26, <2>11
    <3>5. n = Len(p)
      BY <1>2, <2>1, <3>4
    <3>6. r = p1
      <4>1. HeaderSize + Len(p1) <= Len(d) /\ n = Len(p1)
        <5>1. n = Len(p1)
          BY <1>8, <3>5
        <5> QED BY <1>20, <1>27, <2>3, <2>5, <5>1
      <4>2. SubSeq(d, HeaderSize + 1, HeaderSize + Len(p1)) = p1
        <5>1. d \in Seq(Nat) /\ HeaderSize \in Nat /\ p1 \in Seq(Nat) /\ Holds(d, HeaderSize, p1)
          BY <1>3, <1>8, <1>20
        <5> QED BY <4>1, <5>1, CutOut, Zenon
      <4> QED BY <2>6, <4>1, <4>2
    <3>7. Checksum(p) = Checksum(p1)
      BY <1>1, <2>7, <3>4, <3>6
    <3>8. Len(p) <= MaxMessageSize /\ Len(p1) <= MaxMessageSize
      BY <1>8
    <3>9. p = p1
      BY <1>2, <1>8, <3>3, <3>7, <3>8, ChecksumTells
    <3> QED BY <3>2, <3>9
  <2>12. at = 1 \/ at \in 4 .. 5 \/ at \in 6 .. HeaderSize \/ at > HeaderSize
    BY <1>20, <1>26
  <2> QED BY <2>8, <2>9, <2>10, <2>11, <2>12
<1> QED BY <1>10, <1>11

-----------------------------------------------------------------------------
(***************************************************************************)
(* The connection: the bytes received and those still to come are, at any  *)
(* time, the frames not yet read.                                          *)
(***************************************************************************)
\* A message of which every cut is refused.
LEMMA ParsesReadable ==
  ASSUME NEW m, Message(m), NEW s, Parses(m.cmd, s, m.vals)
  PROVE  Readable(m, s)
<1>1. s \in Seq(Byte) /\ m.vals \in Seq(Seq(Int)) /\ Len(s) \in Nat
  BY MessageIs, LenProperties DEF Parses
<1>2. ASSUME NEW p \in Seq(Byte), Holds(p, 0, s)
      PROVE  /\ Result(Cursor(p), ParseMessage(m.cmd, p), s, m.vals)
             /\ Succeeds(Cursor(p), ParseMessage(m.cmd, p), s)
             /\ ~(ParseMessage(m.cmd, p).ok /\ Len(s) > Len(p))
  <2>1. PICK r : r = ParseMessage(m.cmd, p)
    OBVIOUS
  <2>2. Result(Cursor(p), r, s, m.vals) /\ Succeeds(Cursor(p), r, s) /\ Refuses(Cursor(p), r, s)
    BY <1>2, <2>1 DEF Parses
  <2>3. Cursor(p).pos = 0 /\ Cursor(p).data = p
    BY CursorOpen
  <2>4. ~(r.ok /\ Len(s) > Len(p))
    BY <1>1, <2>2, <2>3 DEF Refuses
  <2> QED BY <2>1, <2>2, <2>4
<1> QED BY <1>1, <1>2 DEF Readable

\* Every message the peer sends can be read.
LEMMA MessagesReadable ==
  ASSUME NEW m, Message(m)
  PROVE  Readable(m, SerialiseMessage(m))
<1>1. PICK s : s = SerialiseMessage(m)
  OBVIOUS
<1>2. CASE m.cmd = "ping"
  BY <1>1, <1>2, PingParses, ParsesReadable
<1>3. CASE m.cmd = "inv"
  BY <1>1, <1>3, InvParses, ParsesReadable
<1>4. CASE m.cmd = "headers"
  BY <1>1, <1>4, HeadersParses, ParsesReadable
<1>5. CASE m.cmd = "getheaders"
  BY <1>1, <1>5, GetHeadersParses, ParsesReadable
<1>6. CASE m.cmd = "block"
  BY <1>1, <1>6, BlockParses, ParsesReadable
<1>7. CASE m.cmd = "version"
  BY <1>1, <1>7, VersionParses
<1> QED BY <1>2, <1>3, <1>4, <1>5, <1>6, <1>7, MessageIs

\* A frame as ParseFrame reports it.
Framed(f, cmd, p, end) ==
    f.tag = "frame" /\ f.payload = p /\ f.command = CommandBytes[cmd] /\ f.end = end

\* The command of a frame selects the parser.
LEMMA HandedParsed ==
  ASSUME NEW cmd \in DOMAIN CommandBytes, NEW p, NEW f, NEW end, Framed(f, cmd, p, end)
  PROVE  Handed(f) = [cmd |-> cmd, vals |-> ParseMessage(cmd, p).out, ok |-> ParseMessage(cmd, p).ok]
<1>1. PICK known : known = {c \in DOMAIN CommandBytes : CommandBytes[c] = f.command}
  OBVIOUS
<1>2. known = {cmd}
  BY <1>1, CommandsAre DEF Framed
<1>3. known # {} /\ (CHOOSE c \in known : TRUE) = cmd
  BY <1>2
<1>4. f.payload = p
  BY DEF Framed
<1> QED BY <1>1, <1>3, <1>4, Zenon DEF Handed


\* Of a whole payload the message is handed over.
LEMMA HandedWhole ==
  ASSUME NEW m, Message(m), NEW f, NEW end, Framed(f, m.cmd, SerialiseMessage(m), end)
  PROVE  Handed(f) = [cmd |-> m.cmd, vals |-> m.vals, ok |-> TRUE]
<1>1. PICK s : s = SerialiseMessage(m)
  OBVIOUS
<1>2. PICK r : r = ParseMessage(m.cmd, s)
  OBVIOUS
<1>3. s \in Seq(Byte) /\ m.vals \in Seq(Seq(Int)) /\ Len(s) \in Nat
  BY <1>1, MessagesReadable, LenProperties DEF Readable
<1>4. Holds(s, 0, s)
  BY <1>3, LenProperties DEF Holds
<1>5. Result(Cursor(s), r, s, m.vals) /\ Succeeds(Cursor(s), r, s)
  BY <1>1, <1>2, <1>3, <1>4, MessagesReadable DEF Readable
<1>6. Cursor(s).pos = 0 /\ Cursor(s).data = s /\ Cursor(s).out = << >>
  BY <1>3, CursorOpen
<1>7. r.ok
  BY <1>3, <1>5, <1>6 DEF Succeeds
<1>8. Open(r)
  BY <1>5, <1>7 DEF Result
<1>9. r.ok = TRUE
  BY <1>7, <1>8 DEF Open, Cursors
<1>10. r.out = << >> \o m.vals
  BY <1>3, <1>5, <1>6, <1>7 DEF Result
<1>11. r.out = m.vals
  BY <1>3, <1>10, ConcatProperties
<1>12. m.cmd \in DOMAIN CommandBytes
  BY DEF Message
<1> QED BY <1>1, <1>2, <1>9, <1>11, <1>12, HandedParsed

\* Of a payload cut short, a version message without its tail, if anything.
LEMMA HandedCut ==
  ASSUME NEW m, Message(m), NEW p \in Seq(Byte), Holds(p, 0, SerialiseMessage(m)),
         Len(p) < Len(SerialiseMessage(m)),
         NEW f, NEW end, Framed(f, m.cmd, p, end), Handed(f).ok
  PROVE  TailMissing(m, [cmd |-> Handed(f).cmd, vals |-> Handed(f).vals])
<1>1. PICK s : s = SerialiseMessage(m)
  OBVIOUS
<1>2. PICK r : r = ParseMessage(m.cmd, p)
  OBVIOUS
<1>3. m.cmd \in DOMAIN CommandBytes
  BY DEF Message
<1>4. Handed(f) = [cmd |-> m.cmd, vals |-> r.out, ok |-> r.ok]
  BY <1>2, <1>3, HandedParsed
<1>5. s \in Seq(Byte) /\ Len(s) \in Nat /\ Len(p) \in Nat
  BY <1>1, MessagesReadable, LenProperties DEF Readable
<1>6. r.ok /\ Len(s) > Len(p)
  BY <1>1, <1>4, <1>5
<1>7. TailMissing(m, [cmd |-> m.cmd, vals |-> r.out])
  BY <1>1, <1>2, <1>6, MessagesReadable DEF Readable
<1>8. Handed(f).cmd = m.cmd /\ Handed(f).vals = r.out
  BY <1>4
<1> QED BY <1>7, <1>8

\* The bytes received and those still to come, against the frame at hand and the rest.
Joins(b, l, g, r) ==
    /\ b \in Seq(Nat) /\ l \in Seq(Nat) /\ g \in Seq(Nat) /\ r \in Seq(Nat)
    /\ b \o l = g \o r

\* z is x and then y.
Runs(z, x, y, n, k) ==
    /\ z \in Seq(Nat) /\ Len(z) = n + k
    /\ \A i \in 1 .. n : z[i] = x[i]
    /\ \A i \in 1 .. k : z[n + i] = y[i]

\* The elements of two sequences, one after the other.
LEMMA Elements ==
  ASSUME NEW x \in Seq(Nat), NEW y \in Seq(Nat)
  PROVE  Runs(x \o y, x, y, Len(x), Len(y))
<1>1. PICK n \in Nat, k \in Nat : n = Len(x) /\ k = Len(y)
  BY LenProperties
<1>2. /\ x \o y \in Seq(Nat) /\ Len(x \o y) = n + k
      /\ \A i \in 1 .. n + k : (x \o y)[i] = IF i <= n THEN x[i] ELSE y[i - n]
  BY <1>1, ConcatProperties
<1>3. \A i \in 1 .. n : (x \o y)[i] = x[i]
  BY <1>2
<1>4. \A i \in 1 .. k : (x \o y)[n + i] = y[i]
  <2> TAKE i \in 1 .. k
  <2>1. n + i \in 1 .. n + k /\ ~(n + i <= n) /\ (n + i) - n = i
    OBVIOUS
  <2> QED BY <1>2, <2>1
<1> QED BY <1>1, <1>2, <1>3, <1>4 DEF Runs

\* A byte that arrives leaves the stream as it was.
LEMMA OneArrives ==
  ASSUME NEW b, NEW l, NEW g, NEW r, Joins(b, l, g, r), l # << >>
  PROVE  Joins(Append(b, Head(l)), Tail(l), g, r)
<1>1. b \in Seq(Nat) /\ l \in Seq(Nat) /\ g \in Seq(Nat) /\ r \in Seq(Nat) /\ b \o l = g \o r
  BY DEF Joins
<1>2. PICK n \in Nat, k \in Nat : n = Len(b) /\ k = Len(l) /\ k >= 1
  <2>1. Len(b) \in Nat /\ Len(l) \in Nat /\ Len(l) # 0
    BY <1>1, LenProperties, EmptySeq
  <2> QED BY <2>1
<1>3. PICK x, y : x = Append(b, Head(l)) /\ y = Tail(l)
  OBVIOUS
<1>4. Head(l) = l[1] /\ l[1] \in Nat
  BY <1>1, <1>2
<1>5. /\ x \in Seq(Nat) /\ Len(x) = n + 1 /\ x[n + 1] = l[1]
      /\ \A i \in 1 .. n : x[i] = b[i]
  BY <1>1, <1>2, <1>3, <1>4, AppendProperties
<1>6. y \in Seq(Nat) /\ Len(y) = k - 1 /\ \A i \in 1 .. k - 1 : y[i] = l[i + 1]
  BY <1>1, <1>2, <1>3, HeadTailProperties
<1>7. PICK z, z0 : z = x \o y /\ z0 = b \o l
  OBVIOUS
<1>71. Runs(z, x, y, n + 1, k - 1)
  BY <1>5, <1>6, <1>7, Elements
<1>72. Runs(z0, b, l, n, k)
  BY <1>1, <1>2, <1>7, Elements
<1>73. z \in Seq(Nat) /\ z0 \in Seq(Nat) /\ Len(z) = n + k /\ Len(z0) = n + k
  <2>1. z \in Seq(Nat) /\ Len(z) = (n + 1) + (k - 1)
    BY <1>71 DEF Runs
  <2>2. (n + 1) + (k - 1) = n + k
    OBVIOUS
  <2> QED BY <1>72, <2>1, <2>2 DEF Runs
<1>8. \A i \in 1 .. n + k : z[i] = z0[i]
  <2> TAKE i \in 1 .. n + k
  <2>1. CASE i <= n
    <3>1. i \in 1 .. n /\ i \in 1 .. n + 1
      BY <2>1
    <3>2. z[i] = x[i] /\ z0[i] = b[i]
      BY <1>71, <1>72, <3>1 DEF Runs
    <3> QED BY <1>5, <3>1, <3>2
  <2>2. CASE i = n + 1
    <3>1. i \in 1 .. n + 1 /\ 1 \in 1 .. k
      BY <1>2, <2>2
    <3>2. z[i] = x[i] /\ z0[n + 1] = l[1]
      BY <1>71, <1>72, <3>1 DEF Runs
    <3> QED BY <1>5, <2>2, <3>2
  <2>3. CASE i > n + 1
    <3>1. PICK j \in 1 .. k - 1 : i = (n + 1) + j /\ i = n + (j + 1) /\ j + 1 \in 1 .. k
      <4>1. i - (n + 1) \in 1 .. k - 1
        BY <1>2, <2>3
      <4> QED BY <4>1
    <3>2. z[i] = y[j]
      BY <1>71, <3>1 DEF Runs
    <3>3. z0[i] = l[j + 1]
      BY <1>72, <3>1 DEF Runs
    <3> QED BY <1>6, <3>2, <3>3
  <2> QED BY <2>1, <2>2, <2>3
<1>9. x \o y = b \o l
  BY <1>7, <1>73, <1>8, SeqEqual
<1> QED BY <1>1, <1>3, <1>5, <1>6, <1>9 DEF Joins

\* The buffer begins with the frame at hand, as far as both go.
LEMMA BeginningOf ==
  ASSUME NEW b, NEW l, NEW g, NEW r, Joins(b, l, g, r)
  PROVE  Holds(b, 0, g)
<1>1. b \in Seq(Nat) /\ l \in Seq(Nat) /\ g \in Seq(Nat) /\ r \in Seq(Nat) /\ b \o l = g \o r
  BY DEF Joins
<1>2. Len(b) \in Nat /\ Len(g) \in Nat
  BY <1>1, LenProperties
<1>3. ASSUME NEW j \in 1 .. Len(g), 0 + j <= Len(b) PROVE b[0 + j] = g[j]
  <2>1. 0 + j = j /\ j \in 1 .. Len(b)
    BY <1>2, <1>3
  <2>2. (b \o l)[j] = b[j] /\ (g \o r)[j] = g[j]
    <3>1. Runs(b \o l, b, l, Len(b), Len(l)) /\ Runs(g \o r, g, r, Len(g), Len(r))
      BY <1>1, Elements
    <3> QED BY <2>1, <3>1 DEF Runs
  <2> QED BY <1>1, <2>1, <2>2
<1> QED BY <1>3 DEF Holds

\* Behind the frame at hand comes the rest.
LEMMA RemainderOf ==
  ASSUME NEW b, NEW l, NEW g, NEW r, Joins(b, l, g, r), Len(g) <= Len(b)
  PROVE  /\ SubSeq(b, Len(g) + 1, Len(b)) \in Seq(Nat)
         /\ SubSeq(b, Len(g) + 1, Len(b)) \o l = r
<1>1. b \in Seq(Nat) /\ l \in Seq(Nat) /\ g \in Seq(Nat) /\ r \in Seq(Nat) /\ b \o l = g \o r
  BY DEF Joins
<1>2. PICK n \in Nat, k \in Nat, h \in Nat, c \in Nat :
         n = Len(b) /\ k = Len(l) /\ h = Len(g) /\ c = Len(r)
  BY <1>1, LenProperties
<1>3. h <= n
  BY <1>2
<1>4. PICK x : x = SubSeq(b, h + 1, n)
  OBVIOUS
<1>5. x \in Seq(Nat) /\ Len(x) = n - h /\ \A i \in 1 .. n - h : x[i] = b[h + i]
  <2>1. x = [i \in 1 .. n - h |-> b[h + i]]
    BY <1>1, <1>2, <1>3, <1>4
  <2>2. \A i \in 1 .. n - h : b[h + i] \in Nat
    BY <1>1, <1>2, <1>3, LenProperties
  <2>3. x \in [1 .. n - h -> Nat] /\ n - h \in Nat
    <3>1. n - h \in Nat
      BY <1>3
    <3> QED BY <2>1, <2>2, <3>1
  <2>4. x \in Seq(Nat) /\ Len(x) = n - h
    BY <2>3, IndexedSeq
  <2> QED BY <2>1, <2>4
<1>51. PICK z, z0 : z = x \o l /\ z0 = b \o l
  OBVIOUS
<1>52. Runs(z, x, l, n - h, k)
  BY <1>1, <1>2, <1>5, <1>51, Elements
<1>53. Runs(z0, b, l, n, k) /\ Runs(z0, g, r, h, c)
  <2>1. Runs(z0, b, l, n, k)
    BY <1>1, <1>2, <1>51, Elements
  <2>2. z0 = g \o r
    BY <1>1, <1>51
  <2> QED BY <1>1, <1>2, <2>1, <2>2, Elements
<1>6. n + k = h + c
  BY <1>53 DEF Runs
<1>7. z \in Seq(Nat) /\ Len(z) = c
  <2>1. z \in Seq(Nat) /\ Len(z) = (n - h) + k
    BY <1>52 DEF Runs
  <2> QED BY <1>6, <2>1
<1>8. \A i \in 1 .. c : z[i] = r[i]
  <2> TAKE i \in 1 .. c
  <2>1. z0[h + i] = r[i]
    BY <1>53 DEF Runs
  <2>2. CASE i <= n - h
    <3>1. i \in 1 .. n - h /\ h + i \in 1 .. n
      BY <1>3, <2>2
    <3>2. z[i] = x[i]
      BY <1>52, <3>1 DEF Runs
    <3>3. z0[h + i] = b[h + i]
      BY <1>53, <3>1 DEF Runs
    <3> QED BY <1>5, <2>1, <3>1, <3>2, <3>3
  <2>3. CASE i > n - h
    <3>1. PICK j \in 1 .. k : i = (n - h) + j /\ h + i = n + j
      <4>1. i - (n - h) \in 1 .. k
        BY <1>3, <1>6, <2>3
      <4>2. PICK j \in 1 .. k : j = i - (n - h)
        BY <4>1
      <4> QED BY <1>3, <4>2
    <3>2. z[i] = l[j]
      BY <1>52, <3>1 DEF Runs
    <3>3. z0[h + i] = l[j]
      BY <1>53, <3>1 DEF Runs
    <3> QED BY <2>1, <3>2, <3>3
  <2> QED BY <2>2, <2>3
<1>9. x \o l = r
  BY <1>1, <1>2, <1>51, <1>7, <1>8, SeqEqual
<1> QED BY <1>2, <1>4, <1>5, <1>9

\* The frame of a message, or of the beginning of its payload.
Whole(g, m, k) ==
    \E p \in Seq(Byte) :
        /\ FrameParts(g, m.cmd, p) /\ Len(p) <= MaxMessageSize
        /\ Holds(p, 0, SerialiseMessage(m))
        /\ p = SerialiseMessage(m) \/ (k = "cut" /\ Len(p) < Len(SerialiseMessage(m)))
\* Bytes at which no frame begins.
Broken(g) == \A d \in Seq(Nat) : Holds(d, 0, g) => ParseFrame(d).tag # "frame"

\* The payload of a message and its frame.
LEMMA MessagePayload ==
  ASSUME NEW m, Message(m)
  PROVE  /\ SerialiseMessage(m) \in Seq(Byte) /\ Len(SerialiseMessage(m)) \in Nat
         /\ Len(SerialiseMessage(m)) <= MaxMessageSize
         /\ Holds(SerialiseMessage(m), 0, SerialiseMessage(m))
         /\ FrameParts(Frame(m.cmd, SerialiseMessage(m)), m.cmd, SerialiseMessage(m))
<1>1. PICK s : s = SerialiseMessage(m)
  OBVIOUS
<1>2. s \in Seq(Byte) /\ Len(s) \in Nat /\ Len(s) <= MaxMessageSize /\ m.cmd \in DOMAIN CommandBytes
  BY <1>1, MessagesReadable, MessageIs, LenProperties DEF Readable, Message
<1>3. FrameParts(Frame(m.cmd, s), m.cmd, s)
  BY <1>2, FrameIs
<1>4. Holds(s, 0, s)
  BY <1>2, LenProperties DEF Holds
<1> QED BY <1>1, <1>2, <1>3, <1>4

\* An unaltered frame is whole.
LEMMA WholeFrame ==
  ASSUME NEW m, Message(m), NEW k
  PROVE  Whole(Frame(m.cmd, SerialiseMessage(m)), m, k)
BY MessagePayload DEF Whole

\* The bytes altered: unless they are those of the command, nothing is taken for a frame.
LEMMA NoiseBreaks ==
  ASSUME NEW m, Message(m), NEW at \in Nat, at \notin 2 .. 3, NEW b \in Byte,
         at \in 1 .. Len(Frame(m.cmd, SerialiseMessage(m)))
  PROVE  \/ Whole([Frame(m.cmd, SerialiseMessage(m)) EXCEPT ![at] = b], m, "noise")
         \/ Broken([Frame(m.cmd, SerialiseMessage(m)) EXCEPT ![at] = b])
<1>1. PICK s, f : s = SerialiseMessage(m) /\ f = Frame(m.cmd, s)
  OBVIOUS
<1>2. /\ s \in Seq(Byte) /\ Len(s) <= MaxMessageSize /\ FrameParts(f, m.cmd, s)
      /\ m.cmd \in DOMAIN CommandBytes
  BY <1>1, MessagePayload DEF Message
<1>3. f \in Seq(Nat)
  BY <1>2 DEF FrameParts
<1>4. CASE b = f[at]
  <2>1. [f EXCEPT ![at] = b] = f
    BY <1>3, <1>4
  <2>2. Whole(f, m, "noise")
    BY <1>1, WholeFrame
  <2> QED BY <1>1, <2>1, <2>2
<1>5. CASE b # f[at]
  <2>1. ASSUME NEW d \in Seq(Nat), Holds(d, 0, [f EXCEPT ![at] = b])
        PROVE  ParseFrame(d).tag # "frame"
    <3>1. Altered(f, at, b, d)
      BY <1>1, <1>3, <1>5, <2>1 DEF Altered
    <3> QED BY <1>2, <3>1, FrameNoise
  <2> QED BY <1>1, <2>1 DEF Broken
<1> QED BY <1>4, <1>5

\* The altered bytes are bytes.
LEMMA NoiseBytes ==
  ASSUME NEW f \in Seq(Nat), NEW at \in 1 .. Len(f), NEW b \in Nat
  PROVE  [f EXCEPT ![at] = b] \in Seq(Nat)
<1>1. PICK n \in Nat : n = Len(f)
  BY LenProperties
<1>2. f \in [1 .. n -> Nat]
  BY <1>1, LenProperties
<1>3. [f EXCEPT ![at] = b] \in [1 .. n -> Nat]
  BY <1>1, <1>2
<1> QED BY <1>3, IndexedSeq

\* A payload cut short is framed like a whole one.
LEMMA CutFrame ==
  ASSUME NEW m, Message(m), NEW at \in 0 .. Len(SerialiseMessage(m)) - 1
  PROVE  Whole(Frame(m.cmd, SubSeq(SerialiseMessage(m), 1, at)), m, "cut")
<1>1. PICK s : s = SerialiseMessage(m)
  OBVIOUS
<1>2. /\ s \in Seq(Byte) /\ Len(s) \in Nat /\ Len(s) <= MaxMessageSize
      /\ m.cmd \in DOMAIN CommandBytes
  BY <1>1, MessagePayload DEF Message
<1>3. at \in Nat /\ at < Len(s)
  BY <1>1, <1>2
<1>4. PICK p : p = SubSeq(s, 1, at)
  OBVIOUS
<1>5. p = [i \in 1 .. at |-> s[i]]
  BY <1>2, <1>3, <1>4
<1>6. \A i \in 1 .. at : s[i] \in Byte
  BY <1>2, <1>3, LenProperties
<1>7. p \in [1 .. at -> Byte]
  BY <1>5, <1>6
<1>8. p \in Seq(Byte) /\ Len(p) = at
  BY <1>3, <1>7, IndexedSeq
<1>9. Holds(p, 0, s)
  <2>1. ASSUME NEW j \in 1 .. Len(s), 0 + j <= Len(p) PROVE p[0 + j] = s[j]
    <3>1. 0 + j = j /\ j \in 1 .. at
      BY <1>2, <1>3, <1>8, <2>1
    <3> QED BY <1>5, <3>1
  <2> QED BY <2>1 DEF Holds
<1>10. Len(p) <= MaxMessageSize /\ Len(p) < Len(s)
  BY <1>2, <1>3, <1>8, BaseIs
<1>11. FrameParts(Frame(m.cmd, p), m.cmd, p)
  BY <1>2, <1>8, <1>10, FrameIs
<1>12. Whole(Frame(m.cmd, p), m, "cut")
  BY <1>1, <1>8, <1>9, <1>10, <1>11 DEF Whole
<1> QED BY <1>1, <1>4, <1>12

\* What is put on the line is whole, or no frame begins there.
LEMMA OnTheLineIs ==
  ASSUME NEW m, Message(m), NEW ft \in Faults(m),
         ft.kind = "noise" => ft.at \notin Len(Magic) + 1 .. Len(Magic) + CommandWidth
  PROVE  /\ OnTheLine(m, ft) \in Seq(Nat)
         /\ \/ Whole(OnTheLine(m, ft), m, ft.kind)
            \/ ft.kind = "noise" /\ Broken(OnTheLine(m, ft))
<1>1. PICK s, f : s = SerialiseMessage(m) /\ f = Frame(m.cmd, s)
  OBVIOUS
<1>2. \/ ft \in [kind : {"none"}, at : {0}, byte : {0}]
      \/ ft \in [kind : {"noise"}, at : 1 .. Len(f), byte : Noise]
      \/ ft \in [kind : {"cut"}, at : 0 .. Len(s) - 1, byte : {0}]
  BY <1>1 DEF Faults
<1>3. ASSUME NEW g, Whole(g, m, ft.kind) PROVE g \in Seq(Nat)
  BY <1>3 DEF Whole, FrameParts
<1>4. CASE ft \in [kind : {"none"}, at : {0}, byte : {0}]
  <2>1. ft.kind = "none"
    BY <1>4
  <2>2. OnTheLine(m, ft) = f
    BY <1>1, <2>1 DEF OnTheLine
  <2>3. Whole(f, m, ft.kind)
    BY <1>1, WholeFrame
  <2> QED BY <1>3, <2>2, <2>3
<1>5. CASE ft \in [kind : {"cut"}, at : 0 .. Len(s) - 1, byte : {0}]
  <2>1. ft.kind = "cut" /\ ft.at \in 0 .. Len(s) - 1
    BY <1>5
  <2>2. OnTheLine(m, ft) = Frame(m.cmd, SubSeq(s, 1, ft.at))
    BY <1>1, <2>1 DEF OnTheLine
  <2>3. Whole(Frame(m.cmd, SubSeq(s, 1, ft.at)), m, ft.kind)
    BY <1>1, <2>1, CutFrame
  <2> QED BY <1>3, <2>2, <2>3
<1>6. CASE ft \in [kind : {"noise"}, at : 1 .. Len(f), byte : Noise]
  <2>1. PICK at, b : at = ft.at /\ b = ft.byte
    OBVIOUS
  <2>2. ft.kind = "noise" /\ at \in 1 .. Len(f) /\ b \in Noise
    BY <1>6, <2>1
  <2>3. OnTheLine(m, ft) = [f EXCEPT ![at] = b]
    BY <1>1, <2>1, <2>2 DEF OnTheLine
  <2>4. at \notin 2 .. 3
    <3>1. Len(Magic) + 1 = 2 /\ Len(Magic) + CommandWidth = 3
      BY WidthsAre
    <3> QED BY <2>1, <2>2, <3>1
  <2>5. b \in Byte /\ b \in Nat
    <3>1. b \in Byte
      BY <2>2, WireAssumption DEF Byte
    <3> QED BY <3>1, BytesAreNaturals
  <2>6. f \in Seq(Nat) /\ at \in Nat
    <3>1. FrameParts(f, m.cmd, s)
      BY <1>1, MessagePayload
    <3>2. f \in Seq(Nat)
      BY <3>1 DEF FrameParts
    <3>3. Len(f) \in Nat
      BY <3>2, LenProperties
    <3> QED BY <2>2, <3>2, <3>3
  <2>7. [f EXCEPT ![at] = b] \in Seq(Nat)
    BY <2>2, <2>5, <2>6, NoiseBytes
  <2>8. \/ Whole([f EXCEPT ![at] = b], m, "noise")
        \/ Broken([f EXCEPT ![at] = b])
    BY <1>1, <2>2, <2>4, <2>5, <2>6, NoiseBreaks
  <2> QED BY <2>2, <2>3, <2>7, <2>8
<1> QED BY <1>2, <1>4, <1>5, <1>6

\* What a reader makes of a whole frame at the front of its buffer.
LEMMA WholeRead ==
  ASSUME NEW m, Message(m), NEW g, NEW k, Whole(g, m, k), NEW d \in Seq(Nat), Holds(d, 0, g)
  PROVE  /\ Len(g) \in Nat
         /\ Len(d) < Len(g) => ParseFrame(d).tag = "incomplete"
         /\ ~(Len(d) < Len(g)) =>
              /\ ParseFrame(d).tag = "frame" /\ ParseFrame(d).end = Len(g)
              /\ \/ Handed(ParseFrame(d)) = [cmd |-> m.cmd, vals |-> m.vals, ok |-> TRUE]
                 \/ k = "cut" /\ (Handed(ParseFrame(d)).ok =>
                       TailMissing(m, [cmd |-> Handed(ParseFrame(d)).cmd,
                                       vals |-> Handed(ParseFrame(d)).vals]))
<1>1. PICK s : s = SerialiseMessage(m)
  OBVIOUS
<1>2. PICK p \in Seq(Byte) :
        /\ FrameParts(g, m.cmd, p) /\ Len(p) <= MaxMessageSize /\ Holds(p, 0, s)
        /\ p = s \/ (k = "cut" /\ Len(p) < Len(s))
  BY <1>1 DEF Whole
<1>3. m.cmd \in DOMAIN CommandBytes
  BY DEF Message
<1>4. PICK r : r = ParseFrame(d)
  OBVIOUS
<1>5. r = IF Len(d) < Len(g) THEN Incomplete
          ELSE [tag |-> "frame", end |-> Len(g), payload |-> p, command |-> CommandBytes[m.cmd]]
  BY <1>2, <1>3, <1>4, FrameParsed
<1>6. Len(g) \in Nat
  <2>1. g \in Seq(Nat)
    BY <1>2 DEF FrameParts
  <2> QED BY <2>1, LenProperties
<1>7. ASSUME Len(d) < Len(g) PROVE r.tag = "incomplete"
  BY <1>5, <1>7 DEF Incomplete
<1>8. ASSUME ~(Len(d) < Len(g))
      PROVE  /\ r.tag = "frame" /\ r.end = Len(g)
             /\ \/ Handed(r) = [cmd |-> m.cmd, vals |-> m.vals, ok |-> TRUE]
                \/ k = "cut" /\ (Handed(r).ok =>
                      TailMissing(m, [cmd |-> Handed(r).cmd, vals |-> Handed(r).vals]))
  <2>1. PICK end : end = Len(g)
    OBVIOUS
  <2>2. r = [tag |-> "frame", end |-> end, payload |-> p, command |-> CommandBytes[m.cmd]]
    BY <1>5, <1>8, <2>1, Zenon
  <2>3. r.tag = "frame" /\ r.end = end /\ r.payload = p /\ r.command = CommandBytes[m.cmd]
    BY <2>2
  <2>4. Framed(r, m.cmd, p, end)
    BY <2>3 DEF Framed
  <2>5. CASE p = s
    <3>1. Framed(r, m.cmd, SerialiseMessage(m), end)
      BY <1>1, <2>4, <2>5
    <3> QED BY <2>1, <2>3, <3>1, HandedWhole
  <2>6. CASE k = "cut" /\ Len(p) < Len(s)
    <3>1. Handed(r).ok => TailMissing(m, [cmd |-> Handed(r).cmd, vals |-> Handed(r).vals])
      BY <1>1, <1>2, <2>4, <2>6, HandedCut
    <3> QED BY <2>1, <2>3, <2>6, <3>1
  <2> QED BY <1>2, <2>5, <2>6
<1> QED BY <1>4, <1>6, <1>7, <1>8

-----------------------------------------------------------------------------
\* How far the two messages have come.
FirstFrame == OnTheLine(sent[1], fault)
SecondFrame == Frame(sent[2].cmd, SerialiseMessage(sent[2]))
Received(x) == x = sent[1] \/ (fault.kind = "cut" /\ TailMissing(sent[1], x))
NoneRead == ~closed /\ got = << >> /\ Joins(buf, line, FirstFrame, SecondFrame)
OneRead == /\ ~closed /\ (\E x : Received(x) /\ got = <<x>>)
           /\ Joins(buf, line, SecondFrame, << >>)
BothRead == /\ ~closed /\ (\E x : Received(x) /\ got = <<x, sent[2]>>)
            /\ buf = << >> /\ line = << >>
GivenUp == closed /\ got = << >> /\ fault.kind # "none"
Stage == NoneRead \/ OneRead \/ BothRead \/ GivenUp
Covered == fault.kind = "noise" => fault.at \notin Len(Magic) + 1 .. Len(Magic) + CommandWidth
WireInv == sent \in Streams /\ fault \in Faults(sent[1]) /\ (Covered => Stage)

\* The messages sent can be sent.
LEMMA SentAre ==
  ASSUME sent \in Streams
  PROVE  /\ Message(sent[1]) /\ Message(sent[2]) /\ sent = <<sent[1], sent[2]>>
         /\ sent[1] = [cmd |-> sent[1].cmd, vals |-> sent[1].vals]
         /\ sent[2] = [cmd |-> sent[2].cmd, vals |-> sent[2].vals]
<1>1. /\ sent \in [1 .. 2 -> [cmd : DOMAIN CommandBytes, vals : Seq(Seq(Int))]]
      /\ Sendable(sent[1]) /\ Sendable(sent[2])
  BY StreamsAssumption
<1>2. /\ sent[1] \in [cmd : DOMAIN CommandBytes, vals : Seq(Seq(Int))]
      /\ sent[2] \in [cmd : DOMAIN CommandBytes, vals : Seq(Seq(Int))]
  BY <1>1
<1>3. sent = <<sent[1], sent[2]>>
  BY <1>1
<1> QED BY <1>1, <1>2, <1>3 DEF Message

\* The two frames on the line.
LEMMA FramesAre ==
  ASSUME sent \in Streams, fault \in Faults(sent[1]), Covered
  PROVE  /\ FirstFrame \in Seq(Nat) /\ SecondFrame \in Seq(Nat)
         /\ Whole(FirstFrame, sent[1], fault.kind) \/ (fault.kind = "noise" /\ Broken(FirstFrame))
         /\ Whole(SecondFrame, sent[2], "none")
<1>1. Message(sent[1]) /\ Message(sent[2])
  BY SentAre
<1>2. Whole(SecondFrame, sent[2], "none")
  BY <1>1, WholeFrame DEF SecondFrame
<1>3. SecondFrame \in Seq(Nat)
  BY <1>2 DEF Whole, FrameParts
<1>4. /\ FirstFrame \in Seq(Nat)
      /\ Whole(FirstFrame, sent[1], fault.kind) \/ (fault.kind = "noise" /\ Broken(FirstFrame))
  <2>1. fault.kind = "noise" => fault.at \notin Len(Magic) + 1 .. Len(Magic) + CommandWidth
    BY DEF Covered
  <2> QED BY <1>1, <2>1, OnTheLineIs DEF FirstFrame
<1> QED BY <1>2, <1>3, <1>4

\* At the start nothing is read and everything is on the line.
LEMMA WireInvInit == WireInit => WireInv
<1> SUFFICES ASSUME WireInit PROVE WireInv
  OBVIOUS
<1>1. sent \in Streams /\ fault \in Faults(sent[1]) /\ ~closed /\ got = << >> /\ buf = << >>
      /\ line = FirstFrame \o SecondFrame
  BY DEF WireInit, FirstFrame, SecondFrame
<1>2. ASSUME Covered PROVE NoneRead
  <2>1. FirstFrame \in Seq(Nat) /\ SecondFrame \in Seq(Nat)
    BY <1>1, <1>2, FramesAre
  <2>2. PICK g, r : g = FirstFrame /\ r = SecondFrame
    OBVIOUS
  <2>3. << >> \in Seq(Nat) /\ line \in Seq(Nat) /\ << >> \o line = g \o r
    <3>1. g \o r \in Seq(Nat)
      BY <2>1, <2>2, ConcatProperties
    <3>2. line = g \o r
      BY <1>1, <2>2
    <3> QED BY <3>1, <3>2, ConcatProperties
  <2> QED BY <1>1, <2>1, <2>2, <2>3 DEF NoneRead, Joins
<1> QED BY <1>1, <1>2 DEF WireInv, Stage

\* An empty buffer holds no frame.
LEMMA EmptyIsIncomplete == ParseFrame(<< >>).tag = "incomplete"
<1>1. HeaderSize \in Nat /\ HeaderSize >= 1
  BY WidthsAre, ChecksumWidthIs
<1>2. PICK d : d = << >>
  OBVIOUS
<1>3. Len(d) < HeaderSize
  BY <1>1, <1>2
<1>4. ParseFrame(d) = Incomplete
  BY <1>3, Zenon DEF ParseFrame
<1> QED BY <1>2, <1>4 DEF Incomplete

\* A byte arrives.
LEMMA ArriveStage ==
  ASSUME WireInv, Covered, Stage, Arrive
  PROVE  Stage'
<1>1. /\ line # << >> /\ ~closed /\ buf' = Append(buf, Head(line)) /\ line' = Tail(line)
      /\ sent' = sent /\ fault' = fault /\ got' = got /\ closed' = closed
  BY DEF Arrive
<1>2. FirstFrame' = FirstFrame /\ SecondFrame' = SecondFrame
  BY <1>1 DEF FirstFrame, SecondFrame
<1>3. CASE NoneRead
  <2>1. Joins(buf', line', FirstFrame, SecondFrame)
    BY <1>1, <1>3, OneArrives DEF NoneRead
  <2>2. NoneRead'
    BY <1>1, <1>2, <1>3, <2>1 DEF NoneRead
  <2> QED BY <2>2 DEF Stage
<1>4. CASE OneRead
  <2>1. Joins(buf', line', SecondFrame, << >>)
    BY <1>1, <1>4, OneArrives DEF OneRead
  <2>2. OneRead'
    BY <1>1, <1>2, <1>4, <2>1 DEF OneRead, Received
  <2> QED BY <2>2 DEF Stage
<1>5. CASE BothRead
  BY <1>1, <1>5 DEF BothRead
<1>6. CASE GivenUp
  BY <1>1, <1>6 DEF GivenUp
<1> QED BY <1>3, <1>4, <1>5, <1>6 DEF Stage

\* The first frame is read: its message is handed over, or the reader closes.
LEMMA ReadFirst ==
  ASSUME WireInv, Covered, NoneRead, ReadFrame
  PROVE  Stage'
<1>1. PICK f : f = ParseFrame(buf)
  OBVIOUS
<1>2. PICK h : h = Handed(f)
  OBVIOUS
<1>3. /\ ~closed /\ f.tag = "frame"
      /\ IF h.ok THEN got' = Append(got, [cmd |-> h.cmd, vals |-> h.vals]) /\ closed' = closed
         ELSE closed' = TRUE /\ got' = got
      /\ buf' = SubSeq(buf, f.end + 1, Len(buf))
      /\ sent' = sent /\ fault' = fault /\ line' = line
  BY <1>1, <1>2 DEF ReadFrame
<1>4. FirstFrame' = FirstFrame /\ SecondFrame' = SecondFrame
  BY <1>3 DEF FirstFrame, SecondFrame
<1>5. sent \in Streams /\ fault \in Faults(sent[1])
  BY DEF WireInv
<1>6. PICK g, r, k : g = FirstFrame /\ r = SecondFrame /\ k = fault.kind
  OBVIOUS
<1>7. Message(sent[1]) /\ r \in Seq(Nat)
  BY <1>5, <1>6, SentAre, FramesAre
<1>8. Joins(buf, line, g, r) /\ got = << >>
  BY <1>6 DEF NoneRead
<1>9. buf \in Seq(Nat) /\ line \in Seq(Nat) /\ Holds(buf, 0, g) /\ Len(buf) \in Nat
  BY <1>8, BeginningOf, LenProperties DEF Joins
<1>10. Whole(g, sent[1], k)
  <2>1. Whole(g, sent[1], k) \/ Broken(g)
    BY <1>5, <1>6, FramesAre
  <2> QED BY <1>1, <1>3, <1>9, <2>1 DEF Broken
<1>11. ~(Len(buf) < Len(g)) /\ Len(g) \in Nat /\ f.end = Len(g)
  BY <1>1, <1>3, <1>7, <1>9, <1>10, WholeRead
<1>12. \/ h = [cmd |-> sent[1].cmd, vals |-> sent[1].vals, ok |-> TRUE]
       \/ k = "cut" /\ (h.ok => TailMissing(sent[1], [cmd |-> h.cmd, vals |-> h.vals]))
  BY <1>1, <1>2, <1>7, <1>9, <1>10, <1>11, WholeRead
<1>13. buf' \in Seq(Nat) /\ buf' \o line = r
  <2>1. Len(g) <= Len(buf)
    BY <1>9, <1>11
  <2>2. SubSeq(buf, Len(g) + 1, Len(buf)) \in Seq(Nat)
        /\ SubSeq(buf, Len(g) + 1, Len(buf)) \o line = r
    BY <1>8, <2>1, RemainderOf
  <2> QED BY <1>3, <1>11, <2>2
<1>14. CASE h.ok
  <2>1. PICK x : x = [cmd |-> h.cmd, vals |-> h.vals]
    OBVIOUS
  <2>2. got' = <<x>> /\ ~closed'
    BY <1>3, <1>8, <1>14, <2>1
  <2>3. x = sent[1] \/ (k = "cut" /\ TailMissing(sent[1], x))
    <3>1. CASE h = [cmd |-> sent[1].cmd, vals |-> sent[1].vals, ok |-> TRUE]
      <4>1. h.cmd = sent[1].cmd /\ h.vals = sent[1].vals
        BY <3>1
      <4>2. x = sent[1]
        BY <1>5, <2>1, <4>1, SentAre
      <4> QED BY <4>2
    <3>2. CASE k = "cut" /\ (h.ok => TailMissing(sent[1], [cmd |-> h.cmd, vals |-> h.vals]))
      BY <1>14, <2>1, <3>2
    <3> QED BY <1>12, <3>1, <3>2
  <2>4. Received(x)'
    BY <1>3, <1>6, <2>3 DEF Received
  <2>5. Joins(buf', line', r, << >>)
    <3>1. << >> \in Seq(Nat) /\ r \o << >> = r
      BY <1>7, ConcatProperties
    <3> QED BY <1>3, <1>7, <1>9, <1>13, <3>1 DEF Joins
  <2>6. OneRead'
    BY <1>4, <1>6, <2>2, <2>4, <2>5 DEF OneRead
  <2> QED BY <2>6 DEF Stage
<1>15. CASE ~h.ok
  <2>1. ~(h = [cmd |-> sent[1].cmd, vals |-> sent[1].vals, ok |-> TRUE])
    BY <1>15
  <2>2. k = "cut"
    BY <1>12, <2>1
  <2>3. GivenUp'
    BY <1>3, <1>6, <1>8, <1>15, <2>2 DEF GivenUp
  <2> QED BY <2>3 DEF Stage
<1> QED BY <1>14, <1>15

\* The second frame is read, and nothing is left.
LEMMA ReadSecond ==
  ASSUME WireInv, Covered, OneRead, ReadFrame
  PROVE  Stage'
<1>1. PICK f : f = ParseFrame(buf)
  OBVIOUS
<1>2. PICK h : h = Handed(f)
  OBVIOUS
<1>3. /\ ~closed /\ f.tag = "frame"
      /\ IF h.ok THEN got' = Append(got, [cmd |-> h.cmd, vals |-> h.vals]) /\ closed' = closed
         ELSE closed' = TRUE /\ got' = got
      /\ buf' = SubSeq(buf, f.end + 1, Len(buf))
      /\ sent' = sent /\ fault' = fault /\ line' = line
  BY <1>1, <1>2 DEF ReadFrame
<1>4. PICK x : Received(x) /\ got = <<x>>
  BY DEF OneRead
<1>5. sent \in Streams /\ fault \in Faults(sent[1])
  BY DEF WireInv
<1>6. PICK g, k : g = SecondFrame /\ k = "none"
  OBVIOUS
<1>7. Message(sent[2])
  BY <1>5, SentAre
<1>8. Joins(buf, line, g, << >>)
  BY <1>6 DEF OneRead
<1>9. buf \in Seq(Nat) /\ line \in Seq(Nat) /\ Holds(buf, 0, g) /\ Len(buf) \in Nat
  BY <1>8, BeginningOf, LenProperties DEF Joins
<1>10. Whole(g, sent[2], k)
  BY <1>5, <1>6, FramesAre
<1>11. ~(Len(buf) < Len(g)) /\ Len(g) \in Nat /\ f.end = Len(g)
  BY <1>1, <1>3, <1>7, <1>9, <1>10, WholeRead
<1>12. h = [cmd |-> sent[2].cmd, vals |-> sent[2].vals, ok |-> TRUE]
  <2>1. \/ h = [cmd |-> sent[2].cmd, vals |-> sent[2].vals, ok |-> TRUE]
        \/ k = "cut" /\ (h.ok => TailMissing(sent[2], [cmd |-> h.cmd, vals |-> h.vals]))
    BY <1>1, <1>2, <1>7, <1>9, <1>10, <1>11, WholeRead
  <2>2. k # "cut"
    BY <1>6
  <2> QED BY <2>1, <2>2
<1>13. buf' \in Seq(Nat) /\ buf' \o line = << >>
  <2>1. Len(g) <= Len(buf)
    BY <1>9, <1>11
  <2>2. SubSeq(buf, Len(g) + 1, Len(buf)) \in Seq(Nat)
        /\ SubSeq(buf, Len(g) + 1, Len(buf)) \o line = << >>
    BY <1>8, <2>1, RemainderOf
  <2> QED BY <1>3, <1>11, <2>2
<1>14. buf' = << >> /\ line' = << >>
  <2>1. PICK b : b = buf'
    OBVIOUS
  <2>2. Len(b \o line) = Len(b) + Len(line) /\ Len(b) \in Nat /\ Len(line) \in Nat
    BY <1>9, <1>13, <2>1, ConcatProperties, LenProperties
  <2>3. Len(b \o line) = 0
    BY <1>13, <2>1
  <2>4. Len(b) = 0 /\ Len(line) = 0
    BY <2>2, <2>3
  <2>5. b = << >> /\ line = << >>
    BY <1>9, <1>13, <2>1, <2>4, EmptySeq
  <2> QED BY <1>3, <2>1, <2>5
<1>15. PICK y : y = [cmd |-> h.cmd, vals |-> h.vals]
  OBVIOUS
<1>16. h.ok /\ y = sent[2]
  <2>1. h.ok /\ h.cmd = sent[2].cmd /\ h.vals = sent[2].vals
    BY <1>12
  <2> QED BY <1>5, <1>15, <2>1, SentAre
<1>17. got' = <<x, sent[2]>> /\ ~closed'
  BY <1>3, <1>4, <1>15, <1>16
<1>18. Received(x)' /\ sent[2]' = sent[2]
  BY <1>3, <1>4 DEF Received
<1>19. BothRead'
  BY <1>3, <1>14, <1>17, <1>18 DEF BothRead
<1> QED BY <1>19 DEF Stage

\* The reader gives up: only on a first frame that is broken.
LEMMA GiveUpStage ==
  ASSUME WireInv, Covered, Stage, GiveUp
  PROVE  Stage'
<1>1. /\ ~closed /\ ParseFrame(buf).tag = "error" /\ closed' = TRUE
      /\ sent' = sent /\ fault' = fault /\ got' = got
  BY DEF GiveUp
<1>2. sent \in Streams /\ fault \in Faults(sent[1])
  BY DEF WireInv
<1>3. Message(sent[1]) /\ Message(sent[2])
  BY <1>2, SentAre
<1>4. ASSUME NEW m, Message(m), NEW g, NEW k, Whole(g, m, k), NEW r, Joins(buf, line, g, r)
      PROVE  FALSE
  <2>1. buf \in Seq(Nat) /\ Holds(buf, 0, g)
    BY <1>4, BeginningOf DEF Joins
  <2>2. ParseFrame(buf).tag \in {"incomplete", "frame"}
    BY <1>4, <2>1, WholeRead
  <2> QED BY <1>1, <2>2
<1>5. CASE NoneRead
  <2>1. ~Whole(FirstFrame, sent[1], fault.kind)
    BY <1>3, <1>4, <1>5 DEF NoneRead
  <2>2. fault.kind = "noise"
    BY <1>2, <2>1, FramesAre
  <2>3. GivenUp'
    BY <1>1, <1>5, <2>2 DEF GivenUp, NoneRead
  <2> QED BY <2>3 DEF Stage
<1>6. CASE OneRead
  <2>1. Whole(SecondFrame, sent[2], "none")
    BY <1>2, FramesAre
  <2> QED BY <1>3, <1>4, <1>6, <2>1 DEF OneRead
<1>7. CASE BothRead
  <2>1. ParseFrame(buf).tag = "incomplete"
    BY <1>7, EmptyIsIncomplete DEF BothRead
  <2> QED BY <1>1, <2>1
<1>8. CASE GivenUp
  BY <1>1, <1>8 DEF GivenUp
<1> QED BY <1>5, <1>6, <1>7, <1>8 DEF Stage

\* Every step of the reader and the line keeps the invariant.
LEMMA WireInvStep == WireInv /\ WireNext => WireInv'
<1> SUFFICES ASSUME WireInv, WireNext PROVE WireInv'
  OBVIOUS
<1>1. sent' = sent /\ fault' = fault
  BY DEF WireNext, Arrive, ReadFrame, GiveUp
<1>2. sent' \in Streams /\ fault' \in Faults(sent[1])' /\ (Covered' <=> Covered)
  BY <1>1 DEF WireInv, Covered
<1>3. ASSUME Covered PROVE Stage'
  <2>1. Stage
    BY <1>3 DEF WireInv
  <2>2. CASE Arrive
    BY <1>3, <2>1, <2>2, ArriveStage
  <2>3. CASE ReadFrame
    <3>1. CASE NoneRead
      BY <1>3, <2>3, <3>1, ReadFirst
    <3>2. CASE OneRead
      BY <1>3, <2>3, <3>2, ReadSecond
    <3>3. CASE BothRead
      <4>1. ParseFrame(buf).tag = "incomplete"
        BY <3>3, EmptyIsIncomplete DEF BothRead
      <4>2. ParseFrame(buf).tag = "frame"
        BY <2>3 DEF ReadFrame
      <4> QED BY <4>1, <4>2
    <3>4. CASE GivenUp
      <4>1. ~closed
        BY <2>3 DEF ReadFrame
      <4> QED BY <3>4, <4>1 DEF GivenUp
    <3> QED BY <2>1, <3>1, <3>2, <3>3, <3>4 DEF Stage
  <2>4. CASE GiveUp
    BY <1>3, <2>1, <2>4, GiveUpStage
  <2> QED BY <2>2, <2>3, <2>4 DEF WireNext
<1> QED BY <1>2, <1>3 DEF WireInv

\* A stuttering step changes nothing.
LEMMA WireInvKept == WireInv /\ UNCHANGED wireVars => WireInv'
BY DEF WireInv, Covered, Stage, NoneRead, OneRead, BothRead, GivenUp, Received,
       FirstFrame, SecondFrame, wireVars

-----------------------------------------------------------------------------

\* What was handed over, by the stage reached.
LEMMA StageIntact == WireInv => MessagesIntact
<1> SUFFICES ASSUME WireInv, Covered, NEW i \in DOMAIN got
             PROVE  \/ i <= Len(sent) /\ got[i] = sent[i]
                    \/ i = 1 /\ fault.kind = "cut" /\ TailMissing(sent[1], got[1])
  BY DEF MessagesIntact, Covered
<1>1. sent \in Streams /\ Stage
  BY DEF WireInv
<1>2. PICK m1, m2 : m1 = sent[1] /\ m2 = sent[2] /\ sent = <<m1, m2>>
  BY <1>1, SentAre
<1>3. Len(sent) = 2
  BY <1>2
<1>4. CASE got = << >>
  BY <1>4
<1>5. CASE OneRead
  <2>1. PICK x : Received(x) /\ got = <<x>>
    BY <1>5 DEF OneRead
  <2>2. i = 1 /\ got[1] = x
    BY <2>1
  <2> QED BY <1>3, <2>1, <2>2 DEF Received
<1>6. CASE BothRead
  <2>1. PICK x : Received(x) /\ got = <<x, sent[2]>>
    BY <1>6 DEF BothRead
  <2>2. got[1] = x /\ got[2] = sent[2] /\ (i = 1 \/ i = 2)
    BY <2>1
  <2> QED BY <1>3, <2>1, <2>2 DEF Received
<1>7. got = << >> \/ OneRead \/ BothRead
  BY <1>1 DEF Stage, NoneRead, GivenUp
<1> QED BY <1>4, <1>5, <1>6, <1>7

\* Without a fault only the last stage has nothing more to read.
LEMMA StageDelivered == WireInv => CleanStreamDelivered
<1> SUFFICES ASSUME WireInv, fault.kind = "none"
             PROVE  /\ ~closed
                    /\ (line = << >> /\ ParseFrame(buf).tag # "frame") =>
                         (got = sent /\ buf = << >>)
  BY DEF CleanStreamDelivered
<1>1. sent \in Streams /\ fault \in Faults(sent[1]) /\ Covered /\ Stage
  BY DEF WireInv, Covered
<1>2. Message(sent[1]) /\ Message(sent[2]) /\ sent = <<sent[1], sent[2]>>
  BY <1>1, SentAre
<1>3. ASSUME NEW m, Message(m), NEW g, NEW k, Whole(g, m, k), NEW r, Joins(buf, line, g, r),
             line = << >>
      PROVE  ParseFrame(buf).tag = "frame"
  <2>1. buf \in Seq(Nat) /\ Holds(buf, 0, g) /\ g \in Seq(Nat) /\ r \in Seq(Nat)
        /\ buf \o line = g \o r
    BY <1>3, BeginningOf DEF Joins
  <2>2. buf \o line = buf
    BY <1>3, <2>1, ConcatProperties
  <2>3. Len(buf) \in Nat /\ Len(g) \in Nat /\ Len(r) \in Nat /\ Len(g \o r) = Len(g) + Len(r)
    BY <2>1, ConcatProperties, LenProperties
  <2>4. ~(Len(buf) < Len(g))
    BY <2>1, <2>2, <2>3
  <2> QED BY <1>3, <2>1, <2>4, WholeRead
<1>4. CASE NoneRead
  <2>1. Whole(FirstFrame, sent[1], fault.kind)
    BY <1>1, FramesAre
  <2>2. line = << >> => ParseFrame(buf).tag = "frame"
    BY <1>2, <1>3, <1>4, <2>1 DEF NoneRead
  <2> QED BY <1>4, <2>2 DEF NoneRead
<1>5. CASE OneRead
  <2>1. Whole(SecondFrame, sent[2], "none")
    BY <1>1, FramesAre
  <2>2. line = << >> => ParseFrame(buf).tag = "frame"
    BY <1>2, <1>3, <1>5, <2>1 DEF OneRead
  <2> QED BY <1>5, <2>2 DEF OneRead
<1>6. CASE BothRead
  <2>1. PICK x : Received(x) /\ got = <<x, sent[2]>>
    BY <1>6 DEF BothRead
  <2>2. x = sent[1]
    BY <2>1 DEF Received
  <2>3. got = sent
    BY <1>2, <2>1, <2>2
  <2> QED BY <1>6, <2>3 DEF BothRead
<1>7. ~GivenUp
  BY DEF GivenUp
<1> QED BY <1>1, <1>4, <1>5, <1>6, <1>7 DEF Stage

\* The inductive invariant.
LEMMA WireInvariant == WireSpec => []WireInv
<1>1. WireInv /\ [WireNext]_wireVars => WireInv'
  BY WireInvStep, WireInvKept
<1> QED BY <1>1, WireInvInit, PTL DEF WireSpec

\* p2p.py, parse_frame and the parse() of every message: however the bytes arrive, what
\* is handed over is what was sent, in order, whatever single byte outside the command
\* is altered and wherever the payload was cut, but for a version message cut behind its
\* user agent.
THEOREM MessagesStayIntact == WireSpec => []MessagesIntact
BY WireInvariant, StageIntact, PTL

\* p2p.py: every message that can be sent is read back as it was, and the bytes of its
\* frame are used up, however they arrive.
THEOREM CleanStreamArrives == WireSpec => []CleanStreamDelivered
BY WireInvariant, StageDelivered, PTL
=============================================================================
