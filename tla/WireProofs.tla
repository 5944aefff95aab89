----------------------------- MODULE WireProofs -----------------------------
(***************************************************************************)
(* The send loops and the framing of messages, for messages of every       *)
(* length, buffers of every size, whatever parts of a message send()       *)
(* accepts and however recv() cuts the stream up.                          *)
(***************************************************************************)
EXTENDS Wire, SequenceTheorems, FiniteSetTheorems, WellFoundedInduction, TLAPS

-----------------------------------------------------------------------------
(* The send loops. *)

\* The arithmetic of the loop's counters.
LoopInv ==
    /\ len \in Nat /\ sent \in Nat /\ left \in Nat
    /\ WithinMessage

\* One round of the loop keeps its arithmetic.
LEMMA LoopStep == LoopInv /\ [Next]_vars => LoopInv'
<1> SUFFICES ASSUME LoopInv, [Next]_vars PROVE LoopInv'
  OBVIOUS
<1> USE DEF LoopInv, WithinMessage
<1>1. CASE Send
  <2>1. PICK n \in 1 .. left : sent' = sent + n /\ left' = left - n
    BY <1>1 DEF Send
  <2> QED BY <1>1, <2>1 DEF Send
<1>2. CASE SendFails
  BY <1>2 DEF SendFails
<1>3. CASE Return
  BY <1>3 DEF Return
<1>4. CASE UNCHANGED vars
  BY <1>4 DEF vars
<1> QED BY <1>1, <1>2, <1>3, <1>4 DEF Next

\* The arithmetic of the loop is an invariant of one call and of calls in a
\* row, for messages of every length and whatever part of them send() accepts.
LEMMA LoopSafety == (Spec => []LoopInv) /\ (SpecWire => []LoopInv)
<1>1. Init => LoopInv
  BY LengthAssumption DEF Init, LoopInv, WithinMessage
<1>2. InitWire => LoopInv
  BY LengthAssumption, WireAssumption DEF InitWire, LoopInv, WithinMessage
<1>3. LoopInv /\ [NextWire]_wireVars => LoopInv'
  <2> SUFFICES ASSUME LoopInv, [NextWire]_wireVars PROVE LoopInv'
    OBVIOUS
  <2>1. CASE SendStep
    BY <2>1, LoopStep DEF SendStep, Next
  <2>2. CASE NextMessage
    <3>1. len' \in Nat /\ sent' = 0 /\ left' = len' /\ status' = "sending"
      BY <2>2, LengthAssumption, WireAssumption DEF NextMessage
    <3>2. WithinMessage'
      <4>0. \A n \in Nat : 0 + n = n
        OBVIOUS
      <4>1. sent' + left' = len'
        BY <3>1, <4>0
      <4>2. sent' \in 0 .. len' /\ left' \in 0 .. len'
        BY <3>1
      <4> QED BY <4>1, <4>2 DEF WithinMessage
    <3> QED BY <3>1, <3>2 DEF LoopInv
  <2>3. CASE Recv \/ ReceiverStep \/ UNCHANGED wireVars
    <3>1. UNCHANGED vars
      BY <2>3 DEF Recv, ReceiverStep, Handle, Unfinished, Shorten, Drop, wireVars
    <3>2. [Next]_vars
      BY <3>1
    <3> QED BY <3>2, LoopStep
  <2> QED BY <2>1, <2>2, <2>3 DEF NextWire
<1> QED BY <1>1, <1>2, <1>3, LoopStep, PTL DEF Spec, SpecWire

\* Neither send_data ever reads beyond the end of its message.
THEOREM StaysWithin == (Spec => []WithinMessage) /\ (SpecWire => []WithinMessage)
<1>1. LoopInv => WithinMessage
  BY DEF LoopInv
<1> QED BY LoopSafety, <1>1, PTL

-----------------------------------------------------------------------------
(* The bytes on their way. *)

Bytes == [msg : Nat, pos : Nat, last : BOOLEAN]

\* Byte b was sent before byte c: the last byte of a message is followed by
\* bytes of later messages only.
Before(b, c) == b.msg <= c.msg /\ (b.last => b.msg < c.msg)

Ordered(s) == \A i, j \in DOMAIN s : i < j => Before(s[i], s[j])

\* The sender is not behind byte b: it has not begun the message anew, and if
\* it is still at it then that byte was not the last or all of it is sent.
WasSent(b) == b.msg <= count /\ (b.msg = count /\ b.last => sent = len)

\* Bytes travel in the order they were sent.
ByteInv ==
    /\ stream \in Seq(Bytes) /\ buffer \in Seq(Bytes) /\ count \in Nat
    /\ Ordered(stream) /\ Ordered(buffer)
    /\ \A i \in DOMAIN buffer, j \in DOMAIN stream : Before(buffer[i], stream[j])
    /\ \A i \in DOMAIN buffer : WasSent(buffer[i])
    /\ \A i \in DOMAIN stream : WasSent(stream[i])

\* The offsets of the loop.  (expected may be anything up to the end: the
\* client's branch for glued messages stores an offset in the text there.)
OffsetInv ==
    /\ start_pos \in Nat /\ expected \in Int /\ begun \in Int
    /\ parsing => /\ start_pos < Len(buffer) /\ expected <= Len(buffer)
                  /\ begun \in -1 .. start_pos

\* Where the object begins that the tokener is in, or that comes next.
Base == IF begun = -1 THEN start_pos ELSE begun

\* Handled messages come before every byte that is still to be looked at.
HandledInv ==
    /\ handled \in Seq(Nat) /\ InOrderOnce
    /\ \A h \in DOMAIN handled :
          /\ handled[h] <= count /\ (handled[h] = count => sent = len)
          /\ \A j \in DOMAIN stream : handled[h] < stream[j].msg
          /\ parsing => \A i \in DOMAIN buffer : i > Base => handled[h] < buffer[i].msg

\* The inductive invariant of InOrderOnce.
OrderInv == LoopInv /\ ByteInv /\ OffsetInv /\ HandledInv

-----------------------------------------------------------------------------
(* What the tokener returns. *)

\* A set of naturals that is not empty has a least element.
LEMMA LeastNumber ==
    ASSUME NEW S \in SUBSET Nat, S # {}
    PROVE  \E n \in S : \A m \in S : n <= m
<1> DEFINE Less == { q \in Nat \X Nat : q[1] < q[2] }
<1>1. IsWellFoundedOn(Less, Nat)
  BY NatLessThanWellFounded, Zenon DEF OpToRel
<1>2. PICK n \in S : \A m \in S : << m, n >> \notin Less
  BY <1>1, WFMin, Zenon
<1>3. ASSUME NEW m \in S PROVE n <= m
  <2>1. m \in Nat /\ n \in Nat
    OBVIOUS
  <2>2. m < n => << m, n >> \in Less
    BY <2>1
  <2> QED BY <1>2, <2>1, <2>2
<1> QED BY <1>3

\* The bytes of a message that follow one of its bytes end somewhere.
LEMMA RunEnds ==
    ASSUME NEW base \in Nat, NEW to \in Nat, base < to
    PROVE  LET stop == EndOfRun(base, to)
           IN  /\ stop \in base + 1 .. to
               /\ \A j \in base .. stop - 1 : buffer[j + 1].msg = buffer[base + 1].msg
               /\ stop = to \/ buffer[stop + 1].msg # buffer[base + 1].msg
<1> DEFINE m == buffer[base + 1].msg
           S == { i \in base + 1 .. to : i = to \/ buffer[i + 1].msg # m }
<1>1. S \in SUBSET Nat /\ to \in S
  OBVIOUS
<1>2. PICK i \in S : \A j \in S : i <= j
  BY <1>1, LeastNumber
<1>3. ASSUME NEW j \in base .. i - 1 PROVE buffer[j + 1].msg = m
  <2>1. CASE j = base
    BY <2>1
  <2>2. CASE j # base
    <3>1. j \in base + 1 .. to /\ j \notin S
      BY <1>2, <2>2
    <3> QED BY <3>1
  <2> QED BY <2>1, <2>2
<1> QED BY <1>2, <1>3 DEF EndOfRun

\* The object that the tokener finds is the message that begins at its base,
\* up to its last byte; without an object the text is used within the buffer.
LEMMA ParseFacts ==
    ASSUME ByteInv, OffsetInv, parsing, NEW result \in Parse
    PROVE  /\ result.end \in Int
           /\ result.kind = "object" =>
                /\ start_pos + result.end \in Base + 1 .. Len(buffer)
                /\ result.msg = buffer[start_pos + result.end].msg
                /\ result.msg = buffer[Base + 1].msg
                /\ buffer[start_pos + result.end].last
           /\ result.kind = "continue" =>
                start_pos + result.end \in start_pos .. Len(buffer)
           /\ result.kind = "unexpected" => result.end <= Len(buffer)
<1>1. /\ Len(buffer) \in Nat /\ DOMAIN buffer = 1 .. Len(buffer)
      /\ start_pos \in Nat /\ expected \in Int
      /\ start_pos < Len(buffer) /\ expected <= Len(buffer)
      /\ Base \in 0 .. start_pos
  BY DEF ByteInv, OffsetInv, Base
<1>2. ASSUME NEW to \in start_pos + 1 .. Len(buffer),
             result \in ParseText(Base, start_pos, to)
      PROVE  /\ result.end \in Int
             /\ result.kind = "object" =>
                  /\ start_pos + result.end \in Base + 1 .. Len(buffer)
                  /\ result.msg = buffer[start_pos + result.end].msg
                  /\ result.msg = buffer[Base + 1].msg
                  /\ buffer[start_pos + result.end].last
             /\ result.kind = "continue" =>
                  start_pos + result.end \in start_pos .. Len(buffer)
             /\ result.kind = "unexpected" => result.end <= Len(buffer)
  <2> DEFINE b == Base
             stop == EndOfRun(b, to)
             m == buffer[b + 1].msg
  <2>1. /\ stop \in b + 1 .. to
        /\ buffer[stop].msg = m
    <3>1. b \in Nat /\ to \in Nat /\ b < to
      BY <1>1
    <3> HIDE DEF b
    <3>2. /\ stop \in b + 1 .. to
          /\ \A j \in b .. stop - 1 : buffer[j + 1].msg = m
      BY <3>1, RunEnds
    <3> HIDE DEF stop, m
    <3>3. stop - 1 \in b .. stop - 1 /\ (stop - 1) + 1 = stop
      BY <3>1, <3>2
    <3> QED BY <3>2, <3>3
  <2>2. \/ result = OtherError
        \/ result = Continue(to - start_pos)
        \/ result = Object(m, stop - start_pos) /\ buffer[stop].last
        \/ result = Unexpected(stop - start_pos)
        \/ \E i \in start_pos .. to - 1 : result = Unexpected(i - start_pos)
    BY <1>2 DEF ParseText
  <2> HIDE DEF b, stop, m
  <2>3. CASE result = OtherError
    BY <2>3 DEF OtherError
  <2>4. CASE result = Continue(to - start_pos)
    BY <1>1, <2>4 DEF Continue
  <2>5. CASE result = Object(m, stop - start_pos) /\ buffer[stop].last
    <3>1. result.kind = "object" /\ result.msg = m /\ result.end = stop - start_pos
      BY <2>5 DEF Object
    <3>2. start_pos + result.end = stop
      BY <1>1, <2>1, <3>1 DEF b
    <3>3. start_pos + result.end \in b + 1 .. Len(buffer)
      BY <1>1, <2>1, <3>2 DEF b
    <3>4. result.end \in Int
      BY <1>1, <2>1, <3>1 DEF b
    <3>5. result.msg = buffer[start_pos + result.end].msg /\ buffer[start_pos + result.end].last
      BY <2>1, <2>5, <3>1, <3>2
    <3> QED BY <3>1, <3>3, <3>4, <3>5 DEF b, m
  <2>6. CASE result = Unexpected(stop - start_pos)
    BY <1>1, <2>1, <2>6 DEF Unexpected, b
  <2>7. CASE \E i \in start_pos .. to - 1 : result = Unexpected(i - start_pos)
    BY <1>1, <2>7 DEF Unexpected
  <2> QED BY <2>2, <2>3, <2>4, <2>5, <2>6, <2>7
<1>3. CASE expected = start_pos
  <2>1. result = Continue(0)
    BY <1>1, <1>3 DEF Parse
  <2> QED BY <1>1, <2>1 DEF Continue
<1>4. CASE expected > start_pos
  <2>1. result \in ParseText(Base, start_pos, expected)
    BY <1>1, <1>4 DEF Parse, Base
  <2> QED BY <1>1, <1>2, <1>4, <2>1
<1>5. CASE expected < start_pos
  <2>1. result = OtherError \/ result \in ParseText(Base, start_pos, Len(buffer))
    BY <1>1, <1>5 DEF Parse, Base
  <2>2. CASE result = OtherError
    BY <2>2 DEF OtherError
  <2>3. Len(buffer) \in start_pos + 1 .. Len(buffer)
    BY <1>1
  <2> QED BY <1>2, <2>1, <2>2, <2>3
<1> QED BY <1>1, <1>3, <1>4, <1>5

-----------------------------------------------------------------------------
(* Messages are handled in order and once. *)

\* What a step of the send loop appends to the stream: the next n bytes of its
\* message.
LEMMA SendAppends ==
    ASSUME LoopInv, ByteInv, SendStep
    PROVE  \E n \in Nat :
             /\ sent' = sent + n /\ len' = len /\ sent + n <= len
             /\ n > 0 => sent < len
             /\ stream' \in Seq(Bytes) /\ Len(stream) \in Nat
             /\ DOMAIN stream = 1 .. Len(stream)
             /\ DOMAIN stream' = 1 .. (Len(stream) + n)
             /\ \A i \in 1 .. Len(stream) : stream'[i] = stream[i]
             /\ \A i \in Len(stream) + 1 .. Len(stream) + n :
                   /\ i - Len(stream) \in 1 .. n
                   /\ stream'[i].msg = count
                   /\ stream'[i].pos = sent + (i - Len(stream))
                   /\ stream'[i].last = (sent + (i - Len(stream)) = len)
<1>0. LoopInv /\ ByteInv /\ count' = count
  BY DEF SendStep
<1>1. PICK n \in Nat : /\ sent' = sent + n /\ len' = len /\ sent + n <= len
                       /\ n > 0 => sent < len
  <2> USE DEF LoopInv, WithinMessage
  <2>1. CASE Send
    <3>1. PICK n \in 1 .. left : sent' = sent + n
      BY <2>1 DEF Send
    <3>2. len' = len /\ sent < left
      BY <2>1 DEF Send
    <3>3. n \in Nat /\ sent < len /\ sent + n <= len
      BY <1>0, <3>1, <3>2
    <3> QED BY <3>1, <3>2, <3>3
  <2>2. CASE SendFails \/ Return
    <3>1. sent' = sent + 0 /\ len' = len /\ sent + 0 <= len
      BY <1>0, <2>2 DEF SendFails, Return
    <3> QED BY <3>1
  <2> QED BY <2>1, <2>2 DEF SendStep
<1> DEFINE new == [i \in 1 .. n |->
                     [msg |-> count, pos |-> sent + i, last |-> sent + i = len]]
<1>2. /\ new \in Seq(Bytes) /\ Len(new) = n
      /\ \A i \in 1 .. n : /\ new[i].msg = count /\ new[i].pos = sent + i
                           /\ new[i].last = (sent + i = len)
  <2>1. sent \in Nat /\ count \in Nat
    BY <1>0 DEF LoopInv, ByteInv
  <2>2. \A i \in 1 .. n :
          [msg |-> count, pos |-> sent + i, last |-> sent + i = len] \in Bytes
    BY <2>1 DEF Bytes
  <2> QED BY <2>2
<1>3. stream' = stream \o new
  <2>1. sent' - sent = n
    BY <1>0, <1>1 DEF LoopInv
  <2> QED BY <2>1 DEF SendStep, NewBytes
<1> HIDE DEF new
<1>4. /\ stream' \in Seq(Bytes) /\ Len(stream) \in Nat
      /\ DOMAIN stream = 1 .. Len(stream)
      /\ DOMAIN stream' = 1 .. (Len(stream) + n)
      /\ \A i \in 1 .. Len(stream) : stream'[i] = stream[i]
      /\ \A i \in Len(stream) + 1 .. Len(stream) + n :
             i - Len(stream) \in 1 .. n /\ stream'[i] = new[i - Len(stream)]
  <2>1. stream \in Seq(Bytes)
    BY <1>0 DEF ByteInv
  <2>2. /\ stream \o new \in Seq(Bytes)
        /\ Len(stream \o new) = Len(stream) + n
        /\ \A i \in 1 .. Len(stream) + n : (stream \o new)[i] =
              IF i <= Len(stream) THEN stream[i] ELSE new[i - Len(stream)]
    BY <1>2, <2>1, ConcatProperties
  <2>3. /\ Len(stream) \in Nat /\ DOMAIN stream = 1 .. Len(stream)
        /\ DOMAIN (stream \o new) = 1 .. (Len(stream) + n)
    BY <2>1, <2>2
  <2> QED BY <1>3, <2>2, <2>3
<1>5. ASSUME NEW i \in Len(stream) + 1 .. Len(stream) + n
      PROVE  /\ i - Len(stream) \in 1 .. n
             /\ stream'[i].msg = count
             /\ stream'[i].pos = sent + (i - Len(stream))
             /\ stream'[i].last = (sent + (i - Len(stream)) = len)
  BY <1>2, <1>4
<1> QED BY <1>1, <1>4, <1>5

\* The sender hands bytes over that come after all the others.
LEMMA SendKeepsOrder == OrderInv /\ SendStep => (ByteInv /\ OffsetInv /\ HandledInv)'
<1> SUFFICES ASSUME OrderInv, SendStep PROVE ByteInv' /\ OffsetInv' /\ HandledInv'
  OBVIOUS
<1>0. /\ LoopInv /\ ByteInv /\ OffsetInv /\ HandledInv
      /\ UNCHANGED << count, buffer, parsing, start_pos, expected, begun, handled >>
  BY DEF OrderInv, SendStep, recvVars
<1>1. PICK n \in Nat :
        /\ sent' = sent + n /\ len' = len /\ sent + n <= len
        /\ n > 0 => sent < len
        /\ stream' \in Seq(Bytes) /\ Len(stream) \in Nat
        /\ DOMAIN stream = 1 .. Len(stream)
        /\ DOMAIN stream' = 1 .. (Len(stream) + n)
        /\ \A i \in 1 .. Len(stream) : stream'[i] = stream[i]
        /\ \A i \in Len(stream) + 1 .. Len(stream) + n :
              /\ i - Len(stream) \in 1 .. n
              /\ stream'[i].msg = count
              /\ stream'[i].pos = sent + (i - Len(stream))
              /\ stream'[i].last = (sent + (i - Len(stream)) = len)
  BY <1>0, SendAppends
<1>4. /\ stream' \in Seq(Bytes) /\ Len(stream) \in Nat
      /\ DOMAIN stream = 1 .. Len(stream)
      /\ DOMAIN stream' = 1 .. (Len(stream) + n)
      /\ \A i \in 1 .. Len(stream) : stream'[i] = stream[i]
  BY <1>1
<1> DEFINE q == stream'
<1>5. ASSUME NEW i \in DOMAIN q
      PROVE  \/ i \in DOMAIN stream /\ q[i] = stream[i]
             \/ /\ i \in Nat /\ i > Len(stream) /\ q[i].msg = count /\ n > 0
                /\ q[i].last => i = Len(stream) + n /\ sent + n = len
  <2>1. CASE i \in 1 .. Len(stream)
    BY <1>4, <2>1
  <2>2. CASE i \in Len(stream) + 1 .. Len(stream) + n
    <3> DEFINE j == i - Len(stream)
    <3>1. j \in 1 .. n
      BY <1>4, <2>2
    <3>2. q[i].msg = count /\ q[i].last = (sent + j = len)
      BY <1>1, <2>2
    <3>3. sent \in Nat /\ len \in Nat
      BY <1>0 DEF LoopInv
    <3>4. sent + j = len => i = Len(stream) + n /\ sent + n = len
      BY <1>1, <1>4, <2>2, <3>1, <3>3
    <3>5. n > 0 /\ i \in Nat /\ i > Len(stream)
      BY <1>4, <2>2
    <3> QED BY <3>2, <3>4, <3>5
  <2> QED BY <1>4, <2>1, <2>2
<1>6. /\ count \in Nat /\ \A i \in DOMAIN stream : stream[i].msg \in Nat
      /\ \A i \in DOMAIN buffer : buffer[i].msg \in Nat
  <2>1. stream \in Seq(Bytes) /\ buffer \in Seq(Bytes) /\ count \in Nat
    BY <1>0 DEF ByteInv
  <2>2. /\ \A i \in DOMAIN stream : stream[i] \in Bytes
        /\ \A i \in DOMAIN buffer : buffer[i] \in Bytes
    BY <2>1
  <2> QED BY <2>1, <2>2 DEF Bytes
<1>7. n > 0 =>
        /\ \A i \in DOMAIN stream : stream[i].last => stream[i].msg < count
        /\ \A i \in DOMAIN buffer : buffer[i].last => buffer[i].msg < count
        /\ \A h \in DOMAIN handled : handled[h] < count
  <2>1. n > 0 => sent # len
    BY <1>0, <1>1 DEF LoopInv
  <2>2. \A h \in DOMAIN handled : handled[h] \in Nat
    BY <1>0 DEF HandledInv
  <2> QED BY <1>0, <1>6, <2>1, <2>2 DEF ByteInv, WasSent, HandledInv
<1>8. /\ \A i \in DOMAIN stream : stream[i].msg <= count
      /\ \A i \in DOMAIN buffer : buffer[i].msg <= count
  BY <1>0 DEF ByteInv, WasSent
<1> HIDE DEF q
<1>9. Ordered(q)
  <2> SUFFICES ASSUME NEW i \in DOMAIN q, NEW j \in DOMAIN q, i < j
               PROVE  Before(q[i], q[j])
    BY DEF Ordered
  <2>1. CASE j \in DOMAIN stream /\ q[j] = stream[j]
    <3>1. i \in DOMAIN stream /\ q[i] = stream[i]
      BY <1>4, <1>5, <2>1
    <3> QED BY <1>0, <2>1, <3>1 DEF ByteInv, Ordered
  <2>2. CASE /\ j > Len(stream) /\ q[j].msg = count /\ n > 0
             /\ q[j].last => j = Len(stream) + n /\ sent + n = len
    <3>1. CASE i \in DOMAIN stream /\ q[i] = stream[i]
      BY <1>7, <1>8, <2>2, <3>1 DEF Before
    <3>2. CASE /\ q[i].msg = count
               /\ q[i].last => i = Len(stream) + n
      <4>1. i # Len(stream) + n
        <5>1. i \in 1 .. (Len(stream) + n) /\ j \in 1 .. (Len(stream) + n)
          BY <1>4 DEF q
        <5> QED BY <1>4, <5>1
      <4> QED BY <1>6, <2>2, <3>2, <4>1 DEF Before
    <3> QED BY <1>5, <3>1, <3>2
  <2> QED BY <1>5, <2>1, <2>2
<1>10. \A i \in DOMAIN buffer, j \in DOMAIN q : Before(buffer[i], q[j])
  <2> TAKE i \in DOMAIN buffer, j \in DOMAIN q
  <2>1. CASE j \in DOMAIN stream /\ q[j] = stream[j]
    BY <1>0, <2>1 DEF ByteInv
  <2>2. CASE q[j].msg = count /\ n > 0
    BY <1>7, <1>8, <2>2 DEF Before
  <2> QED BY <1>5, <2>1, <2>2
<1>11. ASSUME NEW b, WasSent(b), b.msg \in Nat PROVE WasSent(b)'
  <2>1. sent = len => sent' = len'
    BY <1>0, <1>1 DEF LoopInv
  <2> QED BY <1>0, <1>11, <2>1 DEF WasSent
<1>12. \A i \in DOMAIN buffer : (buffer[i].msg <= count' /\
         (buffer[i].msg = count' /\ buffer[i].last => sent' = len'))
  BY <1>0, <1>6, <1>11 DEF ByteInv, WasSent
<1>13. \A i \in DOMAIN q : (q[i].msg <= count' /\
         (q[i].msg = count' /\ q[i].last => sent' = len'))
  <2> TAKE i \in DOMAIN q
  <2>1. CASE i \in DOMAIN stream /\ q[i] = stream[i]
    BY <1>0, <1>6, <1>11, <2>1 DEF ByteInv, WasSent
  <2>2. CASE q[i].msg = count /\ (q[i].last => sent + n = len)
    BY <1>0, <1>1, <1>6, <2>2
  <2> QED BY <1>5, <2>1, <2>2
<1>14. ByteInv'
  BY <1>0, <1>4, <1>9, <1>10, <1>12, <1>13 DEF ByteInv, Ordered, WasSent, q
<1>15. OffsetInv'
  BY <1>0 DEF OffsetInv
<1>16. HandledInv'
  <2>1. \A h \in DOMAIN handled, j \in DOMAIN q : handled[h] < q[j].msg
    BY <1>0, <1>5, <1>7 DEF HandledInv
  <2>2. \A h \in DOMAIN handled : handled[h] = count => sent' = len'
    <3>1. n = 0 => sent' = sent
      BY <1>0, <1>1 DEF LoopInv
    <3>2. \A h \in DOMAIN handled : handled[h] \in Nat
      BY <1>0 DEF HandledInv
    <3>3. \A h \in DOMAIN handled : n > 0 => handled[h] # count
      BY <1>6, <1>7, <3>2
    <3> QED BY <1>0, <1>1, <3>1, <3>3 DEF HandledInv
  <2> QED BY <1>0, <2>1, <2>2 DEF HandledInv, InOrderOnce, Base, q
<1> QED BY <1>14, <1>15, <1>16

\* The types of the bytes' numbers.
LEMMA ByteTypes ==
    ASSUME ByteInv
    PROVE  /\ Len(stream) \in Nat /\ DOMAIN stream = 1 .. Len(stream)
           /\ Len(buffer) \in Nat /\ DOMAIN buffer = 1 .. Len(buffer)
           /\ \A i \in DOMAIN stream : stream[i] \in Bytes /\ stream[i].msg \in Nat
           /\ \A i \in DOMAIN buffer : buffer[i] \in Bytes /\ buffer[i].msg \in Nat
<1>1. stream \in Seq(Bytes) /\ buffer \in Seq(Bytes)
  BY DEF ByteInv
<1>2. /\ \A i \in DOMAIN stream : stream[i] \in Bytes
      /\ \A i \in DOMAIN buffer : buffer[i] \in Bytes
  BY <1>1
<1> QED BY <1>1, <1>2 DEF Bytes

\* recv() moves the first n bytes of the stream into the buffer.
LEMMA RecvSplits ==
    ASSUME ByteInv, Recv
    PROVE  \E n \in Nat :
             /\ 1 <= n /\ n <= Len(stream)
             /\ buffer' \in Seq(Bytes) /\ DOMAIN buffer' = 1 .. n /\ Len(buffer') = n
             /\ \A i \in 1 .. n : i \in DOMAIN stream /\ buffer'[i] = stream[i]
             /\ stream' \in Seq(Bytes) /\ DOMAIN stream' = 1 .. (Len(stream) - n)
             /\ Len(stream') = Len(stream) - n
             /\ \A i \in 1 .. (Len(stream) - n) :
                   n + i \in DOMAIN stream /\ stream'[i] = stream[n + i]
<1>0. ByteInv
  OBVIOUS
<1>1. PICK n \in 1 .. Len(stream) :
        /\ buffer' = SubSeq(stream, 1, n)
        /\ stream' = SubSeq(stream, n + 1, Len(stream))
  <2>1. Len(stream) \in Nat /\ BufSize \in Nat
    BY <1>0, ByteTypes, WireAssumption
  <2>2. \A i \in 1 .. (IF Len(stream) < BufSize THEN Len(stream) ELSE BufSize) :
           i \in 1 .. Len(stream)
    BY <2>1
  <2> QED BY <2>2 DEF Recv
<1>3. n \in Nat /\ 1 <= n /\ n <= Len(stream) /\ n \in 1 .. Len(stream)
  BY <1>0, ByteTypes
<1> DEFINE L == Len(stream)
           b == buffer'
           q == stream'
<1>4. L \in Nat /\ DOMAIN stream = 1 .. L /\ \A i \in 1 .. L : stream[i] \in Bytes
  BY <1>0, ByteTypes
<1>5. /\ b \in Seq(Bytes) /\ DOMAIN b = 1 .. n /\ Len(b) = n
      /\ \A i \in 1 .. n : i \in DOMAIN stream /\ b[i] = stream[i]
  <2>1. 1 \in Int /\ n \in Int /\ \A i \in 1 .. n : stream[i] \in Bytes
    BY <1>3, <1>4
  <2> DEFINE t == SubSeq(stream, 1, n)
  <2>2. /\ t \in Seq(Bytes) /\ Len(t) = (IF 1 <= n THEN n - 1 + 1 ELSE 0)
        /\ \A i \in 1 .. (n - 1 + 1) : t[i] = stream[1 + i - 1]
    BY <2>1, SubSeqProperties
  <2> HIDE DEF t
  <2>3. Len(t) = n /\ DOMAIN t = 1 .. n
    BY <1>3, <2>2
  <2>4. \A i \in 1 .. n : i \in DOMAIN stream /\ t[i] = stream[i]
    BY <1>3, <1>4, <2>2
  <2> QED BY <1>1, <2>2, <2>3, <2>4 DEF t
<1>6. /\ q \in Seq(Bytes) /\ DOMAIN q = 1 .. (L - n) /\ Len(q) = L - n
      /\ \A i \in 1 .. (L - n) : n + i \in DOMAIN stream /\ q[i] = stream[n + i]
  <2>1. n + 1 \in Int /\ L \in Int /\ \A i \in (n + 1) .. L : stream[i] \in Bytes
    BY <1>3, <1>4
  <2> DEFINE t == SubSeq(stream, n + 1, L)
  <2>2. /\ t \in Seq(Bytes) /\ Len(t) = (IF n + 1 <= L THEN L - (n + 1) + 1 ELSE 0)
        /\ \A i \in 1 .. (L - (n + 1) + 1) : t[i] = stream[(n + 1) + i - 1]
    BY <2>1, SubSeqProperties
  <2> HIDE DEF t
  <2>3. Len(t) = L - n /\ DOMAIN t = 1 .. (L - n)
    <3>1. n \in Nat /\ L \in Nat /\ n <= L
      BY <1>3, <1>4
    <3> HIDE DEF L
    <3>2. Len(t) = L - n
      BY <2>2, <3>1
    <3> QED BY <2>2, <3>2
  <2>4. \A i \in 1 .. (L - n) : n + i \in DOMAIN stream /\ t[i] = stream[n + i]
    <3> TAKE i \in 1 .. (L - n)
    <3>1. i \in 1 .. (L - (n + 1) + 1) /\ (n + 1) + i - 1 = n + i /\ n + i \in 1 .. L
      BY <1>3, <1>4
    <3> QED BY <1>4, <2>2, <3>1
  <2> QED BY <1>1, <2>2, <2>3, <2>4 DEF t
<1> QED BY <1>3, <1>5, <1>6

\* The bytes keep their order when recv() moves some of them.
LEMMA RecvKeepsOrder == OrderInv /\ Recv => (ByteInv /\ OffsetInv /\ HandledInv)'
<1> SUFFICES ASSUME OrderInv, Recv PROVE ByteInv' /\ OffsetInv' /\ HandledInv'
  OBVIOUS
<1>0. LoopInv /\ ByteInv /\ OffsetInv /\ HandledInv
  BY DEF OrderInv
<1>1. PICK n \in Nat :
        /\ 1 <= n /\ n <= Len(stream)
        /\ buffer' \in Seq(Bytes) /\ DOMAIN buffer' = 1 .. n /\ Len(buffer') = n
        /\ \A i \in 1 .. n : i \in DOMAIN stream /\ buffer'[i] = stream[i]
        /\ stream' \in Seq(Bytes) /\ DOMAIN stream' = 1 .. (Len(stream) - n)
        /\ Len(stream') = Len(stream) - n
        /\ \A i \in 1 .. (Len(stream) - n) :
              n + i \in DOMAIN stream /\ stream'[i] = stream[n + i]
  BY <1>0, RecvSplits
<1>2. /\ parsing' = TRUE /\ start_pos' = 0 /\ expected' = Len(buffer') /\ begun' = -1
      /\ UNCHANGED << len, sent, count, handled >>
  BY DEF Recv, vars
<1> DEFINE L == Len(stream)
           b == buffer'
           q == stream'
<1>3. n \in Nat /\ 1 <= n /\ n <= L
  BY <1>1
<1>4. L \in Nat /\ DOMAIN stream = 1 .. L /\ \A i \in 1 .. L : stream[i] \in Bytes
  BY <1>0, ByteTypes
<1>5. /\ b \in Seq(Bytes) /\ DOMAIN b = 1 .. n /\ Len(b) = n
      /\ \A i \in 1 .. n : i \in DOMAIN stream /\ b[i] = stream[i]
  BY <1>1
<1>6. /\ q \in Seq(Bytes) /\ DOMAIN q = 1 .. (L - n)
      /\ \A i \in 1 .. (L - n) : n + i \in DOMAIN stream /\ q[i] = stream[n + i]
  BY <1>1
<1> HIDE DEF b, q, L
<1>7. Ordered(b)
  BY <1>0, <1>5 DEF ByteInv, Ordered
<1>8. Ordered(q)
  <2> SUFFICES ASSUME NEW i \in DOMAIN q, NEW j \in DOMAIN q, i < j
               PROVE  Before(q[i], q[j])
    BY DEF Ordered
  <2>1. /\ n + i \in DOMAIN stream /\ q[i] = stream[n + i]
        /\ n + j \in DOMAIN stream /\ q[j] = stream[n + j]
    BY <1>6
  <2>2. n + i < n + j
    BY <1>3, <1>6, <1>4
  <2> QED BY <1>0, <2>1, <2>2 DEF ByteInv, Ordered
<1>9. ASSUME NEW i \in DOMAIN b, NEW j \in DOMAIN q PROVE Before(b[i], q[j])
  <2>1. /\ i \in DOMAIN stream /\ b[i] = stream[i]
        /\ n + j \in DOMAIN stream /\ q[j] = stream[n + j] /\ i < n + j
    BY <1>3, <1>4, <1>5, <1>6
  <2> QED BY <1>0, <2>1 DEF ByteInv, Ordered
<1>10. /\ \A i \in DOMAIN b : \E j \in DOMAIN stream : b[i] = stream[j]
       /\ \A i \in DOMAIN q : \E j \in DOMAIN stream : q[i] = stream[j]
  BY <1>5, <1>6
<1>11. ByteInv'
  <2>1. /\ \A i \in DOMAIN b : WasSent(b[i])
        /\ \A i \in DOMAIN q : WasSent(q[i])
    BY <1>0, <1>10 DEF ByteInv
  <2>2. b \in Seq(Bytes) /\ q \in Seq(Bytes) /\ count' \in Nat
    BY <1>0, <1>2, <1>5, <1>6 DEF ByteInv
  <2> QED BY <1>2, <1>7, <1>8, <1>9, <2>1, <2>2 DEF ByteInv, Ordered, WasSent, b, q
<1>12. OffsetInv'
  <2>1. Len(b) = n /\ n \in Nat /\ 0 < n
    BY <1>3, <1>4, <1>5
  <2> QED BY <1>2, <2>1 DEF OffsetInv, b
<1>13. HandledInv'
  <2>1. \A h \in DOMAIN handled, j \in DOMAIN stream : handled[h] < stream[j].msg
    BY <1>0 DEF HandledInv
  <2>2. \A h \in DOMAIN handled :
           /\ \A i \in DOMAIN b : handled[h] < b[i].msg
           /\ \A i \in DOMAIN q : handled[h] < q[i].msg
    BY <1>10, <2>1
  <2> QED BY <1>0, <1>2, <2>2 DEF HandledInv, InOrderOnce, b, q
<1> QED BY <1>11, <1>12, <1>13

\* The next message has a number that no byte and no handled message has.
LEMMA NextKeepsOrder == OrderInv /\ NextMessage => (ByteInv /\ OffsetInv /\ HandledInv)'
<1> SUFFICES ASSUME OrderInv, NextMessage PROVE ByteInv' /\ OffsetInv' /\ HandledInv'
  OBVIOUS
<1>0. LoopInv /\ ByteInv /\ OffsetInv /\ HandledInv
  BY DEF OrderInv
<1>1. /\ count' = count + 1 /\ count \in Nat
      /\ UNCHANGED << stream, buffer, parsing, start_pos, expected, begun, handled >>
  BY <1>0 DEF NextMessage, recvVars, ByteInv
<1>2. /\ \A i \in DOMAIN stream : stream[i].msg <= count' /\ stream[i].msg # count'
      /\ \A i \in DOMAIN buffer : buffer[i].msg <= count' /\ buffer[i].msg # count'
      /\ \A h \in DOMAIN handled : handled[h] <= count' /\ handled[h] # count'
  <2>1. \A h \in DOMAIN handled : handled[h] \in Nat /\ handled[h] <= count
    BY <1>0 DEF HandledInv
  <2>2. /\ \A i \in DOMAIN stream : stream[i].msg \in Nat /\ stream[i].msg <= count
        /\ \A i \in DOMAIN buffer : buffer[i].msg \in Nat /\ buffer[i].msg <= count
    BY <1>0, ByteTypes DEF ByteInv, WasSent
  <2> QED BY <1>1, <2>1, <2>2
<1>3. ByteInv'
  BY <1>0, <1>1, <1>2 DEF ByteInv, Ordered, WasSent
<1>4. OffsetInv'
  BY <1>0, <1>1 DEF OffsetInv
<1>5. HandledInv'
  BY <1>0, <1>1, <1>2 DEF HandledInv, InOrderOnce, Base
<1> QED BY <1>3, <1>4, <1>5

\* A step of the callback: a message that is handled has a number above all
\* the ones before it, and below those of the bytes that are left.
LEMMA ReceiverKeepsOrder ==
    OrderInv /\ ReceiverStep => (ByteInv /\ OffsetInv /\ HandledInv)'
<1> SUFFICES ASSUME OrderInv, ReceiverStep PROVE ByteInv' /\ OffsetInv' /\ HandledInv'
  OBVIOUS
<1>0. LoopInv /\ ByteInv /\ OffsetInv /\ HandledInv
  BY DEF OrderInv
<1>1. /\ UNCHANGED << len, sent, count, stream, buffer >> /\ parsing
      /\ Handle \/ handled' = handled
  BY DEF ReceiverStep, Handle, Unfinished, Shorten, Drop, vars
<1>2. ByteInv'
  BY <1>0, <1>1 DEF ByteInv, Ordered, WasSent
<1>3. /\ Len(buffer) \in Nat /\ DOMAIN buffer = 1 .. Len(buffer)
      /\ start_pos \in Nat /\ start_pos < Len(buffer)
      /\ expected \in Int /\ expected <= Len(buffer)
      /\ begun \in -1 .. start_pos /\ Base \in 0 .. start_pos
  BY <1>0, <1>1, ByteTypes DEF OffsetInv, Base
<1>4. /\ handled \in Seq(Nat) /\ Len(handled) \in Nat
      /\ DOMAIN handled = 1 .. Len(handled)
      /\ \A h \in DOMAIN handled : handled[h] \in Nat
  BY <1>0 DEF HandledInv
<1>5. \A h \in DOMAIN handled :
         /\ handled[h] <= count /\ (handled[h] = count => sent = len)
         /\ \A j \in DOMAIN stream : handled[h] < stream[j].msg
         /\ \A i \in DOMAIN buffer : i > Base => handled[h] < buffer[i].msg
  BY <1>0, <1>1 DEF HandledInv
<1>6. ASSUME handled' = handled, OffsetInv', ~parsing' \/ Base' = Base \/ Base' = start_pos
      PROVE  HandledInv'
  <2>1. parsing' => \A h \in DOMAIN handled : \A i \in DOMAIN buffer :
           i > Base' => handled[h] < buffer[i].msg
    BY <1>3, <1>5, <1>6
  <2> QED BY <1>0, <1>1, <1>5, <1>6, <2>1 DEF HandledInv, InOrderOnce
<1>7. ASSUME Returns PROVE OffsetInv' /\ ~parsing'
  BY <1>7 DEF Returns, OffsetInv
<1>8. CASE Drop
  <2>1. Returns /\ handled' = handled
    BY <1>8 DEF Drop
  <2> QED BY <1>2, <1>6, <1>7, <2>1
<1>9. CASE Shorten
  <2>1. PICK result \in Parse : IsGlued(result) /\ expected' = result.end
    BY <1>9 DEF Shorten
  <2>2. /\ begun' = -1 /\ UNCHANGED << parsing, start_pos, handled >>
    BY <1>9 DEF Shorten
  <2>3. result.end \in Int /\ result.end <= Len(buffer)
    BY <1>0, <1>1, <2>1, ParseFacts DEF IsGlued
  <2>4. OffsetInv'
    BY <1>1, <1>3, <2>1, <2>2, <2>3 DEF OffsetInv
  <2>5. Base' = start_pos
    BY <2>2 DEF Base
  <2> QED BY <1>2, <1>6, <2>2, <2>4, <2>5
<1>10. CASE Unfinished
  <2>1. PICK result \in Parse : result.kind = "continue" /\ GoesOn(result)
    BY <1>10 DEF Unfinished
  <2>2. handled' = handled
    BY <1>10 DEF Unfinished
  <2>3. result.end \in Int /\ start_pos + result.end \in start_pos .. Len(buffer)
    BY <1>0, <1>1, <2>1, ParseFacts
  <2>4. CASE start_pos + result.end >= Len(buffer)
    <3>1. Returns
      BY <2>1, <2>4 DEF GoesOn
    <3> QED BY <1>2, <1>6, <1>7, <2>2, <3>1
  <2>5. CASE ~(start_pos + result.end >= Len(buffer))
    <3>1. /\ start_pos' = start_pos + result.end /\ expected' = Len(buffer)
          /\ begun' = (IF result.end > 0 /\ begun = -1 THEN start_pos ELSE begun)
          /\ parsing' = parsing
      BY <2>1, <2>5 DEF GoesOn
    <3>2. OffsetInv'
      BY <1>1, <1>3, <2>3, <2>5, <3>1 DEF OffsetInv
    <3>3. Base' = Base
      BY <1>3, <2>3, <3>1 DEF Base
    <3> QED BY <1>2, <1>6, <2>2, <3>2, <3>3
  <2> QED BY <2>4, <2>5
<1>11. CASE Handle
  <2>1. PICK result \in Parse : /\ result.kind = "object"
                                /\ handled' = Append(handled, result.msg)
                                /\ GoesOn(result)
    BY <1>11 DEF Handle
  <2> DEFINE stop == start_pos + result.end
             m == result.msg
  <2>2. /\ result.end \in Int /\ stop \in Base + 1 .. Len(buffer)
        /\ m = buffer[stop].msg /\ m = buffer[Base + 1].msg /\ buffer[stop].last
    BY <1>0, <1>1, <2>1, ParseFacts
  <2> HIDE DEF stop, m
  <2>3. stop \in DOMAIN buffer /\ Base + 1 \in DOMAIN buffer /\ m \in Nat
    <3>1. stop \in DOMAIN buffer /\ Base + 1 \in DOMAIN buffer
      BY <1>3, <2>2
    <3> QED BY <1>0, <2>2, <3>1, ByteTypes
  <2>4. \A h \in DOMAIN handled : handled[h] < m
    BY <1>3, <1>5, <2>2, <2>3
  <2>5. /\ m <= count /\ (m = count => sent = len)
        /\ \A j \in DOMAIN stream : m < stream[j].msg
        /\ \A i \in DOMAIN buffer : i > stop => m < buffer[i].msg
    <3>1. WasSent(buffer[stop])
      BY <1>0, <2>3 DEF ByteInv
    <3>2. \A j \in DOMAIN stream : Before(buffer[stop], stream[j])
      BY <1>0, <2>3 DEF ByteInv
    <3>3. \A i \in DOMAIN buffer : i > stop => Before(buffer[stop], buffer[i])
      BY <1>0, <1>3, <2>3 DEF ByteInv, Ordered
    <3> QED BY <2>2, <3>1, <3>2, <3>3 DEF WasSent, Before
  <2>6. /\ handled' \in Seq(Nat) /\ DOMAIN handled' = 1 .. (Len(handled) + 1)
        /\ handled'[Len(handled) + 1] = m
        /\ \A h \in 1 .. Len(handled) : handled'[h] = handled[h]
    BY <1>4, <2>1, <2>3 DEF m
  <2>7. ASSUME NEW h \in DOMAIN handled'
        PROVE  handled'[h] = m \/ (h \in DOMAIN handled /\ handled'[h] = handled[h])
    BY <1>4, <2>6
  <2>8. InOrderOnce'
    <3> SUFFICES ASSUME NEW h \in DOMAIN handled', NEW g \in DOMAIN handled', h < g
                 PROVE  handled'[h] < handled'[g]
      BY DEF InOrderOnce
    <3>1. h \in DOMAIN handled /\ handled'[h] = handled[h]
      BY <1>4, <2>6
    <3>2. CASE g = Len(handled) + 1
      BY <2>4, <2>6, <3>1, <3>2
    <3>3. CASE g # Len(handled) + 1
      <4>1. g \in DOMAIN handled /\ handled'[g] = handled[g]
        BY <1>4, <2>6, <3>3
      <4> QED BY <1>0, <3>1, <4>1 DEF HandledInv, InOrderOnce
    <3> QED BY <3>2, <3>3
  <2>9. /\ OffsetInv'
        /\ ~parsing' \/ Base' = stop
    <3>1. CASE stop >= Len(buffer)
      <4>1. Returns
        BY <2>1, <3>1 DEF GoesOn, stop
      <4> QED BY <1>7, <4>1
    <3>2. CASE ~(stop >= Len(buffer))
      <4>1. /\ start_pos' = stop /\ expected' = Len(buffer) /\ begun' = -1
        BY <2>1, <3>2 DEF GoesOn, stop
      <4>2. stop \in Nat /\ stop < Len(buffer)
        BY <1>3, <2>2, <3>2
      <4>3. OffsetInv'
        BY <1>1, <1>3, <4>1, <4>2 DEF OffsetInv
      <4> QED BY <4>1, <4>3 DEF Base
    <3> QED BY <3>1, <3>2
  <2>10. parsing' => \A h \in DOMAIN handled' : \A i \in DOMAIN buffer :
           i > Base' => handled'[h] < buffer[i].msg
    <3> SUFFICES ASSUME parsing', NEW h \in DOMAIN handled', NEW i \in DOMAIN buffer,
                        i > stop
                 PROVE  handled'[h] < buffer[i].msg
      BY <2>9
    <3>1. i > Base
      BY <1>3, <2>2
    <3> QED BY <1>5, <2>5, <2>7, <3>1
  <2>11. \A h \in DOMAIN handled' :
           /\ handled'[h] <= count /\ (handled'[h] = count => sent = len)
           /\ \A j \in DOMAIN stream : handled'[h] < stream[j].msg
    BY <1>5, <2>5, <2>7
  <2>12. HandledInv'
    BY <1>1, <2>6, <2>8, <2>10, <2>11 DEF HandledInv
  <2> QED BY <1>2, <2>9, <2>12
<1> QED BY <1>8, <1>9, <1>10, <1>11 DEF ReceiverStep

\* The order of the bytes and of the handled messages is an invariant.
LEMMA OrderSafety == SpecWire => []OrderInv
<1>1. InitWire => OrderInv
  <2> SUFFICES ASSUME InitWire PROVE OrderInv
    OBVIOUS
  <2>1. LoopInv
    BY LengthAssumption, WireAssumption DEF InitWire, LoopInv, WithinMessage
  <2>2. << >> \in Seq(Bytes) /\ << >> \in Seq(Nat) /\ DOMAIN << >> = {}
    OBVIOUS
  <2>3. ByteInv
    BY <2>2 DEF InitWire, ByteInv, Ordered
  <2>4. OffsetInv
    BY DEF InitWire, OffsetInv
  <2>5. HandledInv
    BY <2>2 DEF InitWire, HandledInv, InOrderOnce
  <2> QED BY <2>1, <2>3, <2>4, <2>5 DEF OrderInv
<1>2. OrderInv /\ LoopInv' /\ [NextWire]_wireVars => OrderInv'
  <2> SUFFICES ASSUME OrderInv, LoopInv', [NextWire]_wireVars
               PROVE  ByteInv' /\ OffsetInv' /\ HandledInv'
    BY DEF OrderInv
  <2>1. CASE UNCHANGED wireVars
    <3>1. LoopInv /\ ByteInv /\ OffsetInv /\ HandledInv
      BY DEF OrderInv
    <3>2. UNCHANGED << len, sent, count, stream, buffer, parsing, start_pos, expected,
                       begun, handled >>
      BY <2>1 DEF wireVars, vars, recvVars
    <3> QED BY <3>1, <3>2 DEF ByteInv, Ordered, WasSent, OffsetInv, HandledInv,
                              InOrderOnce, Base
  <2> QED BY <2>1, SendKeepsOrder, NextKeepsOrder, RecvKeepsOrder, ReceiverKeepsOrder
          DEF NextWire
<1> QED BY <1>1, <1>2, LoopSafety, PTL DEF SpecWire

\* Whatever send() accepts and recv() returns, and whatever offsets the
\* client's branch for glued messages computes, the callbacks handle the
\* messages in the order they were sent and none of them twice.
THEOREM HandledInOrder == SpecWire => []InOrderOnce
<1>1. OrderInv => InOrderOnce
  BY DEF OrderInv, HandledInv
<1> QED BY <1>1, OrderSafety, PTL

-----------------------------------------------------------------------------
(* Whole messages are handled. *)

\* A byte that follows one of another message opens its message.
Adjoining(s) ==
    \A i \in DOMAIN s :
        i + 1 \in DOMAIN s => s[i + 1].msg = s[i].msg \/ s[i + 1].pos = 1

\* Messages adjoin in the stream and in the buffer, and the sender goes on
\* where the stream ends or begins a message.
AdjoinInv ==
    /\ Adjoining(stream) /\ Adjoining(buffer)
    /\ stream # << >> => stream[Len(stream)].msg = count \/ sent = 0

\* The first n bytes of the buffer are one message, and another one follows.
OneMessage(n) ==
    /\ n \in 1 .. Len(buffer) - 1 /\ Opens(n)
    /\ \A j \in 1 .. n : buffer[j].msg = buffer[1].msg

\* How far the callback is with a buffer that it can take apart: at the
\* beginning of a message, with all the messages before it handled.
\* parse_end_expected is the end of the buffer, or that of the first message.
ProgressInv ==
    parsing /\ Whole(buffer) /\ Separable(buffer) =>
        /\ begun = -1 /\ Opens(start_pos)
        /\ \A i \in 1 .. start_pos : \E h \in DOMAIN handled : handled[h] = buffer[i].msg
        /\ expected = Len(buffer) \/ (start_pos = 0 /\ OneMessage(expected))
\* A step of the sender or of recv() keeps messages adjoining.
LEMMA AdjoinSafety == SpecWire => []AdjoinInv
<1>1. InitWire => AdjoinInv
  BY DEF InitWire, AdjoinInv, Adjoining
<1>2. OrderInv /\ AdjoinInv /\ [NextWire]_wireVars => AdjoinInv'
  <2> SUFFICES ASSUME OrderInv, AdjoinInv, [NextWire]_wireVars PROVE AdjoinInv'
    OBVIOUS
  <2>0. LoopInv /\ ByteInv
    BY DEF OrderInv
  <2>1. CASE UNCHANGED wireVars
    BY <2>1 DEF wireVars, vars, recvVars, AdjoinInv, Adjoining
  <2>2. CASE ReceiverStep
    <3>1. UNCHANGED << sent, count, stream, buffer >>
      BY <2>2 DEF ReceiverStep, Handle, Unfinished, Shorten, Drop, vars
    <3> QED BY <3>1 DEF AdjoinInv, Adjoining
  <2>3. CASE NextMessage
    <3>1. sent' = 0 /\ UNCHANGED << stream, buffer >>
      BY <2>3 DEF NextMessage, recvVars
    <3> QED BY <3>1 DEF AdjoinInv, Adjoining
  <2>4. CASE SendStep
    <3>1. PICK n \in Nat :
            /\ sent' = sent + n
            /\ stream' \in Seq(Bytes) /\ Len(stream) \in Nat
            /\ DOMAIN stream = 1 .. Len(stream)
            /\ DOMAIN stream' = 1 .. (Len(stream) + n)
            /\ \A i \in 1 .. Len(stream) : stream'[i] = stream[i]
            /\ \A i \in Len(stream) + 1 .. Len(stream) + n :
                  /\ stream'[i].msg = count
                  /\ stream'[i].pos = sent + (i - Len(stream))
      BY <2>0, <2>4, SendAppends
    <3>2. UNCHANGED << count, buffer >>
      BY <2>4 DEF SendStep, recvVars
    <3> DEFINE L == Len(stream)
               q == stream'
    <3>3. ASSUME NEW i \in DOMAIN q, i + 1 \in DOMAIN q
          PROVE  q[i + 1].msg = q[i].msg \/ q[i + 1].pos = 1
      <4>1. CASE i + 1 <= L
        <5>1. i \in 1 .. L /\ i + 1 \in 1 .. L
          BY <3>1, <3>3, <4>1
        <5>2. q[i] = stream[i] /\ q[i + 1] = stream[i + 1]
          BY <3>1, <5>1
        <5> QED BY <3>1, <5>1, <5>2 DEF AdjoinInv, Adjoining
      <4>2. CASE i = L
        <5>1. L \in 1 .. L /\ L + 1 \in L + 1 .. L + n
          BY <3>1, <3>3, <4>2
        <5>2. q[i] = stream[L] /\ q[i + 1].msg = count /\ q[i + 1].pos = sent + (L + 1 - L)
          BY <3>1, <4>2, <5>1
        <5>3. stream # << >>
          BY <3>1, <5>1
        <5>4. sent \in Nat /\ L + 1 - L = 1
          BY <2>0, <3>1 DEF LoopInv
        <5> QED BY <5>2, <5>3, <5>4 DEF AdjoinInv
      <4>3. CASE i > L
        <5>1. i \in L + 1 .. L + n /\ i + 1 \in L + 1 .. L + n
          BY <3>1, <3>3, <4>3
        <5> QED BY <3>1, <5>1
      <4> QED BY <3>1, <4>1, <4>2, <4>3
    <3>4. q # << >> => q[Len(q)].msg = count \/ sent' = 0
      <4>1. Len(q) = L + n
        BY <3>1
      <4>2. CASE n = 0
        <5>1. sent' = sent
          BY <2>0, <3>1, <4>2 DEF LoopInv
        <5>2. q # << >> => L \in 1 .. L /\ stream # << >>
          BY <3>1, <4>1, <4>2
        <5>3. Len(q) = L
          BY <3>1, <4>1, <4>2
        <5> QED BY <3>1, <5>1, <5>2, <5>3 DEF AdjoinInv
      <4>3. CASE n > 0
        <5>1. L + n \in L + 1 .. L + n
          BY <3>1, <4>3
        <5> QED BY <3>1, <4>1, <5>1
      <4> QED BY <4>2, <4>3
    <3> QED BY <3>2, <3>3, <3>4 DEF AdjoinInv, Adjoining
  <2>5. CASE Recv
    <3>1. PICK n \in Nat :
            /\ 1 <= n /\ n <= Len(stream)
            /\ DOMAIN buffer' = 1 .. n
            /\ \A i \in 1 .. n : i \in DOMAIN stream /\ buffer'[i] = stream[i]
            /\ stream' \in Seq(Bytes) /\ DOMAIN stream' = 1 .. (Len(stream) - n)
            /\ Len(stream') = Len(stream) - n
            /\ \A i \in 1 .. (Len(stream) - n) :
                  n + i \in DOMAIN stream /\ stream'[i] = stream[n + i]
      BY <2>0, <2>5, RecvSplits
    <3>2. UNCHANGED << sent, count >> /\ Len(stream) \in Nat
      BY <2>0, <2>5, ByteTypes DEF Recv, vars
    <3>3. Adjoining(buffer)'
      BY <3>1, <3>2 DEF AdjoinInv, Adjoining
    <3>4. ASSUME NEW i \in DOMAIN stream', i + 1 \in DOMAIN stream'
          PROVE  stream'[i + 1].msg = stream'[i].msg \/ stream'[i + 1].pos = 1
      <4>1. /\ n + i \in DOMAIN stream /\ stream'[i] = stream[n + i]
            /\ n + (i + 1) \in DOMAIN stream /\ stream'[i + 1] = stream[n + (i + 1)]
        BY <3>1, <3>4
      <4>2. n + (i + 1) = (n + i) + 1
        BY <3>1, <3>2
      <4> QED BY <4>1, <4>2 DEF AdjoinInv, Adjoining
    <3>5. stream' # << >> => stream'[Len(stream')].msg = count \/ sent = 0
      <4> SUFFICES ASSUME stream' # << >> PROVE stream'[Len(stream')].msg = count \/ sent = 0
        OBVIOUS
      <4>1. Len(stream) - n \in 1 .. Len(stream) - n
        BY <3>1, <3>2
      <4>2. n + (Len(stream) - n) = Len(stream)
        BY <3>1, <3>2
      <4>3. stream'[Len(stream')] = stream[Len(stream)] /\ Len(stream) \in DOMAIN stream
        BY <3>1, <4>1, <4>2
      <4>4. stream # << >>
        BY <4>3
      <4> QED BY <4>3, <4>4 DEF AdjoinInv
    <3> QED BY <3>2, <3>3, <3>4, <3>5 DEF AdjoinInv, Adjoining
  <2> QED BY <2>1, <2>2, <2>3, <2>4, <2>5 DEF NextWire
<1> QED BY <1>1, <1>2, OrderSafety, PTL DEF SpecWire
\* What json_tokener_parse_ex returns while the callback takes a buffer of
\* whole messages apart: the next message, or, to a client with a strict
\* tokener, the place where the second of two messages begins.
LEMMA WholeParse ==
    ASSUME ByteInv, OffsetInv, HandledInv, AdjoinInv, ProgressInv,
           parsing, Whole(buffer), Separable(buffer), NEW result \in Parse
    PROVE  \/ LET stop == start_pos + result.end
              IN  /\ result.kind = "object"
                  /\ stop \in start_pos + 1 .. Len(buffer)
                  /\ \A j \in start_pos + 1 .. stop : buffer[j].msg = result.msg
                  /\ stop = Len(buffer) \/ Opens(stop)
           \/ /\ result.kind = "unexpected" /\ IsGlued(result)
              /\ start_pos = 0 /\ OneMessage(result.end)
<1>0. /\ begun = -1 /\ Opens(start_pos)
      /\ \A i \in 1 .. start_pos : \E h \in DOMAIN handled : handled[h] = buffer[i].msg
      /\ expected = Len(buffer) \/ (start_pos = 0 /\ OneMessage(expected))
  BY DEF ProgressInv
<1>1. /\ Len(buffer) \in Nat /\ DOMAIN buffer = 1 .. Len(buffer)
      /\ start_pos \in Nat /\ start_pos < Len(buffer)
      /\ expected \in Int /\ expected <= Len(buffer)
  BY ByteTypes DEF OffsetInv
<1>2. expected > start_pos /\ Base = start_pos
  <2>1. start_pos = 0 /\ OneMessage(expected) => expected > start_pos
    BY <1>1 DEF OneMessage
  <2> QED BY <1>0, <1>1, <2>1 DEF Base
<1>3. result \in ParseText(start_pos, start_pos, expected)
  BY <1>0, <1>1, <1>2 DEF Parse
<1> DEFINE m == buffer[start_pos + 1].msg
           stop == EndOfRun(start_pos, expected)
<1>4. /\ stop \in start_pos + 1 .. expected
      /\ \A j \in start_pos .. stop - 1 : buffer[j + 1].msg = m
      /\ stop = expected \/ buffer[stop + 1].msg # m
  <2>1. expected \in Nat
    BY <1>1, <1>2
  <2> QED BY <1>1, <1>2, <2>1, RunEnds
<1> HIDE DEF stop
<1>5. \A j \in start_pos + 1 .. stop : buffer[j].msg = m
  <2> TAKE j \in start_pos + 1 .. stop
  <2>1. j - 1 \in start_pos .. stop - 1 /\ (j - 1) + 1 = j
    BY <1>1, <1>4
  <2> QED BY <1>4, <2>1
<1>6. stop \in DOMAIN buffer /\ buffer[stop].msg = m
  BY <1>1, <1>4, <1>5
\* Behind the run is the end of the buffer or the beginning of a message.
<1>7. stop = Len(buffer) \/ (stop + 1 \in DOMAIN buffer /\ Opens(stop))
  <2>1. CASE stop = expected
    <3>1. OneMessage(expected) => expected + 1 \in 1 .. Len(buffer) /\ Opens(expected)
      BY <1>1 DEF OneMessage
    <3> QED BY <1>0, <1>1, <2>1, <3>1
  <2>2. CASE stop # expected
    <3>1. stop + 1 \in DOMAIN buffer /\ buffer[stop + 1].msg # m
      BY <1>1, <1>4, <2>2
    <3> QED BY <1>6, <3>1 DEF AdjoinInv, Adjoining, Opens
  <2> QED BY <2>1, <2>2
<1>8. buffer[stop].last
  BY <1>6, <1>7 DEF Whole, Opens
<1>9. \/ (stop = expected \/ trailing) /\ result = Object(m, stop - start_pos)
      \/ stop # expected /\ ~trailing /\ result = Unexpected(stop - start_pos)
  BY <1>0, <1>3, <1>8 DEF ParseText, stop
<1>10. CASE result = Object(m, stop - start_pos)
  <2>1. result.kind = "object" /\ result.msg = m /\ result.end = stop - start_pos
    BY <1>10 DEF Object
  <2>2. start_pos + result.end = stop /\ stop \in start_pos + 1 .. Len(buffer)
    BY <1>1, <1>4, <2>1
  <2> QED BY <1>5, <1>7, <2>1, <2>2
<1>11. CASE stop # expected /\ ~trailing /\ result = Unexpected(stop - start_pos)
  <2>1. result.kind = "unexpected" /\ result.end = stop - start_pos
    BY <1>11 DEF Unexpected
  <2>2. start_pos + result.end = stop /\ stop < expected
    BY <1>1, <1>4, <1>11, <2>1
  <2>3. stop + 1 \in DOMAIN buffer /\ Opens(stop) /\ buffer[stop + 1].msg # m
    <3>1. stop # Len(buffer)
      <4>1. stop < expected
        BY <2>2
      <4>2. expected \in Int /\ expected <= Len(buffer)
        BY <1>1
      <4> QED BY <1>1, <4>1, <4>2
    <3>2. buffer[stop + 1].msg # m
      BY <1>4, <1>11
    <3> QED BY <1>7, <3>1, <3>2
  \* Of the messages in the buffer these are two, and one before them is a third.
  <2> DEFINE M == MessagesIn(buffer)
             k == buffer[stop + 1].msg
             f == buffer[1].msg
  <2>4. Cardinality(M) <= (IF receiver = "client" THEN 2 ELSE 1)
    BY <1>11 DEF Separable
  <2>5. m \in M /\ k \in M /\ f \in M /\ k # m
    <3>1. 1 \in DOMAIN buffer /\ start_pos + 1 \in DOMAIN buffer
      BY <1>1
    <3> QED BY <2>3, <3>1 DEF MessagesIn
  <2>6. IsFiniteSet(M) /\ Cardinality(M) \in Nat
    <3>1. \A i \in DOMAIN buffer : buffer[i].msg \in Nat /\ buffer[i].msg <= count
      BY ByteTypes DEF ByteInv, WasSent
    <3>2. M \in SUBSET Nat /\ \A k1 \in M : k1 <= count
      BY <3>1 DEF MessagesIn
    <3>3. count \in Nat
      BY DEF ByteInv
    <3> HIDE DEF M
    <3> QED BY <3>2, <3>3, FS_BoundedSetOfNaturals, FS_CardinalityType
  <2> HIDE DEF M, k, f, m
  <2>7. Cardinality({k, m}) = 2 /\ IsFiniteSet({k, m})
    <3>1. IsFiniteSet({k}) /\ Cardinality({k}) = 1
      BY FS_Singleton
    <3>2. m \notin {k} /\ {k} \union {m} = {k, m}
      BY <2>5
    <3>3. IsFiniteSet({k} \union {m}) /\ Cardinality({k} \union {m}) = Cardinality({k}) + 1
      BY <3>1, <3>2, FS_AddElement
    <3> QED BY <3>1, <3>2, <3>3
  <2>8. 2 <= Cardinality(M) /\ (Cardinality(M) <= 2 => M = {k, m})
    BY <2>5, <2>6, <2>7, FS_Subset
  <2>9. receiver = "client" /\ M = {k, m}
    BY <2>4, <2>6, <2>8
  <2>10. start_pos = 0
    <3> SUFFICES ASSUME start_pos > 0 PROVE FALSE
      BY <1>1
    <3>1. 1 \in 1 .. start_pos
      BY <1>1
    <3>2. PICK h \in DOMAIN handled : handled[h] = f
      BY <1>0, <3>1 DEF f
    <3>3. f < m /\ f < k
      <4>1. \A i \in DOMAIN buffer : i > start_pos => handled[h] < buffer[i].msg
        BY <1>2, <3>2 DEF HandledInv
      <4>2. /\ start_pos + 1 \in DOMAIN buffer /\ start_pos + 1 > start_pos
            /\ stop + 1 > start_pos
        BY <1>1, <1>4
      <4> QED BY <2>3, <3>2, <4>1, <4>2 DEF m, k
    <3>4. f \in Nat
      <4>1. 1 \in DOMAIN buffer
        BY <1>1
      <4> QED BY <4>1, ByteTypes DEF f
    <3> QED BY <2>5, <2>9, <3>3, <3>4
  <2>11. result.end = stop /\ OneMessage(stop)
    <3>1. result.end = stop /\ stop \in 1 .. Len(buffer) - 1
      <4>1. stop \in Int /\ stop >= 1 /\ stop < Len(buffer)
        BY <1>1, <1>4, <2>2
      <4>2. result.end = stop - start_pos
        BY <2>1
      <4> QED BY <1>1, <2>10, <4>1, <4>2
    <3>2. \A j \in 1 .. stop : buffer[j].msg = buffer[1].msg
      BY <1>5, <2>10 DEF m
    <3> QED BY <2>3, <3>1, <3>2 DEF OneMessage
  <2>12. IsGlued(result)
    BY <2>1, <2>2, <2>3, <2>9 DEF IsGlued
  <2> QED BY <2>1, <2>10, <2>11, <2>12
<1> QED BY <1>9, <1>10, <1>11

\* The callback takes a message after the other, and when it returns all are
\* handled.
LEMMA ReceiverProgress ==
    ASSUME ByteInv, OffsetInv, HandledInv, AdjoinInv, ProgressInv, ReceiverStep
    PROVE  /\ ProgressInv'
           /\ ~parsing' /\ Whole(buffer) /\ Separable(buffer) =>
                \A k \in MessagesIn(buffer) : \E i \in DOMAIN handled' : handled'[i] = k
<1>1. parsing /\ UNCHANGED << receiver, trailing, stream, buffer >>
  BY DEF ReceiverStep, Handle, Unfinished, Shorten, Drop
<1>2. Whole(buffer)' = Whole(buffer) /\ Separable(buffer)' = Separable(buffer)
  BY <1>1 DEF Whole, Separable, CutOff, MessagesIn
<1>3. SUFFICES ASSUME Whole(buffer), Separable(buffer)
               PROVE  /\ ProgressInv'
                      /\ ~parsing' => \A k \in MessagesIn(buffer) :
                            \E i \in DOMAIN handled' : handled'[i] = k
  BY <1>2 DEF ProgressInv
<1>4. /\ Len(buffer) \in Nat /\ DOMAIN buffer = 1 .. Len(buffer)
      /\ start_pos \in Nat /\ start_pos < Len(buffer)
      /\ begun = -1 /\ Opens(start_pos)
      /\ \A i \in 1 .. start_pos : \E h \in DOMAIN handled : handled[h] = buffer[i].msg
  BY <1>1, <1>3, ByteTypes DEF OffsetInv, ProgressInv
<1>5. CASE Handle
  <2>1. PICK result \in Parse : /\ result.kind = "object"
                                /\ handled' = Append(handled, result.msg)
                                /\ GoesOn(result)
    BY <1>5 DEF Handle
  <2> DEFINE stop == start_pos + result.end
  <2>2. /\ stop \in start_pos + 1 .. Len(buffer)
        /\ \A j \in start_pos + 1 .. stop : buffer[j].msg = result.msg
        /\ stop = Len(buffer) \/ Opens(stop)
    BY <1>1, <1>3, <2>1, WholeParse
  <2>3. ASSUME NEW i \in 1 .. stop
        PROVE  \E h \in DOMAIN handled' : handled'[h] = buffer[i].msg
    <3>1. /\ handled \in Seq(Nat) /\ Len(handled) \in Nat
          /\ DOMAIN handled = 1 .. Len(handled)
      BY DEF HandledInv
    <3>2. result.msg \in Nat
      <4>1. start_pos + 1 \in start_pos + 1 .. stop /\ start_pos + 1 \in DOMAIN buffer
        BY <1>4, <2>2
      <4> QED BY <2>2, <4>1, ByteTypes
    <3>3. /\ DOMAIN handled' = 1 .. (Len(handled) + 1)
          /\ handled'[Len(handled) + 1] = result.msg
          /\ \A h \in 1 .. Len(handled) : handled'[h] = handled[h]
      BY <2>1, <3>1, <3>2
    <3>4. CASE i \in 1 .. start_pos
      <4>1. PICK h \in DOMAIN handled : handled[h] = buffer[i].msg
        BY <1>4, <3>4
      <4> QED BY <3>1, <3>3, <4>1
    <3>5. CASE i \in start_pos + 1 .. stop
      BY <2>2, <3>1, <3>3, <3>5
    <3> QED BY <1>4, <2>2, <3>4, <3>5
  <2>4. CASE stop >= Len(buffer)
    <3>1. ~parsing'
      BY <2>1, <2>4 DEF GoesOn, Returns
    <3>2. stop = Len(buffer)
      BY <1>4, <2>2, <2>4
    <3> QED BY <1>4, <2>3, <3>1, <3>2 DEF MessagesIn, ProgressInv
  <2>5. CASE ~(stop >= Len(buffer))
    <3>1. /\ start_pos' = stop /\ expected' = Len(buffer) /\ begun' = -1
          /\ parsing' = parsing
      BY <2>1, <2>5 DEF GoesOn
    <3>2. Opens(stop)
      BY <1>4, <2>2, <2>5
    <3>3. ProgressInv'
      <4>1. Opens(start_pos)'
        BY <1>1, <3>1, <3>2 DEF Opens
      <4>2. \A i \in 1 .. start_pos' : \E h \in DOMAIN handled' : handled'[h] = buffer'[i].msg
        BY <1>1, <2>3, <3>1
      <4> QED BY <1>1, <3>1, <4>1, <4>2 DEF ProgressInv
    <3> QED BY <1>1, <3>1, <3>3
  <2> QED BY <2>4, <2>5
<1>6. CASE Shorten
  <2>1. PICK result \in Parse : IsGlued(result) /\ expected' = result.end
    BY <1>6 DEF Shorten
  <2>2. begun' = -1 /\ UNCHANGED << parsing, start_pos, handled >>
    BY <1>6 DEF Shorten
  <2>3. start_pos = 0 /\ OneMessage(result.end)
    BY <1>1, <1>3, <2>1, WholeParse DEF IsGlued
  <2>4. OneMessage(expected)' /\ Opens(start_pos)'
    BY <1>1, <1>4, <2>1, <2>2, <2>3 DEF OneMessage, Opens
  <2>5. ProgressInv'
    BY <1>1, <1>4, <2>2, <2>3, <2>4 DEF ProgressInv
  <2> QED BY <1>1, <2>2, <2>5
<1>7. ~Unfinished /\ ~Drop
  <2>1. \A result \in Parse : result.kind = "object" \/ IsGlued(result)
    BY <1>1, <1>3, WholeParse
  <2> QED BY <2>1 DEF Unfinished, Drop, IsGlued
<1> QED BY <1>5, <1>6, <1>7 DEF ReceiverStep

\* A callback that returns has handled every message of a buffer of whole
\* messages that it can take apart: any number of them with a tokener that
\* allows trailing text, two on a client with a strict one, one on a server.
THEOREM WholeMessagesHandled == SpecWire => AllHandled
<1> DEFINE Done == parsing /\ ~parsing' /\ Whole(buffer) /\ Separable(buffer) =>
              \A m \in MessagesIn(buffer) : \E i \in DOMAIN handled' : handled'[i] = m
<1>1. InitWire => ProgressInv
  BY DEF InitWire, ProgressInv
<1>2. OrderInv /\ AdjoinInv /\ ProgressInv /\ [NextWire]_wireVars
        => ProgressInv' /\ [Done]_wireVars
  <2> SUFFICES ASSUME OrderInv, AdjoinInv, ProgressInv, [NextWire]_wireVars
               PROVE  ProgressInv' /\ Done
    OBVIOUS
  <2>0. LoopInv /\ ByteInv /\ OffsetInv /\ HandledInv
    BY DEF OrderInv
  <2>1. CASE ReceiverStep
    BY <2>0, <2>1, ReceiverProgress
  <2>2. CASE \/ UNCHANGED wireVars \/ SendStep \/ NextMessage
    <3>1. UNCHANGED << receiver, trailing, buffer, parsing, start_pos, expected, begun, handled >>
      BY <2>2 DEF wireVars, recvVars, SendStep, NextMessage
    <3> QED BY <3>1 DEF ProgressInv, Whole, Separable, CutOff, MessagesIn, Opens, OneMessage
  <2>3. CASE Recv
    <3>1. /\ ~parsing /\ start_pos' = 0 /\ expected' = Len(buffer') /\ begun' = -1
      BY <2>3 DEF Recv
    <3>2. Whole(buffer)' => Opens(start_pos)'
      BY <3>1 DEF Whole, Opens
    <3> QED BY <3>1, <3>2 DEF ProgressInv
  <2> QED BY <2>1, <2>2, <2>3 DEF NextWire
<1>3. SpecWire => [][Done]_wireVars
  BY <1>1, <1>2, OrderSafety, AdjoinSafety, PTL DEF SpecWire
<1> QED BY <1>3 DEF AllHandled
=============================================================================
