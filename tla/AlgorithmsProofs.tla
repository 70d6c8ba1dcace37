-------------------------- MODULE AlgorithmsProofs --------------------------
(***************************************************************************)
(* Proofs about Algorithms and Crc16: what TLC checks for short messages   *)
(* of a few bytes holds for messages of any length and all bytes.          *)
(*                                                                         *)
(* The CRC of a message is followed byte by byte.  One turn of the loop    *)
(* loses nothing, so a difference in the accumulators stays; and a         *)
(* division with one byte more makes the same subtractions, moved up by 8, *)
(* and then eight that are one turn of the loop.                           *)
(***************************************************************************)
EXTENDS Algorithms, ByteProofs

-----------------------------------------------------------------------------
(* The message *)

LEMMA MessageType == CSpec => [](data \in Seq(Byte) /\ Len(data) <= MaxLen)
<1> DEFINE I == data \in Seq(Byte) /\ Len(data) <= MaxLen
<1>1. CInit => I
  BY BytesAssumption DEF CInit
<1>2. I /\ [CNext]_cvars => I'
  <2>1. ASSUME I, NEW byte \in Bytes, AddByte(byte)
        PROVE  I'
    <3>1. byte \in Byte
      BY BytesAssumption DEF Byte
    <3>2. data' = Append(data, byte) /\ Len(data) < MaxLen
      BY <2>1 DEF AddByte
    <3>3. Len(data) \in Nat /\ Append(data, byte) \in Seq(Byte)
          /\ Len(Append(data, byte)) = Len(data) + 1
      BY <2>1, <3>1
    <3> QED BY <3>2, <3>3, BytesAssumption
  <2> QED BY <2>1 DEF CNext, cvars
<1> QED BY <1>1, <1>2, PTL DEF CSpec

-----------------------------------------------------------------------------
(* mem_zero, split and join, frames *)

\* Zeros before and after any message at any alignment: mem_zero finds the byte that is
\* not zero (osdpslave.cpp).
THEOREM MemZeroFindsAll == CSpec => []ZeroIsZero
<1>1. ASSUME data \in Seq(Byte)
      PROVE  ZeroIsZero
  <2>1. ASSUME NEW before \in Zeros, NEW after \in Zeros, NEW address \in 0 .. 7
        PROVE  LET mem == Zero(before) \o data \o Zero(after)
               IN  mem_zero(address, mem) <=> \A i \in 1 .. Len(mem) : mem[i] = 0
    <3> DEFINE mem == Zero(before) \o data \o Zero(after)
    <3>1. before \in Nat /\ after \in Nat /\ address \in Nat
      BY AlgorithmsAssumption
    <3>2. Zero(before) \in Seq(Byte) /\ Zero(after) \in Seq(Byte)
      BY <3>1 DEF Zero, Byte
    <3>3. mem \in Seq(Byte)
      BY <1>1, <3>2, ConcatProperties
    <3> HIDE DEF mem
    <3>4. mem_zero(address, mem) <=> AllZero(mem)
      BY <3>1, <3>3, ZeroIsFound
    <3>5. DOMAIN mem = 1 .. Len(mem)
      BY <3>3
    <3> QED BY <3>4, <3>5 DEF AllZero, mem
  <2> QED BY <2>1 DEF ZeroIsZero
<1> QED BY <1>1, MessageType, PTL

\* Any message cut at any separator with any count is joined again (split.h).
THEOREM SplitLosesNothing == CSpec => []SplitThenJoin
<1>1. ASSUME data \in Seq(Byte)
      PROVE  SplitThenJoin
  <2>1. Separator \in Byte /\ \A count \in 0 .. 3 : count \in Nat
    BY AlgorithmsAssumption
  <2> QED BY <1>1, <2>1, SplitIsJoined, Zenon DEF SplitThenJoin
<1> QED BY <1>1, MessageType, PTL

\* A payload that fits has a length of two bytes.
LEMMA FitsTwoBytes ==
  ASSUME NEW payload \in Seq(Byte), NEW n \in Long \cup {MaxLen}, Len(payload) <= n
  PROVE  /\ n \in Nat /\ TwoByte(Length(payload))
         /\ Length(payload) <= BUFSIZE - HEADER
<1>1. n \in Nat /\ Len(payload) \in Nat /\ BUFSIZE \in Nat /\ BUFSIZE < 65536
  BY AlgorithmsAssumption, BytesAssumption, SizeAssumption, FitsAssumption
<1>2. n + 5 + 2 <= BUFSIZE - 5
  BY FitsAssumption DEF HEADER
<1>3. Length(payload) = Len(payload) + 7
  BY <1>1 DEF Length, HEADER
<1>4. Length(payload) \in Nat /\ Length(payload) < 65536 /\ Length(payload) <= BUFSIZE - 5
  BY <1>1, <1>2, <1>3
<1> QED BY <1>1, <1>4 DEF TwoByte, HEADER

\* Any message sent as a payload, between any lead and trail bytes and with any CRC of
\* two bytes, is read back (osdpprotocol.cpp: writecook, readcook).
THEOREM WrittenIsReadBack ==
  ASSUME \A bytes \in Seq(Byte) : TwoByte(Crc(bytes))
  PROVE  CSpec => []WriteReadBack
<1>1. ASSUME data \in Seq(Byte), Len(data) <= MaxLen
      PROVE  WriteReadBack
  <2>1. ASSUME NEW set \in Settings
        PROVE  LET bytes == FromSoh(writecook(set.addr, set.seq, data, set.lead, set.trail))
                   frame == SubSeq(bytes, 1, Total(bytes))
               IN  /\ ~BadLength(Total(bytes))
                   /\ Len(bytes) = Len(frame) + set.trail
                   /\ HasCrc(frame)
                   /\ SubSeq(frame, HEADER + 1, Checked(frame)) = data
                   /\ frame[2] = set.addr /\ frame[5] % 4 = set.seq
    <3> DEFINE addr == set.addr
               seq == set.seq
               lead == set.lead
               trail == set.trail
    <3>1. addr \in 0 .. 127 /\ seq \in 0 .. 3 /\ lead \in Nat /\ trail \in Nat
      BY AlgorithmsAssumption
    <3> HIDE DEF addr, seq, lead, trail
    <3>2. addr \in Nat /\ seq \in Nat /\ addr % 128 = addr /\ seq % 4 = seq
      BY <3>1
    <3>3. TwoByte(Length(data)) /\ Length(data) <= BUFSIZE - HEADER
      <4>1. MaxLen \in Long \cup {MaxLen}
        OBVIOUS
      <4> QED BY <1>1, <4>1, FitsTwoBytes
    <3>4. TwoByte(Crc(Header(addr, seq, data) \o data))
      <4>1. Header(addr, seq, data) \in Seq(Byte)
        BY <1>1, <3>2, <3>3, HeaderBytes, Zenon
      <4>2. Header(addr, seq, data) \o data \in Seq(Byte)
        BY <1>1, <4>1, ConcatProperties
      <4> QED BY <4>2
    <3> DEFINE bytes == FromSoh(writecook(addr, seq, data, lead, trail))
               frame == SubSeq(bytes, 1, Total(bytes))
    <3>5. /\ Total(bytes) = Length(data) /\ ~BadLength(Total(bytes))
          /\ Len(bytes) = Len(frame) + trail
          /\ GoodFrame(frame) /\ HasCrc(frame)
          /\ SubSeq(frame, HEADER + 1, Checked(frame)) = data
          /\ frame[2] = addr % 128 /\ frame[5] % 4 = seq % 4
      <4>1. /\ addr \in Nat /\ seq \in Nat /\ data \in Seq(Byte) /\ lead \in Nat /\ trail \in Nat
            /\ TwoByte(Length(data)) /\ Length(data) <= BUFSIZE - HEADER
            /\ TwoByte(Crc(Header(addr, seq, data) \o data))
        BY <1>1, <3>1, <3>2, <3>3, <3>4
      <4>2. ReadBack(addr, seq, data, lead, trail)
        BY <4>1, WrittenIsRead
      <4> QED BY <4>2 DEF ReadBack
    <3> HIDE DEF bytes, frame
    <3>6. /\ ~BadLength(Total(bytes))
          /\ Len(bytes) = Len(frame) + trail /\ HasCrc(frame)
          /\ SubSeq(frame, HEADER + 1, Checked(frame)) = data
          /\ frame[2] = addr /\ frame[5] % 4 = seq
      BY <3>2, <3>5
    <3> QED BY <3>6 DEF bytes, frame, addr, seq, lead, trail
  <2>2. ASSUME NEW n \in Long
        PROVE  LET header == Header(0, 0, Zero(n))
               IN  Total(header) = HEADER + n + 2 /\ ~BadLength(Total(header))
    <3> DEFINE header == Header(0, 0, Zero(n))
    <3>1. n \in Nat
      BY AlgorithmsAssumption
    <3>2. Zero(n) \in Seq(Byte) /\ Len(Zero(n)) = n
      BY <3>1 DEF Zero, Byte
    <3>3. TwoByte(Length(Zero(n))) /\ Length(Zero(n)) <= BUFSIZE - HEADER
      <4>1. n \in Long \cup {MaxLen} /\ Len(Zero(n)) <= n
        BY <3>1, <3>2
      <4> QED BY <3>2, <4>1, FitsTwoBytes
    <3>4. Total(header) = Length(Zero(n))
      <4>1. header[3] + 256 * header[4] = Length(Zero(n))
        <5>1. 0 \in Nat
          OBVIOUS
        <5> QED BY <3>2, <3>3, <5>1, HeaderBytes
      <4> QED BY <4>1 DEF Total
    <3> HIDE DEF header
    <3>5. Length(Zero(n)) = n + 7 /\ Total(header) = n + 7 /\ HEADER + n + 2 = n + 7
      BY <3>1, <3>2, <3>4 DEF Length, HEADER
    <3>6. ~BadLength(Total(header))
      BY <3>1, <3>3, <3>5, SizeAssumption DEF BadLength, HEADER
    <3> QED BY <3>5, <3>6 DEF header
  <2> QED BY <2>1, <2>2 DEF WriteReadBack
<1> QED BY <1>1, MessageType, PTL

-----------------------------------------------------------------------------
(* The CRC, bit by bit *)

LEMMA XorBit ==
  ASSUME NEW x, NEW y, NEW i
  PROVE  i \in Xor(x, y) <=> ~(i \in x <=> i \in y)
BY DEF Xor

\* The byte x that a turn of crc16_add's loop computes first.
Folded(acc, byte) ==
  LET x0 == Xor(Right(acc, 8), BitsOf(byte)) IN Xor(x0, Right(x0, 4))

LEMMA FoldedBits ==
  ASSUME NEW r \in Word, NEW b
  PROVE  LET c == BitsOf(b)
             x == Folded(r, b)
         IN  /\ x \subseteq 0 .. 7
             /\ 0 \in x <=> ~(~(8 \in r <=> 0 \in c) <=> ~(12 \in r <=> 4 \in c))
             /\ 1 \in x <=> ~(~(9 \in r <=> 1 \in c) <=> ~(13 \in r <=> 5 \in c))
             /\ 2 \in x <=> ~(~(10 \in r <=> 2 \in c) <=> ~(14 \in r <=> 6 \in c))
             /\ 3 \in x <=> ~(~(11 \in r <=> 3 \in c) <=> ~(15 \in r <=> 7 \in c))
             /\ 4 \in x <=> ~(12 \in r <=> 4 \in c)
             /\ 5 \in x <=> ~(13 \in r <=> 5 \in c)
             /\ 6 \in x <=> ~(14 \in r <=> 6 \in c)
             /\ 7 \in x <=> ~(15 \in r <=> 7 \in c)
<1> DEFINE c == BitsOf(b)
           x0 == Xor(Right(r, 8), c)
           x == Xor(x0, Right(x0, 4))
<1>1. c \subseteq 0 .. 7 /\ r \subseteq 0 .. 15
  BY DEF BitsOf, Word
<1>2. x = Folded(r, b)
  BY DEF Folded
<1> HIDE DEF c
<1>3. \A i : i \in Right(r, 8) <=> i \in 0 .. 7 /\ i + 8 \in r
  BY <1>1 DEF Right
<1>4. \A i : i \in x0 <=> ~(i \in Right(r, 8) <=> i \in c)
  BY XorBit
<1>5. x0 \subseteq 0 .. 7
  BY <1>1, <1>3, <1>4
<1>6. /\ 0 \in x0 <=> ~(8 \in r <=> 0 \in c)
      /\ 1 \in x0 <=> ~(9 \in r <=> 1 \in c)
      /\ 2 \in x0 <=> ~(10 \in r <=> 2 \in c)
      /\ 3 \in x0 <=> ~(11 \in r <=> 3 \in c)
      /\ 4 \in x0 <=> ~(12 \in r <=> 4 \in c)
      /\ 5 \in x0 <=> ~(13 \in r <=> 5 \in c)
      /\ 6 \in x0 <=> ~(14 \in r <=> 6 \in c)
      /\ 7 \in x0 <=> ~(15 \in r <=> 7 \in c)
  <2>1. \A i \in 0 .. 7 : i \in x0 <=> ~(i + 8 \in r <=> i \in c)
    BY <1>3, <1>4
  <2> HIDE DEF x0
  <2> QED BY <2>1
<1> HIDE DEF x0
<1>7. \A i : i \in Right(x0, 4) <=> i \in 0 .. 3 /\ i + 4 \in x0
  BY <1>5 DEF Right
<1>8. \A i : i \in x <=> ~(i \in x0 <=> i \in Right(x0, 4))
  BY XorBit
<1>9. x \subseteq 0 .. 7
  <2>1. ASSUME NEW i \in x
        PROVE  i \in 0 .. 7
    <3>1. i \in x0 \/ i \in Right(x0, 4)
      BY <1>8
    <3>2. i \in 0 .. 3 => i \in 0 .. 7
      OBVIOUS
    <3> QED BY <1>5, <1>7, <3>1, <3>2
  <2> QED BY <2>1
<1>10. /\ 0 \in x <=> ~(0 \in x0 <=> 4 \in x0)
       /\ 1 \in x <=> ~(1 \in x0 <=> 5 \in x0)
       /\ 2 \in x <=> ~(2 \in x0 <=> 6 \in x0)
       /\ 3 \in x <=> ~(3 \in x0 <=> 7 \in x0)
       /\ 4 \in x <=> 4 \in x0
       /\ 5 \in x <=> 5 \in x0
       /\ 6 \in x <=> 6 \in x0
       /\ 7 \in x <=> 7 \in x0
  <2>1. \A i \in 0 .. 3 : i \in x <=> ~(i \in x0 <=> i + 4 \in x0)
    BY <1>7, <1>8
  <2>2. \A i \in 4 .. 7 : i \in x <=> i \in x0
    BY <1>7, <1>8
  <2> HIDE DEF x
  <2> QED BY <2>1, <2>2
<1> HIDE DEF x
<1>11. /\ x \subseteq 0 .. 7
       /\ 0 \in x <=> ~(~(8 \in r <=> 0 \in c) <=> ~(12 \in r <=> 4 \in c))
       /\ 1 \in x <=> ~(~(9 \in r <=> 1 \in c) <=> ~(13 \in r <=> 5 \in c))
       /\ 2 \in x <=> ~(~(10 \in r <=> 2 \in c) <=> ~(14 \in r <=> 6 \in c))
       /\ 3 \in x <=> ~(~(11 \in r <=> 3 \in c) <=> ~(15 \in r <=> 7 \in c))
       /\ 4 \in x <=> ~(12 \in r <=> 4 \in c)
       /\ 5 \in x <=> ~(13 \in r <=> 5 \in c)
       /\ 6 \in x <=> ~(14 \in r <=> 6 \in c)
       /\ 7 \in x <=> ~(15 \in r <=> 7 \in c)
  BY <1>6, <1>9, <1>10
<1> QED BY <1>2, <1>11 DEF c

LEMMA StepBits ==
  ASSUME NEW r \in Word, NEW b
  PROVE  LET x == Folded(r, b)
             s == crc16_step(r, b)
         IN  /\ s \in Word
             /\ 0 \in s <=> 0 \in x
             /\ 1 \in s <=> 1 \in x
             /\ 2 \in s <=> 2 \in x
             /\ 3 \in s <=> 3 \in x
             /\ 4 \in s <=> 4 \in x
             /\ 5 \in s <=> ~(0 \in x <=> 5 \in x)
             /\ 6 \in s <=> ~(1 \in x <=> 6 \in x)
             /\ 7 \in s <=> ~(2 \in x <=> 7 \in x)
             /\ 8 \in s <=> ~(0 \in r <=> 3 \in x)
             /\ 9 \in s <=> ~(1 \in r <=> 4 \in x)
             /\ 10 \in s <=> ~(2 \in r <=> 5 \in x)
             /\ 11 \in s <=> ~(3 \in r <=> 6 \in x)
             /\ 12 \in s <=> ~(~(4 \in r <=> 0 \in x) <=> 7 \in x)
             /\ 13 \in s <=> ~(5 \in r <=> 1 \in x)
             /\ 14 \in s <=> ~(6 \in r <=> 2 \in x)
             /\ 15 \in s <=> ~(7 \in r <=> 3 \in x)
<1> DEFINE x == Folded(r, b)
           s == crc16_step(r, b)
<1>1. x \subseteq 0 .. 7 /\ r \subseteq 0 .. 15
  BY FoldedBits DEF Word
<1>2. s = Xor(Xor(Left(r, 8), Left(x, 12)), Xor(Left(x, 5), x))
  BY DEF crc16_step, Folded
<1> HIDE DEF x, s
<1>3. \A i : i \in s <=>
        ~(~(i \in Left(r, 8) <=> i \in Left(x, 12)) <=> ~(i \in Left(x, 5) <=> i \in x))
  BY <1>2, XorBit
<1>4. \A i : /\ i \in Left(r, 8) <=> i \in 8 .. 15 /\ i - 8 \in r
             /\ i \in Left(x, 12) <=> i \in 12 .. 15 /\ i - 12 \in x
             /\ i \in Left(x, 5) <=> i \in 5 .. 12 /\ i - 5 \in x
  BY <1>1 DEF Left
<1>5. s \in Word
  <2>1. ASSUME NEW i \in s
        PROVE  i \in 0 .. 15
    <3>1. i \in 8 .. 15 \/ i \in 12 .. 15 \/ i \in 5 .. 12 \/ i \in 0 .. 7
      BY <1>1, <1>3, <1>4
    <3> QED BY <3>1
  <2> QED BY <2>1 DEF Word
<1>6. /\ \A i \in 0 .. 4 : i \in s <=> i \in x
      /\ \A i \in 5 .. 7 : i \in s <=> ~(i - 5 \in x <=> i \in x)
      /\ \A i \in 8 .. 11 : i \in s <=> ~(i - 8 \in r <=> i - 5 \in x)
      /\ 12 \in s <=> ~(~(4 \in r <=> 0 \in x) <=> 7 \in x)
      /\ \A i \in 13 .. 15 : i \in s <=> ~(i - 8 \in r <=> i - 12 \in x)
  <2>1. \A i \in 0 .. 4 : i \in s <=> i \in x
    BY <1>3, <1>4
  <2>2. \A i \in 5 .. 7 : i \in s <=> ~(i - 5 \in x <=> i \in x)
    BY <1>3, <1>4
  <2>3. \A i \in 8 .. 11 : i \in s <=> ~(i - 8 \in r <=> i - 5 \in x)
    BY <1>1, <1>3, <1>4
  <2>4. 12 \in s <=> ~(~(4 \in r <=> 0 \in x) <=> 7 \in x)
    <3>1. 12 - 8 = 4 /\ 12 - 12 = 0 /\ 12 - 5 = 7 /\ 12 \notin x
      BY <1>1
    <3> QED BY <1>3, <1>4, <3>1
  <2>5. \A i \in 13 .. 15 : i \in s <=> ~(i - 8 \in r <=> i - 12 \in x)
    BY <1>1, <1>3, <1>4
  <2> QED BY <2>1, <2>2, <2>3, <2>4, <2>5
<1>7. /\ 0 \in s <=> 0 \in x
      /\ 1 \in s <=> 1 \in x
      /\ 2 \in s <=> 2 \in x
      /\ 3 \in s <=> 3 \in x
      /\ 4 \in s <=> 4 \in x
      /\ 5 \in s <=> ~(0 \in x <=> 5 \in x)
      /\ 6 \in s <=> ~(1 \in x <=> 6 \in x)
      /\ 7 \in s <=> ~(2 \in x <=> 7 \in x)
      /\ 8 \in s <=> ~(0 \in r <=> 3 \in x)
      /\ 9 \in s <=> ~(1 \in r <=> 4 \in x)
      /\ 10 \in s <=> ~(2 \in r <=> 5 \in x)
      /\ 11 \in s <=> ~(3 \in r <=> 6 \in x)
      /\ 12 \in s <=> ~(~(4 \in r <=> 0 \in x) <=> 7 \in x)
      /\ 13 \in s <=> ~(5 \in r <=> 1 \in x)
      /\ 14 \in s <=> ~(6 \in r <=> 2 \in x)
      /\ 15 \in s <=> ~(7 \in r <=> 3 \in x)
  BY <1>6
<1> QED BY <1>5, <1>7 DEF x, s

\* The low byte of the accumulator determines x, ...
LEMMA LowByte ==
  ASSUME NEW r \in Word, NEW q \in Word, NEW a, NEW b,
         \A i \in 0 .. 7 : i \in crc16_step(r, a) <=> i \in crc16_step(q, b)
  PROVE  Folded(r, a) = Folded(q, b)
<1> DEFINE x == Folded(r, a)
           y == Folded(q, b)
           s == crc16_step(r, a)
           t == crc16_step(q, b)
<1>1. /\ x \subseteq 0 .. 7
      /\ 0 \in s <=> 0 \in x
      /\ 1 \in s <=> 1 \in x
      /\ 2 \in s <=> 2 \in x
      /\ 3 \in s <=> 3 \in x
      /\ 4 \in s <=> 4 \in x
      /\ 5 \in s <=> ~(0 \in x <=> 5 \in x)
      /\ 6 \in s <=> ~(1 \in x <=> 6 \in x)
      /\ 7 \in s <=> ~(2 \in x <=> 7 \in x)
  BY FoldedBits, StepBits
<1>2. /\ y \subseteq 0 .. 7
      /\ 0 \in t <=> 0 \in y
      /\ 1 \in t <=> 1 \in y
      /\ 2 \in t <=> 2 \in y
      /\ 3 \in t <=> 3 \in y
      /\ 4 \in t <=> 4 \in y
      /\ 5 \in t <=> ~(0 \in y <=> 5 \in y)
      /\ 6 \in t <=> ~(1 \in y <=> 6 \in y)
      /\ 7 \in t <=> ~(2 \in y <=> 7 \in y)
  BY FoldedBits, StepBits
<1> HIDE DEF x, y, s, t
<1>3. \A i \in 0 .. 7 : i \in s <=> i \in t
  BY DEF s, t
<1>4. \A i \in 0 .. 7 : i \in x <=> i \in y
  BY <1>1, <1>2, <1>3
<1>5. x = y
  BY <1>1, <1>2, <1>4
<1> QED BY <1>5 DEF x, y

\* ... and x the high byte before it, once the byte read is known.
LEMMA HighByte ==
  ASSUME NEW r \in Word, NEW q \in Word, NEW a, NEW b, Folded(r, a) = Folded(q, b)
  PROVE  \A i \in 0 .. 7 : (i + 8 \in r <=> i \in BitsOf(a)) <=> (i + 8 \in q <=> i \in BitsOf(b))
<1> DEFINE x == Folded(r, a)
           c == BitsOf(a)
           d == BitsOf(b)
<1>1. /\ 0 \in x <=> ~(~(8 \in r <=> 0 \in c) <=> ~(12 \in r <=> 4 \in c))
      /\ 1 \in x <=> ~(~(9 \in r <=> 1 \in c) <=> ~(13 \in r <=> 5 \in c))
      /\ 2 \in x <=> ~(~(10 \in r <=> 2 \in c) <=> ~(14 \in r <=> 6 \in c))
      /\ 3 \in x <=> ~(~(11 \in r <=> 3 \in c) <=> ~(15 \in r <=> 7 \in c))
      /\ 4 \in x <=> ~(12 \in r <=> 4 \in c)
      /\ 5 \in x <=> ~(13 \in r <=> 5 \in c)
      /\ 6 \in x <=> ~(14 \in r <=> 6 \in c)
      /\ 7 \in x <=> ~(15 \in r <=> 7 \in c)
  BY FoldedBits
<1>2. /\ 0 \in x <=> ~(~(8 \in q <=> 0 \in d) <=> ~(12 \in q <=> 4 \in d))
      /\ 1 \in x <=> ~(~(9 \in q <=> 1 \in d) <=> ~(13 \in q <=> 5 \in d))
      /\ 2 \in x <=> ~(~(10 \in q <=> 2 \in d) <=> ~(14 \in q <=> 6 \in d))
      /\ 3 \in x <=> ~(~(11 \in q <=> 3 \in d) <=> ~(15 \in q <=> 7 \in d))
      /\ 4 \in x <=> ~(12 \in q <=> 4 \in d)
      /\ 5 \in x <=> ~(13 \in q <=> 5 \in d)
      /\ 6 \in x <=> ~(14 \in q <=> 6 \in d)
      /\ 7 \in x <=> ~(15 \in q <=> 7 \in d)
  BY FoldedBits
<1> HIDE DEF x, c, d
<1>3. /\ (8 \in r <=> 0 \in c) <=> (8 \in q <=> 0 \in d)
      /\ (9 \in r <=> 1 \in c) <=> (9 \in q <=> 1 \in d)
      /\ (10 \in r <=> 2 \in c) <=> (10 \in q <=> 2 \in d)
      /\ (11 \in r <=> 3 \in c) <=> (11 \in q <=> 3 \in d)
      /\ (12 \in r <=> 4 \in c) <=> (12 \in q <=> 4 \in d)
      /\ (13 \in r <=> 5 \in c) <=> (13 \in q <=> 5 \in d)
      /\ (14 \in r <=> 6 \in c) <=> (14 \in q <=> 6 \in d)
      /\ (15 \in r <=> 7 \in c) <=> (15 \in q <=> 7 \in d)
  BY <1>1, <1>2
<1>4. \A i \in 0 .. 7 : (i + 8 \in r <=> i \in c) <=> (i + 8 \in q <=> i \in d)
  BY <1>3
<1> QED BY <1>4 DEF c, d

\* The low byte before it ends up in the high byte.
LEMMA ShiftedByte ==
  ASSUME NEW r \in Word, NEW q \in Word, NEW a, NEW b, crc16_step(r, a) = crc16_step(q, b)
  PROVE  /\ Folded(r, a) = Folded(q, b)
         /\ \A i \in 0 .. 7 : i \in r <=> i \in q
<1> DEFINE x == Folded(r, a)
           s == crc16_step(r, a)
<1>1. x = Folded(q, b)
  BY LowByte
<1>2. /\ 8 \in s <=> ~(0 \in r <=> 3 \in x)
      /\ 9 \in s <=> ~(1 \in r <=> 4 \in x)
      /\ 10 \in s <=> ~(2 \in r <=> 5 \in x)
      /\ 11 \in s <=> ~(3 \in r <=> 6 \in x)
      /\ 12 \in s <=> ~(~(4 \in r <=> 0 \in x) <=> 7 \in x)
      /\ 13 \in s <=> ~(5 \in r <=> 1 \in x)
      /\ 14 \in s <=> ~(6 \in r <=> 2 \in x)
      /\ 15 \in s <=> ~(7 \in r <=> 3 \in x)
  BY StepBits
<1>3. /\ 8 \in s <=> ~(0 \in q <=> 3 \in x)
      /\ 9 \in s <=> ~(1 \in q <=> 4 \in x)
      /\ 10 \in s <=> ~(2 \in q <=> 5 \in x)
      /\ 11 \in s <=> ~(3 \in q <=> 6 \in x)
      /\ 12 \in s <=> ~(~(4 \in q <=> 0 \in x) <=> 7 \in x)
      /\ 13 \in s <=> ~(5 \in q <=> 1 \in x)
      /\ 14 \in s <=> ~(6 \in q <=> 2 \in x)
      /\ 15 \in s <=> ~(7 \in q <=> 3 \in x)
  <2> DEFINE y == Folded(q, b)
             t == crc16_step(q, b)
  <2>1. /\ 8 \in t <=> ~(0 \in q <=> 3 \in y)
        /\ 9 \in t <=> ~(1 \in q <=> 4 \in y)
        /\ 10 \in t <=> ~(2 \in q <=> 5 \in y)
        /\ 11 \in t <=> ~(3 \in q <=> 6 \in y)
        /\ 12 \in t <=> ~(~(4 \in q <=> 0 \in y) <=> 7 \in y)
        /\ 13 \in t <=> ~(5 \in q <=> 1 \in y)
        /\ 14 \in t <=> ~(6 \in q <=> 2 \in y)
        /\ 15 \in t <=> ~(7 \in q <=> 3 \in y)
    BY StepBits
  <2>2. x = y /\ s = t
    BY <1>1
  <2> HIDE DEF x, y, s, t
  <2> QED BY <2>1, <2>2
<1> HIDE DEF x, s
<1>4. \A i \in 0 .. 7 : i \in r <=> i \in q
  BY <1>2, <1>3
<1> QED BY <1>1, <1>4 DEF x

\* One turn of the loop forgets nothing of the accumulator.
LEMMA StepInjective ==
  ASSUME NEW r \in Word, NEW q \in Word, NEW b, crc16_step(r, b) = crc16_step(q, b)
  PROVE  r = q
<1>1. Folded(r, b) = Folded(q, b) /\ \A i \in 0 .. 7 : i \in r <=> i \in q
  BY ShiftedByte
<1>2. \A i \in 0 .. 7 : i + 8 \in r <=> i + 8 \in q
  BY <1>1, HighByte
<1>3. \A i \in 0 .. 15 : i \in r <=> i \in q
  <2>1. ASSUME NEW i \in 8 .. 15
        PROVE  i \in r <=> i \in q
    <3>1. i - 8 \in 0 .. 7 /\ (i - 8) + 8 = i
      OBVIOUS
    <3> QED BY <1>2, <3>1
  <2>2. \A i \in 0 .. 15 : i \in 0 .. 7 \/ i \in 8 .. 15
    OBVIOUS
  <2> QED BY <1>1, <2>1, <2>2
<1> QED BY <1>3 DEF Word

\* Two turns forget nothing of the bytes they read.
LEMMA TwoStepsInjective ==
  ASSUME NEW r \in Word, NEW a1, NEW a2, NEW b1, NEW b2,
         crc16_step(crc16_step(r, a1), a2) = crc16_step(crc16_step(r, b1), b2)
  PROVE  BitsOf(a1) = BitsOf(b1) /\ BitsOf(a2) = BitsOf(b2)
<1> DEFINE p == crc16_step(r, a1)
           q == crc16_step(r, b1)
<1>1. p \in Word /\ q \in Word
  BY StepBits
<1>2. Folded(p, a2) = Folded(q, b2) /\ \A i \in 0 .. 7 : i \in p <=> i \in q
  <2> HIDE DEF p, q
  <2>1. crc16_step(p, a2) = crc16_step(q, b2)
    BY DEF p, q
  <2> QED BY <1>1, <2>1, ShiftedByte
<1>3. Folded(r, a1) = Folded(r, b1)
  BY <1>2, LowByte
<1>4. BitsOf(a1) = BitsOf(b1)
  <2>1. \A i \in 0 .. 7 : i \in BitsOf(a1) <=> i \in BitsOf(b1)
    BY <1>3, HighByte
  <2>2. BitsOf(a1) \subseteq 0 .. 7 /\ BitsOf(b1) \subseteq 0 .. 7
    BY DEF BitsOf
  <2> QED BY <2>1, <2>2
<1>5. p = q
  BY <1>4 DEF crc16_step
<1>6. BitsOf(a2) = BitsOf(b2)
  <2> HIDE DEF p, q
  <2>1. \A i \in 0 .. 7 : i \in BitsOf(a2) <=> i \in BitsOf(b2)
    BY <1>1, <1>2, <1>5, HighByte
  <2>2. BitsOf(a2) \subseteq 0 .. 7 /\ BitsOf(b2) \subseteq 0 .. 7
    BY DEF BitsOf
  <2> QED BY <2>1, <2>2
<1> QED BY <1>4, <1>6

\* A byte is the sum of its bits.
LEMMA SameByte ==
  ASSUME NEW a \in Byte, NEW b \in Byte, BitsOf(a) = BitsOf(b)
  PROVE  a = b
<1>1. ASSUME NEW x \in Byte
      PROVE  /\ 0 \in BitsOf(x) <=> x % 2 = 1
             /\ 1 \in BitsOf(x) <=> (x \div 2) % 2 = 1
             /\ 2 \in BitsOf(x) <=> (x \div 4) % 2 = 1
             /\ 3 \in BitsOf(x) <=> (x \div 8) % 2 = 1
             /\ 4 \in BitsOf(x) <=> (x \div 16) % 2 = 1
             /\ 5 \in BitsOf(x) <=> (x \div 32) % 2 = 1
             /\ 6 \in BitsOf(x) <=> (x \div 64) % 2 = 1
             /\ 7 \in BitsOf(x) <=> (x \div 128) % 2 = 1
  <2>1. x \div 1 = x
    BY DEF Byte
  <2> QED BY <2>1 DEF BitsOf, Weights
<1> DEFINE Digits(x) == <<x % 2, (x \div 2) % 2, (x \div 4) % 2, (x \div 8) % 2,
                          (x \div 16) % 2, (x \div 32) % 2, (x \div 64) % 2, (x \div 128) % 2>>
           Value(d) == 128 * d[8] + 64 * d[7] + 32 * d[6] + 16 * d[5] + 8 * d[4]
                         + 4 * d[3] + 2 * d[2] + d[1]
<1>2. ASSUME NEW x \in 0 .. 255
      PROVE  x = Value(Digits(x))
  OBVIOUS
<1>3. \A x \in Int : x % 2 = 0 \/ x % 2 = 1
  OBVIOUS
<1>4. a \in 0 .. 255 /\ b \in 0 .. 255
  BY DEF Byte
<1>5. /\ a % 2 = b % 2 /\ (a \div 2) % 2 = (b \div 2) % 2 /\ (a \div 4) % 2 = (b \div 4) % 2
      /\ (a \div 8) % 2 = (b \div 8) % 2 /\ (a \div 16) % 2 = (b \div 16) % 2
      /\ (a \div 32) % 2 = (b \div 32) % 2 /\ (a \div 64) % 2 = (b \div 64) % 2
      /\ (a \div 128) % 2 = (b \div 128) % 2
  <2>1. ASSUME NEW x \in Int, NEW y \in Int, x % 2 = 1 <=> y % 2 = 1
        PROVE  x % 2 = y % 2
    BY <2>1, <1>3
  <2>2. \A k \in {2, 4, 8, 16, 32, 64, 128} : a \div k \in Int /\ b \div k \in Int
    BY <1>4
  <2> QED BY <1>1, <1>4, <2>1, <2>2
<1>6. Digits(a) = Digits(b)
  BY <1>5
<1> HIDE DEF Digits, Value
<1> QED BY <1>2, <1>4, <1>6

-----------------------------------------------------------------------------
(* The CRC of a message *)

\* The accumulator after the bytes at a set of places.
Accumulators(acc, bytes) ==
  LET iter[s \in SUBSET DOMAIN bytes] ==
        IF s = {} THEN acc ELSE crc16_step(iter[s \ {Max(s)}], bytes[Max(s)])
  IN  iter

LEMMA AddIsFold ==
  ASSUME NEW acc, NEW bytes
  PROVE  crc16_add(acc, bytes) = Accumulators(acc, bytes)[DOMAIN bytes]
BY DEF crc16_add, FoldLeft, MapThenFoldSet, Accumulators

\* Byte by byte.
LEMMA AddUnfold ==
  ASSUME NEW acc \in Word, NEW bytes \in Seq(Byte)
  PROVE  LET F == Accumulators(acc, bytes)
         IN  /\ F[1 .. 0] = acc
             /\ \A n \in 0 .. Len(bytes) - 1 : F[1 .. n + 1] = crc16_step(F[1 .. n], bytes[n + 1])
             /\ \A n \in 0 .. Len(bytes) : F[1 .. n] \in Word
<1> DEFINE N == Len(bytes)
    step == [p \in Word \X (1 .. N) |-> crc16_step(p[1], bytes[p[2]])]
    F == Accumulators(acc, bytes)
<1>1. N \in Nat /\ DOMAIN bytes = 1 .. N
  OBVIOUS
<1>2. step \in [Word \X (1 .. N) -> Word]
  BY StepBits
<1>3. \A r \in Word, i \in 1 .. N : step[<<r, i>>] = crc16_step(r, bytes[i])
  OBVIOUS
<1> HIDE DEF step, N, F
<1>4. Foldable(N, Word, acc, step)
  BY <1>1, <1>2, FoldExists
<1>5. PICK g \in [SUBSET (1 .. N) -> Word] : \A s \in SUBSET (1 .. N) :
        g[s] = IF s = {} THEN acc ELSE step[<<g[s \ {Max(s)}], Max(s)>>]
  BY <1>4 DEF Foldable
<1>6. \A s \in SUBSET (1 .. N) :
        g[s] = IF s = {} THEN acc ELSE crc16_step(g[s \ {Max(s)}], bytes[Max(s)])
  <2>1. ASSUME NEW s \in SUBSET (1 .. N), s # {}
        PROVE  g[s] = crc16_step(g[s \ {Max(s)}], bytes[Max(s)])
    <3>1. Max(s) \in 1 .. N /\ g[s \ {Max(s)}] \in Word
      BY <1>1, <2>1, MaxIs
    <3>2. g[s] = step[<<g[s \ {Max(s)}], Max(s)>>]
      BY <1>5, <2>1
    <3> QED BY <1>3, <3>1, <3>2
  <2> QED BY <1>5, <2>1
<1>7. g = [s \in SUBSET DOMAIN bytes |->
             IF s = {} THEN acc ELSE crc16_step(g[s \ {Max(s)}], bytes[Max(s)])]
  BY <1>1, <1>6
<1>8. F = [s \in SUBSET DOMAIN bytes |->
             IF s = {} THEN acc ELSE crc16_step(F[s \ {Max(s)}], bytes[Max(s)])]
  BY <1>7, Zenon DEF F, Accumulators
<1>9. F[1 .. 0] = acc
  BY <1>8, Places
<1>10. ASSUME NEW n \in 0 .. N - 1
       PROVE  F[1 .. n + 1] = crc16_step(F[1 .. n], bytes[n + 1])
  <2> DEFINE s == 1 .. n + 1
  <2>1. s \in SUBSET DOMAIN bytes /\ n \in Nat
    BY <1>1
  <2>2. s # {} /\ Max(s) = n + 1 /\ s \ {n + 1} = 1 .. n
    BY <2>1, Places
  <2> HIDE DEF s
  <2>3. F[s] = crc16_step(F[s \ {Max(s)}], bytes[Max(s)])
    BY <1>8, <2>1, <2>2
  <2>4. F[s] = crc16_step(F[1 .. n], bytes[n + 1])
    BY <2>2, <2>3, Zenon
  <2> QED BY <2>4 DEF s
<1>11. \A n \in 0 .. N : F[1 .. n] \in Word
  <2> DEFINE T == {n \in 0 .. N : F[1 .. n] \in Word}
  <2>1. 0 \in T
    BY <1>1, <1>9
  <2>2. ASSUME NEW n \in 0 .. N - 1, n \in T
        PROVE  n + 1 \in T
    <3>1. n + 1 \in 0 .. N /\ F[1 .. n] \in Word
      BY <1>1, <2>2
    <3>2. crc16_step(F[1 .. n], bytes[n + 1]) \in Word
      BY <3>1, StepBits
    <3> QED BY <1>10, <3>1, <3>2
  <2> HIDE DEF T
  <2>3. \A n \in 0 .. N : n \in T
    BY <1>1, <2>1, <2>2, UpTo
  <2> QED BY <2>3 DEF T
<1> QED BY <1>9, <1>10, <1>11 DEF F, N

\* Messages with the same first m bytes have the same accumulator after them.
LEMMA SamePrefix ==
  ASSUME NEW acc \in Word, NEW s \in Seq(Byte), NEW t \in Seq(Byte), NEW m \in Nat,
         m <= Len(s), m <= Len(t), \A i \in 1 .. m : s[i] = t[i]
  PROVE  Accumulators(acc, s)[1 .. m] = Accumulators(acc, t)[1 .. m]
<1> DEFINE F == Accumulators(acc, s)
           H == Accumulators(acc, t)
           T == {n \in 0 .. m : F[1 .. n] = H[1 .. n]}
<1>1. F[1 .. 0] = acc /\ \A n \in 0 .. m - 1 : F[1 .. n + 1] = crc16_step(F[1 .. n], s[n + 1])
  <2>1. F[1 .. 0] = acc /\ \A n \in 0 .. Len(s) - 1 : F[1 .. n + 1] = crc16_step(F[1 .. n], s[n + 1])
    BY AddUnfold
  <2>2. \A n \in 0 .. m - 1 : n \in 0 .. Len(s) - 1
    OBVIOUS
  <2> QED BY <2>1, <2>2
<1>2. H[1 .. 0] = acc /\ \A n \in 0 .. m - 1 : H[1 .. n + 1] = crc16_step(H[1 .. n], t[n + 1])
  <2>1. H[1 .. 0] = acc /\ \A n \in 0 .. Len(t) - 1 : H[1 .. n + 1] = crc16_step(H[1 .. n], t[n + 1])
    BY AddUnfold
  <2>2. \A n \in 0 .. m - 1 : n \in 0 .. Len(t) - 1
    OBVIOUS
  <2> QED BY <2>1, <2>2
<1> HIDE DEF F, H
<1>3. 0 \in T
  BY <1>1, <1>2
<1>4. ASSUME NEW n \in 0 .. m - 1, n \in T
      PROVE  n + 1 \in T
  <2>1. n + 1 \in 0 .. m /\ n + 1 \in 1 .. m /\ F[1 .. n] = H[1 .. n]
    BY <1>4
  <2>2. F[1 .. n + 1] = H[1 .. n + 1]
    BY <1>1, <1>2, <2>1
  <2> QED BY <2>1, <2>2
<1>5. m \in T
  <2> HIDE DEF T
  <2>1. \A n \in 0 .. m : n \in T
    BY <1>3, <1>4, UpTo
  <2> QED BY <2>1
<1> QED BY <1>5 DEF F, H

\* crc16_add goes on where it stopped.
LEMMA AddAppend ==
  ASSUME NEW acc \in Word, NEW bytes \in Seq(Byte), NEW byte \in Byte
  PROVE  /\ crc16_add(acc, << >>) = acc /\ crc16_add(acc, bytes) \in Word
         /\ crc16_add(acc, Append(bytes, byte)) = crc16_step(crc16_add(acc, bytes), byte)
<1> DEFINE N == Len(bytes)
           more == Append(bytes, byte)
           F == Accumulators(acc, bytes)
           H == Accumulators(acc, more)
<1>1. /\ N \in Nat /\ more \in Seq(Byte) /\ Len(more) = N + 1 /\ more[N + 1] = byte
      /\ DOMAIN bytes = 1 .. N /\ DOMAIN more = 1 .. N + 1
      /\ \A i \in 1 .. N : bytes[i] = more[i]
  OBVIOUS
<1>2. << >> \in Seq(Byte) /\ Len(<< >>) = 0 /\ DOMAIN << >> = 1 .. 0
  OBVIOUS
<1>3. crc16_add(acc, << >>) = acc
  BY <1>2, AddIsFold, AddUnfold
<1> HIDE DEF N, more
<1>4. H[1 .. N + 1] = crc16_step(H[1 .. N], more[N + 1])
  <2>1. N \in 0 .. Len(more) - 1
    BY <1>1
  <2> QED BY <1>1, <2>1, AddUnfold
<1>5. F[1 .. N] = H[1 .. N]
  <2>1. N <= Len(bytes) /\ N <= Len(more)
    BY <1>1 DEF N
  <2> QED BY <1>1, <2>1, SamePrefix
<1>6. F[1 .. N] \in Word
  <2>1. N \in 0 .. Len(bytes)
    BY <1>1 DEF N
  <2> QED BY <2>1, AddUnfold
<1>7. crc16_add(acc, bytes) = F[1 .. N] /\ crc16_add(acc, more) = H[1 .. N + 1]
  BY <1>1, AddIsFold
<1> QED BY <1>1, <1>3, <1>4, <1>5, <1>6, <1>7 DEF more

LEMMA StartWord == crc16_prepare \in Word
BY DEF crc16_prepare, Word

\* The accumulator is the CRC of the bytes read.
LEMMA CrcOfData ==
  CSpec => [](data \in Seq(Byte) /\ crc = crc16_add(crc16_prepare, data))
<1> DEFINE I == data \in Seq(Byte) /\ crc = crc16_add(crc16_prepare, data)
<1>1. CInit => I
  <2>1. ASSUME NEW b \in Byte
        PROVE  crc16_add(crc16_prepare, << >>) = crc16_prepare
    <3>1. << >> \in Seq(Byte)
      OBVIOUS
    <3> QED BY <3>1, StartWord, AddAppend
  <2>2. 0 \in Byte
    BY DEF Byte
  <2> QED BY <2>1, <2>2 DEF CInit
<1>2. I /\ [CNext]_cvars => I'
  <2>1. ASSUME I, NEW byte \in Bytes, AddByte(byte)
        PROVE  I'
    <3>1. byte \in Byte
      BY BytesAssumption DEF Byte
    <3>2. data' = Append(data, byte) /\ crc' = crc16_step(crc, byte)
      BY <2>1 DEF AddByte
    <3>3. crc16_add(crc16_prepare, Append(data, byte)) = crc16_step(crc, byte)
      BY <2>1, <3>1, StartWord, AddAppend
    <3>4. Append(data, byte) \in Seq(Byte)
      BY <2>1, <3>1
    <3>5. crc' = crc16_add(crc16_prepare, data')
      BY <3>2, <3>3
    <3> QED BY <3>2, <3>4, <3>5
  <2> QED BY <2>1 DEF CNext, cvars
<1> QED BY <1>1, <1>2, PTL DEF CSpec

\* Messages of one length that differ nowhere but in two bytes in a row and have the same
\* accumulator at the end have the same two bytes.
LEMMA SameTwoBytes ==
  ASSUME NEW acc \in Word, NEW s \in Seq(Byte), NEW t \in Seq(Byte),
         NEW i \in 1 .. Len(s) - 1, Len(t) = Len(s),
         \A j \in 1 .. Len(s) : j = i \/ j = i + 1 \/ s[j] = t[j],
         crc16_add(acc, s) = crc16_add(acc, t)
  PROVE  s[i] = t[i] /\ s[i + 1] = t[i + 1]
<1> DEFINE N == Len(s)
           F == Accumulators(acc, s)
           H == Accumulators(acc, t)
           P(n) == F[1 .. n] = H[1 .. n]
<1>1. N \in Nat /\ i \in 1 .. N - 1 /\ DOMAIN s = 1 .. N /\ DOMAIN t = 1 .. N
  OBVIOUS
<1>2. /\ \A n \in 0 .. N - 1 : F[1 .. n + 1] = crc16_step(F[1 .. n], s[n + 1])
      /\ \A n \in 0 .. N : F[1 .. n] \in Word
  BY AddUnfold
<1>3. /\ \A n \in 0 .. N - 1 : H[1 .. n + 1] = crc16_step(H[1 .. n], t[n + 1])
      /\ \A n \in 0 .. N : H[1 .. n] \in Word
  BY AddUnfold
<1>4. P(i - 1)
  <2>1. i - 1 \in Nat /\ i - 1 <= Len(s) /\ i - 1 <= Len(t)
    BY <1>1
  <2>2. \A j \in 1 .. i - 1 : s[j] = t[j]
    BY <1>1
  <2> HIDE DEF F, H
  <2> QED BY <2>1, <2>2, SamePrefix DEF F, H
<1>5. P(N)
  BY <1>1, AddIsFold
<1> HIDE DEF F, H
<1>6. ASSUME NEW n \in i + 1 .. N - 1, P(n + 1)
      PROVE  P(n)
  <2>1. n \in 0 .. N - 1 /\ n \in 0 .. N /\ n + 1 \in 1 .. N /\ n + 1 # i /\ n + 1 # i + 1
    BY <1>1
  <2>2. F[1 .. n] \in Word /\ H[1 .. n] \in Word /\ s[n + 1] = t[n + 1]
    BY <1>1, <1>2, <1>3, <2>1
  <2>3. crc16_step(F[1 .. n], s[n + 1]) = crc16_step(H[1 .. n], s[n + 1])
    BY <1>2, <1>3, <1>6, <2>1, <2>2
  <2> QED BY <2>2, <2>3, StepInjective
<1>7. P(i + 1)
  <2> DEFINE M == N - i - 1
             T == {k \in 0 .. M : P(N - k)}
  <2>1. M \in Nat
    BY <1>1
  <2>2. 0 \in T
    BY <1>1, <1>5, <2>1
  <2>3. ASSUME NEW k \in 0 .. M - 1, k \in T
        PROVE  k + 1 \in T
    <3>1. k + 1 \in 0 .. M /\ N - (k + 1) \in i + 1 .. N - 1 /\ N - (k + 1) + 1 = N - k
      BY <1>1
    <3>2. P(N - (k + 1) + 1)
      BY <2>3, <3>1
    <3> HIDE DEF P
    <3>3. P(N - (k + 1))
      BY <1>6, <3>1, <3>2
    <3> QED BY <3>1, <3>3
  <2> HIDE DEF T
  <2>4. \A k \in 0 .. M : k \in T
    BY <2>1, <2>2, <2>3, UpTo
  <2>5. M \in 0 .. M /\ N - M = i + 1
    BY <1>1, <2>1
  <2> QED BY <2>4, <2>5 DEF T
<1>8. BitsOf(s[i]) = BitsOf(t[i]) /\ BitsOf(s[i + 1]) = BitsOf(t[i + 1])
  <2>1. i - 1 \in 0 .. N - 1 /\ i - 1 \in 0 .. N /\ i \in 0 .. N - 1 /\ (i - 1) + 1 = i
    BY <1>1
  <2>2. F[1 .. i - 1] \in Word
    BY <1>2, <2>1
  <2>3. F[1 .. i] = crc16_step(F[1 .. i - 1], s[i]) /\ H[1 .. i] = crc16_step(F[1 .. i - 1], t[i])
    <3>1. F[1 .. (i - 1) + 1] = crc16_step(F[1 .. i - 1], s[(i - 1) + 1])
      BY <1>2, <2>1
    <3>2. H[1 .. (i - 1) + 1] = crc16_step(H[1 .. i - 1], t[(i - 1) + 1])
      BY <1>3, <2>1
    <3> QED BY <1>4, <2>1, <3>1, <3>2
  <2>4. F[1 .. i + 1] = crc16_step(F[1 .. i], s[i + 1]) /\ H[1 .. i + 1] = crc16_step(H[1 .. i], t[i + 1])
    BY <1>2, <1>3, <2>1
  <2>5. crc16_step(crc16_step(F[1 .. i - 1], s[i]), s[i + 1])
          = crc16_step(crc16_step(F[1 .. i - 1], t[i]), t[i + 1])
    BY <1>7, <2>3, <2>4
  <2> QED BY <2>2, <2>5, TwoStepsInjective
<1>9. s[i] \in Byte /\ t[i] \in Byte /\ s[i + 1] \in Byte /\ t[i + 1] \in Byte
  BY <1>1
<1>10. s[i] = t[i]
  BY <1>8, <1>9, SameByte
<1>11. s[i + 1] = t[i + 1]
  <2> DEFINE x == s[i + 1]
             y == t[i + 1]
  <2>1. x \in Byte /\ y \in Byte /\ BitsOf(x) = BitsOf(y)
    BY <1>8, <1>9
  <2> HIDE DEF x, y
  <2>2. x = y
    BY <2>1, SameByte
  <2> QED BY <2>2 DEF x, y
<1> QED BY <1>10, <1>11

\* Whatever two bytes in a row of any message are replaced by, the CRC shows it
\* (crc16.c; readcook compares it).
THEOREM DamageIsDetected == CSpec => []DamageDetected
<1>1. ASSUME data \in Seq(Byte), crc = crc16_add(crc16_prepare, data)
      PROVE  DamageDetected
  <2>1. ASSUME NEW i \in 1 .. Len(data) - 1, NEW b1 \in Bytes, NEW b2 \in Bytes,
               crc16_add(crc16_prepare, [data EXCEPT ![i] = b1, ![i + 1] = b2]) = crc
        PROVE  [data EXCEPT ![i] = b1, ![i + 1] = b2] = data
    <3> DEFINE damaged == [data EXCEPT ![i] = b1, ![i + 1] = b2]
    <3>1. Len(data) \in Nat /\ DOMAIN data = 1 .. Len(data) /\ b1 \in Byte /\ b2 \in Byte
      BY <1>1, BytesAssumption DEF Byte
    <3>2. /\ damaged \in Seq(Byte) /\ Len(damaged) = Len(data)
          /\ \A j \in 1 .. Len(data) : j = i \/ j = i + 1 \/ damaged[j] = data[j]
          /\ DOMAIN damaged = DOMAIN data
      <4>1. damaged \in [1 .. Len(data) -> Byte]
        BY <1>1, <3>1
      <4> QED BY <1>1, <3>1, <4>1
    <3> HIDE DEF damaged
    <3>3. crc16_add(crc16_prepare, data) = crc16_add(crc16_prepare, damaged)
      BY <1>1, <2>1 DEF damaged
    <3>4. data[i] = damaged[i] /\ data[i + 1] = damaged[i + 1]
      <4>1. \A j \in 1 .. Len(data) : j = i \/ j = i + 1 \/ data[j] = damaged[j]
        BY <3>2
      <4>2. i \in 1 .. Len(data) - 1
        OBVIOUS
      <4> QED BY <1>1, <3>2, <3>3, <4>1, <4>2, StartWord, SameTwoBytes
    <3>5. \A j \in 1 .. Len(data) : damaged[j] = data[j]
      BY <3>2, <3>4
    <3>6. damaged = data
      BY <1>1, <3>1, <3>2, <3>5
    <3> QED BY <3>6 DEF damaged
  <2> QED BY <2>1 DEF DamageDetected
<1> QED BY <1>1, CrcOfData, PTL

\* With a Crc that tells words apart as crc16_add does, readcook refuses a frame in which one
\* byte that the CRC covers, or two in a row, were damaged (osdpprotocol.cpp: readcook),
\* unless the damage makes it look for a checksum instead.
THEOREM DamageIsRefused ==
  ASSUME \A s, t \in Seq(Byte) :
           Crc(s) = Crc(t) => crc16_add(crc16_prepare, s) = crc16_add(crc16_prepare, t),
         NEW frame \in Seq(Byte), NEW i \in 1 .. Len(frame) - 3, NEW b1 \in Byte, NEW b2 \in Byte,
         NEW damaged, damaged = [frame EXCEPT ![i] = b1, ![i + 1] = b2], damaged # frame,
         Len(frame) > 5, HasCrc(frame), HasCrc(damaged), Checked(frame) # ERR_CRC
  PROVE  Checked(damaged) = ERR_CRC
<1> DEFINE n == Len(frame)
           s == SubSeq(frame, 1, n - 2)
           t == SubSeq(damaged, 1, n - 2)
<1>1. n \in Nat /\ n > 5 /\ i \in 1 .. n - 3 /\ DOMAIN frame = 1 .. n
  OBVIOUS
<1>2. /\ damaged \in Seq(Byte) /\ Len(damaged) = n /\ DOMAIN damaged = 1 .. n
      /\ \A j \in 1 .. n : j = i \/ j = i + 1 \/ damaged[j] = frame[j]
  <2>1. damaged \in [1 .. n -> Byte]
    BY <1>1
  <2> QED BY <1>1, <2>1
<1>3. /\ s \in Seq(Byte) /\ Len(s) = n - 2 /\ \A j \in 1 .. n - 2 : s[j] = frame[j]
      /\ t \in Seq(Byte) /\ Len(t) = n - 2 /\ \A j \in 1 .. n - 2 : t[j] = damaged[j]
  <2> HIDE DEF n
  <2>1. ASSUME NEW f \in Seq(Byte), Len(f) = n
        PROVE  LET g == SubSeq(f, 1, n - 2)
               IN  g \in Seq(Byte) /\ Len(g) = n - 2 /\ \A j \in 1 .. n - 2 : g[j] = f[j]
    BY <1>1, <2>1
  <2> QED BY <1>2, <2>1 DEF n
<1>4. Crc(s) = frame[n - 1] + 256 * frame[n]
  <2> HIDE DEF s
  <2>1. Checked(frame) = IF Crc(s) = frame[n - 1] + 256 * frame[n] THEN n - 2 ELSE ERR_CRC
    BY DEF Checked, s
  <2> QED BY <2>1
<1>5. Checked(damaged) = IF Crc(t) = damaged[n - 1] + 256 * damaged[n] THEN n - 2 ELSE ERR_CRC
  <2> HIDE DEF n
  <2> QED BY <1>2 DEF Checked
<1> HIDE DEF n, s, t
<1>6. damaged[n - 1] = frame[n - 1] /\ damaged[n] = frame[n]
  BY <1>1, <1>2
<1>7. SUFFICES ASSUME Crc(s) = Crc(t)
               PROVE  FALSE
  BY <1>4, <1>5, <1>6
<1>8. crc16_add(crc16_prepare, s) = crc16_add(crc16_prepare, t)
  BY <1>3, <1>7
<1>9. s[i] = t[i] /\ s[i + 1] = t[i + 1]
  <2>1. i \in 1 .. Len(s) - 1 /\ Len(t) = Len(s)
    BY <1>1, <1>3
  <2>2. \A j \in 1 .. Len(s) : j = i \/ j = i + 1 \/ s[j] = t[j]
    <3>1. \A j \in 1 .. n - 2 : j \in 1 .. n
      BY <1>1
    <3> QED BY <1>2, <1>3, <3>1
  <2> QED BY <1>3, <1>8, <2>1, <2>2, StartWord, SameTwoBytes
<1>10. damaged[i] = frame[i] /\ damaged[i + 1] = frame[i + 1]
  BY <1>1, <1>3, <1>9
<1>11. \A j \in 1 .. n : damaged[j] = frame[j]
  BY <1>2, <1>10
<1>12. damaged = frame
  BY <1>1, <1>2, <1>11
<1> QED BY <1>12

-----------------------------------------------------------------------------
(* The division, subtraction by subtraction *)

LEMMA InTimes ==
  ASSUME NEW p \in SUBSET Int, NEW n \in Int
  PROVE  Times(p, n) \in SUBSET Int /\ \A e \in Int : e \in Times(p, n) <=> e - n \in p
<1>1. Times(p, n) \in SUBSET Int
  BY DEF Times
<1>2. ASSUME NEW e \in Int
      PROVE  e \in Times(p, n) <=> e - n \in p
  <2>1. ASSUME e - n \in p
        PROVE  e \in Times(p, n)
    <3>1. (e - n) + n = e
      OBVIOUS
    <3> QED BY <2>1, <3>1 DEF Times
  <2>2. ASSUME e \in Times(p, n)
        PROVE  e - n \in p
    <3>1. PICK d \in p : e = d + n
      BY <2>2 DEF Times
    <3>2. d \in Int
      BY <3>1
    <3> QED BY <3>1, <3>2
  <2> QED BY <2>1, <2>2
<1> QED BY <1>1, <1>2

\* A subtraction at e flips the generator's four exponents, moved up to e, if p has e.
LEMMA Subtracted ==
  ASSUME NEW p \in SUBSET Int, NEW e \in Int
  PROVE  /\ Subtract(p, e) \in SUBSET Int
         /\ \A i \in Int : i \in Subtract(p, e) <=>
              ~(i \in p <=> e \in p /\ i \in {e, e - 4, e - 11, e - 16})
<1>1. G \in SUBSET Int /\ e - 16 \in Int
  BY DEF G
<1>2. Times(G, e - 16) \in SUBSET Int /\ \A i \in Int : i \in Times(G, e - 16) <=> i - (e - 16) \in G
  BY <1>1, InTimes
<1>3. \A i \in Int : i - (e - 16) \in G <=> i \in {e, e - 4, e - 11, e - 16}
  BY DEF G
<1> DEFINE M == Times(G, e - 16)
<1> HIDE DEF M
<1>4. M \in SUBSET Int /\ \A i \in Int : i \in M <=> i \in {e, e - 4, e - 11, e - 16}
  BY <1>2, <1>3 DEF M
<1>5. Subtract(p, e) = IF e \in p THEN Xor(p, M) ELSE p
  BY DEF Subtract, M
<1>6. \A i \in Int : i \in Xor(p, M) <=> ~(i \in p <=> i \in M)
  BY XorBit
<1>7. Xor(p, M) \in SUBSET Int
  BY <1>4 DEF Xor
<1>8. CASE e \in p
  <2>1. Subtract(p, e) = Xor(p, M)
    BY <1>5, <1>8
  <2> QED BY <1>4, <1>6, <1>7, <1>8, <2>1
<1>9. CASE e \notin p
  BY <1>5, <1>9
<1> QED BY <1>8, <1>9

\* What is left of p after the subtractions at a set of places of a list of exponents.
Divided(p, exps) ==
  LET iter[s \in SUBSET DOMAIN exps] ==
        IF s = {} THEN p ELSE Subtract(iter[s \ {Max(s)}], exps[Max(s)])
  IN  iter

LEMMA DivisionIsFold ==
  ASSUME NEW p, NEW exps
  PROVE  FoldLeft(Subtract, p, exps) = Divided(p, exps)[DOMAIN exps]
BY DEF FoldLeft, MapThenFoldSet, Divided

LEMMA DivisionUnfold ==
  ASSUME NEW p \in SUBSET Int, NEW N \in Nat, NEW exps \in [1 .. N -> Int]
  PROVE  LET F == Divided(p, exps)
         IN  /\ F[1 .. 0] = p
             /\ \A n \in 0 .. N - 1 : F[1 .. n + 1] = Subtract(F[1 .. n], exps[n + 1])
             /\ \A n \in 0 .. N : F[1 .. n] \in SUBSET Int
<1> DEFINE step == [q \in (SUBSET Int) \X (1 .. N) |-> Subtract(q[1], exps[q[2]])]
           F == Divided(p, exps)
<1>1. DOMAIN exps = 1 .. N
  OBVIOUS
<1>2. step \in [(SUBSET Int) \X (1 .. N) -> SUBSET Int]
  <2>1. ASSUME NEW q \in (SUBSET Int) \X (1 .. N)
        PROVE  Subtract(q[1], exps[q[2]]) \in SUBSET Int
    <3>1. q[1] \in SUBSET Int /\ exps[q[2]] \in Int
      OBVIOUS
    <3> QED BY <3>1, Subtracted
  <2> QED BY <2>1
<1>3. \A r \in SUBSET Int, i \in 1 .. N : step[<<r, i>>] = Subtract(r, exps[i])
  OBVIOUS
<1> HIDE DEF step, F
<1>4. Foldable(N, SUBSET Int, p, step)
  BY <1>2, FoldExists
<1>5. PICK g \in [SUBSET (1 .. N) -> SUBSET Int] : \A s \in SUBSET (1 .. N) :
        g[s] = IF s = {} THEN p ELSE step[<<g[s \ {Max(s)}], Max(s)>>]
  BY <1>4 DEF Foldable
<1>6. \A s \in SUBSET (1 .. N) :
        g[s] = IF s = {} THEN p ELSE Subtract(g[s \ {Max(s)}], exps[Max(s)])
  <2>1. ASSUME NEW s \in SUBSET (1 .. N), s # {}
        PROVE  g[s] = Subtract(g[s \ {Max(s)}], exps[Max(s)])
    <3>1. Max(s) \in 1 .. N /\ g[s \ {Max(s)}] \in SUBSET Int
      BY <2>1, MaxIs
    <3>2. g[s] = step[<<g[s \ {Max(s)}], Max(s)>>]
      BY <1>5, <2>1
    <3> QED BY <1>3, <3>1, <3>2
  <2> QED BY <1>5, <2>1
<1>7. g = [s \in SUBSET DOMAIN exps |->
             IF s = {} THEN p ELSE Subtract(g[s \ {Max(s)}], exps[Max(s)])]
  BY <1>1, <1>6
<1>8. F = [s \in SUBSET DOMAIN exps |->
             IF s = {} THEN p ELSE Subtract(F[s \ {Max(s)}], exps[Max(s)])]
  BY <1>7, Zenon DEF F, Divided
<1>9. F[1 .. 0] = p
  BY <1>8, Places
<1>10. ASSUME NEW n \in 0 .. N - 1
       PROVE  F[1 .. n + 1] = Subtract(F[1 .. n], exps[n + 1])
  <2> DEFINE s == 1 .. n + 1
  <2>1. s \in SUBSET DOMAIN exps /\ n \in Nat
    BY <1>1
  <2>2. s # {} /\ Max(s) = n + 1 /\ s \ {n + 1} = 1 .. n
    BY <2>1, Places
  <2> HIDE DEF s
  <2>3. F[s] = Subtract(F[s \ {Max(s)}], exps[Max(s)])
    BY <1>8, <2>1, <2>2
  <2>4. F[s] = Subtract(F[1 .. n], exps[n + 1])
    BY <2>2, <2>3, Zenon
  <2> QED BY <2>4 DEF s
<1>11. \A n \in 0 .. N : F[1 .. n] \in SUBSET Int
  <2> DEFINE T == {n \in 0 .. N : F[1 .. n] \in SUBSET Int}
  <2>1. 0 \in T
    <3>1. F[1 .. 0] \in SUBSET Int
      BY <1>9, Zenon
    <3>2. 0 \in 0 .. N
      OBVIOUS
    <3> QED BY <3>1, <3>2, Zenon
  <2>2. ASSUME NEW n \in 0 .. N - 1, n \in T
        PROVE  n + 1 \in T
    <3>1. n + 1 \in 0 .. N /\ F[1 .. n] \in SUBSET Int /\ exps[n + 1] \in Int
      BY <2>2
    <3>2. Subtract(F[1 .. n], exps[n + 1]) \in SUBSET Int
      BY <3>1, Subtracted
    <3> QED BY <1>10, <3>1, <3>2
  <2> HIDE DEF T
  <2>3. \A n \in 0 .. N : n \in T
    BY <2>1, <2>2, UpTo
  <2> QED BY <2>3 DEF T
<1> QED BY <1>9, <1>10, <1>11 DEF F

-----------------------------------------------------------------------------
(* A message with one byte more *)

\* The bits of a message, 16 places up.
Message(bytes) ==
  {e \in 16 .. 8 * Len(bytes) + 15 :
     e % 8 \in BitsOf(bytes[Len(bytes) - ((e - 16) \div 8)])}

LEMMA DividendIs ==
  ASSUME NEW bytes
  PROVE  Dividend(bytes) = Xor(Message(bytes), Times(crc16_prepare, 8 * Len(bytes)))
BY DEF Dividend, Message

\* A byte more moves the message up by 8 and goes where its last byte was.
LEMMA MessageAppend ==
  ASSUME NEW bytes \in Seq(Byte), NEW byte \in Byte, NEW e \in Int
  PROVE  e \in Message(Append(bytes, byte)) <=> e - 8 \in Message(bytes) \/ e - 16 \in BitsOf(byte)
<1> DEFINE n == Len(bytes)
           more == Append(bytes, byte)
<1>1. /\ n \in Nat /\ Len(more) = n + 1 /\ more[n + 1] = byte
      /\ \A i \in 1 .. n : more[i] = bytes[i]
  OBVIOUS
<1>2. BitsOf(byte) \subseteq 0 .. 7
  BY DEF BitsOf
<1> HIDE DEF n, more
<1>3. e \in Message(more) <=>
        e \in 16 .. 8 * n + 23 /\ e % 8 \in BitsOf(more[n + 1 - ((e - 16) \div 8)])
  <2>1. 8 * (n + 1) + 15 = 8 * n + 23
    BY <1>1
  <2> QED BY <1>1, <2>1 DEF Message
<1>4. e - 8 \in Message(bytes) <=>
        e - 8 \in 16 .. 8 * n + 15 /\ (e - 8) % 8 \in BitsOf(bytes[n - ((e - 8 - 16) \div 8)])
  BY DEF Message, n
<1>5. CASE e \in 16 .. 23
  <2>1. (e - 16) \div 8 = 0 /\ e % 8 = e - 16 /\ e \in 16 .. 8 * n + 23
        /\ e - 8 \notin 16 .. 8 * n + 15
    BY <1>1, <1>5
  <2>2. n + 1 - ((e - 16) \div 8) = n + 1
    BY <1>1, <2>1
  <2>3. e \in Message(more) <=> e - 16 \in BitsOf(byte)
    BY <1>1, <1>3, <2>1, <2>2
  <2>4. e - 8 \notin Message(bytes)
    BY <1>4, <2>1
  <2> QED BY <2>3, <2>4 DEF more
<1>6. CASE e \in 24 .. 8 * n + 23
  <2> DEFINE d == (e - 8 - 16) \div 8
  <2>1. (e - 16) \div 8 = d + 1 /\ (e - 8) % 8 = e % 8 /\ d \in 0 .. n - 1
    <3>1. ASSUME NEW f \in Nat
          PROVE  (f + 8) \div 8 = f \div 8 + 1 /\ (f + 16) % 8 = (f + 24) % 8
      OBVIOUS
    <3>2. ASSUME NEW f \in Nat, f < 8 * n
          PROVE  f \div 8 \in 0 .. n - 1
      BY <1>1, <3>2
    <3> DEFINE f == e - 24
    <3>3. /\ f \in Nat /\ f < 8 * n /\ e - 16 = f + 8 /\ e - 8 - 16 = f
          /\ e - 8 = f + 16 /\ e = f + 24
      BY <1>1, <1>6
    <3> HIDE DEF f
    <3> QED BY <3>1, <3>2, <3>3
  <2>2. e \in 16 .. 8 * n + 23 /\ e - 8 \in 16 .. 8 * n + 15 /\ e - 16 \notin BitsOf(byte)
    BY <1>1, <1>2, <1>6
  <2> HIDE DEF d
  <2>3. n + 1 - ((e - 16) \div 8) = n - d /\ n - d \in 1 .. n
    BY <1>1, <2>1
  <2>4. more[n - d] = bytes[n - d]
    BY <1>1, <2>3
  <2>5. e - 8 \in Message(bytes) <=> e % 8 \in BitsOf(bytes[n - d])
    BY <1>4, <2>1, <2>2 DEF d
  <2>6. e \in Message(more) <=> e % 8 \in BitsOf(bytes[n - d])
    BY <1>3, <2>2, <2>3, <2>4
  <2> QED BY <2>2, <2>5, <2>6 DEF more
<1>7. CASE e \notin 16 .. 23 /\ e \notin 24 .. 8 * n + 23
  <2>1. e \notin 16 .. 8 * n + 23 /\ e - 8 \notin 16 .. 8 * n + 15 /\ e - 16 \notin 0 .. 7
    <3>1. e < 16 \/ e > 8 * n + 23
      BY <1>1, <1>7
    <3> QED BY <1>1, <3>1
  <2>2. e \notin Message(more) /\ e - 8 \notin Message(bytes) /\ e - 16 \notin BitsOf(byte)
    BY <1>2, <1>3, <1>4, <2>1
  <2> QED BY <2>2 DEF more
<1> QED BY <1>5, <1>6, <1>7 DEF more

LEMMA DividendAppend ==
  ASSUME NEW bytes \in Seq(Byte), NEW byte \in Byte
  PROVE  /\ Dividend(bytes) \in SUBSET Int
         /\ Dividend(Append(bytes, byte)) = Xor(Times(Dividend(bytes), 8), Times(BitsOf(byte), 16))
<1> DEFINE n == Len(bytes)
           more == Append(bytes, byte)
           D == Dividend(bytes)
           E == Dividend(more)
           c == BitsOf(byte)
           P == crc16_prepare
<1>1. /\ n \in Nat /\ Len(more) = n + 1 /\ 8 * n \in Int /\ 8 * (n + 1) = 8 * n + 8
      /\ c \in SUBSET Int /\ c \subseteq 0 .. 7 /\ P \in SUBSET Int
  BY DEF BitsOf, crc16_prepare
<1>2. D = Xor(Message(bytes), Times(P, 8 * n)) /\ E = Xor(Message(more), Times(P, 8 * n + 8))
  BY <1>1, DividendIs
<1>3. \A e \in Int : e \in Message(more) <=> e - 8 \in Message(bytes) \/ e - 16 \in c
  BY MessageAppend
<1>4. /\ Message(bytes) \in SUBSET Int /\ \A e \in Message(bytes) : e >= 16
      /\ Message(more) \in SUBSET Int
  <2> HIDE DEF more
  <2> QED BY <1>1 DEF Message, n
<1> HIDE DEF n, more, D, E, c, P
<1>5. /\ Times(P, 8 * n) \in SUBSET Int /\ Times(P, 8 * n + 8) \in SUBSET Int
      /\ \A e \in Int : e \in Times(P, 8 * n) <=> e - 8 * n \in P
      /\ \A e \in Int : e \in Times(P, 8 * n + 8) <=> e - (8 * n + 8) \in P
  <2>1. ASSUME NEW m \in Int
        PROVE  Times(P, m) \in SUBSET Int /\ \A e \in Int : e \in Times(P, m) <=> e - m \in P
    BY <1>1, InTimes
  <2>2. 8 * n \in Int /\ 8 * n + 8 \in Int
    BY <1>1
  <2> QED BY <2>1, <2>2
<1>6. D \in SUBSET Int /\ E \in SUBSET Int
  BY <1>2, <1>4, <1>5 DEF Xor
<1>7. /\ Times(D, 8) \in SUBSET Int /\ Times(c, 16) \in SUBSET Int
      /\ \A e \in Int : e \in Times(D, 8) <=> e - 8 \in D
      /\ \A e \in Int : e \in Times(c, 16) <=> e - 16 \in c
  <2>1. Times(D, 8) \in SUBSET Int /\ \A e \in Int : e \in Times(D, 8) <=> e - 8 \in D
    BY <1>6, InTimes
  <2>2. Times(c, 16) \in SUBSET Int /\ \A e \in Int : e \in Times(c, 16) <=> e - 16 \in c
    BY <1>1, InTimes
  <2> QED BY <2>1, <2>2
<1>8. ASSUME NEW e \in Int
      PROVE  e \in E <=> ~(e \in Times(D, 8) <=> e \in Times(c, 16))
  <2>1. e \in E <=> ~(e \in Message(more) <=> e - (8 * n + 8) \in P)
    BY <1>2, <1>5, XorBit
  <2>2. e - 8 \in D <=> ~(e - 8 \in Message(bytes) <=> e - 8 - 8 * n \in P)
    BY <1>2, <1>5, XorBit
  <2>3. e - (8 * n + 8) = e - 8 - 8 * n
    BY <1>1
  <2>4. ~(e - 8 \in Message(bytes) /\ e - 16 \in c)
    BY <1>1, <1>4
  <2> QED BY <1>3, <1>7, <2>1, <2>2, <2>3, <2>4
<1>9. E = Xor(Times(D, 8), Times(c, 16))
  BY <1>6, <1>7, <1>8 DEF Xor
<1> QED BY <1>6, <1>9 DEF D, E, c, more

\* A subtraction above the new byte is the one of the shorter message, moved up by 8.
LEMMA SubtractAbove ==
  ASSUME NEW p \in SUBSET Int, NEW c \in SUBSET (0 .. 7), NEW e \in Int, e >= 16
  PROVE  Subtract(Xor(Times(p, 8), Times(c, 16)), e + 8) = Xor(Times(Subtract(p, e), 8), Times(c, 16))
<1> DEFINE q == Xor(Times(p, 8), Times(c, 16))
           r == Subtract(p, e)
           s == Subtract(q, e + 8)
<1>1. /\ Times(p, 8) \in SUBSET Int /\ \A i \in Int : i \in Times(p, 8) <=> i - 8 \in p
      /\ Times(c, 16) \in SUBSET Int /\ \A i \in Int : i \in Times(c, 16) <=> i - 16 \in c
  BY InTimes
<1>2. q \in SUBSET Int /\ \A i \in Int : i \in q <=> ~(i - 8 \in p <=> i - 16 \in c)
  BY <1>1 DEF Xor
<1>3. /\ r \in SUBSET Int
      /\ \A i \in Int : i \in r <=> ~(i \in p <=> e \in p /\ i \in {e, e - 4, e - 11, e - 16})
  BY Subtracted
<1> HIDE DEF q, r
<1>4. /\ s \in SUBSET Int
      /\ \A i \in Int : i \in s <=>
           ~(i \in q <=> e + 8 \in q /\ i \in {e + 8, e + 8 - 4, e + 8 - 11, e + 8 - 16})
  BY <1>2, Subtracted
<1>5. Times(r, 8) \in SUBSET Int /\ \A i \in Int : i \in Times(r, 8) <=> i - 8 \in r
  BY <1>3, InTimes
<1> HIDE DEF s
<1>6. e + 8 \in q <=> e \in p
  BY <1>2
<1>7. ASSUME NEW i \in Int
      PROVE  i \in s <=> i \in Xor(Times(r, 8), Times(c, 16))
  <2>1. i \in {e + 8, e + 8 - 4, e + 8 - 11, e + 8 - 16} <=> i - 8 \in {e, e - 4, e - 11, e - 16}
    OBVIOUS
  <2>2. i \in s <=> ~(i \in q <=> e \in p /\ i - 8 \in {e, e - 4, e - 11, e - 16})
    BY <1>4, <1>6, <2>1
  <2>3. i \in Times(r, 8) <=> ~(i - 8 \in p <=> e \in p /\ i - 8 \in {e, e - 4, e - 11, e - 16})
    BY <1>3, <1>5
  <2> HIDE DEF s
  <2> QED BY <1>1, <1>2, <2>2, <2>3, XorBit
<1>8. s = Xor(Times(r, 8), Times(c, 16))
  <2>1. Xor(Times(r, 8), Times(c, 16)) \in SUBSET Int
    BY <1>1, <1>5 DEF Xor
  <2> QED BY <1>4, <1>7, <2>1
<1> QED BY <1>8 DEF q, r, s

-----------------------------------------------------------------------------
(* The last eight subtractions *)

\* Four subtractions in a row, from h + 3 down to h, do not meet: the bit that each looks
\* at is the one p had.
LEMMA FourSubtractions ==
  ASSUME NEW h \in 16 .. 20, NEW p \in SUBSET (0 .. h + 3)
  PROVE  LET q == Subtract(Subtract(Subtract(Subtract(p, h + 3), h + 2), h + 1), h)
             Top(i) == i \in h .. h + 3 /\ i \in p
         IN  /\ q \in SUBSET (0 .. h - 1)
             /\ \A i \in 0 .. h - 1 :
                  i \in q <=> ~(~(i \in p <=> Top(i + 4)) <=> ~(Top(i + 11) <=> Top(i + 16)))
<1> DEFINE p1 == Subtract(p, h + 3)
           p2 == Subtract(p1, h + 2)
           p3 == Subtract(p2, h + 1)
           q == Subtract(p3, h)
           Top(i) == i \in h .. h + 3 /\ i \in p
           Flips(i, e) == i \in {e, e - 4, e - 11, e - 16}
<1>1. /\ p1 \in SUBSET Int
      /\ \A i \in Int : i \in p1 <=> ~(i \in p <=> h + 3 \in p /\ Flips(i, h + 3))
  BY Subtracted
<1> HIDE DEF p1
<1>2. /\ p2 \in SUBSET Int
      /\ \A i \in Int : i \in p2 <=> ~(i \in p1 <=> h + 2 \in p1 /\ Flips(i, h + 2))
  BY <1>1, Subtracted
<1> HIDE DEF p2
<1>3. /\ p3 \in SUBSET Int
      /\ \A i \in Int : i \in p3 <=> ~(i \in p2 <=> h + 1 \in p2 /\ Flips(i, h + 1))
  BY <1>2, Subtracted
<1> HIDE DEF p3
<1>4. /\ q \in SUBSET Int
      /\ \A i \in Int : i \in q <=> ~(i \in p3 <=> h \in p3 /\ Flips(i, h))
  BY <1>3, Subtracted
<1> HIDE DEF q
<1>5. (h + 2 \in p1 <=> h + 2 \in p) /\ (h + 1 \in p1 <=> h + 1 \in p) /\ (h \in p1 <=> h \in p)
  BY <1>1
<1>6. (h + 1 \in p2 <=> h + 1 \in p) /\ (h \in p2 <=> h \in p)
  BY <1>2, <1>5
<1>7. h \in p3 <=> h \in p
  BY <1>3, <1>6
<1>8. \A i \in Int : i \in q <=>
        ~(~(~(~(i \in p <=> h + 3 \in p /\ Flips(i, h + 3)) <=> h + 2 \in p /\ Flips(i, h + 2))
            <=> h + 1 \in p /\ Flips(i, h + 1)) <=> h \in p /\ Flips(i, h))
  <2> HIDE DEF Flips
  <2> QED BY <1>1, <1>2, <1>3, <1>4, <1>5, <1>6, <1>7
<1>9. q \in SUBSET (0 .. h - 1)
  <2>1. ASSUME NEW i \in q
        PROVE  i \in 0 .. h - 1
    <3>1. i \in 0 .. h + 3
      <4>1. i \in p \/ Flips(i, h + 3) \/ Flips(i, h + 2) \/ Flips(i, h + 1) \/ Flips(i, h)
        BY <1>4, <1>8
      <4>2. ASSUME NEW e \in h .. h + 3, Flips(i, e)
            PROVE  i \in 0 .. h + 3
        BY <4>2
      <4>3. h \in h .. h + 3 /\ h + 1 \in h .. h + 3 /\ h + 2 \in h .. h + 3 /\ h + 3 \in h .. h + 3
        OBVIOUS
      <4> HIDE DEF Flips
      <4>4. i \notin p => i \in 0 .. h + 3
        BY <4>1, <4>2, <4>3
      <4> QED BY <4>4
    <3>2. i # h /\ i # h + 1 /\ i # h + 2 /\ i # h + 3
      BY <1>8
    <3> QED BY <3>1, <3>2
  <2> QED BY <2>1
<1>10. ASSUME NEW i \in 0 .. h - 1
       PROVE  i \in q <=> ~(~(i \in p <=> Top(i + 4)) <=> ~(Top(i + 11) <=> Top(i + 16)))
  <2>1. CASE i \in h - 4 .. h - 1
    BY <1>8, <2>1
  <2>2. CASE i \in h - 11 .. h - 8
    BY <1>8, <2>2
  <2>3. CASE i \in h - 16 .. h - 13
    BY <1>8, <2>3
  <2>4. CASE i \notin h - 4 .. h - 1 /\ i \notin h - 11 .. h - 8 /\ i \notin h - 16 .. h - 13
    BY <1>8, <2>4
  <2> QED BY <2>1, <2>2, <2>3, <2>4
<1> QED BY <1>9, <1>10 DEF p1, p2, p3, q

\* The last eight subtractions are one turn of crc16_add's loop.
LEMMA LastSubtractions ==
  ASSUME NEW r \in Word, NEW byte,
         NEW p, p = Xor(Times(r, 8), Times(BitsOf(byte), 16)),
         NEW q, q = Subtract(Subtract(Subtract(Subtract(p, 23), 22), 21), 20)
  PROVE  Subtract(Subtract(Subtract(Subtract(q, 19), 18), 17), 16) = crc16_step(r, byte)
<1> DEFINE c == BitsOf(byte)
           x == Folded(r, byte)
           s == crc16_step(r, byte)
           t == Subtract(Subtract(Subtract(Subtract(q, 19), 18), 17), 16)
<1>1. c \subseteq 0 .. 7 /\ r \subseteq 0 .. 15 /\ c \in SUBSET Int /\ r \in SUBSET Int
  BY DEF BitsOf, Word
<1>2. p \in SUBSET (0 .. 23) /\ \A i \in 0 .. 23 : i \in p <=> ~(i - 8 \in r <=> i - 16 \in c)
  <2> HIDE DEF c
  <2>1. Times(r, 8) \in SUBSET Int /\ \A i \in Int : i \in Times(r, 8) <=> i - 8 \in r
    BY <1>1, InTimes
  <2>2. Times(c, 16) \in SUBSET Int /\ \A i \in Int : i \in Times(c, 16) <=> i - 16 \in c
    BY <1>1, InTimes
  <2>3. p \in SUBSET Int /\ \A i \in Int : i \in p <=> ~(i - 8 \in r <=> i - 16 \in c)
    BY <2>1, <2>2 DEF c, Xor
  <2>4. ASSUME NEW i \in p
        PROVE  i \in 0 .. 23
    <3>1. i \in Int /\ (i - 8 \in 0 .. 15 \/ i - 16 \in 0 .. 7)
      BY <1>1, <2>3
    <3> QED BY <3>1
  <2> QED BY <2>3, <2>4
<1>3. /\ q \in SUBSET (0 .. 19)
      /\ \A i \in 0 .. 19 : i \in q <=>
           ~(~(i \in p <=> i + 4 \in 20 .. 23 /\ i + 4 \in p)
             <=> ~(i + 11 \in 20 .. 23 /\ i + 11 \in p <=> i + 16 \in 20 .. 23 /\ i + 16 \in p))
  <2>1. 20 \in 16 .. 20 /\ 20 + 3 = 23 /\ 20 + 2 = 22 /\ 20 + 1 = 21 /\ 20 - 1 = 19
    OBVIOUS
  <2> QED BY <1>2, <2>1, FourSubtractions
<1>4. /\ t \in SUBSET (0 .. 15)
      /\ \A i \in 0 .. 15 : i \in t <=>
           ~(~(i \in q <=> i + 4 \in 16 .. 19 /\ i + 4 \in q)
             <=> ~(i + 11 \in 16 .. 19 /\ i + 11 \in q <=> i + 16 \in 16 .. 19 /\ i + 16 \in q))
  <2>1. 16 \in 16 .. 20 /\ 16 + 3 = 19 /\ 16 + 2 = 18 /\ 16 + 1 = 17 /\ 16 - 1 = 15
    OBVIOUS
  <2> QED BY <1>3, <2>1, FourSubtractions
<1> HIDE DEF t, c
\* p, bit by bit
<1>5. /\ \A i \in 0 .. 7 : i \notin p
      /\ \A i \in 0 .. 7 : i + 8 \in p <=> i \in r
      /\ \A i \in 0 .. 7 : i + 16 \in p <=> ~(i + 8 \in r <=> i \in c)
  <2>1. ASSUME NEW i \in 0 .. 7
        PROVE  /\ i \notin p
               /\ i + 8 \in p <=> i \in r
               /\ i + 16 \in p <=> ~(i + 8 \in r <=> i \in c)
    <3>1. /\ i \in 0 .. 23 /\ i - 8 \notin 0 .. 15 /\ i - 16 \notin 0 .. 7
          /\ i + 8 \in 0 .. 23 /\ (i + 8) - 8 = i /\ (i + 8) - 16 \notin 0 .. 7
          /\ i + 16 \in 0 .. 23 /\ (i + 16) - 8 = i + 8 /\ (i + 16) - 16 = i
      OBVIOUS
    <3> QED BY <1>1, <1>2, <3>1
  <2> QED BY <2>1
\* x, bit by bit
<1>6. /\ \A i \in 0 .. 3 : i \in x <=> ~(i + 16 \in p <=> i + 20 \in p)
      /\ \A i \in 4 .. 7 : i \in x <=> i + 16 \in p
  <2>1. /\ 0 \in x <=> ~(~(8 \in r <=> 0 \in c) <=> ~(12 \in r <=> 4 \in c))
        /\ 1 \in x <=> ~(~(9 \in r <=> 1 \in c) <=> ~(13 \in r <=> 5 \in c))
        /\ 2 \in x <=> ~(~(10 \in r <=> 2 \in c) <=> ~(14 \in r <=> 6 \in c))
        /\ 3 \in x <=> ~(~(11 \in r <=> 3 \in c) <=> ~(15 \in r <=> 7 \in c))
        /\ 4 \in x <=> ~(12 \in r <=> 4 \in c)
        /\ 5 \in x <=> ~(13 \in r <=> 5 \in c)
        /\ 6 \in x <=> ~(14 \in r <=> 6 \in c)
        /\ 7 \in x <=> ~(15 \in r <=> 7 \in c)
    BY FoldedBits DEF c
  <2> HIDE DEF x
  <2>2. /\ \A i \in 4 .. 7 : i \in x <=> ~(i + 8 \in r <=> i \in c)
        /\ \A i \in 0 .. 3 : i \in x <=>
             ~(~(i + 8 \in r <=> i \in c) <=> ~(i + 12 \in r <=> i + 4 \in c))
    BY <2>1
  <2>3. \A i \in 0 .. 3 : i + 20 \in p <=> ~(i + 12 \in r <=> i + 4 \in c)
    <3>1. \A i \in 0 .. 3 : i + 4 \in 0 .. 7 /\ (i + 4) + 16 = i + 20 /\ (i + 4) + 8 = i + 12
      OBVIOUS
    <3> QED BY <1>5, <3>1
  <2>4. /\ \A i \in 0 .. 3 : i \in 0 .. 7
        /\ \A i \in 4 .. 7 : i \in 0 .. 7
    OBVIOUS
  <2> QED BY <1>5, <2>2, <2>3, <2>4
<1> HIDE DEF x
\* q, bit by bit
<1>7. /\ \A i \in 0 .. 3 : i \notin q /\ (i + 16 \in q <=> i \in x)
      /\ \A i \in 4 .. 7 : i \in q <=> i \in x
      /\ 8 \in q <=> 0 \in r
      /\ \A i \in 4 .. 7 : i + 5 \in q <=> ~(i - 3 \in r <=> i \in x)
      /\ \A i \in 5 .. 7 : i + 8 \in q <=> i \in r
  <2>1. ASSUME NEW i \in 0 .. 3
        PROVE  i \notin q /\ (i + 16 \in q <=> i \in x)
    BY <1>3, <1>5, <1>6
  <2>2. ASSUME NEW i \in 4 .. 7
        PROVE  i \in q <=> i \in x
    BY <1>3, <1>5, <1>6
  <2>3. 8 \in q <=> 0 \in r
    BY <1>3, <1>5
  <2>4. ASSUME NEW i \in 4 .. 7
        PROVE  i + 5 \in q <=> ~(i - 3 \in r <=> i \in x)
    BY <1>3, <1>5, <1>6
  <2>5. ASSUME NEW i \in 5 .. 7
        PROVE  i + 8 \in q <=> i \in r
    BY <1>3, <1>5
  <2> QED BY <2>1, <2>2, <2>3, <2>4, <2>5
\* t, bit by bit
<1>8. /\ \A i \in 0 .. 4 : i \in t <=> i \in x
      /\ \A i \in 5 .. 7 : i \in t <=> ~(i - 5 \in x <=> i \in x)
      /\ 8 \in t <=> ~(0 \in r <=> 3 \in x)
      /\ \A i \in 9 .. 11 : i \in t <=> ~(i - 8 \in r <=> i - 5 \in x)
      /\ 12 \in t <=> ~(~(4 \in r <=> 0 \in x) <=> 7 \in x)
      /\ \A i \in 13 .. 15 : i \in t <=> ~(i - 8 \in r <=> i - 12 \in x)
  <2>1. ASSUME NEW i \in 0 .. 3
        PROVE  i \in t <=> i \in x
    BY <1>4, <1>7
  <2>2. 4 \in t <=> 4 \in x
    BY <1>4, <1>7
  <2>3. ASSUME NEW i \in 5 .. 7
        PROVE  i \in t <=> ~(i - 5 \in x <=> i \in x)
    <3>1. i - 5 \in 0 .. 3 /\ (i - 5) + 16 = i + 11
      OBVIOUS
    <3> QED BY <1>4, <1>7, <3>1
  <2>4. 8 \in t <=> ~(0 \in r <=> 3 \in x)
    <3>1. 3 \in 0 .. 3 /\ 3 + 16 = 19 /\ 8 + 11 = 19
      OBVIOUS
    <3> QED BY <1>4, <1>7, <3>1
  <2>5. ASSUME NEW i \in 9 .. 11
        PROVE  i \in t <=> ~(i - 8 \in r <=> i - 5 \in x)
    <3>1. i - 5 \in 4 .. 7 /\ (i - 5) + 5 = i /\ (i - 5) - 3 = i - 8
      OBVIOUS
    <3> QED BY <1>4, <1>7, <3>1
  <2>6. 12 \in t <=> ~(~(4 \in r <=> 0 \in x) <=> 7 \in x)
    <3>1. 0 \in 0 .. 3 /\ 0 + 16 = 16 /\ 7 \in 4 .. 7 /\ 7 + 5 = 12 /\ 7 - 3 = 4
      OBVIOUS
    <3> QED BY <1>4, <1>7, <3>1
  <2>7. ASSUME NEW i \in 13 .. 15
        PROVE  i \in t <=> ~(i - 8 \in r <=> i - 12 \in x)
    <3>1. i - 12 \in 0 .. 3 /\ (i - 12) + 16 = i + 4 /\ i - 8 \in 5 .. 7 /\ (i - 8) + 8 = i
      OBVIOUS
    <3> QED BY <1>4, <1>7, <3>1
  <2>8. \A i \in 0 .. 4 : i \in 0 .. 3 \/ i = 4
    OBVIOUS
  <2> QED BY <2>1, <2>2, <2>3, <2>4, <2>5, <2>6, <2>7, <2>8
<1>9. /\ s \in Word
      /\ 0 \in s <=> 0 \in x
      /\ 1 \in s <=> 1 \in x
      /\ 2 \in s <=> 2 \in x
      /\ 3 \in s <=> 3 \in x
      /\ 4 \in s <=> 4 \in x
      /\ 5 \in s <=> ~(0 \in x <=> 5 \in x)
      /\ 6 \in s <=> ~(1 \in x <=> 6 \in x)
      /\ 7 \in s <=> ~(2 \in x <=> 7 \in x)
      /\ 8 \in s <=> ~(0 \in r <=> 3 \in x)
      /\ 9 \in s <=> ~(1 \in r <=> 4 \in x)
      /\ 10 \in s <=> ~(2 \in r <=> 5 \in x)
      /\ 11 \in s <=> ~(3 \in r <=> 6 \in x)
      /\ 12 \in s <=> ~(~(4 \in r <=> 0 \in x) <=> 7 \in x)
      /\ 13 \in s <=> ~(5 \in r <=> 1 \in x)
      /\ 14 \in s <=> ~(6 \in r <=> 2 \in x)
      /\ 15 \in s <=> ~(7 \in r <=> 3 \in x)
  BY StepBits DEF x
<1> HIDE DEF s
<1>10. \A i \in 0 .. 15 : i \in t <=> i \in s
  BY <1>8, <1>9
<1>11. t = s
  BY <1>4, <1>9, <1>10 DEF Word
<1> QED BY <1>11 DEF t, s

-----------------------------------------------------------------------------
(* The remainder *)

\* The exponents that a division of bits bits goes through.
Exponents(bits) == [k \in 1 .. bits |-> bits + 16 - k]

LEMMA RemainderIs ==
  ASSUME NEW bytes \in Seq(Byte)
  PROVE  LET n == 8 * Len(bytes)
         IN  Remainder(bytes) = Divided(Dividend(bytes), Exponents(n))[1 .. n]
<1> DEFINE n == 8 * Len(bytes)
           exps == Exponents(n)
<1>1. n \in Nat /\ DOMAIN exps = 1 .. n
  BY DEF Exponents
<1>2. Remainder(bytes) = FoldLeft(Subtract, Dividend(bytes), exps)
  BY DEF Remainder, Exponents
<1> HIDE DEF exps
<1>3. Remainder(bytes) = Divided(Dividend(bytes), exps)[DOMAIN exps]
  BY <1>2, DivisionIsFold
<1> QED BY <1>1, <1>3 DEF exps

LEMMA ExponentsAre ==
  ASSUME NEW N \in Nat
  PROVE  /\ Exponents(N) \in [1 .. N -> Int]
         /\ \A k \in 1 .. N : Exponents(N)[k] = N + 16 - k
BY DEF Exponents

\* One byte more: the division goes on as it did without it, and then for eight bits.
LEMMA RemainderAppend ==
  ASSUME NEW bytes \in Seq(Byte), NEW byte \in Byte, Remainder(bytes) \in Word
  PROVE  Remainder(Append(bytes, byte)) = crc16_step(Remainder(bytes), byte)
<1> DEFINE N == 8 * Len(bytes)
           more == Append(bytes, byte)
           c == BitsOf(byte)
           D == Dividend(bytes)
           E == Dividend(more)
           X == Exponents(N)
           Y == Exponents(N + 8)
           F == Divided(D, X)
           H == Divided(E, Y)
           r == Remainder(bytes)
<1>1. N \in Nat /\ more \in Seq(Byte) /\ 8 * Len(more) = N + 8 /\ c \in SUBSET (0 .. 7)
  BY DEF BitsOf
<1>2. D \in SUBSET Int /\ E \in SUBSET Int /\ E = Xor(Times(D, 8), Times(c, 16))
  <2> HIDE DEF more
  <2>1. Dividend(bytes) \in SUBSET Int
    BY DividendAppend
  <2>2. Dividend(more) \in SUBSET Int
    BY <1>1, DividendAppend
  <2>3. Dividend(more) = Xor(Times(Dividend(bytes), 8), Times(BitsOf(byte), 16))
    BY DividendAppend DEF more
  <2> QED BY <2>1, <2>2, <2>3
<1>3. r = F[1 .. N] /\ Remainder(more) = H[1 .. N + 8]
  <2>1. r = F[1 .. N]
    BY RemainderIs
  <2> HIDE DEF more
  <2>2. Remainder(more) = Divided(Dividend(more), Exponents(8 * Len(more)))[1 .. 8 * Len(more)]
    BY <1>1, RemainderIs
  <2> QED BY <1>1, <2>1, <2>2
<1> HIDE DEF N, more, c, D, E, r
<1>4. /\ F[1 .. 0] = D
      /\ \A k \in 0 .. N - 1 : F[1 .. k + 1] = Subtract(F[1 .. k], N + 16 - (k + 1))
      /\ \A k \in 0 .. N : F[1 .. k] \in SUBSET Int
  <2>1. X \in [1 .. N -> Int] /\ \A k \in 1 .. N : X[k] = N + 16 - k
    BY <1>1, ExponentsAre
  <2> HIDE DEF X
  <2>2. /\ F[1 .. 0] = D
        /\ \A k \in 0 .. N - 1 : F[1 .. k + 1] = Subtract(F[1 .. k], X[k + 1])
        /\ \A k \in 0 .. N : F[1 .. k] \in SUBSET Int
    BY <1>1, <1>2, <2>1, DivisionUnfold
  <2>3. \A k \in 0 .. N - 1 : X[k + 1] = N + 16 - (k + 1)
    BY <1>1, <2>1
  <2> HIDE DEF F
  <2> QED BY <2>2, <2>3
<1>5. /\ H[1 .. 0] = E
      /\ \A k \in 0 .. N + 7 : H[1 .. k + 1] = Subtract(H[1 .. k], N + 24 - (k + 1))
      /\ \A k \in 0 .. N + 8 : H[1 .. k] \in SUBSET Int
  <2> DEFINE M == N + 8
  <2>1. M \in Nat
    BY <1>1
  <2>2. Y \in [1 .. M -> Int] /\ \A k \in 1 .. M : Y[k] = M + 16 - k
    BY <2>1, ExponentsAre
  <2> HIDE DEF M, Y
  <2>3. /\ H[1 .. 0] = E
        /\ \A k \in 0 .. M - 1 : H[1 .. k + 1] = Subtract(H[1 .. k], Y[k + 1])
        /\ \A k \in 0 .. M : H[1 .. k] \in SUBSET Int
    BY <1>2, <2>1, <2>2, DivisionUnfold
  <2>4. \A k \in 0 .. N + 7 : k \in 0 .. M - 1 /\ Y[k + 1] = N + 24 - (k + 1)
    BY <1>1, <2>2 DEF M
  <2> HIDE DEF H
  <2> QED BY <2>3, <2>4 DEF M
<1> HIDE DEF F, H
<1> DEFINE P(k) == H[1 .. k] = Xor(Times(F[1 .. k], 8), Times(c, 16))
<1>6. P(N)
  <2> DEFINE T == {k \in 0 .. N : P(k)}
  <2>1. 0 \in T
    <3>1. P(0)
      BY <1>2, <1>4, <1>5, Zenon
    <3>2. 0 \in 0 .. N
      BY <1>1
    <3> QED BY <3>1, <3>2, Zenon
  <2>2. ASSUME NEW k \in 0 .. N - 1, k \in T
        PROVE  k + 1 \in T
    <3> DEFINE e == N + 16 - (k + 1)
               f == F[1 .. k]
    <3>1. /\ k + 1 \in 0 .. N /\ e \in Int /\ e >= 16 /\ e + 8 = N + 24 - (k + 1)
          /\ k \in 0 .. N /\ k \in 0 .. N + 7
      BY <1>1
    <3>2. f \in SUBSET Int /\ F[1 .. k + 1] = Subtract(f, e)
      BY <1>4, <3>1
    <3>3. H[1 .. k + 1] = Subtract(H[1 .. k], e + 8) /\ H[1 .. k] = Xor(Times(f, 8), Times(c, 16))
      BY <1>5, <2>2, <3>1
    <3> HIDE DEF e, f
    <3>4. Subtract(Xor(Times(f, 8), Times(c, 16)), e + 8) = Xor(Times(Subtract(f, e), 8), Times(c, 16))
      BY <1>1, <3>1, <3>2, SubtractAbove
    <3>5. P(k + 1)
      BY <3>2, <3>3, <3>4
    <3> QED BY <3>1, <3>5
  <2> HIDE DEF T
  <2>3. \A k \in 0 .. N : k \in T
    BY <1>1, <2>1, <2>2, UpTo
  <2>4. N \in 0 .. N
    BY <1>1
  <2> QED BY <2>3, <2>4 DEF T
<1>7. /\ H[1 .. N + 1] = Subtract(H[1 .. N], 23) /\ H[1 .. N + 2] = Subtract(H[1 .. N + 1], 22)
      /\ H[1 .. N + 3] = Subtract(H[1 .. N + 2], 21) /\ H[1 .. N + 4] = Subtract(H[1 .. N + 3], 20)
      /\ H[1 .. N + 5] = Subtract(H[1 .. N + 4], 19) /\ H[1 .. N + 6] = Subtract(H[1 .. N + 5], 18)
      /\ H[1 .. N + 7] = Subtract(H[1 .. N + 6], 17) /\ H[1 .. N + 8] = Subtract(H[1 .. N + 7], 16)
  <2>1. ASSUME NEW j \in 0 .. 7
        PROVE  H[1 .. N + (j + 1)] = Subtract(H[1 .. N + j], 23 - j)
    <3>1. N + j \in 0 .. N + 7 /\ N + j + 1 = N + (j + 1) /\ N + 24 - (N + j + 1) = 23 - j
      BY <1>1
    <3> QED BY <1>5, <3>1
  <2>2. H[1 .. N + 0] = H[1 .. N]
    BY <1>1
  <2>3. /\ H[1 .. N + (0 + 1)] = Subtract(H[1 .. N + 0], 23 - 0)
        /\ H[1 .. N + (1 + 1)] = Subtract(H[1 .. N + 1], 23 - 1)
        /\ H[1 .. N + (2 + 1)] = Subtract(H[1 .. N + 2], 23 - 2)
        /\ H[1 .. N + (3 + 1)] = Subtract(H[1 .. N + 3], 23 - 3)
        /\ H[1 .. N + (4 + 1)] = Subtract(H[1 .. N + 4], 23 - 4)
        /\ H[1 .. N + (5 + 1)] = Subtract(H[1 .. N + 5], 23 - 5)
        /\ H[1 .. N + (6 + 1)] = Subtract(H[1 .. N + 6], 23 - 6)
        /\ H[1 .. N + (7 + 1)] = Subtract(H[1 .. N + 7], 23 - 7)
    <3>1. 0 \in 0 .. 7 /\ 1 \in 0 .. 7 /\ 2 \in 0 .. 7 /\ 3 \in 0 .. 7 /\ 4 \in 0 .. 7
          /\ 5 \in 0 .. 7 /\ 6 \in 0 .. 7 /\ 7 \in 0 .. 7
      OBVIOUS
    <3> QED BY <2>1, <3>1, Zenon
  <2> QED BY <2>2, <2>3
<1>8. H[1 .. N + 8] = crc16_step(F[1 .. N], byte)
  <2> DEFINE p == H[1 .. N]
             q == H[1 .. N + 4]
  <2>1. F[1 .. N] \in Word /\ p = Xor(Times(F[1 .. N], 8), Times(BitsOf(byte), 16))
    BY <1>3, <1>6 DEF r, c
  <2>2. q = Subtract(Subtract(Subtract(Subtract(p, 23), 22), 21), 20)
    BY <1>7
  <2>3. H[1 .. N + 8] = Subtract(Subtract(Subtract(Subtract(q, 19), 18), 17), 16)
    BY <1>7
  <2> HIDE DEF p, q
  <2>4. Subtract(Subtract(Subtract(Subtract(q, 19), 18), 17), 16) = crc16_step(F[1 .. N], byte)
    BY <2>1, <2>2, LastSubtractions
  <2> QED BY <2>3, <2>4
<1> QED BY <1>3, <1>8 DEF more, r

\* Without a byte the remainder is what the register starts with.
LEMMA RemainderEmpty == Remainder(<< >>) = crc16_prepare
<1> DEFINE D == Dividend(<< >>)
<1>1. << >> \in Seq(Byte) /\ Len(<< >>) = 0 /\ 8 * 0 = 0 /\ 8 * 0 + 15 = 15
  OBVIOUS
<1>2. D = crc16_prepare
  <2>1. Message(<< >>) = {}
    BY <1>1 DEF Message
  <2>2. Times(crc16_prepare, 0) = crc16_prepare
    BY DEF Times, crc16_prepare
  <2> QED BY <1>1, <2>1, <2>2, DividendIs DEF Xor
<1>3. D \in SUBSET Int
  BY <1>2 DEF crc16_prepare
<1>4. Remainder(<< >>) = Divided(D, Exponents(0))[1 .. 0]
  BY <1>1, RemainderIs
<1>5. Divided(D, Exponents(0))[1 .. 0] = D
  <2> HIDE DEF D
  <2>1. Exponents(0) \in [1 .. 0 -> Int]
    BY ExponentsAre
  <2> QED BY <1>3, <2>1, DivisionUnfold
<1> QED BY <1>2, <1>4, <1>5

\* The shifts of crc16_add leave the remainder of the division by the generator, whatever
\* the bytes and however many (crc16.c).
THEOREM CrcIsRemainderOfDivision == CSpec => []CrcIsRemainder
<1> DEFINE I == data \in Seq(Byte) /\ crc \in Word /\ crc = Remainder(data)
<1>1. CInit => I
  BY StartWord, RemainderEmpty DEF CInit
<1>2. I /\ [CNext]_cvars => I'
  <2>1. ASSUME I, NEW byte \in Bytes, AddByte(byte)
        PROVE  I'
    <3>1. byte \in Byte
      BY BytesAssumption DEF Byte
    <3>2. data' = Append(data, byte) /\ crc' = crc16_step(crc, byte)
      BY <2>1 DEF AddByte
    <3>3. Append(data, byte) \in Seq(Byte) /\ crc16_step(crc, byte) \in Word
      BY <2>1, <3>1, StepBits
    <3>4. Remainder(Append(data, byte)) = crc16_step(crc, byte)
      BY <2>1, <3>1, RemainderAppend
    <3> QED BY <3>2, <3>3, <3>4
  <2> QED BY <2>1 DEF CNext, cvars
<1>3. I => CrcIsRemainder
  BY DEF CrcIsRemainder
<1> QED BY <1>1, <1>2, <1>3, PTL DEF CSpec
=============================================================================
