-------------------------------- MODULE Crc16 -------------------------------
(***************************************************************************)
(* crc16.c, the CRC of a frame byte by byte, against the division of       *)
(* polynomials it purports to compute (CCITT: x^16 + x^12 + x^5 + 1).      *)
(*                                                                         *)
(* A word is the set of the positions of its bits, as a polynomial is the  *)
(* set of its exponents: shifts and ^ act on each bit by itself.           *)
(***************************************************************************)
EXTENDS Integers, Sequences, SequencesExt

CONSTANTS
  Bytes,    \* bound: the bytes that messages are made of
  MaxLen    \* bound: the length of a message

ASSUME BytesAssumption == Bytes \subseteq 0 .. 255 /\ MaxLen \in Nat

VARIABLES
  data,  \* the bytes crc16_add has read
  crc    \* its accumulator

cvars == <<data, crc>>

\* uint16_t
Word == SUBSET (0 .. 15)

Weights == <<1, 2, 4, 8, 16, 32, 64, 128>>

BitsOf(byte) == {i \in 0 .. 7 : (byte \div Weights[i + 1]) % 2 = 1}

\* x ^ y, x << n and x >> n
Xor(x, y) == (x \ y) \cup (y \ x)
Left(x, n) == {i \in 0 .. 15 : i - n \in x}
Right(x, n) == {i \in 0 .. 15 : i + n \in x}

crc16_prepare == {0, 1, 2, 3, 8, 10, 11, 12}   \* 0x1D0F

crc16_step_Shift(acc, byte) ==
  LET x0 == Xor(Right(acc, 8), BitsOf(byte))
      x  == Xor(x0, Right(x0, 4))
  IN  Xor(Xor(Left(acc, 8), Left(x, 12)), Xor(Left(x, 4), x))

crc16_step_DropsHalf(acc, byte) ==
  LET x0 == Xor(Right(acc, 8), BitsOf(byte))
      x  == Xor(x0, Right(x0, 4))
  IN  Xor(Left(x, 12), Xor(Left(x, 5), x))

\* One turn of crc16_add's loop.  x is a uint8_t; it is shifted as an int and cut
\* to 16 bits.
crc16_step(acc, byte) ==
  LET x0 == Xor(Right(acc, 8), BitsOf(byte))
      x  == Xor(x0, Right(x0, 4))
  IN  Xor(Xor(Left(acc, 8), Left(x, 12)), Xor(Left(x, 5), x))

crc16_add(acc, bytes) == FoldLeft(crc16_step, acc, bytes)

CInit == data = << >> /\ crc = crc16_prepare

AddByte(byte) ==
  /\ Len(data) < MaxLen
  /\ data' = Append(data, byte)
  /\ crc' = crc16_step(crc, byte)

CNext == \E byte \in Bytes : AddByte(byte)

CSpec == CInit /\ [][CNext]_cvars

-----------------------------------------------------------------------------
(* The division *)

G == {0, 5, 12, 16}   \* the generator

\* The polynomial p times x^n.
Times(p, n) == {e + n : e \in p}

\* The bits of the message followed by 16 zeros, the register's start value
\* added to the first 16.
Dividend(bytes) ==
  LET n == Len(bytes)
      message == {e \in 16 .. 8 * n + 15 :
                    e % 8 \in BitsOf(bytes[n - ((e - 16) \div 8)])}
  IN  Xor(message, Times(crc16_prepare, 8 * n))

\* One step of the division: subtract the generator if p has the exponent e.
Subtract(p, e) == IF e \in p THEN Xor(p, Times(G, e - 16)) ELSE p

\* The division goes from the highest exponent down to 16.
Remainder(bytes) ==
  LET n == 8 * Len(bytes)
  IN  FoldLeft(Subtract, Dividend(bytes), [k \in 1 .. n |-> n + 16 - k])

-----------------------------------------------------------------------------
(* Properties *)

\* crc16_add's shifts compute the remainder of the message, as a polynomial over
\* bits, modulo x^16 + x^12 + x^5 + 1 (crc16.c: "purports to be CCITT CRC-16").
CrcIsRemainder == crc = Remainder(data)

\* A byte, or two bytes in a row, replaced by any others change the CRC: readcook
\* refuses such a frame, unless the damage turns off the bit that announces the CRC.
DamageDetected ==
  \A i \in 1 .. Len(data) - 1, b1, b2 \in Bytes :
    LET damaged == [data EXCEPT ![i] = b1, ![i + 1] = b2]
    IN  damaged # data => crc16_add(crc16_prepare, damaged) # crc
=============================================================================
