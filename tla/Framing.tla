------------------------------ MODULE Framing -------------------------------
(***************************************************************************)
(* The frames of class protocol as functions of bytes: what writecook puts *)
(* on the line, and what readcook looks for in the bytes it reads.         *)
(***************************************************************************)
EXTENDS Integers, Sequences, SequencesExt, FiniteSetsExt

CONSTANTS
  BUFSIZE,    \* sizeof(m_in_buffer): SLAVE_BUFF_SIZE (271)
  Crc(_)      \* the CRC of a sequence of bytes (crc16.c)

Byte == 0 .. 255
ASSUME SizeAssumption == BUFSIZE \in Nat /\ BUFSIZE > 10

SOH == 83
HEADER == 5    \* sizeof(struct osdp_common): SOH addr len len ctrl
ERR_TIMEOUT == -1
ERR_OVERFLOW == -3
ERR_CRC == -6

-----------------------------------------------------------------------------
(* writecook *)

Low(x) == x % 256
High(x) == (x \div 256) % 256

Length_Payload(payload) == Len(payload) + HEADER

\* fullsize, the length field: the payload, the header and the CRC.
Length(payload) == Len(payload) + HEADER + 2

Header(addr, seq, payload) ==
  <<SOH, addr % 128, Low(Length(payload)), High(Length(payload)),
    (seq % 4) + 4>>

Pad(n) == [i \in 1 .. n |-> 255]

\* The bytes written for a payload, which is taken to fit m_out_buffer: the CRC is
\* that of the frame without the lead bytes.
writecook(addr, seq, payload, lead, trail) ==
  LET frame == Header(addr, seq, payload) \o payload
      crc == Crc(frame)
  IN  Pad(lead) \o frame \o <<Low(crc), High(crc)>> \o Pad(trail)

-----------------------------------------------------------------------------
(* readcook *)

FromSoh_Last(b) ==
  LET at == {i \in 1 .. Len(b) : b[i] = SOH}
  IN  IF at = {} THEN << >> ELSE SubSeq(b, Max(at), Len(b))

\* memchr and memmove: b from its first SOH on.
FromSoh(b) ==
  LET at == {i \in 1 .. Len(b) : b[i] = SOH}
  IN  IF at = {} THEN << >> ELSE SubSeq(b, Min(at), Len(b))

Total(b) == b[3] + 256 * b[4]

BadLength_Short(total) == total <= 5 \/ total >= BUFSIZE - HEADER

BadLength_Any(total) == total <= 5

BadLength(total) == total <= 5 \/ total > BUFSIZE - HEADER

\* The bytes readeof asks read_some for.
Missing(b) == Total(b) - Len(b)

HasCrc(b) == (b[5] \div 4) % 2 = 1

\* The message without its check bytes, or an error: CRC or 8-bit checksum.
Checked_CrcOnly(b) ==
  LET n == Len(b) IN
  IF HasCrc(b)
  THEN IF Crc(SubSeq(b, 1, n - 2)) = b[n - 1] + 256 * b[n] THEN n - 2 ELSE ERR_CRC
  ELSE n - 1

Checked(b) ==
  LET n == Len(b) IN
  IF HasCrc(b)
  THEN IF Crc(SubSeq(b, 1, n - 2)) = b[n - 1] + 256 * b[n] THEN n - 2 ELSE ERR_CRC
  ELSE IF FoldLeft(LAMBDA x, y : (x + y) % 256, 0, SubSeq(b, 1, n - 1)) = b[n]
       THEN n - 1 ELSE ERR_CRC

-----------------------------------------------------------------------------
(* What a frame is, for the properties *)

\* SOH, the length of the whole, and a correct CRC or checksum.
GoodFrame(f) ==
  /\ Len(f) > 5 /\ f[1] = SOH /\ Total(f) = Len(f)
  /\ IF HasCrc(f)
     THEN Crc(SubSeq(f, 1, Len(f) - 2)) = f[Len(f) - 1] + 256 * f[Len(f)]
     ELSE FoldLeft(+, 0, SubSeq(f, 1, Len(f) - 1)) % 256 = f[Len(f)]
=============================================================================
