---------------------------- MODULE MCSerialPort ----------------------------
(***************************************************************************)
(* SerialPort for TLC: what the line may bring after a transmitted frame.  *)
(* The buffer holds 13 bytes, so that a reply of 8 is the longest readeof  *)
(* accepts.  A sum that depends on the order of the bytes stands for the   *)
(* CRC: reading a frame only compares it (Crc16 is checked by Algorithms). *)
(***************************************************************************)
EXTENDS SerialPort

SumCrc(s) == FoldLeft(LAMBDA c, b : (3 * c + b) % 65536, 7439, s)

Summed == <<83, 129, 7, 0, 0, 64, 27>>      \* ACK with a checksum
WithCrc == <<83, 129, 8, 0, 4, 64, 117, 56>>   \* ACK with a CRC
BareSummed == <<83, 129, 6, 0, 0, 218>>         \* intact, but no func byte
BareWithCrc == <<83, 129, 7, 0, 4, 94, 189>>
CtrlInCrc == <<83, 130, 6, 0, 36, 63>>          \* the control byte is half of the CRC

OnePort == {"ttyUSB0"}
TwoPorts == {"ttyUSB0", "ttyUSB1"}

Silence == << >>
Replies == {
  Summed,
  <<255>> \o WithCrc,                  \* a lead byte
  <<7, 83>> \o Summed,                 \* a stray SOH: the header is misread
  <<83, 129, 8, 0, 4, 64, 117, 57>>,   \* a damaged CRC
  <<83, 129, 7, 0, 0, 65, 27>>,        \* a damaged byte under a checksum
  <<83, 129, 9, 0, 4, 64>>,            \* a length readeof refuses
  <<83, 129, 14, 0, 0>>,               \* a length beyond the buffer
  SubSeq(WithCrc, 1, 4),               \* a reply that breaks off
  Summed \o <<255>>,                   \* a trail byte
  BareSummed, BareWithCrc, CtrlInCrc,
  Silence }

Some == { <<255>> \o Summed, Silence }
=============================================================================
