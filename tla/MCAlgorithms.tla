---------------------------- MODULE MCAlgorithms ----------------------------
(***************************************************************************)
(* Algorithms for TLC: a SOH, a slash, an address, bytes with one bit, all *)
(* bits, ...  The lengths at which a field or a loop of mem_zero ends.     *)
(***************************************************************************)
EXTENDS Algorithms

SomeBytes == {0, 1, 47, 83, 128, 129, 240, 255}
SomeZeros == {0, 1, 4, 7, 9}
SomeLong == {248, 249, 259}
SomeSettings == {
  [addr |-> 1, seq |-> 0, lead |-> 0, trail |-> 0],
  [addr |-> 64, seq |-> 3, lead |-> 1, trail |-> 0],
  [addr |-> 127, seq |-> 2, lead |-> 2, trail |-> 1] }
\* The word as a number.
CrcOf(bytes) == MapThenSumSet(LAMBDA i : 2 ^ i, crc16_add(crc16_prepare, bytes))
=============================================================================
