----------------------------- MODULE Algorithms -----------------------------
(***************************************************************************)
(* The program's pure algorithms on the byte sequences that Crc16 builds:  *)
(* what each returns, against a definition without its loops.              *)
(***************************************************************************)
EXTENDS Crc16, Framing, Helpers

CONSTANTS
  Separator,  \* the byte that split cuts at
  Zeros,      \* bound: how many zeros go before and after a piece of memory
  Long,       \* bound: lengths of payloads whose frame's length takes both bytes
  Settings    \* address, sequence number, lead and trail of the frames written

ASSUME AlgorithmsAssumption ==
  /\ Separator \in Byte /\ Zeros \subseteq Nat /\ Long \subseteq Nat
  /\ Settings \subseteq [addr : 0 .. 127, seq : 0 .. 3, lead : Nat, trail : Nat]

\* The frames of all the payloads fit the buffer of the other end, and their lengths the
\* length field.
ASSUME FitsAssumption ==
  /\ BUFSIZE < 65536
  /\ \A n \in Long \cup {MaxLen} : n + HEADER + 2 <= BUFSIZE - HEADER

Zero(n) == [i \in 1 .. n |-> 0]

\* mem_zero finds a byte that is not zero wherever it is in the memory and however
\* that is aligned (declare_online chooses the status topic by it).
ZeroIsZero ==
  \A before, after \in Zeros, address \in 0 .. 7 :
    LET mem == Zero(before) \o data \o Zero(after)
    IN  mem_zero(address, mem) <=> \A i \in 1 .. Len(mem) : mem[i] = 0

\* split loses nothing but a last separator and cuts at every separator up to count:
\* message_callback finds the address of a topic at its place.
SplitThenJoin ==
  \A count \in 0 .. 3 :
    LET parts  == split(data, Separator, count)
        joined == join(parts, Separator)
    IN  /\ \/ joined = data /\ (parts # << >> => parts[Len(parts)] # << >>)
           \/ joined \o <<Separator>> = data /\ parts # << >>
        /\ count # 0 => Len(parts) <= count + 1
        /\ \A i \in 1 .. Len(parts) : \A j \in 1 .. Len(parts[i]) :
             parts[i][j] = Separator => i = count + 1 /\ count # 0

\* What writecook sends is a frame that readcook, at the other end of the line, reads
\* back: the same address, sequence number and payload, after any number of lead bytes.  The
\* length it finds is also right where it takes both bytes.
WriteReadBack ==
  /\ \A set \in Settings :
       LET bytes == FromSoh(writecook(set.addr, set.seq, data, set.lead, set.trail))
           frame == SubSeq(bytes, 1, Total(bytes))
       IN  /\ ~BadLength(Total(bytes))
           /\ Len(bytes) = Len(frame) + set.trail
           /\ HasCrc(frame)
           /\ SubSeq(frame, HEADER + 1, Checked(frame)) = data
           /\ frame[2] = set.addr /\ frame[5] % 4 = set.seq
  /\ \A n \in Long :
       LET header == Header(0, 0, Zero(n))
       IN  Total(header) = HEADER + n + 2 /\ ~BadLength(Total(header))
=============================================================================
