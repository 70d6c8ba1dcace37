-------------------------- MODULE SerialPortProofs --------------------------
(***************************************************************************)
(* Proofs about SerialPort: whatever the line brings and however it is     *)
(* split over reads, for any CRC, buffer size and ports.                   *)
(***************************************************************************)
EXTENDS SerialPort, ByteProofs

Errors == {ERR_TIMEOUT, ERR_OVERFLOW, ERR_CRC}

Types ==
  /\ port \in PortNames /\ port2 \in PortNames \cup {"none"}
  /\ works \in [PortNames -> BOOLEAN]
  /\ pc \in {"closed", "idle", "write", "soh", "header", "length", "body", "check"}
  /\ unsent \in 0 .. TxLen
  /\ line \in Seq(Byte) /\ arrived \in 0 .. Len(line) /\ taken \in 0 .. arrived
  /\ late \in BOOLEAN /\ hung \in BOOLEAN
  /\ buf \in Seq(Byte) /\ Len(buf) <= BUFSIZE
  /\ result \in Errors \cup 0 .. BUFSIZE

\* How much of m_in_buffer is filled where.
Filled ==
  /\ pc \in {"closed", "write", "soh"} => buf = << >>
  /\ pc = "header" => 1 <= Len(buf) /\ Len(buf) < HEADER
  /\ pc = "length" => Len(buf) = HEADER
  /\ pc = "body" => ~BadLength(Total(buf)) /\ HEADER <= Len(buf) /\ Len(buf) < Total(buf)
  /\ pc = "check" => ~BadLength(Total(buf)) /\ Len(buf) = Total(buf)

\* What is in m_in_buffer when readcook returns r.
ReturnMeans(r) ==
  \/ r = ERR_TIMEOUT
  \/ r = ERR_OVERFLOW /\ BadLength(Total(buf)) /\ Len(buf) = HEADER
  \/ r = Checked(buf) /\ ~BadLength(Total(buf)) /\ Len(buf) = Total(buf)

Returned ==
  /\ pc # "idle" => result = 0
  /\ pc = "idle" /\ result = 0 => buf = << >>
  /\ pc = "idle" /\ result # 0 => ReturnMeans(result)

\* The buffer is a window on the stream that ends with the last byte taken and starts at
\* the first SOH.
IsWindow(l, t, b) ==
  LET start == t - Len(b) + 1 IN
  /\ start >= 1
  /\ \A i \in 1 .. start - 1 : l[i] # SOH
  /\ b # << >> => b = SubSeq(l, start, t) /\ b[1] = SOH

\* It still is when readcook has returned.
Window ==
  /\ pc = "write" => taken = 0
  /\ Reading \/ (pc = "idle" /\ result # 0) => IsWindow(line, taken, buf)

SInv == Types /\ Filled /\ Returned /\ Window

-----------------------------------------------------------------------------
(* What a read brings *)

\* read_some stores the next n bytes of the stream, at most count.
LEMMA Got ==
  ASSUME Types, NEW count \in Nat
  PROVE  \E n \in 0 .. count :
           /\ taken + n <= arrived
           /\ ReadSome(count) = SubSeq(line, taken + 1, taken + n)
           /\ ReadSome(count) \in Seq(Byte) /\ Len(ReadSome(count)) = n
<1>1. taken \in Nat /\ arrived \in Nat /\ taken <= arrived /\ arrived <= Len(line)
      /\ line \in Seq(Byte) /\ Len(line) \in Nat
  BY DEF Types
<1>2. CASE hung
  <2>1. SubSeq(line, taken + 1, taken + 0) = << >>
    BY <1>1, SubSeqEmpty
  <2> QED BY <1>1, <1>2, <2>1 DEF ReadSome
<1>3. CASE ~hung
  <2> DEFINE n == Min({count, arrived - taken})
  <2>1. n \in 0 .. count /\ n <= arrived - taken
    BY <1>1, MinOfTwo
  <2>2. ReadSome(count) = SubSeq(line, taken + 1, taken + n)
    BY <1>3 DEF ReadSome
  <2> HIDE DEF n
  <2>3. /\ SubSeq(line, taken + 1, taken + n) \in Seq(Byte)
        /\ Len(SubSeq(line, taken + 1, taken + n)) = n
    <3>1. taken \in 0 .. Len(line) /\ n \in Nat /\ taken + n <= Len(line)
      BY <1>1, <2>1
    <3> QED BY <1>1, <3>1, Piece
  <2> QED BY <1>1, <2>1, <2>2, <2>3
<1> QED BY <1>2, <1>3

LEMMA WindowFrom ==
  ASSUME NEW l, NEW t, NEW b, NEW start, t - Len(b) + 1 = start, start >= 1,
         \A i \in 1 .. start - 1 : l[i] # SOH,
         b # << >> => b = SubSeq(l, start, t) /\ b[1] = SOH
  PROVE  IsWindow(l, t, b)
BY DEF IsWindow

\* A window that grows by what is read stays one.
LEMMA WindowGrows ==
  ASSUME NEW l \in Seq(Byte), NEW t \in 0 .. Len(l), NEW b \in Seq(Byte), b # << >>,
         IsWindow(l, t, b), NEW n \in Nat, t + n <= Len(l)
  PROVE  LET c == b \o SubSeq(l, t + 1, t + n)
         IN  IsWindow(l, t + n, c) /\ Len(c) = Len(b) + n
             /\ \A i \in 1 .. Len(b) : c[i] = b[i]
<1> DEFINE got == SubSeq(l, t + 1, t + n)
    c == b \o got
    start == t - Len(b) + 1
<1>1. Len(b) \in Nat /\ Len(b) >= 1 /\ Len(l) \in Nat /\ t \in Nat
  OBVIOUS
<1>2. got \in Seq(Byte) /\ Len(got) = n
  BY Piece
<1>3. /\ start >= 1 /\ b = SubSeq(l, start, t) /\ b[1] = SOH
      /\ \A i \in 1 .. start - 1 : l[i] # SOH
  BY DEF IsWindow
<1>4. c = SubSeq(l, start, t + n)
  <2>1. start \in 1 .. Len(l) + 1 /\ t \in start - 1 .. Len(l) /\ t + n \in t .. Len(l)
    BY <1>1, <1>3
  <2> HIDE DEF start
  <2>2. SubSeq(l, start, t) \o SubSeq(l, t + 1, t + n) = SubSeq(l, start, t + n)
    BY <2>1, ConcatAdjacentSubSeq
  <2> QED BY <1>3, <2>2
<1> HIDE DEF got
<1>5. Len(c) = Len(b) + n /\ \A i \in 1 .. Len(b) : c[i] = b[i]
  <2>1. Len(b \o got) = Len(b) + Len(got)
        /\ \A i \in 1 .. Len(b) + Len(got) :
             (b \o got)[i] = IF i <= Len(b) THEN b[i] ELSE got[i - Len(b)]
    BY <1>2, ConcatProperties
  <2>2. \A i \in 1 .. Len(b) : i <= Len(b) /\ i \in 1 .. Len(b) + Len(got)
    BY <1>1, <1>2
  <2> QED BY <1>2, <2>1, <2>2
<1> HIDE DEF c
<1>6. (t + n) - Len(c) + 1 = start /\ c # << >> /\ c[1] = SOH
  BY <1>1, <1>3, <1>5
<1>7. IsWindow(l, t + n, c)
  <2> HIDE DEF start
  <2> QED BY <1>3, <1>4, <1>6, WindowFrom
<1> QED BY <1>5, <1>7 DEF c, got

\* A window starts at the first SOH of what is read after bytes without one.
LEMMA WindowStarts ==
  ASSUME NEW l \in Seq(Byte), NEW t \in 0 .. Len(l), IsWindow(l, t, << >>),
         NEW n \in Nat, t + n <= Len(l)
  PROVE  LET c == FromSoh(SubSeq(l, t + 1, t + n))
         IN  IsWindow(l, t + n, c) /\ Len(c) <= n /\ c \in Seq(Byte)
<1> DEFINE got == SubSeq(l, t + 1, t + n)
    c == FromSoh(got)
<1>1. Len(l) \in Nat /\ t \in Nat /\ Len(<< >>) = 0
  OBVIOUS
<1>2. \A i \in 1 .. t : l[i] # SOH
  <2>1. t - 0 + 1 - 1 = t
    BY <1>1
  <2> QED BY <1>1, <2>1 DEF IsWindow
<1>3. got \in Seq(Byte) /\ Len(got) = n /\ \A i \in 1 .. n : got[i] = l[t + i]
  BY Piece
<1>4. CASE c = << >> /\ \A i \in 1 .. n : got[i] # SOH
  <2>1. ASSUME NEW i \in 1 .. t + n
        PROVE  l[i] # SOH
    <3>1. CASE i <= t
      BY <1>2, <3>1
    <3>2. CASE i > t
      <4>1. i - t \in 1 .. n /\ t + (i - t) = i
        BY <1>1, <3>2
      <4> QED BY <1>3, <1>4, <4>1
    <3> QED BY <1>1, <3>1, <3>2
  <2> HIDE DEF c, got
  <2>2. Len(c) = 0 /\ c \in Seq(Byte) /\ t + n - 0 + 1 >= 1 /\ t + n - 0 + 1 - 1 = t + n
    BY <1>1, <1>4
  <2>3. IsWindow(l, t + n, c) /\ Len(c) <= n
    BY <1>4, <2>1, <2>2 DEF IsWindow
  <2> QED BY <2>2, <2>3 DEF c, got
<1>5. ASSUME NEW k \in 1 .. n, c = SubSeq(got, k, n),
             got[k] = SOH, \A i \in 1 .. k - 1 : got[i] # SOH
      PROVE  IsWindow(l, t + n, c) /\ Len(c) <= n /\ c \in Seq(Byte)
  <2>1. c \in Seq(Byte) /\ Len(c) = n - k + 1 /\ c[1] = got[k]
    <3> DEFINE j == k - 1
               m == n - k + 1
    <3>1. j \in 0 .. n /\ m \in Nat /\ j + m = n /\ j + 1 = k /\ 1 \in 1 .. m
      OBVIOUS
    <3> HIDE DEF j, m, got, c
    <3>2. j \in 0 .. Len(got) /\ j + m <= Len(got)
      BY <1>3, <3>1
    <3>3. /\ SubSeq(got, j + 1, j + m) \in Seq(Byte)
          /\ Len(SubSeq(got, j + 1, j + m)) = m
          /\ \A i \in 1 .. m : SubSeq(got, j + 1, j + m)[i] = got[j + i]
      BY <1>3, <3>1, <3>2, Piece
    <3> QED BY <1>5, <3>1, <3>3 DEF m
  <2>2. c = SubSeq(l, t + k, t + n)
    <3>1. /\ t + 1 \in 1 .. Len(l) /\ t + n \in 1 .. Len(l)
          /\ k \in 1 .. (t + n) - (t + 1) + 1 /\ n \in 1 .. (t + n) - (t + 1) + 1
          /\ t + 1 + k - 1 = t + k /\ t + 1 + n - 1 = t + n
      BY <1>1
    <3>2. SubSeq(SubSeq(l, t + 1, t + n), k, n) = SubSeq(l, t + 1 + k - 1, t + 1 + n - 1)
      BY <3>1, SubSeqOfSubSeq
    <3> QED BY <1>5, <3>1, <3>2
  <2>3. ASSUME NEW i \in 1 .. t + k - 1
        PROVE  l[i] # SOH
    <3>1. CASE i <= t
      BY <1>2, <3>1
    <3>2. CASE i > t
      <4>1. i - t \in 1 .. k - 1 /\ i - t \in 1 .. n /\ t + (i - t) = i
        BY <1>1, <3>2
      <4> QED BY <1>3, <1>5, <4>1
    <3> QED BY <1>1, <3>1, <3>2
  <2> HIDE DEF c
  <2>4. (t + n) - Len(c) + 1 = t + k /\ t + k >= 1 /\ Len(c) <= n
    BY <1>1, <2>1
  <2>5. c[1] = SOH
    BY <1>5, <2>1
  <2>6. IsWindow(l, t + n, c)
    <3> DEFINE start == t + k
    <3>1. /\ (t + n) - Len(c) + 1 = start /\ start >= 1
          /\ c = SubSeq(l, start, t + n) /\ c[1] = SOH
          /\ \A i \in 1 .. start - 1 : l[i] # SOH
      BY <2>2, <2>3, <2>4, <2>5
    <3> HIDE DEF start
    <3> QED BY <3>1, WindowFrom
  <2> QED BY <2>1, <2>4, <2>6
<1> QED BY <1>3, <1>4, <1>5, SohFound

-----------------------------------------------------------------------------
(* Every step preserves the invariant *)

LEMMA Init == SInit => SInv
<1>1. SUFFICES ASSUME SInit PROVE SInv
  OBVIOUS
<1>2. << >> \in Seq(Byte) /\ Len(<< >>) = 0 /\ 0 \in 0 .. 0 /\ 0 \in 0 .. TxLen
      /\ 0 \in 0 .. BUFSIZE /\ 0 <= BUFSIZE
  BY SizeAssumption, TxAssumption
<1>3. Types
  BY <1>1, <1>2, PortsAssumption DEF SInit, Types
<1>4. Filled /\ Returned /\ Window
  BY <1>1 DEF SInit, Filled, Returned, Window, Reading
<1> QED BY <1>3, <1>4 DEF SInv

\* A step that leaves the reading alone.
LEMMA Elsewhere ==
  ASSUME SInv, Types', UNCHANGED <<pc, taken, buf, result>>,
         pc \in {"closed", "write"} \/ (pc = "idle" /\ result = 0) \/ UNCHANGED line
  PROVE  SInv'
<1>1. Filled' /\ Returned'
  BY DEF SInv, Filled, Returned, ReturnMeans
<1>2. Window'
  BY DEF SInv, Window, Reading, IsWindow
<1> QED BY <1>1, <1>2 DEF SInv

\* A step after which nothing is being read.
LEMMA NotReading ==
  ASSUME SInv, Types', pc' \in {"closed", "idle", "write"}, buf' = << >>, result' = 0,
         pc' = "write" => taken' = 0
  PROVE  SInv'
BY DEF SInv, Filled, Returned, Window, Reading

LEMMA OpenStep ==
  ASSUME SInv, Open \/ OpenFails \/ FlushOrWriteFails \/ ReadFails
  PROVE  SInv'
<1>1. << >> \in Seq(Byte) /\ Len(<< >>) = 0 /\ 0 \in 0 .. 0 /\ 0 \in 0 .. TxLen
      /\ 0 \in 0 .. BUFSIZE /\ 0 <= BUFSIZE
  BY SizeAssumption, TxAssumption
<1>2. CASE Open
  <2>1. Types' /\ buf = << >> /\ result = 0
    BY <1>1, <1>2 DEF Open, SInv, Types, Filled, Returned, portVars
  <2> QED BY <1>2, <2>1, NotReading DEF Open
<1>3. CASE OpenFails
  <2>1. Types'
    BY <1>3 DEF OpenFails, SwitchPorts, SInv, Types, portVars, lineVars
  <2> QED BY <1>3, <2>1, Elsewhere DEF OpenFails, lineVars
<1>4. CASE FlushOrWriteFails \/ ReadFails
  <2>1. Types'
    BY <1>1, <1>4 DEF FlushOrWriteFails, ReadFails, Fail, SInv, Types, portVars, lineVars
  <2> QED BY <1>4, <2>1, NotReading DEF FlushOrWriteFails, ReadFails, Fail
<1> QED BY <1>2, <1>3, <1>4

LEMMA SendStep ==
  ASSUME SInv, Send
  PROVE  SInv'
<1>1. << >> \in Seq(Byte) /\ Len(<< >>) = 0 /\ 0 \in 0 .. TxLen /\ TxLen \in 0 .. TxLen
      /\ 0 \in 0 .. BUFSIZE /\ 0 <= BUFSIZE
  BY SizeAssumption, TxAssumption
<1>2. line' \in Seq(Byte) /\ 0 \in 0 .. Len(line')
  <2>1. line \in Seq(Byte) /\ arrived \in 0 .. Len(line) /\ Len(line) \in Nat
    BY DEF SInv, Types
  <2> DEFINE n == Len(line) - arrived
  <2>2. n \in Nat /\ arrived + n = Len(line)
    BY <2>1
  <2> HIDE DEF n
  <2>3. SubSeq(line, arrived + 1, arrived + n) \in Seq(Byte)
    BY <2>1, <2>2, Piece
  <2>4. line' \in Seq(Byte)
    BY <2>2, <2>3 DEF Send, flush_input
  <2> QED BY <2>4
<1>3. Types'
  BY <1>1, <1>2 DEF Send, flush_input, SInv, Types, portVars
<1> QED BY <1>3, NotReading DEF Send, flush_input

LEMMA WriteStep ==
  ASSUME SInv, Write
  PROVE  SInv'
<1>1. PICK n \in 1 .. unsent : unsent' = unsent - n
  BY DEF Write
<1>2. unsent' \in 0 .. TxLen
  BY <1>1, TxAssumption DEF SInv, Types
<1>3. CASE unsent' > 0
  <2>1. Types'
    BY <1>2, <1>3 DEF Write, SInv, Types, portVars
  <2> QED BY <1>3, <2>1, Elsewhere DEF Write
<1>4. CASE ~(unsent' > 0)
  <2>1. PICK l \in Lines : line' = line \o l
    BY <1>4 DEF Write
  <2>2. /\ pc = "write" /\ pc' = "soh" /\ late' = FALSE
        /\ UNCHANGED <<port, port2, works, hung, arrived, taken, buf, result>>
    BY <1>4 DEF Write, portVars
  <2>3. line' \in Seq(Byte) /\ Len(line') >= Len(line) /\ Len(line') \in Nat
    <3>1. line \in Seq(Byte) /\ l \in Seq(Byte)
      BY LinesAssumption DEF SInv, Types
    <3>2. line \o l \in Seq(Byte) /\ Len(line \o l) = Len(line) + Len(l)
      BY <3>1, ConcatProperties
    <3> QED BY <2>1, <3>1, <3>2
  <2>4. arrived' \in 0 .. Len(line')
    BY <2>2, <2>3 DEF SInv, Types
  <2>5. Types'
    BY <1>2, <2>2, <2>3, <2>4 DEF SInv, Types
  <2>6. buf' = << >> /\ taken' = 0 /\ result' = 0
    BY <2>2 DEF SInv, Filled, Window, Returned
  <2>7. IsWindow(line', taken', buf')
    BY <2>6 DEF IsWindow
  <2> QED BY <2>2, <2>5, <2>6, <2>7 DEF SInv, Filled, Returned, Window
<1> QED BY <1>3, <1>4

LEMMA EnvironmentStep ==
  ASSUME SInv, Arrive \/ Tick \/ \E p \in PortNames : Unplug(p) \/ Plug(p)
  PROVE  SInv'
<1>1. CASE Arrive
  <2>1. arrived' \in 0 .. Len(line) /\ taken \in 0 .. arrived'
    BY <1>1 DEF Arrive, SInv, Types
  <2>2. Types'
    BY <1>1, <2>1 DEF Arrive, SInv, Types, portVars
  <2> QED BY <1>1, <2>2, Elsewhere DEF Arrive
<1>2. CASE Tick
  <2>1. Types'
    BY <1>2 DEF Tick, SInv, Types, portVars, lineVars
  <2> QED BY <1>2, <2>1, Elsewhere DEF Tick, lineVars
<1>3. ASSUME NEW p \in PortNames, Unplug(p) \/ Plug(p)
      PROVE  SInv'
  <2>1. Types'
    BY <1>3 DEF Unplug, Plug, SInv, Types, portVars, lineVars
  <2> QED BY <1>3, <2>1, Elsewhere DEF Unplug, Plug, lineVars
<1> QED BY <1>1, <1>2, <1>3

LEMMA SohStep ==
  ASSUME SInv, readsoh
  PROVE  SInv'
<1> DEFINE got == ReadSome(HEADER)
           kept == FromSoh(got)
<1>1. PICK n \in 0 .. HEADER :
        /\ taken + n <= arrived /\ got = SubSeq(line, taken + 1, taken + n)
        /\ got \in Seq(Byte) /\ Len(got) = n
  <2>1. HEADER \in Nat
    BY DEF HEADER
  <2> QED BY <2>1, Got DEF SInv
<1>2. /\ taken' = taken + Len(got) /\ buf' = kept
      /\ pc' = IF kept = << >> THEN "soh"
               ELSE IF Len(kept) = HEADER THEN "length" ELSE "header"
      /\ UNCHANGED <<port, port2, works, hung, unsent, line, arrived, late, result>>
  BY DEF readsoh, portVars
<1>3. /\ line \in Seq(Byte) /\ Len(line) \in Nat /\ arrived \in 0 .. Len(line)
      /\ taken \in 0 .. arrived /\ taken \in 0 .. Len(line) /\ n \in Nat
  BY DEF SInv, Types
<1>4. pc = "soh" /\ buf = << >> /\ result = 0 /\ IsWindow(line, taken, << >>)
  BY DEF readsoh, SInv, Filled, Returned, Window, Reading
<1>5. IsWindow(line, taken + n, kept) /\ Len(kept) <= n /\ kept \in Seq(Byte)
  BY <1>1, <1>3, <1>4, WindowStarts
<1> HIDE DEF got, kept
<1>6. Len(kept) \in Nat /\ Len(kept) <= HEADER /\ HEADER = 5
      /\ (kept # << >> => Len(kept) >= 1) /\ Len(kept) <= BUFSIZE
  BY <1>1, <1>5, SizeAssumption DEF HEADER
<1>7. taken' = taken + n /\ taken' \in 0 .. arrived'
  BY <1>1, <1>2, <1>3
<1>8. Types'
  BY <1>2, <1>3, <1>5, <1>6, <1>7 DEF SInv, Types
<1>9. IsWindow(line, taken, buf)'
  BY <1>2, <1>5, <1>7 DEF IsWindow
<1>10. Filled'
  <2>1. CASE kept = << >>
    BY <1>2, <2>1 DEF Filled
  <2>2. CASE kept # << >> /\ Len(kept) = HEADER
    BY <1>2, <2>2 DEF Filled
  <2>3. CASE kept # << >> /\ Len(kept) # HEADER
    <3>1. 1 <= Len(kept) /\ Len(kept) < HEADER
      <4>1. \A x \in Nat : x <= 5 /\ x # 5 => x < 5
        OBVIOUS
      <4> QED BY <1>6, <2>3, <4>1
    <3> QED BY <1>2, <2>3, <3>1 DEF Filled
  <2> QED BY <2>1, <2>2, <2>3
<1>11. pc' \in {"soh", "header", "length"}
  BY <1>2
<1>12. Returned'
  BY <1>2, <1>4, <1>11 DEF Returned
<1> QED BY <1>8, <1>9, <1>10, <1>11, <1>12 DEF SInv, Window

\* In the header and in the body the buffer grows by what is read.
LEMMA Grows ==
  ASSUME SInv, pc \in {"header", "body"}, NEW count \in Nat,
         taken' = taken + Len(ReadSome(count)), buf' = buf \o ReadSome(count),
         UNCHANGED <<line, arrived>>
  PROVE  /\ taken' \in 0 .. arrived' /\ buf' \in Seq(Byte) /\ Len(buf') \in Nat
         /\ Len(buf) <= Len(buf') /\ Len(buf') <= Len(buf) + count
         /\ \A i \in 1 .. Len(buf) : buf'[i] = buf[i]
         /\ IsWindow(line', taken', buf')
<1> DEFINE got == ReadSome(count)
<1>1. PICK n \in 0 .. count :
        /\ taken + n <= arrived /\ got = SubSeq(line, taken + 1, taken + n)
        /\ got \in Seq(Byte) /\ Len(got) = n
  BY Got DEF SInv
<1>2. /\ line \in Seq(Byte) /\ Len(line) \in Nat /\ arrived \in 0 .. Len(line)
      /\ taken \in 0 .. arrived /\ taken \in 0 .. Len(line) /\ n \in Nat
      /\ buf \in Seq(Byte) /\ taken + n <= Len(line)
  BY <1>1 DEF SInv, Types
<1>3. buf # << >> /\ IsWindow(line, taken, buf)
  <2>1. Len(buf) >= 1
    <3>1. CASE pc = "header"
      BY <1>2, <3>1 DEF SInv, Filled, HEADER
    <3>2. CASE pc = "body"
      <4>1. 5 <= Len(buf)
        BY <3>2 DEF SInv, Filled, HEADER
      <4>2. Len(buf) \in Nat
        BY <1>2
      <4> QED BY <4>1, <4>2
    <3> QED BY <3>1, <3>2
  <2>2. Reading
    BY DEF Reading
  <2> QED BY <2>1, <2>2 DEF SInv, Window
<1> HIDE DEF got
<1>4. /\ IsWindow(line, taken + n, buf \o got) /\ Len(buf \o got) = Len(buf) + n
      /\ \A i \in 1 .. Len(buf) : (buf \o got)[i] = buf[i]
  <2> DEFINE more == SubSeq(line, taken + 1, taken + n)
  <2>1. /\ IsWindow(line, taken + n, buf \o more) /\ Len(buf \o more) = Len(buf) + n
        /\ \A i \in 1 .. Len(buf) : (buf \o more)[i] = buf[i]
    BY <1>2, <1>3, WindowGrows
  <2>2. more = got
    BY <1>1
  <2> HIDE DEF more
  <2> QED BY <2>1, <2>2
<1>5. taken' = taken + n /\ buf' = buf \o got
  BY <1>1 DEF got
<1>6. buf \o got \in Seq(Byte) /\ Len(buf) \in Nat
  BY <1>1, <1>2, ConcatProperties
<1>7. taken' \in 0 .. arrived'
  BY <1>1, <1>2, <1>5
<1>8. /\ buf' \in Seq(Byte) /\ Len(buf') \in Nat
      /\ Len(buf) <= Len(buf') /\ Len(buf') <= Len(buf) + count
  BY <1>2, <1>4, <1>5, <1>6
<1>9. IsWindow(line', taken', buf') /\ \A i \in 1 .. Len(buf) : buf'[i] = buf[i]
  BY <1>4, <1>5
<1> QED BY <1>7, <1>8, <1>9

LEMMA HeaderStep ==
  ASSUME SInv, readheader
  PROVE  SInv'
<1>1. /\ pc = "header"
      /\ taken' = taken + Len(ReadSome(HEADER - Len(buf)))
      /\ buf' = buf \o ReadSome(HEADER - Len(buf))
      /\ pc' = IF Len(buf') = HEADER THEN "length" ELSE "header"
      /\ UNCHANGED <<port, port2, works, hung, unsent, line, arrived, late, result>>
  BY DEF readheader, portVars
<1>2. Len(buf) \in Nat /\ 1 <= Len(buf) /\ Len(buf) < 5 /\ result = 0
  BY <1>1 DEF SInv, Types, Filled, Returned, HEADER
<1>3. HEADER - Len(buf) \in Nat /\ Len(buf) + (HEADER - Len(buf)) = 5
  <2>1. \A x \in Nat : x < 5 => 5 - x \in Nat /\ x + (5 - x) = 5
    OBVIOUS
  <2> QED BY <1>2, <2>1 DEF HEADER
<1>4. /\ taken' \in 0 .. arrived' /\ buf' \in Seq(Byte) /\ Len(buf') \in Nat
      /\ Len(buf) <= Len(buf') /\ Len(buf') <= Len(buf) + (HEADER - Len(buf))
      /\ IsWindow(line', taken', buf')
  BY <1>1, <1>3, Grows
<1>5. 1 <= Len(buf') /\ Len(buf') <= 5 /\ Len(buf') <= BUFSIZE
  BY <1>2, <1>3, <1>4, SizeAssumption
<1>6. Types'
  BY <1>1, <1>4, <1>5 DEF SInv, Types
<1>7. Filled'
  <2>1. Len(buf') # 5 => 1 <= Len(buf') /\ Len(buf') < 5
    <3>1. \A x \in Nat : x <= 5 /\ x # 5 => x < 5
      OBVIOUS
    <3> QED BY <1>4, <1>5, <3>1
  <2> QED BY <1>1, <2>1 DEF Filled, HEADER
<1>8. Returned' /\ Window'
  BY <1>1, <1>2, <1>4 DEF Returned, Window
<1> QED BY <1>6, <1>7, <1>8 DEF SInv

LEMMA BodyStep ==
  ASSUME SInv, readeof
  PROVE  SInv'
<1>1. /\ pc = "body"
      /\ taken' = taken + Len(ReadSome(Missing(buf)))
      /\ buf' = buf \o ReadSome(Missing(buf))
      /\ pc' = IF Len(buf') >= Total(buf) THEN "check" ELSE "body"
      /\ UNCHANGED <<port, port2, works, hung, unsent, line, arrived, late, result>>
  BY DEF readeof, portVars
<1>2. /\ HEADER <= Len(buf) /\ Len(buf) < Total(buf) /\ ~BadLength(Total(buf)) /\ result = 0
      /\ HEADER = 5 /\ Total(buf) \in Nat /\ Total(buf) <= BUFSIZE - HEADER
      /\ Len(buf) \in Nat
  <2>1. /\ HEADER <= Len(buf) /\ Len(buf) < Total(buf) /\ ~BadLength(Total(buf)) /\ result = 0
        /\ HEADER = 5 /\ buf \in Seq(Byte) /\ Len(buf) \in Nat
    BY <1>1 DEF SInv, Filled, Returned, HEADER, Types
  <2>2. Len(buf) >= 5
    BY <2>1
  <2>3. buf[3] \in Nat /\ buf[4] \in Nat
    BY <2>1, <2>2, ByteSeq
  <2>4. Total(buf) \in Nat
    BY <2>3 DEF Total
  <2> QED BY <2>1, <2>4, SizeAssumption DEF BadLength
<1>3. Missing(buf) \in Nat /\ Len(buf) + Missing(buf) = Total(buf)
  BY <1>2 DEF Missing
<1>4. /\ taken' \in 0 .. arrived' /\ buf' \in Seq(Byte) /\ Len(buf') \in Nat
      /\ Len(buf) <= Len(buf') /\ Len(buf') <= Total(buf)
      /\ \A i \in 1 .. Len(buf) : buf'[i] = buf[i]
      /\ IsWindow(line', taken', buf')
  BY <1>1, <1>3, Grows
<1>5. Total(buf') = Total(buf)
  <2>1. 3 \in 1 .. Len(buf) /\ 4 \in 1 .. Len(buf)
    BY <1>2
  <2> QED BY <1>4, <2>1 DEF Total
<1>6. Len(buf') <= BUFSIZE /\ Len(buf') >= HEADER
  BY <1>2, <1>4, SizeAssumption
<1>7. Types'
  BY <1>1, <1>4, <1>6 DEF SInv, Types
<1>8. Filled'
  <2>1. CASE Len(buf') >= Total(buf)
    <3>1. Len(buf') = Total(buf)
      BY <1>2, <1>4, <2>1
    <3> QED BY <1>1, <1>2, <1>5, <2>1, <3>1 DEF Filled
  <2>2. CASE ~(Len(buf') >= Total(buf))
    BY <1>1, <1>2, <1>4, <1>5, <1>6, <2>2 DEF Filled
  <2> QED BY <2>1, <2>2
<1>9. Returned' /\ Window'
  BY <1>1, <1>2, <1>4 DEF Returned, Window
<1> QED BY <1>7, <1>8, <1>9 DEF SInv

\* readcook returns.
LEMMA Returns ==
  ASSUME SInv, Reading, NEW r \in Errors \cup (0 .. BUFSIZE), r # 0, ReturnMeans(r), Done(r),
         UNCHANGED <<portVars, works, hung, unsent, lineVars, late, buf>>
  PROVE  SInv'
<1>1. Types'
  BY DEF SInv, Types, Done, portVars, lineVars
<1>2. Filled' /\ Returned'
  BY DEF Filled, Returned, Done, ReturnMeans
<1>3. Window'
  BY DEF SInv, Window, IsWindow, Done, lineVars, Reading
<1> QED BY <1>1, <1>2, <1>3 DEF SInv

LEMMA ReturnStep ==
  ASSUME SInv, readlength \/ check \/ Timeout
  PROVE  SInv'
<1>1. CASE Timeout
  <2>1. ERR_TIMEOUT \in Errors /\ ERR_TIMEOUT # 0 /\ ReturnMeans(ERR_TIMEOUT)
    BY DEF Errors, ERR_TIMEOUT, ReturnMeans
  <2>2. Reading
    BY <1>1 DEF Timeout, Reading
  <2> QED BY <1>1, <2>1, <2>2, Returns DEF Timeout
<1>2. CASE readlength /\ BadLength(Total(buf))
  <2>1. ERR_OVERFLOW \in Errors /\ ERR_OVERFLOW # 0
    BY DEF Errors, ERR_OVERFLOW
  <2>2. Reading /\ ReturnMeans(ERR_OVERFLOW)
    BY <1>2 DEF readlength, Reading, ReturnMeans, SInv, Filled
  <2> QED BY <1>2, <2>1, <2>2, Returns DEF readlength
<1>3. CASE readlength /\ ~BadLength(Total(buf))
  <2>1. /\ pc = "length" /\ pc' = "body" /\ UNCHANGED result
        /\ UNCHANGED <<port, port2, works, hung, unsent, line, arrived, taken, late, buf>>
    BY <1>3 DEF readlength, portVars, lineVars
  <2>2. Types'
    BY <2>1 DEF SInv, Types
  <2>3. Len(buf) = HEADER /\ HEADER = 5 /\ buf \in Seq(Byte)
    BY <2>1 DEF SInv, Filled, Types, HEADER
  <2>4. HEADER <= Len(buf) /\ Len(buf) < Total(buf)
    <3>1. buf[3] \in Nat /\ buf[4] \in Nat
      BY <2>3, ByteSeq
    <3>2. Total(buf) \in Nat
      BY <3>1 DEF Total
    <3>3. Total(buf) > 5
      BY <1>3, <3>2 DEF BadLength
    <3> QED BY <2>3, <3>2, <3>3
  <2>5. Filled'
    BY <1>3, <2>1, <2>4 DEF Filled
  <2>6. Returned' /\ Window'
    BY <2>1 DEF SInv, Returned, Window, Reading, IsWindow
  <2> QED BY <2>2, <2>5, <2>6 DEF SInv
<1>4. CASE check
  <2>1. /\ pc = "check" /\ buf \in Seq(Byte) /\ ~BadLength(Total(buf))
        /\ Len(buf) = Total(buf) /\ Len(buf) \in Nat /\ Len(buf) <= BUFSIZE
    BY <1>4 DEF check, SInv, Types, Filled
  <2>2. Len(buf) > 5
    BY <2>1 DEF BadLength
  <2>3. Checked(buf) \in {ERR_CRC, Len(buf) - 2, Len(buf) - 1}
    BY <2>1, <2>2, CheckedSum, Zenon
  <2>4. Checked(buf) \in Errors \cup (0 .. BUFSIZE) /\ Checked(buf) # 0
    BY <2>1, <2>2, <2>3, SizeAssumption DEF Errors, ERR_CRC
  <2>5. Reading /\ ReturnMeans(Checked(buf))
    BY <2>1 DEF Reading, ReturnMeans
  <2> QED BY <1>4, <2>4, <2>5, Returns DEF check
<1> QED BY <1>1, <1>2, <1>3, <1>4

LEMMA SerialInvariant == SSpec => []SInv
<1>1. ASSUME SInv, [SNext]_svars
      PROVE  SInv'
  <2>1. CASE Master \/ ReadFails
    BY <1>1, <2>1, OpenStep, SendStep, WriteStep, SohStep, HeaderStep, BodyStep, ReturnStep
       DEF Master
  <2>2. CASE Arrive \/ Tick \/ \E p \in PortNames : Unplug(p) \/ Plug(p)
    BY <1>1, <2>2, EnvironmentStep
  <2>3. CASE UNCHANGED svars
    BY <1>1, <2>3 DEF svars, portVars, lineVars, SInv, Types, Filled, Returned, ReturnMeans,
                      Window, IsWindow, Reading
  <2> QED BY <1>1, <2>1, <2>2, <2>3 DEF SNext
<1> QED BY <1>1, Init, PTL DEF SSpec

-----------------------------------------------------------------------------
(* The properties *)

\* Whatever the line brings, what readsoh and readeof store fits m_in_buffer, of any
\* size.
THEOREM SerialTypeCorrect == SSpec => []STypeOK
<1>1. ASSUME SInv PROVE STypeOK
  <2>1. 0 <= taken /\ taken <= arrived /\ arrived <= Len(line)
    BY <1>1 DEF SInv, Types
  <2>2. ASSUME pc = "body" PROVE Total(buf) <= BUFSIZE
    <3>1. buf \in Seq(Byte) /\ Len(buf) >= 5 /\ Len(buf) \in Nat
      BY <1>1, <2>2 DEF SInv, Types, Filled, HEADER
    <3>2. buf[3] \in Nat /\ buf[4] \in Nat
      BY <3>1, ByteSeq
    <3>3. Total(buf) \in Nat
      BY <3>2 DEF Total
    <3> QED BY <1>1, <2>2, <3>3, SizeAssumption DEF SInv, Filled, BadLength, HEADER
  <2> QED BY <1>1, <2>1, <2>2 DEF SInv, Types, STypeOK, Errors
<1> QED BY <1>1, SerialInvariant, PTL

\* A frame's bytes are found however the stream is split over reads (readsoh, readeof,
\* read_some).
THEOREM FramesStartAtSoh == SSpec => []FramesAtSoh
<1>1. ASSUME SInv PROVE FramesAtSoh
  BY <1>1 DEF SInv, Window, IsWindow, FramesAtSoh
<1> QED BY <1>1, SerialInvariant, PTL

\* readeof leaves what follows the frame in the tty.
THEOREM NothingOverread == SSpec => []NoOverread
<1>1. ASSUME SInv PROVE NoOverread
  <2>1. ASSUME pc = "body" PROVE Len(buf) <= Total(buf)
    <3>1. buf \in Seq(Byte) /\ Len(buf) >= 5 /\ Len(buf) \in Nat /\ Len(buf) < Total(buf)
      BY <1>1, <2>1 DEF SInv, Types, Filled, HEADER
    <3>2. buf[3] \in Nat /\ buf[4] \in Nat
      BY <3>1, ByteSeq
    <3>3. Total(buf) \in Nat
      BY <3>2 DEF Total
    <3> QED BY <3>1, <3>3
  <2>2. ASSUME pc = "check" PROVE Len(buf) <= Total(buf)
    <3>1. Len(buf) = Total(buf) /\ Len(buf) \in Nat
      BY <1>1, <2>2 DEF SInv, Types, Filled
    <3> QED BY <3>1
  <2> QED BY <2>1, <2>2 DEF NoOverread
<1> QED BY <1>1, SerialInvariant, PTL

\* What a window that holds the header says of the frame in it.
LEMMA FrameInWindow ==
  ASSUME SInv, pc = "idle", result # 0, Len(buf) >= HEADER
  PROVE  buf \in Seq(Byte) /\ Len(buf) \in Nat /\ buf[1] = SOH
         /\ IsWindow(line, taken, buf) /\ Total(buf) \in Nat
<1>1. buf \in Seq(Byte) /\ Len(buf) \in Nat /\ Len(buf) >= 5
  BY DEF SInv, Types, HEADER
<1>2. buf[3] \in Nat /\ buf[4] \in Nat /\ buf # << >>
  BY <1>1, ByteSeq
<1>3. IsWindow(line, taken, buf)
  BY DEF SInv, Window
<1>4. buf[1] = SOH
  BY <1>2, <1>3 DEF IsWindow
<1> QED BY <1>1, <1>2, <1>3, <1>4 DEF Total

\* readcook accepts nothing but frames with correct check bytes, whatever the CRC.
THEOREM AcceptedIsIntact == SSpec => []AcceptedIntact
<1>1. ASSUME SInv PROVE AcceptedIntact
  <2>1. SUFFICES ASSUME pc = "idle", result > 0
                 PROVE  /\ GoodFrame(buf)
                        /\ result = Len(buf) - (IF HasCrc(buf) THEN 2 ELSE 1)
    BY DEF AcceptedIntact
  <2>2. result # 0 /\ result \notin Errors
    BY <2>1 DEF Errors, ERR_TIMEOUT, ERR_OVERFLOW, ERR_CRC
  <2>3. result = Checked(buf) /\ ~BadLength(Total(buf)) /\ Len(buf) = Total(buf)
    BY <1>1, <2>1, <2>2 DEF SInv, Returned, ReturnMeans, Errors
  <2>4. Len(buf) \in Nat /\ Len(buf) > 5
    BY <1>1, <2>3 DEF SInv, Types, BadLength
  <2>5. Len(buf) >= HEADER
    BY <2>4 DEF HEADER
  <2>6. buf \in Seq(Byte) /\ buf[1] = SOH
    BY <1>1, <2>1, <2>2, <2>5, FrameInWindow
  <2>7. Checked(buf) # ERR_CRC
    BY <2>2, <2>3 DEF Errors
  <2> QED BY <2>3, <2>4, <2>6, <2>7, CheckedFrame
<1> QED BY <1>1, SerialInvariant, PTL

\* readcook refuses no frame with correct check bytes whose length readeof accepts.
THEOREM GoodIsNotRefused == SSpec => []GoodNotRefused
<1>1. ASSUME SInv PROVE GoodNotRefused
  <2> DEFINE start == taken - Len(buf) + 1
             rest == SubSeq(line, start, Len(line))
  <2>1. SUFFICES ASSUME pc = "idle", result \in {ERR_CRC, ERR_OVERFLOW},
                        NEW n \in 6 .. Min({Len(rest), BUFSIZE - HEADER}),
                        GoodFrame(SubSeq(rest, 1, n))
                 PROVE  FALSE
    BY DEF GoodNotRefused
  <2>2. /\ result # 0 /\ result # ERR_TIMEOUT /\ ERR_CRC # ERR_OVERFLOW
        /\ HEADER = 5
    BY <2>1 DEF ERR_TIMEOUT, ERR_OVERFLOW, ERR_CRC, HEADER
  <2>3. ReturnMeans(result)
    BY <1>1, <2>1, <2>2 DEF SInv, Returned
  <2>4. Len(buf) >= HEADER
    <3>1. CASE result = ERR_OVERFLOW /\ Len(buf) = HEADER
      BY <2>2, <3>1
    <3>2. CASE ~BadLength(Total(buf)) /\ Len(buf) = Total(buf)
      <4>1. Len(buf) \in Nat /\ Len(buf) > 5
        BY <1>1, <3>2 DEF SInv, Types, BadLength
      <4> QED BY <4>1 DEF HEADER
    <3> QED BY <2>2, <2>3, <3>1, <3>2 DEF ReturnMeans
  <2>5. buf \in Seq(Byte) /\ Len(buf) \in Nat /\ buf[1] = SOH
        /\ IsWindow(line, taken, buf) /\ Total(buf) \in Nat /\ Len(buf) >= 5
    BY <1>1, <2>1, <2>2, <2>4, FrameInWindow
  <2>6. /\ line \in Seq(Byte) /\ Len(line) \in Nat /\ taken \in Nat /\ taken <= Len(line)
    BY <1>1 DEF SInv, Types
  <2> DEFINE before == taken - Len(buf)
             after == Len(line) - before
  <2>7. /\ before \in 0 .. Len(line) /\ after \in Nat /\ before + after = Len(line)
        /\ before + Len(buf) = taken /\ start = before + 1 /\ Len(buf) <= after
        /\ buf = SubSeq(line, start, taken)
    BY <2>5, <2>6 DEF IsWindow
  <2> HIDE DEF start, before, after
  <2>8. /\ rest \in Seq(Byte) /\ Len(rest) = after
        /\ \A i \in 1 .. after : rest[i] = line[before + i]
    <3>1. before + after <= Len(line)
      BY <2>6, <2>7
    <3>2. /\ SubSeq(line, before + 1, before + after) \in Seq(Byte)
          /\ Len(SubSeq(line, before + 1, before + after)) = after
          /\ \A i \in 1 .. after :
               SubSeq(line, before + 1, before + after)[i] = line[before + i]
      BY <2>6, <2>7, <3>1, Piece
    <3> QED BY <2>7, <3>2
  <2>9. \A i \in 1 .. Len(buf) : buf[i] = line[before + i]
    <3>1. before + Len(buf) <= Len(line)
      BY <2>6, <2>7
    <3>2. \A i \in 1 .. Len(buf) :
            SubSeq(line, before + 1, before + Len(buf))[i] = line[before + i]
      BY <2>5, <2>6, <2>7, <3>1, Piece
    <3> QED BY <2>7, <3>2
  <2> HIDE DEF rest
  <2>10. n \in Nat /\ n >= 6 /\ n <= after /\ n <= BUFSIZE - HEADER
    <3> DEFINE a == Len(rest)
               c == BUFSIZE - HEADER
    <3>1. a \in Nat /\ a = after /\ c \in Nat
      BY <2>7, <2>8, SizeAssumption DEF HEADER
    <3>2. n \in 6 .. Min({a, c})
      BY <2>1
    <3> HIDE DEF a, c
    <3>3. Min({a, c}) = IF a <= c THEN a ELSE c
      BY <3>1, MinOfTwo
    <3>4. n \in Nat /\ n >= 6 /\ n <= a /\ n <= c
      BY <3>1, <3>2, <3>3
    <3> QED BY <3>1, <3>4 DEF c
  <2> DEFINE f == SubSeq(rest, 1, n)
  <2>11. f \in Seq(Byte) /\ Len(f) = n /\ \A i \in 1 .. n : f[i] = rest[i]
    <3>1. 0 \in 0 .. Len(rest) /\ 0 + n <= Len(rest) /\ 0 + 1 = 1 /\ 0 + n = n
          /\ \A i \in 1 .. n : 0 + i = i
      BY <2>8, <2>10
    <3>2. /\ SubSeq(rest, 0 + 1, 0 + n) \in Seq(Byte)
          /\ Len(SubSeq(rest, 0 + 1, 0 + n)) = n
          /\ \A i \in 1 .. n : SubSeq(rest, 0 + 1, 0 + n)[i] = rest[0 + i]
      BY <2>8, <2>10, <3>1, Piece
    <3> QED BY <3>1, <3>2
  <2>12. GoodFrame(f)
    BY <2>1
  <2> HIDE DEF f
  <2>13. \A i \in 1 .. n : i <= Len(buf) => f[i] = buf[i]
    <3>1. ASSUME NEW i \in 1 .. n, i <= Len(buf)
          PROVE  f[i] = buf[i]
      <4>1. i \in 1 .. after /\ i \in 1 .. Len(buf)
        BY <2>5, <2>7, <2>10, <3>1
      <4> QED BY <2>8, <2>9, <2>11, <4>1
    <3> QED BY <3>1
  <2>14. Total(buf) = n
    <3>1. Total(f) = n
      BY <2>11, <2>12 DEF GoodFrame
    <3>2. 3 \in 1 .. n /\ 4 \in 1 .. n /\ 3 <= Len(buf) /\ 4 <= Len(buf)
      BY <2>5, <2>10
    <3>3. f[3] = buf[3] /\ f[4] = buf[4]
      BY <2>13, <3>2
    <3> QED BY <3>1, <3>3 DEF Total
  <2>15. ~BadLength(Total(buf))
    <3>1. ~(n <= 5) /\ ~(n > BUFSIZE - HEADER)
      BY <2>10, SizeAssumption DEF HEADER
    <3> QED BY <2>14, <3>1 DEF BadLength
  <2>16. Checked(buf) = ERR_CRC /\ Len(buf) = Total(buf)
    <3>1. result # ERR_TIMEOUT /\ (result = ERR_CRC \/ result = ERR_OVERFLOW)
      BY <2>1, <2>2
    <3>2. result = Checked(buf) /\ Len(buf) = Total(buf)
      BY <2>3, <2>15, <3>1, Zenon DEF ReturnMeans
    <3>3. Checked(buf) # ERR_OVERFLOW
      <4>1. Len(buf) \in Nat /\ Len(buf) > 5
        BY <2>10, <2>14, <3>2
      <4>2. Checked(buf) \in {ERR_CRC, Len(buf) - 2, Len(buf) - 1}
        BY <2>5, <4>1, CheckedSum, Zenon
      <4>3. ERR_OVERFLOW # Len(buf) - 2 /\ ERR_OVERFLOW # Len(buf) - 1
        BY <4>1 DEF ERR_OVERFLOW
      <4> QED BY <2>2, <4>2, <4>3
    <3> QED BY <3>1, <3>2, <3>3
  <2>17. buf = f
    <3>1. Len(buf) = n /\ \A i \in 1 .. n : f[i] = buf[i]
      BY <2>5, <2>10, <2>13, <2>14, <2>16
    <3> QED BY <2>5, <2>11, <3>1, SeqEqual
  <2> QED BY <2>5, <2>10, <2>12, <2>14, <2>16, <2>17, CheckedFrame
<1> QED BY <1>1, SerialInvariant, PTL
=============================================================================
