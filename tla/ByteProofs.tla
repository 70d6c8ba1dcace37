----------------------------- MODULE ByteProofs -----------------------------
(***************************************************************************)
(* Proofs about functions of bytes: the operators of Framing, the checksum *)
(* that readcook keeps modulo 256, what writecook's frames are read back   *)
(* as, and mem_zero, split and join of Helpers.                            *)
(***************************************************************************)
EXTENDS Framing, Helpers, SequenceTheorems, WellFoundedInduction, TLAPS

-----------------------------------------------------------------------------
(* Smallest and greatest numbers *)

\* A set of natural numbers has a smallest one.
LEMMA Least ==
  ASSUME NEW T \in SUBSET Nat, T # {}
  PROVE  \E n \in T : \A m \in T : n <= m
<1> DEFINE R == OpToRel(<, Nat)
<1>1. \A m, n \in Nat : m < n => <<m, n>> \in R
  BY DEF OpToRel
<1>2. IsWellFoundedOn(R, Nat)
  BY NatLessThanWellFounded
<1> HIDE DEF R
<1>3. PICK n \in T : \A m \in T : ~(<<m, n>> \in R)
  BY <1>2, WFMin
<1>4. ASSUME NEW m \in T
      PROVE  n <= m
  <2>1. m \in Nat /\ n \in Nat
    OBVIOUS
  <2>2. ~(m < n)
    BY <1>1, <1>3, <2>1
  <2> QED BY <2>1, <2>2
<1> QED BY <1>4

LEMMA MinIs ==
  ASSUME NEW T \in SUBSET Nat, T # {}
  PROVE  Min(T) \in T /\ \A m \in T : Min(T) <= m
BY Least DEF Min

LEMMA MinOfTwo ==
  ASSUME NEW m \in Nat, NEW n \in Nat
  PROVE  Min({m, n}) = IF m <= n THEN m ELSE n
BY DEF Min

\* What is proved from 0 on, step by step, holds up to N.
LEMMA UpTo ==
  ASSUME NEW N \in Nat, NEW T, 0 \in T, \A n \in 0 .. N - 1 : n \in T => n + 1 \in T
  PROVE  \A n \in 0 .. N : n \in T
<1> DEFINE Fails == {n \in 0 .. N : n \notin T}
<1>1. SUFFICES ASSUME Fails # {} PROVE FALSE
  OBVIOUS
<1>2. PICK n \in Fails : \A m \in Fails : n <= m
  <2>1. Fails \in SUBSET Nat
    OBVIOUS
  <2> HIDE DEF Fails
  <2> QED BY <1>1, <2>1, Least
<1>3. n # 0 /\ n - 1 \in 0 .. N - 1 /\ (n - 1) + 1 = n
  BY <1>2
<1>4. n - 1 \in T
  BY <1>2, <1>3
<1> QED BY <1>3, <1>4

LEMMA MaxIs ==
  ASSUME NEW n \in Nat, NEW T \in SUBSET (1 .. n), T # {}
  PROVE  Max(T) \in T /\ \A m \in T : Max(T) >= m
<1> DEFINE U == {k \in Nat : n - k \in T}
<1>1. U # {}
  <2>1. PICK m \in T : TRUE
    OBVIOUS
  <2>2. n - m \in Nat /\ n - (n - m) = m
    BY <2>1
  <2> QED BY <2>1, <2>2
<1>2. PICK k \in U : \A l \in U : k <= l
  BY <1>1, Least
<1>3. \A m \in T : n - k >= m
  <2>1. ASSUME NEW m \in T
        PROVE  n - k >= m
    <3>1. n - m \in U
      <4>1. m \in 1 .. n /\ n - m \in Nat /\ n - (n - m) = m
        OBVIOUS
      <4> QED BY <4>1
    <3> QED BY <1>2, <3>1
  <2> QED BY <2>1
<1>4. n - k \in T
  OBVIOUS
<1> HIDE DEF U
<1> QED BY <1>3, <1>4 DEF Max

\* The first n + 1 places without their greatest.
LEMMA Places ==
  /\ 1 .. 0 = {}
  /\ \A n \in Nat : /\ 1 .. n + 1 # {} /\ Max(1 .. n + 1) = n + 1
                    /\ (1 .. n + 1) \ {n + 1} = 1 .. n
<1>1. ASSUME NEW n \in Nat
      PROVE  /\ 1 .. n + 1 # {} /\ Max(1 .. n + 1) = n + 1
             /\ (1 .. n + 1) \ {n + 1} = 1 .. n
  <2> DEFINE s == 1 .. n + 1
  <2>1. s \in SUBSET (1 .. n + 1) /\ s # {} /\ n + 1 \in s /\ n + 1 \in Nat
    OBVIOUS
  <2>2. s \ {n + 1} = 1 .. n
    OBVIOUS
  <2>3. \A m \in s : m \in Int /\ m <= n + 1
    OBVIOUS
  <2> HIDE DEF s
  <2>4. Max(s) \in s /\ \A m \in s : Max(s) >= m
    BY <2>1, MaxIs
  <2>5. Max(s) \in Int /\ Max(s) <= n + 1 /\ Max(s) >= n + 1
    BY <2>1, <2>3, <2>4
  <2>6. Max(s) = n + 1
    BY <2>1, <2>5
  <2> QED BY <2>1, <2>2, <2>6 DEF s
<1> QED BY <1>1

-----------------------------------------------------------------------------
(* Folds over a sequence *)

\* MapThenFoldSet folds with such a function, from the greatest element of a set down.
Foldable(N, S, base, step) ==
  \E g \in [SUBSET (1 .. N) -> S] : \A s \in SUBSET (1 .. N) :
    g[s] = IF s = {} THEN base ELSE step[<<g[s \ {Max(s)}], Max(s)>>]

\* It exists, whatever the values S it goes through.
LEMMA FoldExists ==
  ASSUME NEW N \in Nat, NEW S, NEW base \in S, NEW step \in [S \X (1 .. N) -> S]
  PROVE  Foldable(N, S, base, step)
<1> DEFINE Folds(n, g) ==
      \A s \in SUBSET (1 .. n) :
        g[s] = IF s = {} THEN base ELSE step[<<g[s \ {Max(s)}], Max(s)>>]
    Has == {n \in 0 .. N : \E g \in [SUBSET (1 .. n) -> S] : Folds(n, g)}
<1>1. 0 \in Has
  <2>1. SUBSET (1 .. 0) = {{}}
    OBVIOUS
  <2> DEFINE g == [s \in SUBSET (1 .. 0) |-> base]
  <2>2. g \in [SUBSET (1 .. 0) -> S] /\ Folds(0, g)
    BY <2>1
  <2>3. 0 \in 0 .. N
    OBVIOUS
  <2> HIDE DEF g
  <2> QED BY <2>2, <2>3
<1>2. ASSUME NEW n \in 0 .. N - 1, n \in Has
      PROVE  n + 1 \in Has
  <2>1. PICK g \in [SUBSET (1 .. n) -> S] : Folds(n, g)
    BY <1>2
  <2>0. n \in Nat /\ n + 1 \in 0 .. N /\ n + 1 \in Nat /\ n + 1 \in 1 .. N
    OBVIOUS
  <2> DEFINE h == [s \in SUBSET (1 .. n + 1) |->
                     IF n + 1 \in s THEN step[<<g[s \ {n + 1}], n + 1>>] ELSE g[s]]
  <2>2. ASSUME NEW s \in SUBSET (1 .. n + 1)
        PROVE  /\ s \ {n + 1} \in SUBSET (1 .. n)
               /\ s \ {n + 1} \in SUBSET (1 .. n + 1)
               /\ n + 1 \notin s => s \in SUBSET (1 .. n)
    OBVIOUS
  <2>3. ASSUME NEW s \in SUBSET (1 .. n + 1)
        PROVE  h[s] \in S
    <3>1. CASE n + 1 \in s
      <4>1. g[s \ {n + 1}] \in S
        BY <2>2
      <4>2. <<g[s \ {n + 1}], n + 1>> \in S \X (1 .. N)
        BY <4>1, <2>0
      <4> QED BY <3>1, <4>2
    <3>2. CASE n + 1 \notin s
      BY <2>2, <3>2
    <3> QED BY <3>1, <3>2
  <2>4. ASSUME NEW s \in SUBSET (1 .. n + 1)
        PROVE  h[s] = IF s = {} THEN base ELSE step[<<h[s \ {Max(s)}], Max(s)>>]
    <3>0. s # {} => Max(s) \in s /\ \A m \in s : Max(s) >= m
      BY <2>0, MaxIs
    <3>1. CASE n + 1 \in s
      <4>1. Max(s) = n + 1
        <5>1. Max(s) \in 1 .. n + 1 /\ Max(s) >= n + 1
          BY <3>0, <3>1
        <5> QED BY <2>0, <5>1
      <4>2. h[s \ {n + 1}] = g[s \ {n + 1}]
        BY <2>2
      <4> HIDE DEF h
      <4>3. h[s] = step[<<g[s \ {n + 1}], n + 1>>]
        BY <3>1 DEF h
      <4> QED BY <3>1, <4>1, <4>2, <4>3
    <3>2. CASE n + 1 \notin s
      <4>1. s \in SUBSET (1 .. n) /\ s \ {Max(s)} \in SUBSET (1 .. n)
        BY <2>2, <3>2
      <4>2. h[s] = g[s] /\ h[s \ {Max(s)}] = g[s \ {Max(s)}]
        BY <3>2, <4>1
      <4> HIDE DEF h
      <4> QED BY <2>1, <4>1, <4>2
    <3> QED BY <3>1, <3>2
  <2>5. h \in [SUBSET (1 .. n + 1) -> S]
    <3>1. h = [s \in SUBSET (1 .. n + 1) |-> h[s]]
      OBVIOUS
    <3> HIDE DEF h
    <3> QED BY <2>3, <3>1
  <2> HIDE DEF h
  <2> QED BY <2>0, <2>4, <2>5
<1>3. N \in Has
  <2> HIDE DEF Has
  <2> QED BY <1>1, <1>2, UpTo
<1> QED BY <1>3 DEF Foldable

-----------------------------------------------------------------------------
(* The checksum *)

\* What FoldLeft makes of the bytes at a set of places, for the sum and for the sum
\* modulo 256.
Sums(b) ==
  LET iter[s \in SUBSET DOMAIN b] ==
        IF s = {} THEN 0 ELSE iter[s \ {Max(s)}] + b[Max(s)]
  IN  iter

PlusByte(x, y) == (x + y) % 256

ByteSums(b) ==
  LET iter[s \in SUBSET DOMAIN b] ==
        IF s = {} THEN 0 ELSE PlusByte(iter[s \ {Max(s)}], b[Max(s)])
  IN  iter

LEMMA SumIsFold ==
  ASSUME NEW b
  PROVE  FoldLeft(+, 0, b) = Sums(b)[DOMAIN b]
BY DEF FoldLeft, MapThenFoldSet, Sums

LEMMA ByteSumIsFold ==
  ASSUME NEW b
  PROVE  FoldLeft(LAMBDA x, y : (x + y) % 256, 0, b) = ByteSums(b)[DOMAIN b]
BY DEF FoldLeft, MapThenFoldSet, ByteSums, PlusByte

LEMMA ByteSeq ==
  ASSUME NEW b \in Seq(Byte)
  PROVE  Len(b) \in Nat /\ DOMAIN b = 1 .. Len(b) /\ \A i \in 1 .. Len(b) : b[i] \in Nat
<1>1. \A i \in 1 .. Len(b) : b[i] \in Byte
  BY ElementOfSeq
<1>2. Len(b) \in Nat /\ DOMAIN b = 1 .. Len(b)
  OBVIOUS
<1>3. Byte \subseteq Nat
  BY DEF Byte
<1> QED BY <1>1, <1>2, <1>3

\* The n bytes after the first t.
LEMMA Piece ==
  ASSUME NEW l \in Seq(Byte), NEW t \in 0 .. Len(l), NEW n \in Nat, t + n <= Len(l)
  PROVE  /\ SubSeq(l, t + 1, t + n) \in Seq(Byte)
         /\ Len(SubSeq(l, t + 1, t + n)) = n
         /\ \A i \in 1 .. n : SubSeq(l, t + 1, t + n)[i] = l[t + i]
<1>1. \A i \in 1 .. Len(l) : l[i] \in Byte
  BY ElementOfSeq
<1> DEFINE p == t + 1
           q == t + n
<1>2. p \in Int /\ q \in Int /\ \A i \in p .. q : i \in 1 .. Len(l)
  OBVIOUS
<1>3. q - p + 1 = n /\ (IF p <= q THEN n ELSE 0) = n /\ \A i \in 1 .. n : p + i - 1 = t + i
  OBVIOUS
<1> HIDE DEF p, q
<1>4. /\ SubSeq(l, p, q) \in Seq(Byte)
      /\ Len(SubSeq(l, p, q)) = IF p <= q THEN q - p + 1 ELSE 0
      /\ \A i \in 1 .. q - p + 1 : SubSeq(l, p, q)[i] = l[p + i - 1]
  BY <1>1, <1>2, SubSeqProperties
<1>5. SubSeq(l, p, q) \in Seq(Byte) /\ Len(SubSeq(l, p, q)) = n
      /\ \A i \in 1 .. n : SubSeq(l, p, q)[i] = l[t + i]
  BY <1>3, <1>4
<1> QED BY <1>5 DEF p, q

\* Both satisfy their equations: the functions chosen exist.
LEMMA SumsUnfold ==
  ASSUME NEW b \in Seq(Byte), NEW s \in SUBSET DOMAIN b
  PROVE  Sums(b)[s] = IF s = {} THEN 0 ELSE Sums(b)[s \ {Max(s)}] + b[Max(s)]
<1> DEFINE N == Len(b)
    step == [p \in Nat \X (1 .. N) |-> p[1] + b[p[2]]]
<1>1. N \in Nat /\ DOMAIN b = 1 .. N /\ \A i \in 1 .. N : b[i] \in Nat
  BY ByteSeq, Zenon
<1> HIDE DEF N
<1>2. step \in [Nat \X (1 .. N) -> Nat]
  BY <1>1
<1>3. \A x \in Nat, i \in 1 .. N : step[<<x, i>>] = x + b[i]
  OBVIOUS
<1> HIDE DEF step
<1>4. PICK g \in [SUBSET (1 .. N) -> Nat] : \A t \in SUBSET (1 .. N) :
        g[t] = IF t = {} THEN 0 ELSE step[<<g[t \ {Max(t)}], Max(t)>>]
  <2>1. Foldable(N, Nat, 0, step)
    BY <1>1, <1>2, FoldExists
  <2> QED BY <2>1 DEF Foldable
<1>5. \A t \in SUBSET (1 .. N) :
        g[t] = IF t = {} THEN 0 ELSE g[t \ {Max(t)}] + b[Max(t)]
  <2>1. ASSUME NEW t \in SUBSET (1 .. N), t # {}
        PROVE  g[t] = g[t \ {Max(t)}] + b[Max(t)]
    <3>1. Max(t) \in 1 .. N /\ g[t \ {Max(t)}] \in Nat
      BY <1>1, <2>1, MaxIs
    <3>2. g[t] = step[<<g[t \ {Max(t)}], Max(t)>>]
      BY <1>4, <2>1
    <3> QED BY <1>3, <3>1, <3>2
  <2> QED BY <1>4, <2>1
<1>6. g = [t \in SUBSET (1 .. N) |->
             IF t = {} THEN 0 ELSE g[t \ {Max(t)}] + b[Max(t)]]
  BY <1>5
<1>7. Sums(b) = [t \in SUBSET (1 .. N) |->
                   IF t = {} THEN 0 ELSE Sums(b)[t \ {Max(t)}] + b[Max(t)]]
  BY <1>1, <1>6, Zenon DEF Sums
<1> QED BY <1>1, <1>7

LEMMA ByteSumsUnfold ==
  ASSUME NEW b \in Seq(Byte), NEW s \in SUBSET DOMAIN b
  PROVE  ByteSums(b)[s] =
           IF s = {} THEN 0 ELSE PlusByte(ByteSums(b)[s \ {Max(s)}], b[Max(s)])
<1> DEFINE N == Len(b)
    step == [p \in Nat \X (1 .. N) |-> PlusByte(p[1], b[p[2]])]
<1>1. N \in Nat /\ DOMAIN b = 1 .. N /\ \A i \in 1 .. N : b[i] \in Nat
  BY ByteSeq, Zenon
<1> HIDE DEF N
<1>2. step \in [Nat \X (1 .. N) -> Nat]
  BY <1>1 DEF PlusByte
<1>3. \A x \in Nat, i \in 1 .. N : step[<<x, i>>] = PlusByte(x, b[i])
  OBVIOUS
<1> HIDE DEF step
<1>4. PICK g \in [SUBSET (1 .. N) -> Nat] : \A t \in SUBSET (1 .. N) :
        g[t] = IF t = {} THEN 0 ELSE step[<<g[t \ {Max(t)}], Max(t)>>]
  <2>1. Foldable(N, Nat, 0, step)
    BY <1>1, <1>2, FoldExists
  <2> QED BY <2>1 DEF Foldable
<1>5. \A t \in SUBSET (1 .. N) :
        g[t] = IF t = {} THEN 0 ELSE PlusByte(g[t \ {Max(t)}], b[Max(t)])
  <2>1. ASSUME NEW t \in SUBSET (1 .. N), t # {}
        PROVE  g[t] = PlusByte(g[t \ {Max(t)}], b[Max(t)])
    <3>1. Max(t) \in 1 .. N /\ g[t \ {Max(t)}] \in Nat
      BY <1>1, <2>1, MaxIs
    <3>2. g[t] = step[<<g[t \ {Max(t)}], Max(t)>>]
      BY <1>4, <2>1
    <3> QED BY <1>3, <3>1, <3>2
  <2> QED BY <1>4, <2>1
<1>6. g = [t \in SUBSET (1 .. N) |->
             IF t = {} THEN 0 ELSE PlusByte(g[t \ {Max(t)}], b[Max(t)])]
  BY <1>5
<1>7. ByteSums(b) = [t \in SUBSET (1 .. N) |->
        IF t = {} THEN 0 ELSE PlusByte(ByteSums(b)[t \ {Max(t)}], b[Max(t)])]
  BY <1>1, <1>6, Zenon DEF ByteSums
<1> QED BY <1>1, <1>7

\* The checksum that readcook keeps in a byte is the sum of the bytes modulo 256, for
\* every sequence of bytes.
LEMMA Checksum ==
  ASSUME NEW b \in Seq(Byte)
  PROVE  FoldLeft(LAMBDA x, y : (x + y) % 256, 0, b) = FoldLeft(+, 0, b) % 256
<1> DEFINE N == Len(b)
    T == {n \in 0 .. N : /\ Sums(b)[1 .. n] \in Nat
                         /\ ByteSums(b)[1 .. n] = Sums(b)[1 .. n] % 256}
<1>1. N \in Nat /\ DOMAIN b = 1 .. N /\ \A i \in 1 .. N : b[i] \in Nat
  BY ByteSeq, Zenon
<1> HIDE DEF N
<1>2. 0 \in T
  <2>1. 1 .. 0 = {} /\ {} \in SUBSET DOMAIN b
    OBVIOUS
  <2>2. Sums(b)[{}] = 0 /\ ByteSums(b)[{}] = 0
    BY <2>1, SumsUnfold, ByteSumsUnfold
  <2>3. 0 \in 0 .. N /\ 0 % 256 = 0
    BY <1>1
  <2> QED BY <2>1, <2>2, <2>3
<1>3. ASSUME NEW n \in 0 .. N - 1, n \in T
      PROVE  n + 1 \in T
  <2> DEFINE s == 1 .. n + 1
  <2>1. s \in SUBSET DOMAIN b /\ s # {} /\ n + 1 \in Nat /\ n + 1 \in s
        /\ n + 1 \in 1 .. N /\ n + 1 \in 0 .. N
    BY <1>1
  <2>2. Max(s) = n + 1
    <3>1. Max(s) \in s /\ \A m \in s : Max(s) >= m
      BY <2>1, MaxIs
    <3> QED BY <2>1, <3>1
  <2>3. s \ {n + 1} = 1 .. n
    OBVIOUS
  <2> HIDE DEF s
  <2>4. Sums(b)[s] = Sums(b)[1 .. n] + b[n + 1]
    <3>1. Sums(b)[s] = Sums(b)[s \ {Max(s)}] + b[Max(s)]
      BY <2>1, SumsUnfold
    <3> QED BY <2>2, <2>3, <3>1
  <2>5. ByteSums(b)[s] = PlusByte(ByteSums(b)[1 .. n], b[n + 1])
    <3>1. ByteSums(b)[s] = PlusByte(ByteSums(b)[s \ {Max(s)}], b[Max(s)])
      BY <2>1, ByteSumsUnfold
    <3> QED BY <2>2, <2>3, <3>1
  <2>6. ASSUME NEW x \in Nat, NEW y \in Nat
        PROVE  x + y \in Nat /\ PlusByte(x % 256, y) = (x + y) % 256
    BY DEF PlusByte
  <2>7. /\ Sums(b)[1 .. n] \in Nat /\ b[n + 1] \in Nat
        /\ ByteSums(b)[1 .. n] = Sums(b)[1 .. n] % 256
    BY <1>1, <1>3, <2>1
  <2> HIDE DEF T
  <2>8. Sums(b)[s] \in Nat
    BY <2>4, <2>7
  <2>9. ByteSums(b)[s] = Sums(b)[s] % 256
    BY <2>4, <2>5, <2>6, <2>7
  <2> QED BY <2>1, <2>8, <2>9 DEF s, T
<1>4. N \in T
  <2>1. N \in 0 .. N
    BY <1>1
  <2> HIDE DEF T
  <2>2. \A n \in 0 .. N : n \in T
    BY <1>1, <1>2, <1>3, UpTo
  <2> QED BY <2>1, <2>2
<1>5. ByteSums(b)[DOMAIN b] = Sums(b)[DOMAIN b] % 256
  BY <1>1, <1>4
<1> QED BY <1>5, SumIsFold, ByteSumIsFold

\* A step of SumsUnfold along the sequence.
LEMMA SumsNext ==
  ASSUME NEW b \in Seq(Byte), NEW n \in 0 .. Len(b) - 1
  PROVE  Sums(b)[1 .. n + 1] = Sums(b)[1 .. n] + b[n + 1]
<1> DEFINE s == 1 .. n + 1
           N == Len(b)
<1>1. N \in Nat /\ DOMAIN b = 1 .. N /\ n \in 0 .. N - 1
  BY ByteSeq, Zenon
<1> HIDE DEF N
<1>2. s \in SUBSET DOMAIN b /\ s # {} /\ n + 1 \in Nat /\ n + 1 \in s
  BY <1>1
<1>3. Max(s) = n + 1
  <2>1. Max(s) \in s /\ \A m \in s : Max(s) >= m
    BY <1>2, MaxIs
  <2> QED BY <1>2, <2>1
<1>4. s \ {n + 1} = 1 .. n
  OBVIOUS
<1> HIDE DEF s
<1>5. Sums(b)[s] = Sums(b)[1 .. n] + b[n + 1]
  <2>1. Sums(b)[s] = Sums(b)[s \ {Max(s)}] + b[Max(s)]
    BY <1>2, SumsUnfold
  <2> QED BY <1>3, <1>4, <2>1
<1> QED BY <1>5 DEF s

\* Sequences that differ in one byte differ by as much in their sums.
LEMMA SumsApart ==
  ASSUME NEW g \in Seq(Byte), NEW h \in Seq(Byte), Len(h) = Len(g), NEW i \in 1 .. Len(g),
         \A j \in 1 .. Len(g) : j = i \/ h[j] = g[j]
  PROVE  /\ FoldLeft(+, 0, g) \in Nat /\ FoldLeft(+, 0, h) \in Nat
         /\ FoldLeft(+, 0, g) + h[i] = FoldLeft(+, 0, h) + g[i]
<1> DEFINE N == Len(g)
    Apart(n) == IF n < i THEN Sums(g)[1 .. n] = Sums(h)[1 .. n]
                ELSE Sums(g)[1 .. n] + h[i] = Sums(h)[1 .. n] + g[i]
    T == {n \in 0 .. N : /\ Sums(g)[1 .. n] \in Nat /\ Sums(h)[1 .. n] \in Nat
                         /\ Apart(n)}
<1>1. /\ N \in Nat /\ DOMAIN g = 1 .. N /\ DOMAIN h = 1 .. N /\ i \in 1 .. N
      /\ \A j \in 1 .. N : g[j] \in Nat /\ h[j] \in Nat /\ (j = i \/ h[j] = g[j])
  BY ByteSeq, Zenon
<1>2. \A n \in 0 .. N - 1 : /\ Sums(g)[1 .. n + 1] = Sums(g)[1 .. n] + g[n + 1]
                            /\ Sums(h)[1 .. n + 1] = Sums(h)[1 .. n] + h[n + 1]
  BY SumsNext
<1> HIDE DEF N
<1>3. 0 \in T
  <2>1. 1 .. 0 = {} /\ {} \in SUBSET DOMAIN g /\ {} \in SUBSET DOMAIN h
    OBVIOUS
  <2>2. Sums(g)[{}] = 0 /\ Sums(h)[{}] = 0
    BY <2>1, SumsUnfold
  <2>3. 0 \in 0 .. N /\ 0 < i
    BY <1>1
  <2> QED BY <2>1, <2>2, <2>3
<1>4. ASSUME NEW n \in 0 .. N - 1, n \in T
      PROVE  n + 1 \in T
  <2> DEFINE x == Sums(g)[1 .. n]
             y == Sums(h)[1 .. n]
  <2>1. n \in Nat /\ n + 1 \in 0 .. N /\ n + 1 \in 1 .. N /\ i \in Nat
    BY <1>1
  <2>2. x \in Nat /\ y \in Nat /\ Apart(n)
    BY <1>4
  <2>3. /\ Sums(g)[1 .. n + 1] = x + g[n + 1]
        /\ Sums(h)[1 .. n + 1] = y + h[n + 1]
    BY <1>2
  <2>4. g[n + 1] \in Nat /\ h[n + 1] \in Nat /\ (n + 1 = i \/ h[n + 1] = g[n + 1])
        /\ g[i] \in Nat /\ h[i] \in Nat
    BY <1>1, <2>1
  <2>5. IF n < i THEN x = y ELSE x + h[i] = y + g[i]
    BY <2>2
  <2> HIDE DEF x, y
  <2>6. Sums(g)[1 .. n + 1] \in Nat /\ Sums(h)[1 .. n + 1] \in Nat
    BY <2>2, <2>3, <2>4
  <2>7. Apart(n + 1)
    <3>1. CASE n + 1 < i
      BY <2>1, <2>3, <2>4, <2>5, <3>1
    <3>2. CASE n + 1 = i
      BY <2>1, <2>2, <2>3, <2>4, <2>5, <3>2
    <3>3. CASE n + 1 > i
      <4>1. ~(n < i) /\ ~(n + 1 < i) /\ h[n + 1] = g[n + 1]
        BY <2>1, <2>4, <3>3
      <4>2. x + h[i] = y + g[i]
        BY <2>5, <4>1
      <4>3. (x + g[n + 1]) + h[i] = (y + g[n + 1]) + g[i]
        <5> DEFINE c == g[i]
                   d == h[i]
                   e == g[n + 1]
        <5>1. x + d = y + c
          BY <4>2
        <5>2. x \in Nat /\ y \in Nat /\ c \in Nat /\ d \in Nat /\ e \in Nat
          BY <2>2, <2>4
        <5> HIDE DEF c, d, e
        <5>3. (x + e) + d = (y + e) + c
          BY <5>1, <5>2
        <5> QED BY <5>3 DEF c, d, e
      <4>4. /\ Sums(g)[1 .. n + 1] = x + g[n + 1]
            /\ Sums(h)[1 .. n + 1] = y + g[n + 1]
        BY <2>3, <4>1
      <4>5. Sums(g)[1 .. n + 1] + h[i] = Sums(h)[1 .. n + 1] + g[i]
        BY <4>3, <4>4
      <4> QED BY <4>1, <4>5
    <3> QED BY <2>1, <3>1, <3>2, <3>3
  <2> HIDE DEF Apart
  <2> QED BY <2>1, <2>6, <2>7
<1>5. N \in T
  <2>1. N \in 0 .. N
    BY <1>1
  <2> HIDE DEF T
  <2>2. \A n \in 0 .. N : n \in T
    BY <1>1, <1>3, <1>4, UpTo
  <2> QED BY <2>1, <2>2
<1>6. /\ Sums(g)[1 .. N] \in Nat /\ Sums(h)[1 .. N] \in Nat
      /\ Sums(g)[1 .. N] + h[i] = Sums(h)[1 .. N] + g[i]
  <2>1. ~(N < i)
    BY <1>1
  <2> QED BY <1>5, <2>1
<1> QED BY <1>1, <1>6, SumIsFold

-----------------------------------------------------------------------------
(* Frames *)

\* FromSoh drops what comes before the first SOH.
LEMMA SohFound ==
  ASSUME NEW b \in Seq(Byte)
  PROVE  \/ FromSoh(b) = << >> /\ \A i \in 1 .. Len(b) : b[i] # SOH
         \/ \E k \in 1 .. Len(b) :
              /\ FromSoh(b) = SubSeq(b, k, Len(b))
              /\ b[k] = SOH /\ \A i \in 1 .. k - 1 : b[i] # SOH
<1> DEFINE at == {i \in 1 .. Len(b) : b[i] = SOH}
<1>1. CASE at = {}
  BY <1>1 DEF FromSoh
<1>2. CASE at # {}
  <2>1. Min(at) \in at /\ \A m \in at : Min(at) <= m
    <3>1. at \in SUBSET Nat
      OBVIOUS
    <3> HIDE DEF at
    <3> QED BY <1>2, <3>1, MinIs
  <2>2. FromSoh(b) = SubSeq(b, Min(at), Len(b))
    BY <1>2 DEF FromSoh
  <2> DEFINE k == Min(at)
  <2>3. k \in 1 .. Len(b) /\ b[k] = SOH
    BY <2>1
  <2>4. ASSUME NEW i \in 1 .. k - 1
        PROVE  b[i] # SOH
    <3>1. i \in 1 .. Len(b) /\ ~(k <= i)
      BY <2>3
    <3>2. i \notin at
      BY <2>1, <3>1
    <3> QED BY <3>1, <3>2
  <2> HIDE DEF k
  <2> QED BY <2>2, <2>3, <2>4 DEF k
<1> QED BY <1>1, <1>2

\* Checked with the sum of the bytes in place of the checksum kept in a byte.
LEMMA CheckedSum ==
  ASSUME NEW f \in Seq(Byte), Len(f) > 5
  PROVE  Checked(f) =
           IF HasCrc(f)
           THEN IF Crc(SubSeq(f, 1, Len(f) - 2)) = f[Len(f) - 1] + 256 * f[Len(f)]
                THEN Len(f) - 2 ELSE ERR_CRC
           ELSE IF FoldLeft(+, 0, SubSeq(f, 1, Len(f) - 1)) % 256 = f[Len(f)]
                THEN Len(f) - 1 ELSE ERR_CRC
<1> DEFINE g == SubSeq(f, 1, Len(f) - 1)
<1>1. g \in Seq(Byte)
  <2>1. \A i \in 1 .. Len(f) - 1 : f[i] \in Byte
    BY ElementOfSeq
  <2> QED BY <2>1, SubSeqProperties
<1>2. FoldLeft(LAMBDA x, y : (x + y) % 256, 0, g) = FoldLeft(+, 0, g) % 256
  BY <1>1, Checksum
<1> QED BY <1>2, Zenon DEF Checked

\* readcook's check tells the frames with correct check bytes from the others, and
\* returns the size without them.
LEMMA CheckedFrame ==
  ASSUME NEW f \in Seq(Byte), Len(f) > 5, f[1] = SOH, Total(f) = Len(f)
  PROVE  /\ GoodFrame(f) <=> Checked(f) # ERR_CRC
         /\ Checked(f) # ERR_CRC => Checked(f) = Len(f) - (IF HasCrc(f) THEN 2 ELSE 1)
<1>1. Len(f) \in Nat
  OBVIOUS
<1>2. Len(f) - 1 # ERR_CRC /\ Len(f) - 2 # ERR_CRC
  BY <1>1 DEF ERR_CRC
<1> QED BY <1>2, CheckedSum, Zenon DEF GoodFrame

\* A frame of any length that has a checksum and no CRC: readcook refuses it when one byte
\* was damaged, the check byte included (osdpprotocol.cpp: readcook's loop over m_in_buffer),
\* unless the damage makes it look for a CRC instead.
THEOREM DamagedByteIsRefused ==
  ASSUME NEW frame \in Seq(Byte), NEW i \in 1 .. Len(frame), NEW b \in Byte, b # frame[i],
         NEW damaged, damaged = [frame EXCEPT ![i] = b],
         Len(frame) > 5, ~HasCrc(frame), ~HasCrc(damaged), Checked(frame) # ERR_CRC
  PROVE  Checked(damaged) = ERR_CRC
<1> DEFINE n == Len(frame)
           g == SubSeq(frame, 1, n - 1)
           h == SubSeq(damaged, 1, n - 1)
<1>1. n \in Nat /\ n > 5 /\ i \in 1 .. n /\ DOMAIN frame = 1 .. n
  OBVIOUS
<1>2. /\ damaged \in Seq(Byte) /\ Len(damaged) = n /\ damaged[i] = b
      /\ \A j \in 1 .. n : j = i \/ damaged[j] = frame[j]
  <2>1. damaged \in [1 .. n -> Byte]
    BY <1>1
  <2> QED BY <1>1, <2>1
<1>3. /\ g \in Seq(Byte) /\ Len(g) = n - 1 /\ \A j \in 1 .. n - 1 : g[j] = frame[j]
      /\ h \in Seq(Byte) /\ Len(h) = n - 1 /\ \A j \in 1 .. n - 1 : h[j] = damaged[j]
  <2> HIDE DEF n
  <2>1. ASSUME NEW f \in Seq(Byte), Len(f) = n
        PROVE  LET p == SubSeq(f, 1, n - 1)
               IN  p \in Seq(Byte) /\ Len(p) = n - 1 /\ \A j \in 1 .. n - 1 : p[j] = f[j]
    <3>1. 0 \in 0 .. Len(f) /\ n - 1 \in Nat /\ 0 + (n - 1) <= Len(f)
      BY <1>1, <2>1
    <3>2. 0 + 1 = 1 /\ 0 + (n - 1) = n - 1 /\ \A j \in 1 .. n - 1 : 0 + j = j
      BY <1>1
    <3> QED BY <3>1, <3>2, Piece
  <2> QED BY <1>2, <2>1 DEF n
<1>4. FoldLeft(+, 0, g) % 256 = frame[n]
  <2> HIDE DEF g
  <2>1. Checked(frame) = IF FoldLeft(+, 0, g) % 256 = frame[n] THEN n - 1 ELSE ERR_CRC
    BY CheckedSum, Zenon DEF g
  <2> QED BY <2>1
<1>5. Checked(damaged) = IF FoldLeft(+, 0, h) % 256 = damaged[n] THEN n - 1 ELSE ERR_CRC
  <2> HIDE DEF n
  <2>1. Len(damaged) > 5
    BY <1>1, <1>2
  <2> QED BY <1>2, <2>1, CheckedSum, Zenon
<1> HIDE DEF n, g, h
<1>6. CASE i = n
  <2>1. g = h
    BY <1>1, <1>2, <1>3, <1>6, SeqEqual
  <2> QED BY <1>2, <1>4, <1>5, <1>6, <2>1
<1>7. CASE i # n
  <2>1. i \in 1 .. Len(g) /\ Len(h) = Len(g) /\ damaged[n] = frame[n]
        /\ g[i] = frame[i] /\ h[i] = b
    BY <1>1, <1>2, <1>3, <1>7
  <2>2. \A j \in 1 .. Len(g) : j = i \/ h[j] = g[j]
    BY <1>1, <1>2, <1>3
  <2> DEFINE x == FoldLeft(+, 0, g)
             y == FoldLeft(+, 0, h)
  <2>3. x \in Nat /\ y \in Nat /\ x + h[i] = y + g[i]
    BY <1>3, <2>1, <2>2, SumsApart
  <2>4. g[i] \in 0 .. 255 /\ h[i] \in 0 .. 255 /\ g[i] # h[i]
    BY <1>1, <2>1, ElementOfSeq DEF Byte, n
  <2> HIDE DEF x, y
  <2>5. ASSUME NEW p \in Nat, NEW q \in Nat, NEW c \in 0 .. 255, NEW d \in 0 .. 255,
               p + d = q + c, c # d
        PROVE  p % 256 # q % 256
    <3> DEFINE k == p \div 256
               l == q \div 256
    <3>1. k \in Int /\ l \in Int /\ p = 256 * k + (p % 256) /\ q = 256 * l + (q % 256)
      OBVIOUS
    <3>2. p % 256 \in Int /\ q % 256 \in Int
      OBVIOUS
    <3> HIDE DEF k, l
    <3>3. SUFFICES ASSUME p % 256 = q % 256
                   PROVE  FALSE
      OBVIOUS
    <3>4. 256 * k - 256 * l = c - d
      BY <2>5, <3>1, <3>2, <3>3
    <3>5. c - d \in -255 .. 255 /\ c - d # 0
      BY <2>5
    <3>6. k - l \in Int /\ 256 * (k - l) = c - d
      BY <3>1, <3>4
    <3> QED BY <3>5, <3>6
  <2>6. x % 256 # y % 256
    BY <2>3, <2>4, <2>5
  <2> QED BY <1>4, <1>5, <2>1, <2>6 DEF x, y
<1> QED BY <1>6, <1>7

-----------------------------------------------------------------------------
(* What is written is read back *)

\* A number of two bytes.
TwoByte(x) == x \in Nat /\ x < 256 * 256

LEMMA TwoBytes ==
  ASSUME NEW x, TwoByte(x)
  PROVE  Low(x) \in Byte /\ High(x) \in Byte /\ Low(x) + 256 * High(x) = x
<1>1. x \in Nat /\ x < 256 * 256
  BY DEF TwoByte
<1> DEFINE q == x \div 256
           r == x % 256
<1>2. q \in Int /\ r \in 0 .. 255 /\ x = 256 * q + r
  BY <1>1
<1>3. \A y \in Int : 0 <= y /\ y <= 255 => y \in 0 .. 255 /\ y % 256 = y
  OBVIOUS
<1> HIDE DEF q, r
<1>4. 0 <= q /\ q <= 255 /\ r + 256 * q = x
  BY <1>1, <1>2
<1>5. q \in 0 .. 255 /\ q % 256 = q
  BY <1>2, <1>3, <1>4
<1>6. Low(x) = r /\ High(x) = q
  BY <1>5 DEF Low, High, q, r
<1> QED BY <1>2, <1>4, <1>5, <1>6 DEF Byte

LEMMA Concat ==
  ASSUME NEW s \in Seq(Byte), NEW t \in Seq(Byte)
  PROVE  /\ s \o t \in Seq(Byte) /\ Len(s \o t) = Len(s) + Len(t)
         /\ \A i \in 1 .. Len(s) : (s \o t)[i] = s[i]
         /\ \A i \in 1 .. Len(t) : (s \o t)[Len(s) + i] = t[i]
<1>1. Len(s) \in Nat /\ Len(t) \in Nat
  OBVIOUS
<1>2. \A i \in 1 .. Len(s) + Len(t) :
        (s \o t)[i] = IF i <= Len(s) THEN s[i] ELSE t[i - Len(s)]
  BY ConcatProperties
<1>3. ASSUME NEW i \in 1 .. Len(s) PROVE (s \o t)[i] = s[i]
  <2>1. i \in 1 .. Len(s) + Len(t) /\ i <= Len(s)
    BY <1>1
  <2> QED BY <1>2, <2>1
<1>4. ASSUME NEW i \in 1 .. Len(t) PROVE (s \o t)[Len(s) + i] = t[i]
  <2>1. Len(s) + i \in 1 .. Len(s) + Len(t) /\ ~(Len(s) + i <= Len(s))
        /\ (Len(s) + i) - Len(s) = i
    BY <1>1
  <2> QED BY <1>2, <2>1
<1>5. s \o t \in Seq(Byte) /\ Len(s \o t) = Len(s) + Len(t)
  BY ConcatProperties
<1> QED BY <1>3, <1>4, <1>5

\* The first n bytes.
LEMMA Prefix ==
  ASSUME NEW b \in Seq(Byte), NEW n \in Nat, n <= Len(b)
  PROVE  /\ SubSeq(b, 1, n) \in Seq(Byte) /\ Len(SubSeq(b, 1, n)) = n
         /\ \A i \in 1 .. n : SubSeq(b, 1, n)[i] = b[i]
<1>1. /\ SubSeq(b, 0 + 1, 0 + n) \in Seq(Byte) /\ Len(SubSeq(b, 0 + 1, 0 + n)) = n
      /\ \A i \in 1 .. n : SubSeq(b, 0 + 1, 0 + n)[i] = b[0 + i]
  <2>1. 0 \in 0 .. Len(b) /\ 0 + n <= Len(b)
    OBVIOUS
  <2> QED BY <2>1, Piece
<1>2. 0 + 1 = 1 /\ 0 + n = n /\ \A i \in 1 .. n : 0 + i = i
  OBVIOUS
<1> QED BY <1>1, <1>2

LEMMA PadBytes ==
  ASSUME NEW n \in Nat
  PROVE  Pad(n) \in Seq(Byte) /\ Len(Pad(n)) = n /\ \A i \in 1 .. n : Pad(n)[i] = 255
BY DEF Pad, Byte

\* Lead bytes before a frame are dropped, and nothing else.
LEMMA SkipsLead ==
  ASSUME NEW g \in Seq(Byte), Len(g) >= 1, g[1] = SOH, NEW lead \in Nat
  PROVE  FromSoh(Pad(lead) \o g) = g
<1> DEFINE pad == Pad(lead)
           w == pad \o g
<1>0. Len(g) \in Nat /\ SOH # 255
  BY DEF SOH
<1>1. pad \in Seq(Byte) /\ Len(pad) = lead /\ \A i \in 1 .. lead : pad[i] = 255
  BY PadBytes
<1> HIDE DEF pad
<1>2. /\ w \in Seq(Byte) /\ Len(w) = lead + Len(g)
      /\ \A i \in 1 .. lead : w[i] = 255
      /\ \A i \in 1 .. Len(g) : w[lead + i] = g[i]
  <2>1. /\ w \in Seq(Byte) /\ Len(w) = Len(pad) + Len(g)
        /\ \A i \in 1 .. Len(pad) : w[i] = pad[i]
        /\ \A i \in 1 .. Len(g) : w[Len(pad) + i] = g[i]
    BY <1>1, Concat
  <2> QED BY <1>1, <2>1
<1> HIDE DEF w
<1>3. lead + 1 \in 1 .. Len(w) /\ w[lead + 1] = SOH
  <2>1. 1 \in 1 .. Len(g)
    BY <1>0
  <2> QED BY <1>0, <1>2, <2>1
<1>4. PICK k \in 1 .. Len(w) : /\ FromSoh(w) = SubSeq(w, k, Len(w))
                              /\ w[k] = SOH /\ \A i \in 1 .. k - 1 : w[i] # SOH
  <2>1. ~(\A i \in 1 .. Len(w) : w[i] # SOH)
    BY <1>3
  <2>2. \/ \A i \in 1 .. Len(w) : w[i] # SOH
        \/ \E k \in 1 .. Len(w) :
             /\ FromSoh(w) = SubSeq(w, k, Len(w))
             /\ w[k] = SOH /\ \A i \in 1 .. k - 1 : w[i] # SOH
    BY <1>2, SohFound
  <2> QED BY <2>1, <2>2
<1>5. k = lead + 1
  <2>1. ~(k <= lead)
    <3>1. k <= lead => k \in 1 .. lead
      BY <1>2
    <3> QED BY <1>0, <1>2, <1>4, <3>1
  <2>2. ~(lead + 1 < k)
    <3>1. lead + 1 < k => lead + 1 \in 1 .. k - 1
      BY <1>2
    <3> QED BY <1>3, <1>4, <3>1
  <2>3. k \in Nat
    OBVIOUS
  <2> QED BY <2>1, <2>2, <2>3
<1>6. /\ SubSeq(w, lead + 1, lead + Len(g)) \in Seq(Byte)
      /\ Len(SubSeq(w, lead + 1, lead + Len(g))) = Len(g)
      /\ \A i \in 1 .. Len(g) : SubSeq(w, lead + 1, lead + Len(g))[i] = w[lead + i]
  <2>1. lead \in 0 .. Len(w) /\ lead + Len(g) <= Len(w)
    BY <1>0, <1>2
  <2> QED BY <1>0, <1>2, <2>1, Piece
<1>7. SubSeq(w, lead + 1, lead + Len(g)) = g
  BY <1>2, <1>6, SeqEqual
<1> QED BY <1>2, <1>4, <1>5, <1>7 DEF w, pad

LEMMA Assoc ==
  ASSUME NEW s \in Seq(Byte), NEW t \in Seq(Byte), NEW u \in Seq(Byte)
  PROVE  (s \o t) \o u = s \o (t \o u)
BY ConcatAssociative

\* A frame f before its check bytes c and the trail bytes t.
LEMMA FrameBytes ==
  ASSUME NEW f \in Seq(Byte), NEW c \in Seq(Byte), NEW t \in Seq(Byte)
  PROVE  /\ f \o c \in Seq(Byte) /\ Len(f \o c) = Len(f) + Len(c)
         /\ f \o (c \o t) \in Seq(Byte)
         /\ Len(f \o (c \o t)) = Len(f) + Len(c) + Len(t)
         /\ \A i \in 1 .. Len(f) : (f \o c)[i] = f[i] /\ (f \o (c \o t))[i] = f[i]
         /\ \A i \in 1 .. Len(c) : (f \o c)[Len(f) + i] = c[i]
         /\ SubSeq(f \o (c \o t), 1, Len(f) + Len(c)) = f \o c
         /\ SubSeq(f \o c, 1, Len(f)) = f
<1>0. Len(f) \in Nat /\ Len(c) \in Nat /\ Len(t) \in Nat
  OBVIOUS
<1>1. /\ f \o c \in Seq(Byte) /\ Len(f \o c) = Len(f) + Len(c)
      /\ \A i \in 1 .. Len(f) : (f \o c)[i] = f[i]
      /\ \A i \in 1 .. Len(c) : (f \o c)[Len(f) + i] = c[i]
  BY Concat
<1> DEFINE e == f \o c
           g == e \o t
<1>2. g = f \o (c \o t)
  BY ConcatAssociative
<1> HIDE DEF e
<1>3. /\ g \in Seq(Byte) /\ Len(g) = Len(e) + Len(t)
      /\ \A i \in 1 .. Len(e) : g[i] = e[i]
  BY <1>1, Concat DEF e
<1> HIDE DEF g
<1>4. SubSeq(g, 1, Len(e)) = e
  <2>1. Len(e) \in Nat /\ Len(e) <= Len(g)
    BY <1>0, <1>1, <1>3 DEF e
  <2>2. /\ SubSeq(g, 1, Len(e)) \in Seq(Byte) /\ Len(SubSeq(g, 1, Len(e))) = Len(e)
        /\ \A i \in 1 .. Len(e) : SubSeq(g, 1, Len(e))[i] = g[i]
    BY <1>3, <2>1, Prefix
  <2>3. e \in Seq(Byte)
    BY <1>1 DEF e
  <2> QED BY <1>3, <2>2, <2>3, SeqEqual
<1>5. SubSeq(e, 1, Len(f)) = f
  <2>1. Len(f) <= Len(e) /\ e \in Seq(Byte)
    BY <1>0, <1>1 DEF e
  <2>2. /\ SubSeq(e, 1, Len(f)) \in Seq(Byte) /\ Len(SubSeq(e, 1, Len(f))) = Len(f)
        /\ \A i \in 1 .. Len(f) : SubSeq(e, 1, Len(f))[i] = e[i]
    BY <1>0, <2>1, Prefix
  <2> QED BY <1>1, <2>2, SeqEqual DEF e
<1>6. \A i \in 1 .. Len(f) : g[i] = f[i]
  <2>1. \A i \in 1 .. Len(f) : i \in 1 .. Len(e)
    BY <1>0, <1>1 DEF e
  <2> QED BY <1>1, <1>3, <2>1 DEF e
<1> QED BY <1>1, <1>2, <1>3, <1>4, <1>5, <1>6 DEF e

LEMMA HeaderBytes ==
  ASSUME NEW addr \in Nat, NEW seq \in Nat, NEW payload \in Seq(Byte),
         TwoByte(Length(payload))
  PROVE  LET h == Header(addr, seq, payload)
         IN  /\ h \in Seq(Byte) /\ Len(h) = 5
             /\ h[1] = SOH /\ h[2] = addr % 128 /\ h[3] + 256 * h[4] = Length(payload)
             /\ h[5] \div 4 = 1 /\ h[5] % 4 = seq % 4
<1>1. /\ Low(Length(payload)) \in Byte /\ High(Length(payload)) \in Byte
      /\ Low(Length(payload)) + 256 * High(Length(payload)) = Length(payload)
  BY TwoBytes
<1>2. addr % 128 \in Byte
  BY DEF Byte
<1>3. seq % 4 \in 0 .. 3
  OBVIOUS
<1>4. \A y \in 0 .. 3 : y + 4 \in Byte /\ (y + 4) \div 4 = 1 /\ (y + 4) % 4 = y
  BY DEF Byte
<1>5. SOH \in Byte
  BY DEF SOH, Byte
<1> DEFINE lo == Low(Length(payload))
           hi == High(Length(payload))
           ad == addr % 128
           ct == (seq % 4) + 4
<1>6. Header(addr, seq, payload) = <<SOH, ad, lo, hi, ct>>
  BY DEF Header
<1>7. lo \in Byte /\ hi \in Byte /\ ad \in Byte /\ ct \in Byte
  BY <1>1, <1>2, <1>3, <1>4
<1> HIDE DEF lo, hi, ad, ct
<1>8. /\ <<SOH, ad, lo, hi, ct>> \in Seq(Byte) /\ Len(<<SOH, ad, lo, hi, ct>>) = 5
  BY <1>5, <1>7
<1>9. lo + 256 * hi = Length(payload)
  BY <1>1 DEF lo, hi
<1>10. ad = addr % 128 /\ ct \div 4 = 1 /\ ct % 4 = seq % 4
  BY <1>3, <1>4 DEF ad, ct
<1> QED BY <1>6, <1>8, <1>9, <1>10

\* A payload as readcook finds it in the bytes that writecook has sent.
ReadBack(addr, seq, payload, lead, trail) ==
  LET bytes == FromSoh(writecook(addr, seq, payload, lead, trail))
      frame == SubSeq(bytes, 1, Total(bytes))
  IN  /\ Total(bytes) = Length(payload) /\ ~BadLength(Total(bytes))
      /\ Len(bytes) = Len(frame) + trail
      /\ GoodFrame(frame) /\ HasCrc(frame)
      /\ SubSeq(frame, HEADER + 1, Checked(frame)) = payload
      /\ frame[2] = addr % 128 /\ frame[5] % 4 = seq % 4

\* What writecook sends for a payload is, after any number of lead bytes, a good frame of
\* the length in its header, and what readcook finds in it is the payload, the address
\* and the sequence number sent, whatever the CRC, provided that the length and the CRC
\* fit their two bytes and the frame fits the buffer (osdpprotocol.cpp: writecook,
\* readcook).
THEOREM WrittenIsRead ==
  ASSUME NEW addr \in Nat, NEW seq \in Nat, NEW payload \in Seq(Byte),
         NEW lead \in Nat, NEW trail \in Nat,
         TwoByte(Length(payload)), Length(payload) <= BUFSIZE - HEADER,
         TwoByte(Crc(Header(addr, seq, payload) \o payload))
  PROVE  ReadBack(addr, seq, payload, lead, trail)
<1> DEFINE h == Header(addr, seq, payload)
           f == h \o payload
           c == <<Low(Crc(f)), High(Crc(f))>>
           t == Pad(trail)
           m == f \o c
           g == f \o (c \o t)
           n == Len(payload)
<1>1. /\ h \in Seq(Byte) /\ Len(h) = 5
      /\ h[1] = SOH /\ h[2] = addr % 128 /\ h[3] + 256 * h[4] = Length(payload)
      /\ h[5] \div 4 = 1 /\ h[5] % 4 = seq % 4
  BY HeaderBytes
<1>2. /\ c \in Seq(Byte) /\ Len(c) = 2 /\ c[1] + 256 * c[2] = Crc(f)
  <2> DEFINE crc == Crc(f)
  <2>1. TwoByte(crc)
    OBVIOUS
  <2> HIDE DEF crc
  <2>2. Low(crc) \in Byte /\ High(crc) \in Byte /\ Low(crc) + 256 * High(crc) = crc
    BY <2>1, TwoBytes
  <2>3. LET d == <<Low(crc), High(crc)>>
        IN  d \in Seq(Byte) /\ Len(d) = 2 /\ d[1] + 256 * d[2] = crc
    BY <2>2
  <2> QED BY <2>3 DEF crc
<1>3. t \in Seq(Byte) /\ Len(t) = trail
  BY PadBytes
<1>4. Pad(lead) \in Seq(Byte)
  BY PadBytes
<1>5. writecook(addr, seq, payload, lead, trail) = ((Pad(lead) \o f) \o c) \o t
  BY DEF writecook
<1>6. n \in Nat /\ Length(payload) = n + 7
  BY DEF Length, HEADER
<1> HIDE DEF h, c, t, n
<1>7. /\ f \in Seq(Byte) /\ Len(f) = n + 5
      /\ \A i \in 1 .. 5 : f[i] = h[i]
      /\ \A i \in 1 .. n : f[5 + i] = payload[i]
  <2>1. /\ f \in Seq(Byte) /\ Len(f) = Len(h) + Len(payload)
        /\ \A i \in 1 .. Len(h) : f[i] = h[i]
        /\ \A i \in 1 .. Len(payload) : f[Len(h) + i] = payload[i]
    BY <1>1, Concat
  <2> HIDE DEF f
  <2> QED BY <1>1, <1>6, <2>1 DEF n
<1> HIDE DEF f
<1>8. ((Pad(lead) \o f) \o c) \o t = Pad(lead) \o g
  <2>1. (Pad(lead) \o f) \o c = Pad(lead) \o m
    BY <1>2, <1>4, <1>7, Assoc, Zenon
  <2>2. m \in Seq(Byte)
    BY <1>2, <1>7, Concat, Zenon
  <2>3. (Pad(lead) \o m) \o t = Pad(lead) \o (m \o t)
    BY <1>3, <1>4, <2>2, Assoc, Zenon
  <2>4. m \o t = g
    BY <1>2, <1>3, <1>7, Assoc, Zenon
  <2> QED BY <2>1, <2>3, <2>4
<1>9. /\ m \in Seq(Byte) /\ Len(m) = n + 7 /\ g \in Seq(Byte) /\ Len(g) = (n + 7) + trail
      /\ \A i \in 1 .. n + 5 : m[i] = f[i] /\ g[i] = f[i]
      /\ \A i \in 1 .. 2 : m[(n + 5) + i] = c[i]
      /\ SubSeq(g, 1, n + 7) = m /\ SubSeq(m, 1, n + 5) = f
  <2>1. /\ m \in Seq(Byte) /\ Len(m) = Len(f) + Len(c)
        /\ g \in Seq(Byte) /\ Len(g) = Len(f) + Len(c) + Len(t)
        /\ \A i \in 1 .. Len(f) : m[i] = f[i] /\ g[i] = f[i]
        /\ \A i \in 1 .. Len(c) : m[Len(f) + i] = c[i]
        /\ SubSeq(g, 1, Len(f) + Len(c)) = m /\ SubSeq(m, 1, Len(f)) = f
    <3>1. f \in Seq(Byte) /\ c \in Seq(Byte) /\ t \in Seq(Byte)
      BY <1>2, <1>3, <1>7
    <3> QED BY <3>1, FrameBytes
  <2>2. Len(f) = n + 5 /\ Len(c) = 2 /\ Len(t) = trail /\ Len(f) + Len(c) = n + 7
        /\ Len(f) + Len(c) + Len(t) = (n + 7) + trail
    BY <1>2, <1>3, <1>6, <1>7
  <2> HIDE DEF m, g
  <2> QED BY <2>1, <2>2
<1> HIDE DEF m, g
<1>10. \A i \in 1 .. 5 : m[i] = h[i] /\ g[i] = h[i]
  <2>1. \A i \in 1 .. 5 : i \in 1 .. n + 5
    BY <1>6
  <2> QED BY <1>7, <1>9, <2>1
<1>11. m[1] = SOH /\ g[1] = SOH /\ m[2] = h[2] /\ m[5] = h[5]
       /\ Total(m) = n + 7 /\ Total(g) = n + 7
  <2>1. 1 \in 1 .. 5 /\ 2 \in 1 .. 5 /\ 3 \in 1 .. 5 /\ 4 \in 1 .. 5 /\ 5 \in 1 .. 5
    OBVIOUS
  <2> QED BY <1>1, <1>6, <1>10, <2>1 DEF Total
<1>12. FromSoh(writecook(addr, seq, payload, lead, trail)) = g
  <2>1. Len(g) >= 1
    BY <1>6, <1>9
  <2>2. FromSoh(Pad(lead) \o g) = g
    BY <1>9, <1>11, <2>1, SkipsLead
  <2> QED BY <1>5, <1>8, <2>2
<1>13. HasCrc(m) /\ ~BadLength(n + 7)
  <2>1. HasCrc(m)
    BY <1>1, <1>11 DEF HasCrc
  <2>2. ~BadLength(n + 7)
    BY <1>6, SizeAssumption DEF BadLength, HEADER
  <2> QED BY <2>1, <2>2
<1>14. GoodFrame(m) /\ Checked(m) = n + 5
  <2>1. Len(m) - 2 = n + 5 /\ Len(m) - 1 = (n + 5) + 1 /\ Len(m) = (n + 5) + 2 /\ Len(m) > 5
    BY <1>6, <1>9
  <2>2. 1 \in 1 .. 2 /\ 2 \in 1 .. 2
    OBVIOUS
  <2>3. m[Len(m) - 1] + 256 * m[Len(m)] = Crc(f)
    BY <1>2, <1>9, <2>1, <2>2
  <2>4. Crc(SubSeq(m, 1, Len(m) - 2)) = m[Len(m) - 1] + 256 * m[Len(m)]
    BY <1>9, <2>1, <2>3
  <2>5. GoodFrame(m)
    BY <1>9, <1>11, <1>13, <2>1, <2>4 DEF GoodFrame
  <2>6. Checked(m) = n + 5
    BY <1>13, <2>1, <2>4 DEF Checked
  <2> QED BY <2>5, <2>6
<1>15. SubSeq(m, HEADER + 1, Checked(m)) = payload
  <2>1. /\ SubSeq(m, 5 + 1, 5 + n) \in Seq(Byte) /\ Len(SubSeq(m, 5 + 1, 5 + n)) = n
        /\ \A i \in 1 .. n : SubSeq(m, 5 + 1, 5 + n)[i] = m[5 + i]
    <3>1. 5 \in 0 .. Len(m) /\ 5 + n <= Len(m)
      BY <1>6, <1>9
    <3> QED BY <1>6, <1>9, <3>1, Piece
  <2>2. \A i \in 1 .. n : m[5 + i] = payload[i]
    <3>1. \A i \in 1 .. n : 5 + i \in 1 .. n + 5
      BY <1>6
    <3> QED BY <1>7, <1>9, <3>1
  <2>3. SubSeq(m, 5 + 1, 5 + n) = payload
    BY <2>1, <2>2, SeqEqual DEF n
  <2>4. 5 + n = n + 5
    BY <1>6
  <2> QED BY <1>14, <2>3, <2>4 DEF HEADER
<1> DEFINE bytes == FromSoh(writecook(addr, seq, payload, lead, trail))
           frame == SubSeq(bytes, 1, Total(bytes))
<1>16. bytes = g /\ Total(bytes) = n + 7 /\ frame = m
  BY <1>9, <1>11, <1>12
<1> HIDE DEF bytes, frame
<1>17. /\ Total(bytes) = Length(payload) /\ ~BadLength(Total(bytes))
       /\ Len(bytes) = Len(frame) + trail
       /\ GoodFrame(frame) /\ HasCrc(frame)
       /\ SubSeq(frame, HEADER + 1, Checked(frame)) = payload
       /\ frame[2] = addr % 128 /\ frame[5] % 4 = seq % 4
  BY <1>1, <1>6, <1>9, <1>11, <1>13, <1>14, <1>15, <1>16
<1> QED BY <1>17 DEF bytes, frame, ReadBack

-----------------------------------------------------------------------------
(* mem_zero *)

LEMMA PieceIsZero ==
  ASSUME NEW mem \in Seq(Byte), NEW t \in 0 .. Len(mem), NEW n \in Nat, t + n <= Len(mem)
  PROVE  AllZero(SubSeq(mem, t + 1, t + n)) <=> \A i \in 1 .. n : mem[t + i] = 0
<1> DEFINE p == SubSeq(mem, t + 1, t + n)
<1>1. p \in Seq(Byte) /\ Len(p) = n /\ \A i \in 1 .. n : p[i] = mem[t + i]
  BY Piece
<1> HIDE DEF p
<1>2. DOMAIN p = 1 .. n
  BY <1>1
<1>3. AllZero(p) <=> \A i \in 1 .. n : mem[t + i] = 0
  BY <1>1, <1>2 DEF AllZero
<1> QED BY <1>3 DEF p

\* Leading bytes, words and trailing bytes are together all the bytes, whatever the
\* address and the size: mem_zero finds out whether the memory is zero (osdpslave.cpp).
THEOREM ZeroIsFound ==
  ASSUME NEW address \in Nat, NEW mem \in Seq(Byte)
  PROVE  mem_zero(address, mem) <=> AllZero(mem)
<1> DEFINE n == Len(mem)
           lead == Leading(address, n)
           words == Words(n - lead)
           tail == lead + 4 * words
<1>1. n \in Nat /\ DOMAIN mem = 1 .. n
  OBVIOUS
<1> HIDE DEF n
<1>2. lead \in Nat /\ lead <= n
  <2> DEFINE x == (8 - (address % 8)) % 8
  <2>1. x \in Nat
    OBVIOUS
  <2> HIDE DEF x
  <2>2. Min({n, x}) = IF n <= x THEN n ELSE x
    BY <1>1, <2>1, MinOfTwo
  <2>3. lead = Min({n, x})
    BY DEF Leading, x
  <2> HIDE DEF lead
  <2> QED BY <1>1, <2>1, <2>2, <2>3
<1> HIDE DEF lead
<1>3. words \in Nat /\ tail \in Nat /\ tail <= n
  <2>1. n - lead \in Nat
    BY <1>1, <1>2
  <2> DEFINE z == n - lead
  <2>2. words = z \div 4
    BY DEF Words
  <2> HIDE DEF z
  <2>3. z \div 4 \in Nat /\ 4 * (z \div 4) <= z
    BY <2>1 DEF z
  <2> HIDE DEF words
  <2>4. words \in Nat /\ 4 * words <= n - lead
    BY <2>2, <2>3 DEF z
  <2> QED BY <1>1, <1>2, <2>4
<1> HIDE DEF words
<1>4. AllZero(SubSeq(mem, 1, lead)) <=> \A i \in 1 .. lead : mem[i] = 0
  <2>1. 0 \in 0 .. Len(mem) /\ 0 + lead <= Len(mem)
    BY <1>1, <1>2 DEF n
  <2>2. AllZero(SubSeq(mem, 0 + 1, 0 + lead)) <=> \A i \in 1 .. lead : mem[0 + i] = 0
    BY <1>2, <2>1, PieceIsZero
  <2>3. 0 + 1 = 1 /\ 0 + lead = lead /\ \A i \in 1 .. lead : 0 + i = i
    BY <1>2
  <2> QED BY <2>2, <2>3
<1>5. ASSUME NEW w \in 0 .. words - 1
      PROVE  WordIsZero(SubSeq(mem, lead + 4 * w + 1, lead + 4 * w + 4))
               <=> \A j \in 1 .. 4 : mem[(lead + 4 * w) + j] = 0
  <2> DEFINE t == lead + 4 * w
  <2>1. t \in 0 .. Len(mem) /\ t + 4 <= Len(mem) /\ 4 \in Nat
    BY <1>1, <1>2, <1>3 DEF n
  <2> HIDE DEF t
  <2>2. AllZero(SubSeq(mem, t + 1, t + 4)) <=> \A j \in 1 .. 4 : mem[t + j] = 0
    BY <2>1, PieceIsZero
  <2> QED BY <2>2 DEF t, WordIsZero
<1>6. AllZero(SubSeq(mem, tail + 1, Len(mem)))
        <=> \A i \in 1 .. n - tail : mem[tail + i] = 0
  <2> HIDE DEF tail
  <2>1. tail \in 0 .. Len(mem) /\ n - tail \in Nat /\ tail + (n - tail) <= Len(mem)
        /\ tail + (n - tail) = Len(mem)
    BY <1>1, <1>3 DEF n
  <2>2. AllZero(SubSeq(mem, tail + 1, tail + (n - tail)))
          <=> \A i \in 1 .. n - tail : mem[tail + i] = 0
    BY <2>1, PieceIsZero
  <2> QED BY <2>1, <2>2
<1>7. mem_zero(address, mem) <=>
        /\ \A i \in 1 .. lead : mem[i] = 0
        /\ \A w \in 0 .. words - 1 : \A j \in 1 .. 4 : mem[(lead + 4 * w) + j] = 0
        /\ \A i \in 1 .. n - tail : mem[tail + i] = 0
  <2>1. mem_zero(address, mem) <=>
          /\ AllZero(SubSeq(mem, 1, lead))
          /\ \A w \in 0 .. words - 1 :
               WordIsZero(SubSeq(mem, lead + 4 * w + 1, lead + 4 * w + 4))
          /\ AllZero(SubSeq(mem, tail + 1, Len(mem)))
    BY Zenon DEF mem_zero, n, lead, words
  <2> HIDE DEF tail
  <2> QED BY <1>4, <1>5, <1>6, <2>1
<1>8. ASSUME NEW i \in 1 .. n
      PROVE  \/ i \in 1 .. lead
             \/ \E w \in 0 .. words - 1 : \E j \in 1 .. 4 : i = (lead + 4 * w) + j
             \/ \E k \in 1 .. n - tail : i = tail + k
  <2>1. CASE i <= lead
    BY <1>1, <1>2, <2>1
  <2>2. CASE i > tail
    <3>1. i - tail \in 1 .. n - tail /\ i = tail + (i - tail)
      BY <1>1, <1>3, <2>2
    <3> QED BY <3>1
  <2>3. CASE lead < i /\ i <= tail
    <3> DEFINE y == i - lead - 1
               w == y \div 4
               j == (y % 4) + 1
    <3>1. y \in Nat /\ y < 4 * words
      BY <1>1, <1>2, <1>3, <2>3
    <3>2. i = lead + y + 1
      BY <1>1, <1>2
    <3> HIDE DEF y
    <3>3. w \in Nat /\ j \in 1 .. 4 /\ y = 4 * w + (j - 1)
      BY <3>1
    <3> HIDE DEF w, j
    <3>4. w \in 0 .. words - 1 /\ i = (lead + 4 * w) + j
      BY <1>2, <1>3, <3>1, <3>2, <3>3
    <3> QED BY <3>3, <3>4
  <2> QED BY <1>1, <1>2, <1>3, <2>1, <2>2, <2>3
<1>9. /\ \A i \in 1 .. lead : i \in 1 .. n
      /\ \A w \in 0 .. words - 1 : \A j \in 1 .. 4 : (lead + 4 * w) + j \in 1 .. n
      /\ \A i \in 1 .. n - tail : tail + i \in 1 .. n
  BY <1>1, <1>2, <1>3
<1>10. AllZero(mem) <=> \A i \in 1 .. n : mem[i] = 0
  BY <1>1 DEF AllZero
<1> HIDE DEF tail
<1> QED BY <1>7, <1>8, <1>9, <1>10

-----------------------------------------------------------------------------
(* split and join *)

Str == Seq(Byte)

\* What join has made of the parts at a set of places.
JoinStep(parts, sep, str, i) ==
  str \o (IF i = 1 THEN << >> ELSE <<sep>>) \o parts[i]

Index(parts) == [i \in DOMAIN parts |-> i]

Joins(parts, sep) ==
  LET iter[s \in SUBSET DOMAIN Index(parts)] ==
        IF s = {} THEN << >> ELSE JoinStep(parts, sep, iter[s \ {Max(s)}], Index(parts)[Max(s)])
  IN  iter

LEMMA JoinIsFold ==
  ASSUME NEW parts, NEW sep
  PROVE  join(parts, sep) = Joins(parts, sep)[DOMAIN Index(parts)]
BY DEF join, FoldLeftDomain, FoldLeft, MapThenFoldSet, Joins, JoinStep, Index

LEMMA JoinStepType ==
  ASSUME NEW parts \in Seq(Str), NEW sep \in Byte, NEW str \in Str, NEW i \in 1 .. Len(parts)
  PROVE  JoinStep(parts, sep, str, i) \in Str
<1>1. parts[i] \in Str
  BY ElementOfSeq
<1>2. (IF i = 1 THEN << >> ELSE <<sep>>) \in Str
  BY DEF Str
<1> QED BY <1>1, <1>2, ConcatProperties DEF JoinStep, Str

LEMMA JoinsUnfold ==
  ASSUME NEW parts \in Seq(Str), NEW sep \in Byte
  PROVE  /\ Joins(parts, sep)[{}] = << >>
         /\ \A n \in 0 .. Len(parts) - 1 :
              Joins(parts, sep)[1 .. n + 1]
                = JoinStep(parts, sep, Joins(parts, sep)[1 .. n], n + 1)
<1> DEFINE N == Len(parts)
    index == Index(parts)
    step == [p \in Str \X (1 .. N) |-> JoinStep(parts, sep, p[1], p[2])]
    F == Joins(parts, sep)
<1>1. N \in Nat /\ DOMAIN parts = 1 .. N
  BY LenProperties
<1>2. DOMAIN index = 1 .. N /\ \A i \in 1 .. N : index[i] = i
  BY <1>1 DEF Index
<1>3. step \in [Str \X (1 .. N) -> Str]
  BY JoinStepType
<1>4. \A str \in Str, i \in 1 .. N : step[<<str, i>>] = JoinStep(parts, sep, str, i)
  OBVIOUS
<1>5. << >> \in Str
  BY DEF Str
<1> HIDE DEF step, N, index, F
<1>7. Foldable(N, Str, << >>, step)
  BY <1>1, <1>3, <1>5, FoldExists
<1>8. PICK g \in [SUBSET (1 .. N) -> Str] : \A s \in SUBSET (1 .. N) :
        g[s] = IF s = {} THEN << >> ELSE step[<<g[s \ {Max(s)}], Max(s)>>]
  BY <1>7 DEF Foldable
<1>9. \A s \in SUBSET (1 .. N) :
        g[s] = IF s = {} THEN << >> ELSE JoinStep(parts, sep, g[s \ {Max(s)}], index[Max(s)])
  <2>1. ASSUME NEW s \in SUBSET (1 .. N), s # {}
        PROVE  g[s] = JoinStep(parts, sep, g[s \ {Max(s)}], index[Max(s)])
    <3>1. Max(s) \in 1 .. N /\ g[s \ {Max(s)}] \in Str
      BY <1>1, <2>1, MaxIs
    <3>2. g[s] = step[<<g[s \ {Max(s)}], Max(s)>>]
      BY <1>8, <2>1
    <3> QED BY <1>2, <1>4, <3>1, <3>2
  <2> QED BY <1>8, <2>1
<1>10. g = [s \in SUBSET DOMAIN index |->
             IF s = {} THEN << >> ELSE JoinStep(parts, sep, g[s \ {Max(s)}], index[Max(s)])]
  BY <1>2, <1>9
<1>11. F = [s \in SUBSET DOMAIN index |->
             IF s = {} THEN << >> ELSE JoinStep(parts, sep, F[s \ {Max(s)}], index[Max(s)])]
  BY <1>10, Zenon DEF F, Joins, index
<1>12. F[{}] = << >>
  BY <1>11
<1>13. ASSUME NEW n \in 0 .. N - 1
       PROVE  F[1 .. n + 1] = JoinStep(parts, sep, F[1 .. n], n + 1)
  <2>1. n \in Nat /\ n + 1 \in 1 .. N /\ 1 .. n + 1 \in SUBSET (1 .. N)
    BY <1>1
  <2>2. /\ 1 .. n + 1 # {} /\ Max(1 .. n + 1) = n + 1
        /\ (1 .. n + 1) \ {n + 1} = 1 .. n
    BY <2>1, Places
  <2> DEFINE s == 1 .. n + 1
  <2>3. s \in SUBSET DOMAIN index /\ s # {} /\ Max(s) = n + 1 /\ s \ {n + 1} = 1 .. n
    BY <1>2, <2>1, <2>2
  <2> HIDE DEF s
  <2>4. F[s] = JoinStep(parts, sep, F[s \ {Max(s)}], index[Max(s)])
    BY <1>11, <2>3
  <2>5. F[s] = JoinStep(parts, sep, F[1 .. n], index[n + 1])
    BY <2>3, <2>4, Zenon
  <2> QED BY <1>2, <2>1, <2>5 DEF s
<1> QED BY <1>12, <1>13 DEF F, N

\* What join makes of the parts so far, and the separator before the next one.
Led(parts, sep) == IF parts = << >> THEN << >> ELSE join(parts, sep) \o <<sep>>

\* join takes up one part after the other.
LEMMA JoinAppend ==
  ASSUME NEW parts \in Seq(Str), NEW part \in Str, NEW sep \in Byte
  PROVE  /\ join(parts, sep) \in Str
         /\ parts = << >> => join(parts, sep) = << >>
         /\ join(Append(parts, part), sep) = Led(parts, sep) \o part
<1> DEFINE N == Len(parts)
    more == Append(parts, part)
    F == Joins(parts, sep)
    H == Joins(more, sep)
    T == {n \in 0 .. N : F[1 .. n] \in Str /\ H[1 .. n] = F[1 .. n]}
<1>1. /\ N \in Nat /\ DOMAIN parts = 1 .. N
      /\ more \in Seq(Str) /\ Len(more) = N + 1 /\ DOMAIN more = 1 .. N + 1
      /\ more[N + 1] = part /\ \A i \in 1 .. N : more[i] = parts[i]
  OBVIOUS
<1> HIDE DEF N, more
<1>2. F[{}] = << >> /\ \A n \in 0 .. N - 1 : F[1 .. n + 1] = JoinStep(parts, sep, F[1 .. n], n + 1)
  BY JoinsUnfold DEF N
<1>3. H[{}] = << >> /\ \A n \in 0 .. N : H[1 .. n + 1] = JoinStep(more, sep, H[1 .. n], n + 1)
  <2>1. H[{}] = << >> /\ \A n \in 0 .. (N + 1) - 1 : H[1 .. n + 1] = JoinStep(more, sep, H[1 .. n], n + 1)
    BY <1>1, JoinsUnfold
  <2>2. (N + 1) - 1 = N
    BY <1>1
  <2> QED BY <2>1, <2>2
<1> HIDE DEF F, H
<1>4. 0 \in T
  <2>1. << >> \in Str /\ 0 \in 0 .. N
    BY <1>1 DEF Str
  <2> QED BY <1>2, <1>3, <2>1, Places
<1>5. ASSUME NEW n \in 0 .. N - 1, n \in T
      PROVE  n + 1 \in T
  <2>1. n + 1 \in 0 .. N /\ n \in 0 .. N /\ n + 1 \in 1 .. N
    BY <1>1
  <2>2. F[1 .. n] \in Str /\ H[1 .. n] = F[1 .. n]
    BY <1>5
  <2>3. F[1 .. n + 1] \in Str
    BY <1>2, <2>1, <2>2, JoinStepType DEF N
  <2>4. H[1 .. n + 1] = F[1 .. n + 1]
    <3>1. more[n + 1] = parts[n + 1]
      BY <1>1, <2>1
    <3>2. JoinStep(more, sep, F[1 .. n], n + 1) = JoinStep(parts, sep, F[1 .. n], n + 1)
      BY <3>1 DEF JoinStep
    <3> QED BY <1>2, <1>3, <2>1, <2>2, <3>2
  <2> QED BY <2>1, <2>3, <2>4
<1>6. N \in T
  <2> HIDE DEF T
  <2>1. \A n \in 0 .. N : n \in T
    BY <1>1, <1>4, <1>5, UpTo
  <2> QED BY <1>1, <2>1
<1>7. join(parts, sep) = F[1 .. N] /\ join(more, sep) = H[1 .. N + 1]
  <2>1. DOMAIN Index(parts) = 1 .. N /\ DOMAIN Index(more) = 1 .. N + 1
    BY <1>1 DEF Index
  <2> QED BY <2>1, JoinIsFold, Zenon DEF F, H
<1>8. join(parts, sep) \in Str /\ (N = 0 => join(parts, sep) = << >>)
  BY <1>2, <1>6, <1>7, Places
<1>9. parts = << >> <=> N = 0
  BY DEF N
<1>10. join(more, sep) = join(parts, sep) \o (IF N = 0 THEN << >> ELSE <<sep>>) \o part
  <2>1. H[1 .. N + 1] = JoinStep(more, sep, H[1 .. N], N + 1)
    BY <1>1, <1>3
  <2>2. N + 1 = 1 <=> N = 0
    BY <1>1
  <2> QED BY <1>1, <1>6, <1>7, <2>1, <2>2 DEF JoinStep
<1>11. << >> \o << >> = << >>
  OBVIOUS
<1> QED BY <1>8, <1>9, <1>10, <1>11 DEF more, Led

\* split's loop, turn by turn.
Turn(state, str, sep, count) ==
  IF More(state, str, count) THEN NextPart(state, str, sep) ELSE state

Start == [parts |-> << >>, pos |-> 1]

Splits(str, sep, count) ==
  LET iter[s \in SUBSET DOMAIN str] ==
        IF s = {} THEN Start ELSE Turn(iter[s \ {Max(s)}], str, sep, count)
  IN  iter

LEMMA SplitIsFold ==
  ASSUME NEW str, NEW sep, NEW count
  PROVE  split(str, sep, count) =
           LET turns == Splits(str, sep, count)[DOMAIN str]
           IN  IF turns.pos <= Len(str)
               THEN Append(turns.parts, SubSeq(str, turns.pos, Len(str)))
               ELSE turns.parts
BY DEF split, FoldLeft, MapThenFoldSet, Splits, Turn, Start

Split == [parts : Seq(Str), pos : Nat]

LEMMA Found ==
  ASSUME NEW str \in Str, NEW sep \in Byte, NEW pos \in 1 .. Len(str)
  PROVE  /\ Find(str, sep, pos) \in pos .. Len(str) + 1
         /\ \A i \in pos .. Find(str, sep, pos) - 1 : str[i] # sep
         /\ Find(str, sep, pos) <= Len(str) => str[Find(str, sep, pos)] = sep
<1> DEFINE T == {i \in pos .. Len(str) : str[i] = sep} \cup {Len(str) + 1}
           f == Find(str, sep, pos)
<1>1. Len(str) \in Nat /\ pos \in Nat /\ pos <= Len(str)
  BY DEF Str
<1>2. T \in SUBSET Nat /\ T # {}
  BY <1>1
<1>3. f = Min(T)
  BY DEF Find
<1>4. f \in T /\ \A m \in T : f <= m
  <2> HIDE DEF T, f
  <2> QED BY <1>2, <1>3, MinIs
<1> HIDE DEF f
<1>5. f \in pos .. Len(str) + 1 /\ (f <= Len(str) => str[f] = sep)
  BY <1>1, <1>4
<1>6. ASSUME NEW i \in pos .. f - 1
      PROVE  str[i] # sep
  <2>1. i \in pos .. Len(str) /\ ~(f <= i)
    BY <1>1, <1>5
  <2>2. i \notin T
    BY <1>4, <2>1
  <2> QED BY <2>1, <2>2
<1> QED BY <1>5, <1>6 DEF f

LEMMA TurnType ==
  ASSUME NEW state \in Split, NEW str \in Str, NEW sep \in Byte, NEW count \in Nat,
         state.pos >= 1
  PROVE  /\ Turn(state, str, sep, count) \in Split
         /\ Turn(state, str, sep, count).pos >= 1
<1> DEFINE p == state.pos
           e == Find(str, sep, p)
           part == SubSeq(str, p, e - 1)
<1>1. p \in Nat /\ p >= 1 /\ state.parts \in Seq(Str) /\ Len(str) \in Nat
  BY DEF Split, Str
<1>2. ASSUME p <= Len(str)
      PROVE  e \in Nat /\ e + 1 >= 1 /\ part \in Str
  <2> HIDE DEF p
  <2>1. p \in 1 .. Len(str)
    BY <1>1, <1>2
  <2>2. e \in p .. Len(str) + 1
    BY <2>1, Found
  <2> HIDE DEF e
  <2>3. \A i \in p .. e - 1 : str[i] \in Byte
    <3>1. \A i \in p .. e - 1 : i \in 1 .. Len(str)
      BY <1>1, <2>1, <2>2
    <3> QED BY <3>1, ElementOfSeq DEF Str
  <2>4. p \in Int /\ e - 1 \in Int
    BY <1>1, <2>1, <2>2
  <2>5. part \in Str
    BY <2>3, <2>4, SubSeqProperties DEF Str
  <2> QED BY <1>1, <2>2, <2>5
<1>3. CASE More(state, str, count)
  <2>1. p <= Len(str)
    BY <1>3 DEF More
  <2>2. Turn(state, str, sep, count) = [parts |-> Append(state.parts, part), pos |-> e + 1]
    BY <1>3 DEF Turn, NextPart
  <2> HIDE DEF p, e, part
  <2>3. Append(state.parts, part) \in Seq(Str) /\ e + 1 \in Nat /\ e + 1 >= 1
    BY <1>1, <1>2, <2>1
  <2> QED BY <2>2, <2>3 DEF Split
<1>4. CASE ~More(state, str, count)
  BY <1>4 DEF Turn
<1> QED BY <1>3, <1>4

LEMMA SplitsUnfold ==
  ASSUME NEW str \in Str, NEW sep \in Byte, NEW count \in Nat
  PROVE  /\ Splits(str, sep, count)[{}] = Start
         /\ \A n \in 0 .. Len(str) - 1 :
              Splits(str, sep, count)[1 .. n + 1]
                = Turn(Splits(str, sep, count)[1 .. n], str, sep, count)
<1> DEFINE N == Len(str)
    S == {state \in Split : state.pos >= 1}
    step == [p \in S \X (1 .. N) |-> Turn(p[1], str, sep, count)]
    F == Splits(str, sep, count)
<1>1. N \in Nat /\ DOMAIN str = 1 .. N
  BY LenProperties DEF Str
<1>2. step \in [S \X (1 .. N) -> S]
  BY TurnType
<1>3. \A state \in S, i \in 1 .. N : step[<<state, i>>] = Turn(state, str, sep, count)
  OBVIOUS
<1>4. Start \in S
  BY DEF Start, Split
<1> HIDE DEF step, N, F, S
<1>5. Foldable(N, S, Start, step)
  BY <1>1, <1>2, <1>4, FoldExists
<1>6. PICK g \in [SUBSET (1 .. N) -> S] : \A s \in SUBSET (1 .. N) :
        g[s] = IF s = {} THEN Start ELSE step[<<g[s \ {Max(s)}], Max(s)>>]
  BY <1>5 DEF Foldable
<1>7. \A s \in SUBSET (1 .. N) :
        g[s] = IF s = {} THEN Start ELSE Turn(g[s \ {Max(s)}], str, sep, count)
  <2>1. ASSUME NEW s \in SUBSET (1 .. N), s # {}
        PROVE  g[s] = Turn(g[s \ {Max(s)}], str, sep, count)
    <3>1. Max(s) \in 1 .. N /\ g[s \ {Max(s)}] \in S
      BY <1>1, <2>1, MaxIs
    <3>2. g[s] = step[<<g[s \ {Max(s)}], Max(s)>>]
      BY <1>6, <2>1
    <3> QED BY <1>3, <3>1, <3>2
  <2> QED BY <1>6, <2>1
<1>8. g = [s \in SUBSET DOMAIN str |->
             IF s = {} THEN Start ELSE Turn(g[s \ {Max(s)}], str, sep, count)]
  BY <1>1, <1>7
<1>9. F = [s \in SUBSET DOMAIN str |->
             IF s = {} THEN Start ELSE Turn(F[s \ {Max(s)}], str, sep, count)]
  BY <1>8, Zenon DEF F, Splits
<1>10. F[{}] = Start
  BY <1>9
<1>11. ASSUME NEW n \in 0 .. N - 1
       PROVE  F[1 .. n + 1] = Turn(F[1 .. n], str, sep, count)
  <2> DEFINE s == 1 .. n + 1
  <2>1. s \in SUBSET DOMAIN str
    BY <1>1
  <2>2. n \in Nat
    BY <1>1
  <2>3. s # {} /\ Max(s) = n + 1 /\ s \ {n + 1} = 1 .. n
    BY <2>2, Places
  <2> HIDE DEF s
  <2>4. F[s] = Turn(F[s \ {Max(s)}], str, sep, count)
    BY <1>9, <2>1, <2>3
  <2>5. F[s] = Turn(F[1 .. n], str, sep, count)
    BY <2>3, <2>4, Zenon
  <2> QED BY <2>5 DEF s
<1> QED BY <1>10, <1>11 DEF F, N

\* Between two turns: the parts, joined, are what is before pos, and none holds a
\* separator.
Cut(str, sep, count, state) ==
  /\ state \in Split /\ state.pos \in 1 .. Len(str) + 2
  /\ count # 0 => Len(state.parts) <= count
  /\ \A i \in 1 .. Len(state.parts) : \A j \in 1 .. Len(state.parts[i]) :
       state.parts[i][j] # sep
  /\ state.pos <= Len(str) + 1 =>
       Led(state.parts, sep) = SubSeq(str, 1, state.pos - 1)
  /\ state.pos = Len(str) + 2 =>
       /\ state.parts # << >> /\ join(state.parts, sep) = str
       /\ state.parts[Len(state.parts)] # << >>

\* The piece of str from p on up to, but without, e.
LEMMA PartOf ==
  ASSUME NEW str \in Str, NEW p \in 1 .. Len(str) + 1, NEW e \in p .. Len(str) + 1
  PROVE  /\ SubSeq(str, p, e - 1) \in Str /\ Len(SubSeq(str, p, e - 1)) = e - p
         /\ \A j \in 1 .. e - p : p + j - 1 \in p .. e - 1
                                  /\ SubSeq(str, p, e - 1)[j] = str[p + j - 1]
         /\ SubSeq(str, 1, p - 1) \o SubSeq(str, p, e - 1) = SubSeq(str, 1, e - 1)
<1>1. Len(str) \in Nat /\ p \in Int /\ e - 1 \in Int /\ p >= 1 /\ p <= e /\ e <= Len(str) + 1
  BY DEF Str
<1>2. \A i \in p .. e - 1 : str[i] \in Byte
  <2>1. \A i \in p .. e - 1 : i \in 1 .. Len(str)
    BY <1>1
  <2> QED BY <2>1, ElementOfSeq DEF Str
<1>3. /\ SubSeq(str, p, e - 1) \in Str
      /\ Len(SubSeq(str, p, e - 1)) = IF p <= e - 1 THEN (e - 1) - p + 1 ELSE 0
      /\ \A j \in 1 .. (e - 1) - p + 1 : SubSeq(str, p, e - 1)[j] = str[p + j - 1]
  BY <1>1, <1>2, SubSeqProperties DEF Str
<1>4. (IF p <= e - 1 THEN (e - 1) - p + 1 ELSE 0) = e - p /\ (e - 1) - p + 1 = e - p
      /\ \A j \in 1 .. e - p : p + j - 1 \in p .. e - 1
  BY <1>1
<1>5. SubSeq(str, 1, p - 1) \o SubSeq(str, p, e - 1) = SubSeq(str, 1, e - 1)
  <2> DEFINE k == p - 1
             n == e - 1
  <2>1. k \in 1 - 1 .. Len(str) /\ n \in k .. Len(str) /\ 1 \in 1 .. Len(str) + 1 /\ k + 1 = p
    BY <1>1
  <2> HIDE DEF k, n
  <2>2. SubSeq(str, 1, k) \o SubSeq(str, k + 1, n) = SubSeq(str, 1, n)
    BY <2>1, ConcatAdjacentSubSeq DEF Str
  <2> QED BY <2>1, <2>2 DEF k, n
<1> QED BY <1>3, <1>4, <1>5

LEMMA TurnCut ==
  ASSUME NEW str \in Str, NEW sep \in Byte, NEW count \in Nat, NEW state,
         Cut(str, sep, count, state)
  PROVE  /\ Cut(str, sep, count, Turn(state, str, sep, count))
         /\ More(state, str, count) => Turn(state, str, sep, count).pos > state.pos
<1> DEFINE p == state.pos
           e == Find(str, sep, p)
           part == SubSeq(str, p, e - 1)
           parts == state.parts
           more == Append(parts, part)
           next == [parts |-> more, pos |-> e + 1]
<1>1. SUFFICES ASSUME More(state, str, count)
               PROVE  Cut(str, sep, count, next) /\ e + 1 > p
  BY DEF Turn, NextPart
<1>2. /\ Len(str) \in Nat /\ p \in 1 .. Len(str) /\ parts \in Seq(Str) /\ Len(parts) \in Nat
      /\ count # 0 => Len(parts) < count
  <2>1. p \in 1 .. Len(str) + 2 /\ p <= Len(str) /\ parts \in Seq(Str) /\ Len(str) \in Nat
    BY <1>1 DEF Cut, More, Split, Str
  <2>2. count # 0 => Len(parts) < count
    BY <1>1 DEF More
  <2> QED BY <2>1, <2>2
<1>3. /\ \A i \in 1 .. Len(parts) : \A j \in 1 .. Len(parts[i]) : parts[i][j] # sep
      /\ Led(parts, sep) = SubSeq(str, 1, p - 1)
  <2>1. p <= Len(str) + 1
    BY <1>2
  <2> QED BY <2>1 DEF Cut
<1> HIDE DEF p
<1>4. /\ e \in p .. Len(str) + 1 /\ \A i \in p .. e - 1 : str[i] # sep
      /\ e <= Len(str) => str[e] = sep
  BY <1>2, Found
<1> HIDE DEF e
<1>5. /\ part \in Str /\ Len(part) = e - p
      /\ \A j \in 1 .. e - p : p + j - 1 \in p .. e - 1 /\ part[j] = str[p + j - 1]
      /\ SubSeq(str, 1, p - 1) \o part = SubSeq(str, 1, e - 1)
  <2>1. p \in 1 .. Len(str) + 1
    BY <1>2
  <2> QED BY <1>4, <2>1, PartOf
<1> HIDE DEF part, parts
<1>6. /\ more \in Seq(Str) /\ Len(more) = Len(parts) + 1 /\ more # << >>
      /\ more[Len(parts) + 1] = part /\ \A i \in 1 .. Len(parts) : more[i] = parts[i]
  BY <1>2, <1>5
<1>7. join(more, sep) \in Str /\ join(more, sep) = SubSeq(str, 1, e - 1)
      /\ Led(more, sep) = SubSeq(str, 1, e - 1) \o <<sep>>
  <2>1. join(more, sep) = Led(parts, sep) \o part
    BY <1>2, <1>5, JoinAppend
  <2>2. join(more, sep) \in Str
    BY <1>5, <1>6, JoinAppend
  <2>3. Led(more, sep) = join(more, sep) \o <<sep>>
    BY <1>6 DEF Led
  <2> QED BY <1>3, <1>5, <2>1, <2>2, <2>3
<1> HIDE DEF more
<1>8. next.parts = more /\ next.pos = e + 1
  OBVIOUS
<1>9. next \in Split /\ e + 1 \in 1 .. Len(str) + 2 /\ e + 1 > p
  BY <1>2, <1>4, <1>6 DEF Split
<1>10. count # 0 => Len(more) <= count
  BY <1>2, <1>6
<1>11. ASSUME NEW i \in 1 .. Len(more), NEW j \in 1 .. Len(more[i])
       PROVE  more[i][j] # sep
  <2>1. CASE i \in 1 .. Len(parts)
    BY <1>3, <1>6, <2>1
  <2>2. CASE i \notin 1 .. Len(parts)
    <3>1. i = Len(parts) + 1
      BY <1>2, <1>6, <2>2
    <3>2. j \in 1 .. e - p
      BY <1>5, <1>6, <3>1
    <3> QED BY <1>4, <1>5, <1>6, <3>1, <3>2
  <2> QED BY <2>1, <2>2
<1>12. ASSUME e + 1 <= Len(str) + 1
       PROVE  Led(more, sep) = SubSeq(str, 1, (e + 1) - 1)
  <2>1. e \in 1 .. Len(str) /\ e \in Int /\ (e + 1) - 1 = e
    BY <1>2, <1>4, <1>12
  <2>2. str[e] = sep
    BY <1>4, <2>1
  <2>3. SubSeq(str, 1, e) = SubSeq(str, 1, e - 1) \o <<str[e]>>
    <3>1. 1 \in 1 .. Len(str) /\ e \in 1 .. Len(str)
      BY <2>1
    <3> QED BY <3>1, SubSeqRecursiveSecond DEF Str
  <2> QED BY <1>7, <2>1, <2>2, <2>3
<1>13. ASSUME e + 1 = Len(str) + 2
       PROVE  join(more, sep) = str /\ more[Len(more)] # << >>
  <2>1. e - 1 = Len(str) /\ e - p >= 1
    BY <1>2, <1>4, <1>13
  <2>2. SubSeq(str, 1, e - 1) = str
    BY <2>1, SubSeqFull DEF Str
  <2>3. part # << >>
    BY <1>5, <2>1
  <2> QED BY <1>6, <1>7, <2>2, <2>3
<1> HIDE DEF next
<1>14. Cut(str, sep, count, next)
  BY <1>6, <1>8, <1>9, <1>10, <1>11, <1>12, <1>13 DEF Cut
<1> QED BY <1>9, <1>14

\* What split has made of a string, joined again, is the string, but for a separator at
\* its end; split cuts at every separator, up to count of them, and count, if it is not
\* zero, bounds the number of parts (split.h).
THEOREM SplitIsJoined ==
  ASSUME NEW str \in Seq(Byte), NEW sep \in Byte, NEW count \in Nat
  PROVE  LET parts  == split(str, sep, count)
             joined == join(parts, sep)
         IN  /\ \/ joined = str /\ (parts # << >> => parts[Len(parts)] # << >>)
                \/ joined \o <<sep>> = str /\ parts # << >>
             /\ count # 0 => Len(parts) <= count + 1
             /\ \A i \in 1 .. Len(parts) : \A j \in 1 .. Len(parts[i]) :
                  parts[i][j] = sep => i = count + 1 /\ count # 0
<1> DEFINE N == Len(str)
    F == Splits(str, sep, count)
    T == {n \in 0 .. N : /\ Cut(str, sep, count, F[1 .. n])
                         /\ F[1 .. n].pos > n \/ ~More(F[1 .. n], str, count)}
<1>0. str \in Str /\ N \in Nat /\ DOMAIN str = 1 .. N
  BY LenProperties DEF Str
<1> HIDE DEF N
<1>1. F[{}] = Start
      /\ \A n \in 0 .. N - 1 : F[1 .. n + 1] = Turn(F[1 .. n], str, sep, count)
  BY <1>0, SplitsUnfold DEF N
<1> HIDE DEF F
<1>2. 0 \in T
  <2>1. Start \in Split /\ Start.pos = 1 /\ Start.parts = << >>
    BY DEF Start, Split
  <2>2. 1 \in 1 .. N + 2 /\ 1 # N + 2 /\ 1 - 1 = 0 /\ 1 > 0 /\ 0 \in 0 .. N /\ 0 <= count
    BY <1>0
  <2>3. SubSeq(str, 1, 0) = << >> /\ Led(<< >>, sep) = << >>
    BY SubSeqEmpty DEF Led
  <2>4. Len(<< >>) = 0 /\ 1 .. 0 = {}
    OBVIOUS
  <2>5. Cut(str, sep, count, Start)
    BY <2>1, <2>2, <2>3, <2>4 DEF Cut, N
  <2> QED BY <1>1, <2>1, <2>2, <2>4, <2>5
<1>3. ASSUME NEW n \in 0 .. N - 1, n \in T
      PROVE  n + 1 \in T
  <2> DEFINE state == F[1 .. n]
             next == F[1 .. n + 1]
  <2>1. Cut(str, sep, count, state) /\ (state.pos > n \/ ~More(state, str, count))
    BY <1>3
  <2>2. next = Turn(state, str, sep, count) /\ n \in Nat /\ n + 1 \in 0 .. N
    BY <1>0, <1>1
  <2> HIDE DEF state, next
  <2>3. Cut(str, sep, count, next) /\ (More(state, str, count) => next.pos > state.pos)
    BY <1>0, <2>1, <2>2, TurnCut
  <2>4. ~More(state, str, count) => next = state
    BY <2>2 DEF Turn
  <2>5. state.pos \in Nat /\ next.pos \in Nat
    BY <2>1, <2>3 DEF Cut, Split
  <2>6. next.pos > n + 1 \/ ~More(next, str, count)
    BY <2>1, <2>2, <2>3, <2>4, <2>5
  <2> QED BY <2>2, <2>3, <2>6 DEF next
<1>4. N \in T
  <2> HIDE DEF T
  <2>1. \A n \in 0 .. N : n \in T
    BY <1>0, <1>2, <1>3, UpTo
  <2> QED BY <1>0, <2>1
<1> DEFINE turns == F[1 .. N]
           parts == turns.parts
           pos == turns.pos
           rest == SubSeq(str, pos, N)
           all == split(str, sep, count)
<1>5. all = IF pos <= N THEN Append(parts, rest) ELSE parts
  BY <1>0, SplitIsFold DEF F, N
<1>6. /\ parts \in Seq(Str) /\ pos \in 1 .. N + 2
      /\ count # 0 => Len(parts) <= count
      /\ \A i \in 1 .. Len(parts) : \A j \in 1 .. Len(parts[i]) : parts[i][j] # sep
      /\ pos <= N + 1 => Led(parts, sep) = SubSeq(str, 1, pos - 1)
      /\ pos = N + 2 => /\ parts # << >> /\ join(parts, sep) = str
                        /\ parts[Len(parts)] # << >>
  BY <1>4 DEF Cut, Split, N
<1>7. pos > N \/ (count # 0 /\ Len(parts) >= count)
  <2>1. pos > N \/ ~More(turns, str, count)
    BY <1>4
  <2>2. pos \in Nat /\ Len(parts) \in Nat
    BY <1>0, <1>6
  <2>3. More(turns, str, count) <=> (count = 0 \/ Len(parts) < count) /\ pos <= N
    BY DEF More, N
  <2> HIDE DEF parts, pos, turns
  <2> QED BY <1>0, <2>1, <2>2, <2>3
<1> HIDE DEF turns, parts, pos, all
<1>8. CASE pos <= N
  <2>1. pos \in 1 .. N /\ Len(parts) = count /\ count # 0
    BY <1>0, <1>6, <1>7, <1>8
  <2>2. /\ rest \in Str /\ Len(rest) = N + 1 - pos
        /\ SubSeq(str, 1, pos - 1) \o rest = SubSeq(str, 1, N)
    <3> DEFINE e == N + 1
    <3>1. pos \in 1 .. N + 1 /\ e \in pos .. N + 1 /\ e - 1 = N
      BY <1>0, <2>1
    <3> HIDE DEF e
    <3>2. /\ SubSeq(str, pos, e - 1) \in Str /\ Len(SubSeq(str, pos, e - 1)) = e - pos
          /\ SubSeq(str, 1, pos - 1) \o SubSeq(str, pos, e - 1) = SubSeq(str, 1, e - 1)
      BY <1>0, <3>1, PartOf DEF N
    <3> QED BY <3>1, <3>2 DEF e
  <2>3. SubSeq(str, 1, N) = str
    BY <1>0, SubSeqFull DEF N
  <2>4. rest # << >>
    BY <1>0, <2>1, <2>2
  <2>5. all = Append(parts, rest)
    BY <1>5, <1>8
  <2>6. /\ all # << >> /\ Len(all) = count + 1 /\ all[Len(all)] = rest
        /\ \A i \in 1 .. count : all[i] = parts[i]
    <3> HIDE DEF rest
    <3>1. /\ Append(parts, rest) # << >> /\ Len(Append(parts, rest)) = Len(parts) + 1
          /\ Append(parts, rest)[Len(parts) + 1] = rest
          /\ \A i \in 1 .. Len(parts) : Append(parts, rest)[i] = parts[i]
      BY <1>6, <2>2
    <3> QED BY <2>1, <2>5, <3>1
  <2>7. join(all, sep) = str
    <3>1. join(all, sep) = Led(parts, sep) \o rest
      BY <1>6, <2>2, <2>5, JoinAppend
    <3>2. Led(parts, sep) = SubSeq(str, 1, pos - 1)
      BY <1>0, <1>6, <2>1
    <3> QED BY <2>2, <2>3, <3>1, <3>2
  <2>8. ASSUME NEW i \in 1 .. Len(all), NEW j \in 1 .. Len(all[i]), all[i][j] = sep
        PROVE  i = count + 1 /\ count # 0
    <3>1. i \in 1 .. count => all[i] = parts[i] /\ i \in 1 .. Len(parts)
      BY <2>1, <2>6
    <3>2. i \notin 1 .. count
      BY <1>6, <2>8, <3>1
    <3> QED BY <2>1, <2>6, <3>2
  <2>9. count # 0 => Len(all) <= count + 1
    BY <2>6
  <2> HIDE DEF rest
  <2>10. all[Len(all)] # << >>
    BY <2>4, <2>6
  <2> QED BY <2>7, <2>8, <2>9, <2>10 DEF all
<1>9. CASE pos > N
  <2>1. all = parts /\ (pos = N + 1 \/ pos = N + 2)
    BY <1>0, <1>5, <1>6, <1>9
  <2>2. count # 0 => Len(all) <= count + 1
    BY <1>6, <2>1
  <2>3. \A i \in 1 .. Len(all) : \A j \in 1 .. Len(all[i]) :
          all[i][j] = sep => i = count + 1 /\ count # 0
    BY <1>6, <2>1
  <2>4. CASE pos = N + 1
    <3>1. Led(parts, sep) = str
      <4>1. SubSeq(str, 1, N) = str
        BY <1>0, SubSeqFull DEF N
      <4>2. pos <= N + 1 /\ pos - 1 = N
        BY <1>0, <2>4
      <4> QED BY <1>6, <4>1, <4>2
    <3>2. CASE parts = << >>
      <4>1. join(parts, sep) = << >> /\ str = << >>
        <5>1. << >> \in Str
          BY DEF Str
        <5>2. join(parts, sep) = << >>
          BY <1>6, <3>2, <5>1, JoinAppend
        <5>3. str = << >>
          BY <3>1, <3>2 DEF Led
        <5> QED BY <5>2, <5>3
      <4> QED BY <2>1, <2>2, <2>3, <3>2, <4>1 DEF all
    <3>3. CASE parts # << >>
      <4>1. join(parts, sep) \o <<sep>> = str
        BY <3>1, <3>3 DEF Led
      <4> QED BY <2>1, <2>2, <2>3, <3>3, <4>1 DEF all
    <3> QED BY <3>2, <3>3
  <2>5. CASE pos = N + 2
    <3>1. join(parts, sep) = str /\ parts # << >> /\ parts[Len(parts)] # << >>
      BY <1>6, <2>5
    <3> QED BY <2>1, <2>2, <2>3, <3>1 DEF all
  <2> QED BY <2>1, <2>4, <2>5
<1> QED
  <2>1. pos <= N \/ pos > N
    BY <1>0, <1>6
  <2> QED BY <1>8, <1>9, <2>1
=============================================================================
