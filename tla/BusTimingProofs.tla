-------------------------- MODULE BusTimingProofs ---------------------------
(***************************************************************************)
(* Proofs about BusTiming: for every clock, every way it advances and      *)
(* every timeout and delay of m_config.  Times are compared by their       *)
(* nanoseconds; the lemmas of the first part say what the code's           *)
(* arithmetic on seconds and nanoseconds does to them.                     *)
(***************************************************************************)
EXTENDS BusTiming, TLAPS

Sec(n) == n * SECOND
Ns(t) == Sec(t.tv_sec) + t.tv_nsec
MILLISECOND == 1000000

-----------------------------------------------------------------------------
(* Arithmetic *)

LEMMA Second == SECOND \in Nat /\ SECOND > 0
BY DEF SECOND

LEMMA SecType ==
  ASSUME NEW k \in Int
  PROVE  Sec(k) \in Int /\ (k \in Nat => Sec(k) \in Nat)
BY DEF Sec, SECOND

LEMMA SecZero == Sec(0) = 0
BY Second DEF Sec

LEMMA SecSum ==
  ASSUME NEW j \in Int, NEW k \in Int
  PROVE  Sec(j + k) = Sec(j) + Sec(k)
BY DEF Sec, SECOND

LEMMA SecDifference ==
  ASSUME NEW j \in Int, NEW k \in Int
  PROVE  Sec(j - k) = Sec(j) - Sec(k)
BY DEF Sec, SECOND

LEMMA SecLess ==
  ASSUME NEW j \in Int, NEW k \in Int, j < k
  PROVE  Sec(j) + SECOND <= Sec(k)
BY DEF Sec, SECOND

LEMMA TimeFields ==
  ASSUME NEW t \in Times
  PROVE  /\ t.tv_sec \in Nat /\ t.tv_nsec \in Nat /\ t.tv_nsec < SECOND
         /\ Sec(t.tv_sec) \in Nat /\ Ns(t) = Sec(t.tv_sec) + t.tv_nsec
         /\ Ns(t) \in Nat
<1>1. t.tv_sec \in Nat /\ t.tv_nsec \in Nat /\ t.tv_nsec < SECOND
  BY Second DEF Times
<1>2. Sec(t.tv_sec) \in Nat
  BY <1>1, SecType
<1>3. Ns(t) = Sec(t.tv_sec) + t.tv_nsec
  BY DEF Ns
<1> QED BY <1>1, <1>2, <1>3

LEMMA TimeIs ==
  ASSUME NEW s \in Nat, NEW n \in Nat, n < SECOND
  PROVE  LET t == [tv_sec |-> s, tv_nsec |-> n]
         IN  t \in Times /\ Ns(t) = Sec(s) + n
BY Second DEF Times, Ns

LEMMA ZeroNever == Zero \in Times /\ Ns(Zero) = 0 /\ Never \notin Times
<1>1. Zero \in Times /\ Ns(Zero) = 0
  BY TimeIs, Second, SecZero DEF Zero
<1>2. Never.tv_sec \notin Nat
  BY DEF Never
<1> QED BY <1>1, <1>2, TimeFields

\* A second is a million times 1000 nanoseconds.
LEMMA SecondIs ==
  ASSUME NEW k \in Int
  PROVE  Sec(k) = 1000 * (k * 1000000) /\ Sec(k) = 1000000 * (k * 1000)
BY DEF Sec, SECOND

LEMMA BeforeIs ==
  ASSUME NEW t \in Times, NEW u \in Times
  PROVE  Before(t, u) <=> Ns(t) < Ns(u)
<1> DEFINE a == t.tv_sec
           c == u.tv_sec
           x == Sec(a)
           y == Sec(c)
<1>1. /\ a \in Nat /\ c \in Nat /\ x \in Nat /\ y \in Nat
      /\ t.tv_nsec \in Nat /\ u.tv_nsec \in Nat /\ t.tv_nsec < SECOND /\ u.tv_nsec < SECOND
      /\ Ns(t) = x + t.tv_nsec /\ Ns(u) = y + u.tv_nsec /\ SECOND \in Nat
  BY TimeFields, Second
<1>2. (a < c => x + SECOND <= y) /\ (c < a => y + SECOND <= x) /\ (a = c => x = y)
  <2>1. a \in Int /\ c \in Int
    BY <1>1
  <2>2. a < c => Sec(a) + SECOND <= Sec(c)
    BY <2>1, SecLess
  <2>3. c < a => Sec(c) + SECOND <= Sec(a)
    BY <2>1, SecLess
  <2>4. a = c => Sec(a) = Sec(c)
    OBVIOUS
  <2> QED BY <2>2, <2>3, <2>4
<1>3. Before(t, u) <=> a < c \/ (a = c /\ t.tv_nsec < u.tv_nsec)
  BY DEF Before
<1> HIDE DEF a, c, x, y
<1> QED BY <1>1, <1>2, <1>3

LEMMA CarryIs ==
  ASSUME NEW s \in Nat, NEW n \in Nat, n < SECOND + SECOND
  PROVE  LET t == Carry([tv_sec |-> s, tv_nsec |-> n])
         IN  t \in Times /\ Ns(t) = Sec(s) + n
<1>1. CASE n >= SECOND
  <2>1. s + 1 \in Nat /\ n - SECOND \in Nat /\ n - SECOND < SECOND
    BY <1>1, Second
  <2>2. Sec(s + 1) + (n - SECOND) = Sec(s) + n
    BY DEF Sec, SECOND
  <2>3. Carry([tv_sec |-> s, tv_nsec |-> n]) = [tv_sec |-> s + 1, tv_nsec |-> n - SECOND]
    BY <1>1 DEF Carry
  <2> QED BY <2>1, <2>2, <2>3, TimeIs
<1>2. CASE ~(n >= SECOND)
  <2>1. n < SECOND
    BY <1>2, Second
  <2>2. Carry([tv_sec |-> s, tv_nsec |-> n]) = [tv_sec |-> s, tv_nsec |-> n]
    BY <1>2 DEF Carry
  <2> QED BY <2>1, <2>2, TimeIs
<1> QED BY <1>1, <1>2

\* Elapsed rounds down to microseconds.
LEMMA ElapsedIs ==
  ASSUME NEW t \in Times, NEW u \in Times, NEW d \in Int
  PROVE  Elapsed(t, u) \in Int /\ (Elapsed(t, u) >= d <=> Ns(u) >= Ns(t) + 1000 * d)
<1> DEFINE x == u.tv_nsec - t.tv_nsec
           q == x \div 1000
           s == u.tv_sec - t.tv_sec
           m == s * 1000000
<1>1. x \in Int /\ s \in Int /\ Ns(u) - Ns(t) = Sec(s) + x
      /\ Ns(t) \in Nat /\ Ns(u) \in Nat
  <2>1. Sec(u.tv_sec - t.tv_sec) = Sec(u.tv_sec) - Sec(t.tv_sec)
    <3>1. u.tv_sec \in Int /\ t.tv_sec \in Int
      BY TimeFields
    <3> QED BY <3>1, SecDifference
  <2> QED BY <2>1, TimeFields
<1>2. Sec(s) = 1000 * m /\ m \in Int
  BY <1>1, SecondIs
<1> HIDE DEF x
<1>3. q \in Int /\ 1000 * q <= x /\ x < 1000 * q + 1000
  BY <1>1
<1>4. Elapsed(t, u) = m + q
  BY DEF Elapsed, x
<1> HIDE DEF q, s, m
<1> QED BY <1>1, <1>2, <1>3, <1>4

LEMMA AfterIs ==
  ASSUME NEW t \in Times, NEW us \in Nat
  PROVE  After(t, us) \in Times /\ Ns(After(t, us)) = Ns(t) + 1000 * us
<1> DEFINE a == us \div 1000000
           b == us % 1000000
           n == t.tv_nsec + b * 1000
           e == n \div SECOND
           f == n % SECOND
<1>1. a \in Nat /\ b \in Nat /\ us = 1000000 * a + b
  OBVIOUS
<1>2. t.tv_sec \in Nat /\ t.tv_nsec \in Nat /\ n \in Nat
  BY <1>1, TimeFields
<1>3. After(t, us) = [tv_sec |-> t.tv_sec + a + e, tv_nsec |-> f]
  BY DEF After
<1> HIDE DEF a, b
<1>4. e \in Nat /\ f \in Nat /\ f < SECOND /\ n = SECOND * e + f
  BY <1>2 DEF SECOND
<1>5. n = t.tv_nsec + b * 1000
  OBVIOUS
<1> HIDE DEF n, e, f
<1>6. After(t, us) \in Times /\ Ns(After(t, us)) = Sec(t.tv_sec + a + e) + f
  BY <1>1, <1>2, <1>3, <1>4, TimeIs
<1>7. Sec(t.tv_sec + a + e) = Sec(t.tv_sec) + 1000 * (a * 1000000) + Sec(e)
  <2>1. Sec(a) = 1000 * (a * 1000000)
    BY <1>1, SecondIs
  <2>2. Sec(t.tv_sec + a) = Sec(t.tv_sec) + Sec(a)
    <3>1. t.tv_sec \in Int /\ a \in Int
      BY <1>1, <1>2
    <3> QED BY <3>1, SecSum
  <2>3. t.tv_sec + a \in Int /\ e \in Int
    BY <1>1, <1>2, <1>4
  <2>4. Sec((t.tv_sec + a) + e) = Sec(t.tv_sec + a) + Sec(e)
    BY <2>3, SecSum
  <2>5. Sec(t.tv_sec) \in Int /\ Sec(a) \in Int
    BY <1>1, <1>2, SecType
  <2> QED BY <2>1, <2>2, <2>4, <2>5, SMT
<1>8. Sec(e) = SECOND * e /\ Sec(e) \in Nat
  <2>1. Sec(e) = SECOND * e
    BY <1>4 DEF Sec, SECOND
  <2> QED BY <1>4, <2>1, SecType
<1>9. Sec(e) + f = n
  BY <1>4, <1>8
<1>10. Sec(t.tv_sec) \in Nat /\ Ns(t) = Sec(t.tv_sec) + t.tv_nsec /\ f \in Nat
  BY <1>4, TimeFields
<1>11. 1000 * (a * 1000000) + b * 1000 = 1000 * us
  BY <1>1
<1> DEFINE y == 1000 * (a * 1000000)
           z == 1000 * us
           w == b * 1000
<1>12. y \in Nat /\ z \in Nat /\ w \in Nat /\ y + w = z /\ n = t.tv_nsec + w
  BY <1>1, <1>5, <1>11
<1>13. Ns(After(t, us)) = Sec(t.tv_sec) + y + Sec(e) + f
  BY <1>6, <1>7
<1> HIDE DEF y, z, w
<1>14. Ns(After(t, us)) = Ns(t) + z
  BY <1>2, <1>8, <1>9, <1>10, <1>12, <1>13
<1> QED BY <1>6, <1>14 DEF z

\* itime is the rest of the read in milliseconds, rounded down, so that it is negative
\* as soon as the deadline is past.
LEMMA ItimeIs ==
  ASSUME now \in Times, m_deadline \in Times
  PROVE  itime \in Int /\ Ns(now) + 1000000 * itime <= Ns(m_deadline)
         /\ Ns(m_deadline) < Ns(now) + 1000000 * itime + 1000000
<1> DEFINE s == m_deadline.tv_sec - now.tv_sec
           n == m_deadline.tv_nsec - now.tv_nsec
           r == Remaining(m_deadline)
<1>1. s \in Int /\ n \in Int /\ n < SECOND /\ 0 <= n + SECOND /\ SECOND \in Nat
      /\ Ns(now) \in Nat /\ Ns(m_deadline) \in Nat
  BY TimeFields, Second
<1>2. Ns(m_deadline) = Ns(now) + Sec(s) + n
  <2>1. Sec(s) = Sec(m_deadline.tv_sec) - Sec(now.tv_sec)
    <3>1. m_deadline.tv_sec \in Int /\ now.tv_sec \in Int
      BY TimeFields
    <3> QED BY <3>1, SecDifference
  <2> QED BY <2>1, TimeFields
<1>3. r = IF n < 0 THEN [tv_sec |-> s - 1, tv_nsec |-> n + SECOND]
                   ELSE [tv_sec |-> s, tv_nsec |-> n]
  BY DEF Remaining
<1>4. itime = r.tv_nsec \div 1000000 + r.tv_sec * 1000
  BY DEF itime
<1> HIDE DEF s, n, r
<1>5. r.tv_sec \in Int /\ r.tv_nsec \in Nat
      /\ Sec(r.tv_sec) + r.tv_nsec = Sec(s) + n
  <2>1. Sec(s - 1) + (n + SECOND) = Sec(s) + n
    BY <1>1 DEF Sec, SECOND
  <2> QED BY <1>1, <1>3, <2>1
<1> DEFINE k == r.tv_sec
           w == r.tv_nsec
           q == w \div 1000000
           z == k * 1000
<1>6. q \in Int /\ 1000000 * q <= w /\ w < 1000000 * q + 1000000
  BY <1>5
<1>7. Sec(k) = 1000000 * z /\ z \in Int
  BY <1>5, SecondIs
<1>8. itime = q + z /\ w \in Nat /\ Sec(k) + w = Sec(s) + n /\ Sec(s) \in Int
  BY <1>1, <1>4, <1>5, SecType
<1> HIDE DEF k, w, q, z
<1> QED BY <1>1, <1>2, <1>6, <1>7, <1>8

-----------------------------------------------------------------------------
(* The inductive invariant *)

Types ==
  /\ now \in Times /\ m_config \in Configs
  /\ Normalised
  /\ m_retry \in Nat
  /\ {returned, began, missed, tickled} \subseteq Times \cup {Never}

\* m_next_write keeps the delay after the last read, until it has passed.
Quiet ==
  returned # Never => /\ Ns(returned) <= Ns(now)
                      /\ Ns(m_next_write) >= Ns(returned) + 1000 * m_config.delay

\* The deadline of the read is its beginning and its timeout.
Reading ==
  pc \in {"read", "poll"} =>
    began \in Times /\ Ns(m_deadline) = Ns(began) + 1000 * m_config.timeout

\* m_next_assign counts from the last poll of the offline slave, m_next_poll from the
\* last poll the slave missed.  An online slave has missed none exactly if m_retry is 0.
Backoff ==
  /\ tickled = Never => m_next_assign = Zero
  /\ tickled # Never => Ns(m_next_assign) = Ns(tickled) + Sec(5)
  /\ ~offline => /\ missed = Never <=> m_retry = 0
                 /\ missed # Never => Ns(m_next_poll) = Ns(missed) + 10 * MILLISECOND

TInv == Types /\ Quiet /\ Reading /\ Backoff

-----------------------------------------------------------------------------
(* What the code computes from now *)

LEMMA ConfigIs ==
  ASSUME NEW c \in Configs
  PROVE  c.timeout \in Nat /\ c.delay \in Nat /\ c.delay < 1000000
BY ConfigAssumption

\* Nanoseconds added to a time, less than a second.
LEMMA AddedIs ==
  ASSUME NEW t \in Times, NEW s \in Nat, NEW n \in Nat, n < SECOND
  PROVE  LET u == Carry([tv_sec |-> t.tv_sec + s, tv_nsec |-> t.tv_nsec + n])
         IN  u \in Times /\ Ns(u) = Ns(t) + Sec(s) + n
<1>1. t.tv_sec \in Nat /\ t.tv_nsec \in Nat /\ t.tv_nsec < SECOND /\ SECOND \in Nat
      /\ Ns(t) = Sec(t.tv_sec) + t.tv_nsec
  BY TimeFields, Second
<1> DEFINE a == t.tv_sec + s
           b == t.tv_nsec + n
<1>2. a \in Nat /\ b \in Nat /\ b < SECOND + SECOND
  BY <1>1
<1>3. Sec(a) = Sec(t.tv_sec) + Sec(s)
      /\ Sec(t.tv_sec) \in Int /\ Sec(s) \in Int
  <2>1. t.tv_sec \in Int /\ s \in Int
    BY <1>1
  <2> HIDE DEF a
  <2>2. Sec(t.tv_sec + s) = Sec(t.tv_sec) + Sec(s)
    BY <2>1, SecSum
  <2>3. Sec(t.tv_sec) \in Int /\ Sec(s) \in Int
    BY <2>1, SecType
  <2> QED BY <2>2, <2>3 DEF a
<1> DEFINE u == Carry([tv_sec |-> a, tv_nsec |-> b])
<1>4. b = t.tv_nsec + n
  OBVIOUS
<1> HIDE DEF a, b
<1>5. u \in Times /\ Ns(u) = Sec(a) + b
  BY <1>2, CarryIs
<1> HIDE DEF u
<1>6. u \in Times /\ Ns(u) = Ns(t) + Sec(s) + n
  BY <1>1, <1>3, <1>4, <1>5
<1> QED BY <1>6 DEF u, a, b

LEMMA ReadDeadlineIs ==
  ASSUME now \in Times, NEW us \in Nat
  PROVE  ReadDeadline(us) \in Times /\ Ns(ReadDeadline(us)) = Ns(now) + 1000 * us
<1> DEFINE a == us \div 1000000
           b == us % 1000000
<1>1. a \in Nat /\ b \in Nat /\ us = 1000000 * a + b /\ b < 1000000
  OBVIOUS
<1>2. ReadDeadline(us) = Carry([tv_sec |-> now.tv_sec + a, tv_nsec |-> now.tv_nsec + b * 1000])
  BY DEF ReadDeadline
<1> HIDE DEF a, b
<1>3. b * 1000 \in Nat /\ b * 1000 < SECOND
  BY <1>1 DEF SECOND
<1>4. /\ ReadDeadline(us) \in Times
      /\ Ns(ReadDeadline(us)) = Ns(now) + Sec(a) + b * 1000
  BY <1>1, <1>2, <1>3, AddedIs
<1>5. Sec(a) = 1000 * (a * 1000000)
  BY <1>1, SecondIs
<1> QED BY <1>1, <1>4, <1>5, TimeFields

\* Nanoseconds added as readstamp and nak add them.
LEMMA StampIs ==
  ASSUME now \in Times, NEW n \in Nat, n < SECOND
  PROVE  LET u == Carry([now EXCEPT !.tv_nsec = @ + n])
         IN  u \in Times /\ Ns(u) = Ns(now) + n
<1>1. [now EXCEPT !.tv_nsec = @ + n]
        = [tv_sec |-> now.tv_sec + 0, tv_nsec |-> now.tv_nsec + n]
  BY TimeFields DEF Times
<1>2. Sec(0) = 0 /\ Ns(now) \in Nat
  BY SecZero, TimeFields
<1>3. LET u == Carry([tv_sec |-> now.tv_sec + 0, tv_nsec |-> now.tv_nsec + n])
      IN  u \in Times /\ Ns(u) = Ns(now) + Sec(0) + n
  BY AddedIs
<1> QED BY <1>1, <1>2, <1>3

LEMMA PollBackoffIs ==
  ASSUME now \in Times
  PROVE  PollBackoff \in Times /\ Ns(PollBackoff) = Ns(now) + 10 * MILLISECOND
<1>1. 10000000 \in Nat /\ 10000000 < SECOND /\ 10 * MILLISECOND = 10000000
  BY DEF SECOND, MILLISECOND
<1> QED BY <1>1, StampIs DEF PollBackoff

LEMMA AssignBackoffIs ==
  ASSUME now \in Times
  PROVE  AssignBackoff \in Times /\ Ns(AssignBackoff) = Ns(now) + Sec(5)
<1>1. /\ now.tv_sec \in Nat /\ now.tv_nsec \in Nat /\ now.tv_nsec < SECOND
      /\ Ns(now) = Sec(now.tv_sec) + now.tv_nsec
  BY TimeFields
<1>2. AssignBackoff = [tv_sec |-> now.tv_sec + 5, tv_nsec |-> now.tv_nsec]
  BY <1>1 DEF AssignBackoff, Times
<1>3. /\ AssignBackoff \in Times
      /\ Ns(AssignBackoff) = Sec(now.tv_sec + 5) + now.tv_nsec
  BY <1>1, <1>2, TimeIs
<1>4. Sec(now.tv_sec + 5) = Sec(now.tv_sec) + Sec(5)
      /\ Sec(now.tv_sec) \in Int /\ Sec(5) \in Int
  <2>1. now.tv_sec \in Int /\ 5 \in Int
    BY <1>1
  <2> QED BY <2>1, SecSum, SecType
<1> QED BY <1>1, <1>3, <1>4

LEMMA readstampIs ==
  ASSUME now \in Times, m_config \in Configs, readstamp
  PROVE  m_next_write' \in Times /\ Ns(m_next_write') = Ns(now) + 1000 * m_config.delay
<1> DEFINE n == m_config.delay * 1000
<1>1. n \in Nat /\ n = 1000 * m_config.delay
  BY ConfigIs
<1>2. n < SECOND
  BY ConfigIs DEF SECOND
<1>3. m_next_write' = Carry([now EXCEPT !.tv_nsec = @ + n])
  BY DEF readstamp
<1> HIDE DEF n
<1> QED BY <1>1, <1>2, <1>3, StampIs

-----------------------------------------------------------------------------
(* The invariant is inductive *)

LEMMA TInitial == TInit => TInv
<1> SUFFICES ASSUME TInit PROVE TInv
  OBVIOUS
<1>1. Types
  BY ZeroNever, ClockAssumption, RetryAssumption DEF TInit, Types, Normalised
<1>2. Quiet /\ Reading
  BY DEF TInit, Quiet, Reading
<1>3. Backoff
  BY RetryAssumption DEF TInit, Backoff, offline
<1> QED BY <1>1, <1>2, <1>3 DEF TInv

\* How readcook leaves the port.
LEMMA ReturnKeeps ==
  ASSUME Types, Return
  PROVE  /\ m_next_write' \in Times /\ m_deadline' \in Times
         /\ returned' \in Times /\ began' = Never
         /\ now' = now /\ m_config' = m_config
         /\ m_next_assign' = m_next_assign /\ tickled' = tickled
         /\ Quiet' /\ Reading'
<1>1. now \in Times /\ m_config \in Configs
  BY DEF Types
<1>2. readstamp /\ now' = now /\ m_config' = m_config
  BY DEF Return
<1>3. m_next_write' \in Times /\ Ns(m_next_write') = Ns(now) + 1000 * m_config.delay
  BY <1>1, <1>2, readstampIs
<1>4. returned' = now /\ m_deadline' = Zero /\ pc' = "top" /\ began' = Never
      /\ m_next_assign' = m_next_assign /\ tickled' = tickled
  BY DEF Return
<1>5. Ns(now) \in Nat /\ m_config.delay \in Nat
  BY <1>1, TimeFields, ConfigIs
<1>6. Quiet'
  BY <1>2, <1>3, <1>4, <1>5 DEF Quiet
<1>7. Reading'
  BY <1>4 DEF Reading
<1> QED BY <1>1, <1>2, <1>3, <1>4, <1>6, <1>7, ZeroNever

LEMMA nakKeeps ==
  ASSUME Types, Backoff, nak, now' = now, m_next_assign' = m_next_assign,
         tickled' = tickled
  PROVE  /\ m_next_poll' \in Times /\ m_retry' \in Nat
         /\ missed' \in Times \cup {Never}
         /\ Backoff'
<1>1. /\ now \in Times /\ m_retry \in Nat /\ m_next_poll \in Times
      /\ missed \in Times \cup {Never}
  BY DEF Types, Normalised
<1>2. CASE offline
  <2>1. m_retry' = m_retry /\ m_next_poll' = m_next_poll /\ missed' = missed
    BY <1>2 DEF nak
  <2> QED BY <1>1, <2>1 DEF Backoff, offline
<1>3. CASE ~offline /\ m_retry + 1 >= RETRY_MAX
  <2>1. m_retry' = m_retry + 1 /\ m_next_poll' = m_next_poll /\ missed' = missed
    BY <1>3 DEF nak
  <2>2. offline'
    BY <1>3, <2>1 DEF offline
  <2> QED BY <1>1, <2>1, <2>2 DEF Backoff
<1>4. CASE ~offline /\ ~(m_retry + 1 >= RETRY_MAX)
  <2>1. m_retry' = m_retry + 1 /\ m_next_poll' = PollBackoff /\ missed' = now
    BY <1>4 DEF nak
  <2>2. PollBackoff \in Times /\ Ns(PollBackoff) = Ns(now) + 10 * MILLISECOND
    BY <1>1, PollBackoffIs
  <2>3. missed' # Never /\ m_retry' # 0
    BY <1>1, <2>1, ZeroNever
  <2> QED BY <1>1, <2>1, <2>2, <2>3 DEF Backoff
<1> QED BY <1>2, <1>3, <1>4

LEMMA TStep == TInv /\ [TNext]_tvars => TInv'
<1> SUFFICES ASSUME TInv, [TNext]_tvars PROVE TInv'
  OBVIOUS
<1>1. Types /\ Quiet /\ Reading /\ Backoff
  BY DEF TInv
<1>2. /\ now \in Times /\ m_config \in Configs
      /\ m_next_write \in Times /\ m_deadline \in Times
      /\ m_next_assign \in Times /\ m_next_poll \in Times /\ m_retry \in Nat
      /\ returned \in Times \cup {Never} /\ began \in Times \cup {Never}
      /\ missed \in Times \cup {Never} /\ tickled \in Times \cup {Never}
  BY <1>1 DEF Types, Normalised
<1>3. CASE Poll
  <2>1. /\ now' = now /\ m_config' = m_config /\ m_next_write' = m_next_write
        /\ m_deadline' = m_deadline /\ m_next_poll' = m_next_poll /\ m_retry' = m_retry
        /\ returned' = returned /\ began' = began /\ missed' = missed /\ pc' = "write"
    BY <1>3 DEF Poll
  <2>2. /\ m_next_assign' \in Times /\ tickled' \in Times \cup {Never}
        /\ tickled' = Never => m_next_assign' = Zero
        /\ tickled' # Never => Ns(m_next_assign') = Ns(tickled') + Sec(5)
    <3>1. CASE offline
      <4>1. m_next_assign' = AssignBackoff /\ tickled' = now
        BY <1>3, <3>1 DEF Poll
      <4>2. /\ AssignBackoff \in Times
            /\ Ns(AssignBackoff) = Ns(now) + Sec(5)
        BY <1>2, AssignBackoffIs
      <4> QED BY <1>2, <4>1, <4>2, ZeroNever
    <3>2. CASE ~offline
      <4>1. m_next_assign' = m_next_assign /\ tickled' = tickled
        BY <1>3, <3>2 DEF Poll
      <4> QED BY <1>1, <1>2, <4>1 DEF Backoff
    <3> QED BY <3>1, <3>2
  <2>3. Types'
    BY <1>2, <2>1, <2>2 DEF Types, Normalised
  <2>4. Quiet' /\ Reading'
    BY <1>1, <2>1 DEF Quiet, Reading
  <2>5. Backoff'
    BY <1>1, <2>1, <2>2 DEF Backoff, offline
  <2> QED BY <2>3, <2>4, <2>5 DEF TInv
<1>4. CASE delaywait
  <2>1. /\ now' = now /\ m_config' = m_config /\ m_deadline' = m_deadline
        /\ slaveTimes' = slaveTimes /\ history' = history /\ pc' = "sleep"
    BY <1>4 DEF delaywait
  <2>2. /\ m_next_write' \in Times
        /\ Ns(m_next_write') >= Ns(m_next_write)
        /\ m_next_write = Zero => Ns(m_next_write') = Ns(now) + 1000 * m_config.delay
    <3>1. CASE m_next_write = Zero
      <4>1. readstamp
        BY <1>4, <3>1 DEF delaywait
      <4>2. /\ m_next_write' \in Times
            /\ Ns(m_next_write') = Ns(now) + 1000 * m_config.delay
        BY <1>2, <4>1, readstampIs
      <4>3. Ns(now) \in Nat /\ m_config.delay \in Nat
        BY <1>2, TimeFields, ConfigIs
      <4> QED BY <3>1, <4>2, <4>3, ZeroNever
    <3>2. CASE m_next_write # Zero
      <4>1. m_next_write' = m_next_write
        BY <1>4, <3>2 DEF delaywait
      <4>2. Ns(m_next_write) \in Nat
        BY <1>2, TimeFields
      <4> QED BY <1>2, <3>2, <4>1, <4>2
    <3> QED BY <3>1, <3>2
  <2>3. Types'
    BY <1>2, <2>1, <2>2 DEF Types, Normalised, slaveTimes, history
  <2>4. Quiet'
    <3>1. returned' = returned
      BY <2>1 DEF history
    <3>2. Ns(m_next_write) \in Nat /\ Ns(m_next_write') \in Nat /\ m_config.delay \in Nat
      BY <1>2, <2>2, TimeFields, ConfigIs
    <3>3. returned # Never => Ns(returned) \in Nat
      BY <1>2, TimeFields
    <3> QED BY <1>1, <2>1, <2>2, <3>1, <3>2, <3>3 DEF Quiet
  <2>5. Reading' /\ Backoff'
    BY <1>1, <2>1 DEF Reading, Backoff, offline, slaveTimes, history
  <2> QED BY <2>3, <2>4, <2>5 DEF TInv
<1>5. CASE Write
  BY <1>1, <1>2, <1>5
     DEF TInv, Types, Normalised, Quiet, Reading, Backoff, offline, Write, slaveTimes, history
<1>6. CASE readcook
  <2>1. /\ now' = now /\ m_config' = m_config /\ m_next_write' = m_next_write
        /\ slaveTimes' = slaveTimes /\ returned' = returned /\ missed' = missed
        /\ tickled' = tickled /\ began' = now /\ m_deadline' = ReadDeadline(m_config.timeout)
    BY <1>6 DEF readcook
  <2>2. /\ m_deadline' \in Times
        /\ Ns(m_deadline') = Ns(now) + 1000 * m_config.timeout
    BY <1>2, <2>1, ConfigIs, ReadDeadlineIs
  <2>3. Types'
    BY <1>2, <2>1, <2>2 DEF Types, Normalised, slaveTimes
  <2>4. Quiet' /\ Reading' /\ Backoff'
    BY <1>1, <1>2, <2>1, <2>2 DEF Quiet, Reading, Backoff, offline, slaveTimes
  <2> QED BY <2>3, <2>4 DEF TInv
<1>7. CASE Wait
  BY <1>1, <1>2, <1>7
     DEF TInv, Types, Normalised, Quiet, Reading, Backoff, offline, Wait, slaveTimes, history
<1>8. CASE \E arrived \in BOOLEAN : PollEnds(arrived)
  BY <1>1, <1>2, <1>8
     DEF TInv, Types, Normalised, Quiet, Reading, Backoff, offline, PollEnds, slaveTimes, history
<1>9. CASE Timeout \/ Damaged
  <2>1. nak /\ Return
    BY <1>9 DEF Timeout, Damaged
  <2>2. /\ m_next_write' \in Times /\ m_deadline' \in Times
        /\ returned' \in Times /\ began' = Never
        /\ now' = now /\ m_config' = m_config
        /\ m_next_assign' = m_next_assign /\ tickled' = tickled
        /\ Quiet' /\ Reading'
    BY <1>1, <2>1, ReturnKeeps
  <2>3. /\ m_next_poll' \in Times /\ m_retry' \in Nat
        /\ missed' \in Times \cup {Never}
        /\ Backoff'
    BY <1>1, <2>1, <2>2, nakKeeps
  <2>4. Types'
    BY <1>2, <2>2, <2>3 DEF Types, Normalised
  <2> QED BY <2>2, <2>3, <2>4 DEF TInv
<1>10. CASE Answered
  <2>1. Return /\ m_retry' = 0 /\ missed' = Never /\ m_next_poll' = m_next_poll
    BY <1>10 DEF Answered
  <2>2. /\ m_next_write' \in Times /\ m_deadline' \in Times
        /\ returned' \in Times /\ began' = Never
        /\ now' = now /\ m_config' = m_config
        /\ m_next_assign' = m_next_assign /\ tickled' = tickled
        /\ Quiet' /\ Reading'
    BY <1>1, <2>1, ReturnKeeps
  <2>3. Types'
    BY <1>2, <2>1, <2>2 DEF Types, Normalised
  <2>4. Backoff'
    BY <1>1, <2>1, <2>2 DEF Backoff
  <2> QED BY <2>2, <2>3, <2>4 DEF TInv
<1>11. CASE Reopen
  <2>1. Types'
    BY <1>2, <1>11, ZeroNever DEF Types, Normalised, Reopen, slaveTimes
  <2>2. Quiet' /\ Reading' /\ Backoff'
    BY <1>1, <1>11 DEF Quiet, Reading, Backoff, offline, Reopen, slaveTimes
  <2> QED BY <2>1, <2>2 DEF TInv
<1>12. CASE \E us \in Steps : Tick(us)
  <2>1. PICK us \in Steps : Tick(us)
    BY <1>12
  <2>2. us \in Nat /\ now' = After(now, us)
    BY <2>1, ClockAssumption DEF Tick
  <2>3. now' \in Times /\ Ns(now') = Ns(now) + 1000 * us
    BY <1>2, <2>2, AfterIs
  <2>4. Types'
    BY <1>2, <2>1, <2>3 DEF Tick, Types, Normalised, slaveTimes, history
  <2>5. Quiet'
    <3>1. returned' = returned /\ m_next_write' = m_next_write /\ m_config' = m_config
      BY <2>1 DEF Tick, history
    <3>2. Ns(now) \in Nat /\ (returned # Never => Ns(returned) \in Nat)
      BY <1>2, TimeFields
    <3> QED BY <1>1, <2>2, <2>3, <3>1, <3>2 DEF Quiet
  <2>6. Reading' /\ Backoff'
    BY <1>1, <2>1 DEF Tick, Reading, Backoff, offline, slaveTimes, history
  <2> QED BY <2>4, <2>5, <2>6 DEF TInv
<1>13. CASE UNCHANGED tvars
  BY <1>1, <1>2, <1>13
     DEF TInv, Types, Normalised, Quiet, Reading, Backoff, offline, tvars, slaveTimes, history
<1> QED
  BY <1>3, <1>4, <1>5, <1>6, <1>7, <1>8, <1>9, <1>10, <1>11, <1>12, <1>13 DEF TNext

LEMMA TInvariant == TSpec => []TInv
BY TInitial, TStep, PTL DEF TSpec

-----------------------------------------------------------------------------
(* What follows from it *)

\* The deadlines are proper timespecs, however the clock and the configuration add up
\* (osdpprotocol.cpp: readstamp, readcook; osdpslave.cpp: nak; slave_poll).
THEOREM DeadlinesAreTimes == TSpec => []Normalised
<1>1. TInv => Normalised
  BY DEF TInv, Types
<1> QED BY <1>1, TInvariant, PTL

\* A slave that missed a poll is due again after exactly 10 ms, an offline one after
\* exactly 5 s (slave_poll's comparisons with m_next_assign and m_next_poll).
THEOREM BackoffIsExact == TSpec => []BackoffExact
<1>1. ASSUME TInv PROVE BackoffExact
  <2>1. /\ Types /\ Backoff /\ now \in Times /\ m_next_assign \in Times
        /\ m_next_poll \in Times
        /\ tickled \in Times \cup {Never} /\ missed \in Times \cup {Never}
    BY <1>1 DEF TInv, Types, Normalised
  <2>2. /\ Ns(now) \in Nat /\ Ns(m_next_assign) \in Nat /\ Ns(m_next_poll) \in Nat
        /\ ~Before(now, m_next_assign) <=> Ns(now) >= Ns(m_next_assign)
        /\ ~Before(now, m_next_poll) <=> Ns(now) >= Ns(m_next_poll)
    BY <2>1, TimeFields, BeforeIs
  <2>3. CASE offline
    <3>1. Due <=> Ns(now) >= Ns(m_next_assign)
      BY <2>2, <2>3 DEF Due
    <3>2. CASE tickled = Never
      <4>1. Ns(m_next_assign) = 0
        BY <2>1, <3>2, ZeroNever DEF Backoff
      <4> QED BY <2>2, <2>3, <3>1, <3>2, <4>1 DEF BackoffExact
    <3>3. CASE tickled # Never
      <4>1. tickled \in Times /\ Ns(m_next_assign) = Ns(tickled) + Sec(5)
        BY <2>1, <3>3 DEF Backoff
      <4>2. Elapsed(tickled, now) >= 5000000 <=> Ns(now) >= Ns(m_next_assign)
        BY <2>1, <4>1, ElapsedIs, SMT DEF Sec, SECOND
      <4> QED BY <2>3, <3>1, <3>3, <4>2, SMT DEF BackoffExact
    <3> QED BY <3>2, <3>3
  <2>4. CASE ~offline
    <3>1. Due <=> m_retry = 0 \/ Ns(now) >= Ns(m_next_poll)
      BY <2>2, <2>4 DEF Due
    <3>2. missed = Never <=> m_retry = 0
      BY <2>1, <2>4 DEF Backoff
    <3>3. CASE missed = Never
      BY <2>4, <3>1, <3>2, <3>3 DEF BackoffExact
    <3>4. CASE missed # Never
      <4>1. missed \in Times /\ Ns(m_next_poll) = Ns(missed) + 10 * MILLISECOND
        BY <2>1, <2>4, <3>4 DEF Backoff
      <4>2. Elapsed(missed, now) >= 10000 <=> Ns(now) >= Ns(m_next_poll)
        BY <2>1, <4>1, ElapsedIs, SMT DEF MILLISECOND
      <4> QED BY <2>4, <3>1, <3>2, <3>4, <4>2, SMT DEF BackoffExact
    <3> QED BY <3>3, <3>4
  <2> QED BY <2>3, <2>4
<1> QED BY <1>1, TInvariant, PTL

\* Nothing is written before the delay after the last read is over, although other
\* slaves, a reset of m_next_write and the clock come between (delaywait, readstamp).
THEOREM QuietIsKept == TSpec => QuietAfterRead
<1>1. ASSUME TInv, Write, returned # Never
      PROVE  Elapsed(returned, now) >= m_config.delay
  <2>1. /\ Types /\ Quiet /\ now \in Times /\ m_next_write \in Times
        /\ returned \in Times /\ m_config \in Configs
    BY <1>1 DEF TInv, Types, Normalised
  <2>2. ~(Ns(now) < Ns(m_next_write))
    BY <1>1, <2>1, BeforeIs DEF Write
  <2>3. /\ Ns(now) \in Nat /\ Ns(m_next_write) \in Nat /\ Ns(returned) \in Nat
        /\ m_config.delay \in Nat
    BY <2>1, TimeFields, ConfigIs
  <2>4. Ns(m_next_write) >= Ns(returned) + 1000 * m_config.delay
    BY <1>1, <2>1 DEF Quiet
  <2>5. Ns(now) >= Ns(returned) + 1000 * m_config.delay
    BY <2>2, <2>3, <2>4
  <2>6. \A d \in Int : Ns(now) >= Ns(returned) + 1000 * d => Elapsed(returned, now) >= d
    BY <2>1, ElapsedIs
  <2>7. m_config.delay \in Int
    BY <2>3
  <2> QED BY <2>5, <2>6, <2>7
<1>2. TInv /\ [TNext]_tvars =>
        [Write => returned = Never \/ Elapsed(returned, now) >= m_config.delay]_tvars
  BY <1>1
<1> QED BY <1>2, TInvariant, PTL DEF TSpec, QuietAfterRead

\* A read gives up no earlier than its timeout after its beginning, and does not sleep
\* more than a millisecond past it (readcook's deadline, read_some's itime).
THEOREM TimeoutIsExact == TSpec => TimeoutExact
<1>1. ASSUME TInv, pc = "read"
      PROVE  /\ now \in Times /\ began \in Times /\ m_config \in Configs
             /\ Ns(now) \in Nat /\ Ns(began) \in Nat /\ Ns(m_deadline) \in Nat
             /\ m_config.timeout \in Nat
             /\ Ns(m_deadline) = Ns(began) + 1000 * m_config.timeout
             /\ itime \in Int /\ Ns(now) + 1000000 * itime <= Ns(m_deadline)
             /\ Ns(m_deadline) < Ns(now) + 1000000 * itime + 1000000
  <2>1. now \in Times /\ m_deadline \in Times /\ m_config \in Configs /\ Reading
    BY <1>1 DEF TInv, Types, Normalised
  <2>2. began \in Times /\ Ns(m_deadline) = Ns(began) + 1000 * m_config.timeout
    BY <1>1, <2>1 DEF Reading
  <2> QED BY <2>1, <2>2, TimeFields, ConfigIs, ItimeIs, SMT
<1>2. ASSUME TInv, Timeout
      PROVE  Elapsed(began, now) >= m_config.timeout
  <2>1. pc = "read" /\ itime < 0
    BY <1>2 DEF Timeout
  <2>2. Ns(now) >= Ns(began) + 1000 * m_config.timeout
    BY <1>1, <1>2, <2>1, SMT
  <2>3. now \in Times /\ began \in Times /\ m_config.timeout \in Int
    BY <1>1, <1>2, <2>1
  <2>4. \A d \in Int : Ns(now) >= Ns(began) + 1000 * d => Elapsed(began, now) >= d
    BY <2>3, ElapsedIs
  <2> QED BY <2>2, <2>3, <2>4
<1>3. ASSUME TInv, Wait
      PROVE  Elapsed(began, wakeup') <= m_config.timeout + 1000
  <2>1. pc = "read" /\ itime >= 0 /\ wakeup' = After(now, 1000 * PollTime)
    BY <1>3 DEF Wait
  <2>2. /\ now \in Times /\ began \in Times /\ Ns(now) \in Nat /\ Ns(began) \in Nat
        /\ m_config.timeout \in Nat /\ itime \in Nat
        /\ Ns(now) + 1000000 * itime <= Ns(began) + 1000 * m_config.timeout
    BY <1>1, <1>3, <2>1, SMT
  <2>3. PollTime \in Nat /\ (PollTime <= itime \/ PollTime = 1)
    <3>1. itime \in Nat
      BY <2>2
    <3> QED BY <3>1 DEF PollTime
  <2>4. wakeup' \in Times /\ Ns(wakeup') = Ns(now) + 1000 * (1000 * PollTime)
    <3>1. 1000 * PollTime \in Nat
      BY <2>3, SMT
    <3> QED BY <2>1, <2>2, <3>1, AfterIs, SMT
  <2>5. ~(Ns(wakeup') >= Ns(began) + 1000 * (m_config.timeout + 1001))
    BY <2>2, <2>3, <2>4, SMT
  <2>6. /\ Elapsed(began, wakeup') \in Int
        /\ ~(Elapsed(began, wakeup') >= m_config.timeout + 1001)
    <3>1. began \in Times /\ wakeup' \in Times /\ m_config.timeout + 1001 \in Int
      BY <2>2, <2>4
    <3>2. \A d \in Int : /\ Elapsed(began, wakeup') \in Int
                         /\ Elapsed(began, wakeup') >= d <=> Ns(wakeup') >= Ns(began) + 1000 * d
      BY <3>1, ElapsedIs
    <3> QED BY <2>5, <3>1, <3>2
  <2> QED BY <2>2, <2>6, SMT
<1>4. TInv /\ [TNext]_tvars =>
        [/\ Timeout => Elapsed(began, now) >= m_config.timeout
         /\ Wait => Elapsed(began, wakeup') <= m_config.timeout + 1000]_tvars
  BY <1>2, <1>3
<1> QED BY <1>4, TInvariant, PTL DEF TSpec, TimeoutExact
=============================================================================
