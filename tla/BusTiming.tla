----------------------------- MODULE BusTiming ------------------------------
(***************************************************************************)
(* The bus thread's clock arithmetic: the deadlines of protocol and of a   *)
(* slave, computed from CLOCK_MONOTONIC in seconds and nanoseconds, and    *)
(* the decisions taken on them.  One slave; the clock may advance between  *)
(* any two steps and while the thread sleeps.                              *)
(***************************************************************************)
EXTENDS Integers

CONSTANTS
  Start,      \* the clock at the start
  Steps,      \* bound: by how many microseconds it advances at a time
  MaxTicks,   \* bound: how often it advances
  Configs,    \* m_config: the timeout of a read and the delay after it
  RETRY_MAX   \* OSDPSLAVE_RETRY_MAX (10)

SECOND == 1000000000   \* in nanoseconds

Times == [tv_sec : Nat, tv_nsec : 0 .. SECOND - 1]

ASSUME ClockAssumption == Start \in Times /\ Steps \subseteq Nat \ {0} /\ MaxTicks \in Nat
\* "Assume m_delay.tv_sec is zero": the delay is under a second.
ASSUME ConfigAssumption ==
  Configs \subseteq [timeout : Nat, delay : {us \in Nat : us < 1000000}]
ASSUME RetryAssumption == RETRY_MAX \in Nat \ {0}

VARIABLES
  now, ticks,     \* the clock, and how often it advanced
  m_config,
  m_next_write,   \* "when the next xmit can happen"
  m_deadline,     \* when the current read times out; Zero outside of a read
  m_next_assign, m_next_poll, m_retry,   \* the slave
  pc,             \* "top", "write", "sleep", "sent", "read" or "poll"
  wakeup,         \* when poll times out; Zero outside of it
  returned,       \* history: when readcook last returned on this port
  began,          \* history: when the current readcook began
  missed,         \* history: when the slave last missed a poll
  tickled         \* history: when it was last polled although offline

slaveTimes == <<m_next_assign, m_next_poll, m_retry>>
history == <<returned, began, missed, tickled>>
tvars == <<now, ticks, m_config, m_next_write, m_deadline, slaveTimes, pc, wakeup, history>>

Zero == [tv_sec |-> 0, tv_nsec |-> 0]
Never == [tv_sec |-> -1, tv_nsec |-> 0]

-----------------------------------------------------------------------------
(* Arithmetic *)

Before_AnyField(t, u) == t.tv_sec < u.tv_sec \/ t.tv_nsec < u.tv_nsec

\* slave_poll's comparison of now with a deadline.
Before(t, u) ==
  \/ t.tv_sec < u.tv_sec
  \/ t.tv_sec = u.tv_sec /\ t.tv_nsec < u.tv_nsec

Carry_Greater(t) ==
  IF t.tv_nsec > SECOND
  THEN [tv_sec |-> t.tv_sec + 1, tv_nsec |-> t.tv_nsec - SECOND] ELSE t

Carry(t) ==
  IF t.tv_nsec >= SECOND
  THEN [tv_sec |-> t.tv_sec + 1, tv_nsec |-> t.tv_nsec - SECOND] ELSE t

\* readcook's deadline.
ReadDeadline(timeout) ==
  Carry([tv_sec |-> now.tv_sec + timeout \div 1000000,
         tv_nsec |-> now.tv_nsec + (timeout % 1000000) * 1000])

\* nak: 10 ms.
PollBackoff == Carry([now EXCEPT !.tv_nsec = @ + 10000000])

\* slave_poll: 5 seconds.
AssignBackoff == [now EXCEPT !.tv_sec = @ + 5]

Remaining_KeepsSecond(deadline) ==
  LET sec == deadline.tv_sec - now.tv_sec
      nsec == deadline.tv_nsec - now.tv_nsec
  IN  [tv_sec |-> sec, tv_nsec |-> IF nsec < 0 THEN nsec + SECOND ELSE nsec]

\* read_some's delta.
Remaining(deadline) ==
  LET sec == deadline.tv_sec - now.tv_sec
      nsec == deadline.tv_nsec - now.tv_nsec
  IN  IF nsec < 0 THEN [tv_sec |-> sec - 1, tv_nsec |-> nsec + SECOND]
                  ELSE [tv_sec |-> sec, tv_nsec |-> nsec]

\* read_some's itime, in milliseconds, and the wait it makes of it.
itime == LET delta == Remaining(m_deadline)
         IN  delta.tv_nsec \div 1000000 + delta.tv_sec * 1000

PollTime == IF itime > 1000 THEN 1000 ELSE IF itime = 0 THEN 1 ELSE itime

\* The clock after us microseconds, at most 5 s: the environment's arithmetic.
After(t, us) ==
  LET nsec == t.tv_nsec + (us % 1000000) * 1000
  IN  [tv_sec |-> t.tv_sec + us \div 1000000 + nsec \div SECOND, tv_nsec |-> nsec % SECOND]

-----------------------------------------------------------------------------
TInit ==
  /\ now = Start /\ ticks = 0
  /\ m_config \in Configs
  /\ m_next_write = Zero
  /\ m_deadline = Zero
  /\ m_next_assign = Zero
  /\ m_next_poll = Zero      \* uninitialised: OsdpMaster's DeadlineSet
  /\ m_retry = RETRY_MAX + 1
  /\ pc = "top"
  /\ wakeup = Zero
  /\ returned = Never /\ began = Never /\ missed = Never /\ tickled = Never

offline == m_retry >= RETRY_MAX

\* Is it time to poll the slave?
Due == IF offline THEN ~Before(now, m_next_assign)
       ELSE m_retry = 0 \/ ~Before(now, m_next_poll)

Poll ==
  /\ pc = "top"
  /\ Due
  /\ IF offline THEN m_next_assign' = AssignBackoff /\ tickled' = now
                ELSE UNCHANGED <<m_next_assign, tickled>>
  /\ pc' = "write"
  /\ UNCHANGED <<now, ticks, m_config, m_next_write, m_deadline, m_next_poll, m_retry,
                 wakeup, returned, began, missed>>

readstamp_NoCarry ==
  m_next_write' = [now EXCEPT !.tv_nsec = (@ + m_config.delay * 1000) % SECOND]

readstamp ==
  m_next_write' = Carry([now EXCEPT !.tv_nsec = @ + m_config.delay * 1000])

\* delaywait, up to its sleep.
delaywait ==
  /\ pc = "write"
  /\ IF m_next_write = Zero THEN readstamp ELSE UNCHANGED m_next_write
  /\ pc' = "sleep"
  /\ UNCHANGED <<now, ticks, m_config, m_deadline, slaveTimes, wakeup, history>>

\* clock_nanosleep has ended: the frame is written.
Write ==
  /\ pc = "sleep"
  /\ ~Before(now, m_next_write)
  /\ pc' = "sent"
  /\ UNCHANGED <<now, ticks, m_config, m_next_write, m_deadline, slaveTimes, wakeup,
                 history>>

readcook ==
  /\ pc = "sent"
  /\ m_deadline' = ReadDeadline(m_config.timeout)
  /\ began' = now
  /\ pc' = "read"
  /\ UNCHANGED <<now, ticks, m_config, m_next_write, slaveTimes, wakeup, returned,
                 missed, tickled>>

\* read_some finds nothing to read before the deadline, and waits.
Wait ==
  /\ pc = "read"
  /\ itime >= 0
  /\ wakeup' = After(now, 1000 * PollTime)
  /\ pc' = "poll"
  /\ UNCHANGED <<now, ticks, m_config, m_next_write, m_deadline, slaveTimes, history>>

\* poll ends because something arrived, or because its time is over.
PollEnds(arrived) ==
  /\ pc = "poll"
  /\ arrived \/ ~Before(now, wakeup)
  /\ pc' = "read"
  /\ wakeup' = Zero
  /\ UNCHANGED <<now, ticks, m_config, m_next_write, m_deadline, slaveTimes, history>>

Return ==
  /\ readstamp
  /\ m_deadline' = Zero
  /\ returned' = now
  /\ began' = Never
  /\ pc' = "top"
  /\ UNCHANGED <<now, ticks, m_config, m_next_assign, wakeup, tickled>>

\* osdpslave::nak
nak ==
  IF offline THEN UNCHANGED <<m_retry, m_next_poll, missed>>
  ELSE /\ m_retry' = m_retry + 1
       /\ IF m_retry' >= RETRY_MAX THEN UNCHANGED <<m_next_poll, missed>>
          ELSE m_next_poll' = PollBackoff /\ missed' = now

Timeout == pc = "read" /\ itime < 0 /\ nak /\ Return

\* A reply was read: it is damaged, or acknowledged.
Damaged == pc = "read" /\ nak /\ Return

Answered ==
  /\ pc = "read"
  /\ m_retry' = 0
  /\ missed' = Never
  /\ Return
  /\ UNCHANGED m_next_poll

\* An exception: run closes the port, and prepcom resets m_next_write.
Reopen ==
  /\ pc \in {"write", "sleep", "read"}
  /\ m_next_write' = Zero
  /\ m_deadline' = Zero
  /\ returned' = Never /\ began' = Never
  /\ pc' = "top"
  /\ UNCHANGED <<now, ticks, m_config, slaveTimes, wakeup, missed, tickled>>

Tick(us) ==
  /\ ticks < MaxTicks
  /\ ticks' = ticks + 1
  /\ now' = After(now, us)
  /\ UNCHANGED <<m_config, m_next_write, m_deadline, slaveTimes, pc, wakeup, history>>

TNext ==
  \/ Poll \/ delaywait \/ Write \/ readcook \/ Wait \/ Timeout \/ Damaged \/ Answered
  \/ Reopen
  \/ \E arrived \in BOOLEAN : PollEnds(arrived)
  \/ \E us \in Steps : Tick(us)

TSpec == TInit /\ [][TNext]_tvars

-----------------------------------------------------------------------------
(* Properties *)

\* From t to u in microseconds; every time differs from Start by whole ones.
Elapsed(t, u) == (u.tv_sec - t.tv_sec) * 1000000 + (u.tv_nsec - t.tv_nsec) \div 1000

\* Every deadline is a proper timespec, whatever the nanoseconds it was computed from:
\* clock_nanosleep would not sleep for another, and slave_poll would misjudge it.
Normalised ==
  {m_next_write, m_deadline, m_next_assign, m_next_poll} \subseteq Times

\* A read times out no earlier than its timeout after it began, and does not sleep
\* past it by more than the millisecond of the shortest poll.
TimeoutExact ==
  [][/\ Timeout => Elapsed(began, now) >= m_config.timeout
     /\ Wait => Elapsed(began, wakeup') <= m_config.timeout + 1000]_tvars

\* The line stays quiet for m_config.delay after a reply or the wait for one ("after
\* receipt before rexmit"), whatever slave_poll decides meanwhile.
QuietAfterRead ==
  [][Write => returned = Never \/ Elapsed(returned, now) >= m_config.delay]_tvars

\* A slave that missed a poll is due for its retry after 10 ms, an offline one after
\* 5 s, neither earlier nor later.
BackoffExact ==
  pc = "top" =>
    IF offline THEN Due <=> tickled = Never \/ Elapsed(tickled, now) >= 5000000
    ELSE Due <=> missed = Never \/ Elapsed(missed, now) >= 10000
=============================================================================
