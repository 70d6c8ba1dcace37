-------------------------- MODULE OsdpMasterProofs --------------------------
(***************************************************************************)
(* Proofs about OsdpMaster, for any number of slaves, any retry limit, any *)
(* addresses, any number of commands and whatever the line delivers.       *)
(***************************************************************************)
EXTENDS OsdpMaster, TLAPS

\* A thread that is about to publish holds a status.
PublishesStatus ==
  /\ pc \in {"nakpub", "ackpub"} => bus_val \in Statuses
  /\ mq_slave # 0 => mq_val \in Statuses

\* What the bus thread is about to publish for s will be true once it is.
AboutToBeTrue(s) ==
  /\ pc = "nakpub" => offline(s) /\ bus_val = TrueStatus(s)
  /\ pc = "ackpub" => bus_val = declare_online(m_enabled[s], TRUE)

\* StatusTruthful, extended to the slave whose publication is under way.
StatusInv ==
  \A s \in Slaves :
    s \notin suspect /\ mq_slave # s =>
      IF Publishing(s) THEN AboutToBeTrue(s) ELSE status[s] = TrueStatus(s)

\* The inductive invariant.
IInv ==
  /\ TypeOK
  /\ PopsWhatWasSent
  /\ PublishesStatus
  /\ DeadlineSet
  /\ StatusInv

\* A step of the bus thread, with any well-formed reply r.
BusStep(r) ==
  \/ Opened \/ Scan \/ NotPollable \/ CheckOffline \/ CheckOnline
  \/ Transmit \/ IoError \/ nak \/ Receive(r)
  \/ PublishOffline \/ PublishOnline

\* next_seq stays within 0 .. 3 and never returns zero, the number that tells a
\* slave that the master has restarted.
LEMMA NextSeqRange ==
  ASSUME NEW q \in 0 .. 3
  PROVE  next_seq(q) \in 1 .. 3
  BY DEF next_seq

\* Removing the head of a non-empty queue leaves a queue.
LEMMA PopType ==
  ASSUME TypeOK, NEW s \in Slaves, sendmsg => m_msglist[s] # << >>, PopSent(s)
  PROVE  m_msglist' \in [Slaves -> Seq(Cmds)]
<1>1. CASE sendmsg
  <2>1. m_msglist[s] \in Seq(Cmds) /\ m_msglist[s] # << >>
    BY <1>1 DEF TypeOK
  <2>2. Tail(m_msglist[s]) \in Seq(Cmds)
    BY <2>1
  <2> QED BY <1>1, <2>2 DEF PopSent, TypeOK
<1>2. CASE ~sendmsg
  BY <1>2 DEF PopSent, TypeOK
<1> QED BY <1>1, <1>2

\* The bus thread's steps keep the types, never lose the command in flight from
\* the head of its queue, and never publish anything but a status.
LEMMA BusStepShape ==
  ASSUME IInv, NEW r, r.seq \in 0 .. 3, BusStep(r)
  PROVE  (TypeOK /\ PopsWhatWasSent /\ PublishesStatus)'
<1> USE NAssumption, RetryAssumption, AddrAssumption, CmdsAssumption
<1> DEFINE s == m_poll_slave
<1>0. TypeOK /\ PopsWhatWasSent /\ PublishesStatus /\ s \in Slaves
  BY DEF IInv, TypeOK
<1>1. CASE Opened
  BY <1>0, <1>1 DEF Opened, TypeOK, PopsWhatWasSent, PublishesStatus, offline,
     BusLocations, slaveVars, mqVars
<1>2. CASE Scan
  <2>1. Successor(a) \in Slaves
    BY <1>0 DEF TypeOK, Successor, Slaves
  <2> QED BY <1>0, <1>2, <2>1 DEF Scan, TypeOK, PopsWhatWasSent, PublishesStatus,
          BusLocations, slaveVars, mqVars
<1>3. CASE NotPollable
  BY <1>0, <1>3 DEF NotPollable, TypeOK, PopsWhatWasSent, PublishesStatus,
     BusLocations, slaveVars, mqVars
<1>4. CASE CheckOffline
  <2>1. m_msglist' \in [Slaves -> Seq(Cmds)]
    BY <1>0, <1>4 DEF CheckOffline, purge, TypeOK
  <2> QED BY <1>0, <1>4, <2>1 DEF CheckOffline, TypeOK, PopsWhatWasSent,
          PublishesStatus, BusLocations, mqVars
<1>5. CASE CheckOnline
  BY <1>0, <1>5 DEF CheckOnline, TypeOK, PopsWhatWasSent, PublishesStatus,
     BusLocations, slaveVars, mqVars
<1>6. CASE Transmit
  <2>1. m_msglist[s] \in Seq(Cmds)
    BY <1>0 DEF TypeOK
  <2>2. Queued(s) => m_msglist[s] # << >> /\ Head(m_msglist[s]) \in Cmds
    BY <2>1 DEF Queued
  <2>3. tx' \in Frames /\ (Queued(s) => tx'.msg = Head(m_msglist[s]))
    BY <1>0, <1>6, <2>2 DEF Transmit, Frames, TypeOK
  <2>4. sendmsg' \in BOOLEAN /\ sendmsg' = Queued(s)
    BY <1>6 DEF Transmit, Queued
  <2>5. TypeOK'
    BY <1>0, <1>6, <2>3, <2>4 DEF Transmit, TypeOK, BusLocations, slaveVars, mqVars
  <2>6. PopsWhatWasSent'
    BY <1>0, <1>6, <2>2, <2>3, <2>4 DEF Transmit, PopsWhatWasSent, Queued, offline,
       slaveVars
  <2> QED BY <1>0, <1>6, <2>5, <2>6 DEF Transmit, PublishesStatus, mqVars
<1>7. CASE IoError
  BY <1>0, <1>7 DEF IoError, TypeOK, PopsWhatWasSent, PublishesStatus, BusLocations,
     slaveVars, mqVars
<1>8. CASE nak
  <2>1. m_retry[s] \in 0 .. RETRY_MAX + 1
    BY <1>0 DEF TypeOK
  <2>2. m_retry' \in [Slaves -> 0 .. RETRY_MAX + 1]
    <3>1. CASE offline(s)
      BY <1>0, <1>8, <3>1 DEF nak, TypeOK
    <3>2. CASE ~offline(s)
      <4>1. m_retry' = [m_retry EXCEPT ![s] = m_retry[s] + 1]
        BY <1>8, <3>2 DEF nak
      <4>2. m_retry[s] + 1 \in 0 .. RETRY_MAX + 1
        BY <2>1, <3>2 DEF offline
      <4> QED BY <1>0, <4>1, <4>2 DEF TypeOK
    <3> QED BY <3>1, <3>2
  <2>3. /\ pc' \in {"scan", "nakpub"}
        /\ bus_val' \in Statuses \cup {"none"}
        /\ pc' = "nakpub" => bus_val' \in Statuses
    BY <1>8 DEF nak, Return, declare_online, Statuses
  <2>4. /\ m_next_poll' \in [Slaves -> {"unset", "pending", "due"}]
        /\ tx' \in Frames \cup {NoFrame} /\ sendmsg' \in BOOLEAN
        /\ suspect' \in SUBSET Slaves
    BY <1>0, <1>8 DEF nak, Return, TypeOK
  <2>5. UNCHANGED <<m_txseq, m_rxseq, m_enabled, m_next_assign, m_msglist,
                    m_poll_slave, a, mq_slave, mq_val, status, pushed>>
    BY <1>8 DEF nak, mqVars
  <2>6. TypeOK'
    BY <1>0, <2>2, <2>3, <2>4, <2>5 DEF TypeOK, BusLocations
  <2> QED BY <1>0, <2>3, <2>5, <2>6 DEF PopsWhatWasSent, PublishesStatus
<1>9. CASE WrongAddress(r)
  BY <1>0, <1>9 DEF WrongAddress, Return, TypeOK, PopsWhatWasSent, PublishesStatus,
     BusLocations, slaveVars, mqVars
<1>10. CASE Refused(r)
  <2>1. next_seq(r.seq) \in 0 .. 3
    BY NextSeqRange
  <2>2. /\ m_txseq' \in [Slaves -> 0 .. 3]
        /\ m_rxseq' \in [Slaves -> 0 .. 3]
    BY <1>0, <1>10, <2>1 DEF Refused, TypeOK
  <2> QED BY <1>0, <1>10, <2>2 DEF Refused, Return, TypeOK, PopsWhatWasSent,
          PublishesStatus, BusLocations, mqVars
<1>11. CASE ack(r)
  <2>0. m_txseq[s] \in 0 .. 3
    BY <1>0 DEF TypeOK
  <2>1. next_seq(r.seq) \in 0 .. 3 /\ next_seq(m_txseq[s]) \in 0 .. 3
    BY <2>0, NextSeqRange
  <2>2. pc = "read" /\ (sendmsg => m_msglist[s] # << >> /\ ~offline(s))
    BY <1>0, <1>11 DEF ack, PopsWhatWasSent
  <2>3. m_msglist' \in [Slaves -> Seq(Cmds)]
    BY <1>0, <1>11, <2>2, PopType DEF ack, TypeOK
  <2>4. /\ m_txseq' \in [Slaves -> 0 .. 3]
        /\ m_rxseq' \in [Slaves -> 0 .. 3]
    BY <1>0, <1>11, <2>1 DEF ack, Advance, TypeOK
  <2>5. CASE offline(s)
    BY <1>0, <1>11, <2>2, <2>3, <2>4, <2>5 DEF ack, TypeOK, PopsWhatWasSent,
       PublishesStatus, BusLocations, mqVars, declare_online, Statuses
  <2>6. CASE ~offline(s)
    <3>1. m_retry' \in [Slaves -> 0 .. RETRY_MAX + 1]
      <4>1. m_retry' = [m_retry EXCEPT ![s] = 0]
        BY <1>11, <2>6 DEF ack
      <4> QED BY <1>0, <4>1 DEF TypeOK
    <3>2. pc' = "scan" /\ tx' = NoFrame /\ sendmsg' = FALSE /\ bus_val' = "none"
      BY <1>11, <2>6 DEF ack, Return
    <3> QED BY <1>0, <1>11, <2>3, <2>4, <2>6, <3>1, <3>2 DEF ack, TypeOK,
            PopsWhatWasSent, PublishesStatus, BusLocations, mqVars
  <2> QED BY <2>5, <2>6
<1>12. CASE PublishOffline
  BY <1>0, <1>12 DEF PublishOffline, Return, TypeOK, PopsWhatWasSent,
     PublishesStatus, BusLocations, slaveVars, mqVars
<1>13. CASE PublishOnline
  <2>1. m_msglist' \in [Slaves -> Seq(Cmds)]
    BY <1>0, <1>13, PopType DEF PublishOnline, PopsWhatWasSent
  <2>2. m_retry' \in [Slaves -> 0 .. RETRY_MAX + 1]
    BY <1>0, <1>13 DEF PublishOnline, TypeOK
  <2>3. status' \in [Slaves -> Statuses]
    BY <1>0, <1>13 DEF PublishOnline, PublishesStatus, TypeOK
  <2> QED BY <1>0, <1>13, <2>1, <2>2, <2>3 DEF PublishOnline, Return, TypeOK,
          PopsWhatWasSent, PublishesStatus, BusLocations, mqVars
<1> QED BY <1>1, <1>2, <1>3, <1>4, <1>5, <1>6, <1>7, <1>8, <1>9, <1>10, <1>11, <1>12,
       <1>13 DEF BusStep, Receive

\* ... and so do the MQTT thread's and the clock's.
LEMMA OtherStepShape ==
  ASSUME IInv, MqttThread \/ Clock
  PROVE  (TypeOK /\ PopsWhatWasSent /\ PublishesStatus)'
<1> USE NAssumption, RetryAssumption, AddrAssumption, CmdsAssumption
<1>0. TypeOK /\ PopsWhatWasSent /\ PublishesStatus
  BY DEF IInv
<1>1. CASE PublishControl
  BY <1>0, <1>1 DEF PublishControl, TypeOK, PopsWhatWasSent, PublishesStatus, offline,
     Slaves, slaveVars, busVars
<1>2. ASSUME NEW s \in Slaves, push(s)
      PROVE  (TypeOK /\ PopsWhatWasSent /\ PublishesStatus)'
  <2>1. pushed + 1 \in Cmds /\ pushed' \in 0 .. MaxCmds
    BY <1>0, <1>2 DEF push, TypeOK, Cmds
  <2>2. m_msglist[s] \in Seq(Cmds)
    BY <1>0 DEF TypeOK
  <2>3. Append(m_msglist[s], pushed + 1) \in Seq(Cmds)
    BY <2>1, <2>2
  <2>4. m_msglist' \in [Slaves -> Seq(Cmds)]
    BY <1>0, <1>2, <2>3 DEF push, TypeOK
  <2>5. TypeOK'
    BY <1>0, <1>2, <2>1, <2>4 DEF push, TypeOK, slaveVars, busVars, mqVars
  <2>6. m_msglist[s] # << >> =>
          /\ Append(m_msglist[s], pushed + 1) # << >>
          /\ Head(Append(m_msglist[s], pushed + 1)) = Head(m_msglist[s])
    BY <2>1, <2>2
  <2>7. \A t \in Slaves : m_msglist[t] # << >> =>
          m_msglist'[t] # << >> /\ Head(m_msglist'[t]) = Head(m_msglist[t])
    BY <1>0, <1>2, <2>6 DEF push, TypeOK
  <2>8. PopsWhatWasSent'
    BY <1>0, <1>2, <2>7 DEF push, TypeOK, PopsWhatWasSent, offline, slaveVars, busVars
  <2> QED BY <1>0, <1>2, <2>5, <2>8 DEF push, PublishesStatus, busVars, mqVars
<1>3. ASSUME NEW s \in Slaves, NEW cmd \in Controls, Control(s, cmd)
      PROVE  (TypeOK /\ PopsWhatWasSent /\ PublishesStatus)'
  <2>1. m_enabled' \in [Slaves -> BOOLEAN] /\ suspect' \in SUBSET Slaves
    BY <1>0, <1>3 DEF Control, TypeOK
  <2>2. mq_val' \in Statuses
    BY <1>3 DEF Control, declare_online, Statuses
  <2>3. mq_slave' \in 0 .. N /\ mq_slave' # 0
    BY <1>3 DEF Control, Slaves
  <2> QED BY <1>0, <1>3, <2>1, <2>2, <2>3 DEF Control, TypeOK, PopsWhatWasSent, PublishesStatus,
          offline, busVars
<1>4. ASSUME NEW s \in Slaves, AssignDue(s) \/ PollDue(s)
      PROVE  (TypeOK /\ PopsWhatWasSent /\ PublishesStatus)'
  <2>1. UNCHANGED <<m_retry, m_txseq, m_rxseq, m_enabled, m_msglist, busVars,
                    mqVars, status, pushed, suspect>>
    BY <1>4 DEF AssignDue, PollDue
  <2>2. \/ /\ m_next_assign' = [m_next_assign EXCEPT ![s] = "due"]
           /\ m_next_poll' = m_next_poll
        \/ /\ m_next_poll' = [m_next_poll EXCEPT ![s] = "due"]
           /\ m_next_assign' = m_next_assign
    BY <1>4, Zenon DEF AssignDue, PollDue
  <2>3. /\ m_next_assign' \in [Slaves -> {"pending", "due"}]
        /\ m_next_poll' \in [Slaves -> {"unset", "pending", "due"}]
    BY <1>0, <2>2 DEF TypeOK
  <2> QED BY <1>0, <2>1, <2>3 DEF TypeOK, PopsWhatWasSent, PublishesStatus,
          offline, busVars, mqVars
<1> QED BY <1>1, <1>2, <1>3, <1>4 DEF MqttThread, Clock

-----------------------------------------------------------------------------
(* The deadline of a retry *)

\* No step of the bus thread leaves a slave in retry without a deadline.
LEMMA BusStepDeadline ==
  ASSUME IInv, NEW r, BusStep(r)
  PROVE  DeadlineSet'
<1> USE RetryAssumption
<1>0. TypeOK /\ DeadlineSet
  BY DEF IInv
<1>1. CASE nak
  <2> DEFINE s == m_poll_slave
  <2>1. s \in Slaves /\ m_retry[s] \in 0 .. RETRY_MAX + 1
    BY <1>0 DEF TypeOK
  <2>2. CASE offline(s)
    BY <1>0, <1>1, <2>2 DEF nak, DeadlineSet, offline
  <2>3. CASE ~offline(s) /\ m_retry[s] + 1 >= RETRY_MAX
    <3>0. ~(m_retry[s] + 1 < RETRY_MAX)
      BY <2>1, <2>3
    <3>1. m_retry' = [m_retry EXCEPT ![s] = m_retry[s] + 1]
      BY <1>1, <2>3 DEF nak
    <3>2. m_next_poll' = m_next_poll
      BY <1>1, <2>3, <3>0, Zenon DEF nak
    <3>3. m_retry'[s] >= RETRY_MAX
      BY <1>0, <2>1, <2>3, <3>1 DEF TypeOK
    <3> QED BY <1>0, <3>1, <3>2, <3>3 DEF DeadlineSet, offline, TypeOK
  <2>4. CASE ~offline(s) /\ ~(m_retry[s] + 1 >= RETRY_MAX)
    BY <1>0, <1>1, <2>1, <2>4 DEF nak, DeadlineSet, offline, TypeOK
  <2> QED BY <2>2, <2>3, <2>4
<1>2. CASE ack(r) \/ PublishOnline
  <2>1. m_next_poll' = m_next_poll
    BY <1>2 DEF ack, PublishOnline
  <2>2. \/ m_retry' = m_retry
        \/ m_retry' = [m_retry EXCEPT ![m_poll_slave] = 0]
    BY <1>2 DEF ack, PublishOnline
  <2>3. \A s \in Slaves : m_retry'[s] = m_retry[s] \/ m_retry'[s] = 0
    BY <1>0, <2>2 DEF TypeOK
  <2> QED BY <1>0, <2>1, <2>3 DEF DeadlineSet, offline
<1>3. ASSUME UNCHANGED <<m_retry, m_next_poll>>
      PROVE  DeadlineSet'
  BY <1>0, <1>3 DEF DeadlineSet, offline
<1> QED BY <1>1, <1>2, <1>3 DEF BusStep, Receive, Opened, Scan, NotPollable,
       CheckOffline, CheckOnline, Transmit, IoError, WrongAddress, Refused,
       PublishOffline, slaveVars

\* Neither does the MQTT thread, which sets no m_retry, or the clock.
LEMMA OtherStepDeadline ==
  ASSUME IInv, MqttThread \/ Clock
  PROVE  DeadlineSet'
<1>1. CASE MqttThread
  BY <1>1 DEF IInv, MqttThread, PublishControl, push, Control, DeadlineSet, offline,
     slaveVars
<1>2. CASE Clock
  <2>1. PICK s \in Slaves : AssignDue(s) \/ PollDue(s)
    BY <1>2 DEF Clock
  <2>2. m_retry' = m_retry /\ m_next_poll' \in {m_next_poll, [m_next_poll EXCEPT ![s] = "due"]}
    BY <2>1 DEF AssignDue, PollDue
  <2>3. m_next_poll \in [Slaves -> {"unset", "pending", "due"}]
    BY DEF IInv, TypeOK
  <2> QED BY <2>2, <2>3 DEF IInv, DeadlineSet, offline
<1> QED BY <1>1, <1>2

-----------------------------------------------------------------------------
(* The retained status *)

\* A step that changes neither a slave's state nor a publication changes
\* nothing for its status.
LEMMA StatusFrame ==
  ASSUME IInv, NEW t \in Slaves, t \notin suspect, mq_slave # t,
         UNCHANGED <<m_poll_slave, pc, bus_val, status>>,
         m_enabled'[t] = m_enabled[t], offline(t)' = offline(t)
  PROVE  IF Publishing(t)' THEN AboutToBeTrue(t)' ELSE status'[t] = TrueStatus(t)'
BY DEF IInv, StatusInv, Publishing, AboutToBeTrue, TrueStatus

\* The bus thread's steps: what it announces is the state it then leaves.
LEMMA BusStepStatus ==
  ASSUME IInv, NEW r, BusStep(r)
  PROVE  StatusInv'
<1> USE RetryAssumption
<1> DEFINE s == m_poll_slave
           Says(t) == IF Publishing(t) THEN AboutToBeTrue(t) ELSE status[t] = TrueStatus(t)
<1> SUFFICES ASSUME NEW t \in Slaves, t \notin suspect', mq_slave' # t
             PROVE  Says(t)'
  BY DEF StatusInv
<1>0. /\ TypeOK /\ s \in Slaves
      /\ m_enabled' = m_enabled /\ mq_slave' = mq_slave
      /\ mq_slave # t
  BY Zenon DEF IInv, TypeOK, BusStep, Receive, Opened, Scan, NotPollable, CheckOffline,
     CheckOnline, Transmit, IoError, nak, WrongAddress, Refused, ack, PublishOffline,
     PublishOnline, slaveVars, mqVars
<1>1. CASE nak
  <2>1. pc = "read" /\ status' = status /\ m_poll_slave' = s
    BY <1>1 DEF nak
  <2>2. CASE offline(s)
    <3>1. m_retry' = m_retry /\ suspect' = suspect /\ pc' = "scan"
      BY <1>1, <2>2 DEF nak, Return
    <3> QED BY <1>0, <2>1, <3>1 DEF IInv, StatusInv, Publishing, TrueStatus, offline
  <2>3. CASE ~offline(s) /\ m_retry[s] + 1 >= RETRY_MAX
    <3>1. m_retry[s] \in 0 .. RETRY_MAX + 1
      BY <1>0 DEF TypeOK
    <3>2. ~(m_retry[s] + 1 < RETRY_MAX)
      BY <2>3, <3>1
    <3>3. /\ m_retry' = [m_retry EXCEPT ![s] = m_retry[s] + 1]
          /\ bus_val' = declare_online(m_enabled[s], FALSE)
          /\ suspect' = suspect \ {s} /\ pc' = "nakpub"
      BY <1>1, <2>3, <3>2, Zenon DEF nak
    <3>4. offline(s)'
      BY <1>0, <2>1, <2>3, <3>1, <3>3 DEF offline, TypeOK
    <3>5. CASE t = s
      BY <1>0, <2>1, <3>3, <3>4, <3>5 DEF Publishing, AboutToBeTrue, TrueStatus,
         declare_online
    <3>6. CASE t # s
      BY <1>0, <2>1, <3>3, <3>6 DEF IInv, StatusInv, Publishing, TrueStatus, offline,
         TypeOK
    <3> QED BY <3>5, <3>6
  <2>4. CASE ~offline(s) /\ m_retry[s] + 1 < RETRY_MAX
    <3>1. m_retry[s] \in 0 .. RETRY_MAX + 1
      BY <1>0 DEF TypeOK
    <3>2. ~(m_retry[s] + 1 >= RETRY_MAX)
      BY <2>4, <3>1
    <3>3. /\ m_retry' = [m_retry EXCEPT ![s] = m_retry[s] + 1]
          /\ suspect' = suspect /\ pc' = "scan"
      BY <1>1, <2>4, <3>2, Zenon DEF nak, Return
    <3>4. offline(t)' = offline(t)
      BY <1>0, <2>4, <3>2, <3>3 DEF offline, TypeOK
    <3> QED BY <1>0, <2>1, <3>3, <3>4 DEF IInv, StatusInv, Publishing, TrueStatus
  <2> QED
    <3>1. m_retry[s] \in 0 .. RETRY_MAX + 1
      BY <1>0 DEF TypeOK
    <3>2. m_retry[s] + 1 >= RETRY_MAX \/ m_retry[s] + 1 < RETRY_MAX
      BY <3>1
    <3> QED BY <2>2, <2>3, <2>4, <3>2
<1>2. CASE ack(r)
  <2>1. pc = "read" /\ status' = status /\ m_poll_slave' = s
    BY <1>2 DEF ack
  <2>2. CASE offline(s)
    <3>1. /\ m_retry' = m_retry
          /\ bus_val' = declare_online(m_enabled[s], TRUE)
          /\ suspect' = suspect \ {s} /\ pc' = "ackpub"
      BY <1>2, <2>2 DEF ack
    <3>2. CASE t = s
      BY <1>0, <2>1, <3>1, <3>2 DEF Publishing, AboutToBeTrue
    <3>3. CASE t # s
      BY <1>0, <2>1, <3>1, <3>3 DEF IInv, StatusInv, Publishing, TrueStatus, offline
    <3> QED BY <3>2, <3>3
  <2>3. CASE ~offline(s)
    <3>1. /\ m_retry' = [m_retry EXCEPT ![s] = 0]
          /\ suspect' = suspect /\ pc' = "scan"
      BY <1>2, <2>3 DEF ack, Return
    <3>2. offline(t)' = offline(t)
      BY <1>0, <2>3, <3>1 DEF offline, TypeOK
    <3> QED BY <1>0, <2>1, <3>1, <3>2 DEF IInv, StatusInv, Publishing, TrueStatus
  <2> QED BY <2>2, <2>3
<1>3. CASE PublishOffline
  <2>1. /\ pc = "nakpub" /\ pc' = "scan" /\ m_retry' = m_retry /\ m_poll_slave' = s
        /\ suspect' = suspect /\ status' = [status EXCEPT ![s] = bus_val]
    BY <1>3 DEF PublishOffline, Return, slaveVars
  <2>2. CASE t = s
    BY <1>0, <2>1, <2>2 DEF IInv, StatusInv, Publishing, AboutToBeTrue, TrueStatus,
       offline, TypeOK
  <2>3. CASE t # s
    BY <1>0, <2>1, <2>3 DEF IInv, StatusInv, Publishing, TrueStatus, offline, TypeOK
  <2> QED BY <2>2, <2>3
<1>4. CASE PublishOnline
  <2>1. /\ pc = "ackpub" /\ pc' = "scan" /\ m_poll_slave' = s /\ suspect' = suspect
        /\ m_retry' = [m_retry EXCEPT ![s] = 0]
        /\ status' = [status EXCEPT ![s] = bus_val]
    BY <1>4 DEF PublishOnline, Return
  <2>2. CASE t = s
    <3>1. bus_val = declare_online(m_enabled[s], TRUE)
      BY <1>0, <2>1, <2>2 DEF IInv, StatusInv, Publishing, AboutToBeTrue
    <3>2. ~offline(s)'
      BY <1>0, <2>1 DEF offline, TypeOK
    <3> QED BY <1>0, <2>1, <2>2, <3>1, <3>2 DEF Publishing, TrueStatus, declare_online,
            TypeOK
  <2>3. CASE t # s
    BY <1>0, <2>1, <2>3 DEF IInv, StatusInv, Publishing, TrueStatus, offline, TypeOK
  <2> QED BY <2>2, <2>3
<1>5. ASSUME UNCHANGED <<m_retry, status, suspect>>,
             pc \notin {"nakpub", "ackpub"}, pc' \notin {"nakpub", "ackpub"}
      PROVE  Says(t)'
  BY <1>0, <1>5 DEF IInv, StatusInv, Publishing, TrueStatus, offline
<1> QED BY <1>1, <1>2, <1>3, <1>4, <1>5, Zenon DEF BusStep, Receive, Opened, Scan, NotPollable,
       CheckOffline, CheckOnline, Transmit, IoError, WrongAddress, Refused, Return,
       slaveVars

\* The MQTT thread's steps touch one slave, which they make suspect.
LEMMA OtherStepStatus ==
  ASSUME IInv, MqttThread \/ Clock
  PROVE  StatusInv'
<1> SUFFICES ASSUME NEW t \in Slaves, t \notin suspect', mq_slave' # t
             PROVE  IF Publishing(t)' THEN AboutToBeTrue(t)' ELSE status'[t] = TrueStatus(t)'
  BY DEF StatusInv, Publishing, AboutToBeTrue, TrueStatus
<1>0. TypeOK
  BY DEF IInv
<1>1. CASE PublishControl
  BY <1>0, <1>1 DEF IInv, PublishControl, StatusInv, Publishing, AboutToBeTrue, TrueStatus,
     offline, TypeOK, slaveVars, busVars
<1>2. CASE Clock \/ \E s \in Slaves : push(s)
  <2>1. UNCHANGED <<m_poll_slave, pc, bus_val, status, m_enabled, m_retry, suspect, mq_slave>>
    BY <1>2 DEF Clock, AssignDue, PollDue, push, slaveVars, busVars, mqVars
  <2> QED BY <2>1, StatusFrame DEF offline
<1>3. ASSUME NEW s \in Slaves, NEW cmd \in Controls, Control(s, cmd)
      PROVE  IF Publishing(t)' THEN AboutToBeTrue(t)' ELSE status'[t] = TrueStatus(t)'
  <2>1. /\ t # s /\ t \notin suspect /\ mq_slave # t
        /\ UNCHANGED <<m_poll_slave, pc, bus_val, status, m_retry>>
    BY <1>3 DEF Control, busVars, Slaves
  <2>2. m_enabled'[t] = m_enabled[t]
    BY <1>0, <1>3, <2>1 DEF Control, TypeOK
  <2> QED BY <2>1, <2>2, StatusFrame DEF offline
<1> QED BY <1>1, <1>2, <1>3 DEF MqttThread

-----------------------------------------------------------------------------
(* The theorems *)

\* The invariant holds when the threads start.
LEMMA InitInv == Init => IInv
<1> SUFFICES ASSUME Init PROVE IInv
  OBVIOUS
<1> USE NAssumption, RetryAssumption, CmdsAssumption DEF Init, BornFailed
<1>1. TypeOK
  <2>1. 1 \in Slaves /\ 0 \in 0 .. N
    BY DEF Slaves
  <2>2. m_msglist \in [Slaves -> Seq(Cmds)] /\ RETRY_MAX + 1 \in 0 .. RETRY_MAX + 1
    OBVIOUS
  <2>3. /\ m_retry \in [Slaves -> 0 .. RETRY_MAX + 1]
        /\ m_txseq \in [Slaves -> 0 .. 3] /\ m_rxseq \in [Slaves -> 0 .. 3]
        /\ m_enabled \in [Slaves -> BOOLEAN]
        /\ m_next_assign \in [Slaves -> {"pending", "due"}]
        /\ m_next_poll \in [Slaves -> {"unset", "pending", "due"}]
    BY <2>2
  <2>4. /\ tx \in Frames \cup {NoFrame} /\ sendmsg \in BOOLEAN
        /\ bus_val \in Statuses \cup {"none"} /\ mq_val \in Statuses \cup {"none"}
        /\ status \in [Slaves -> Statuses]
        /\ pc \in BusLocations
    BY DEF Statuses, BusLocations
  <2>5. pushed \in 0 .. MaxCmds /\ suspect \in SUBSET Slaves
    OBVIOUS
  <2> QED BY <2>1, <2>2, <2>3, <2>4, <2>5 DEF TypeOK
<1>2. PopsWhatWasSent /\ PublishesStatus /\ DeadlineSet
  BY DEF PopsWhatWasSent, PublishesStatus, DeadlineSet, offline
<1>3. StatusInv
  BY DEF StatusInv, Publishing, TrueStatus, offline
<1> QED BY <1>1, <1>2, <1>3 DEF IInv

\* IInv is inductive, whatever reply r the line delivers.
LEMMA StepInv ==
  ASSUME IInv, NEW r, r.seq \in 0 .. 3, BusStep(r) \/ MqttThread \/ Clock
  PROVE  IInv'
BY BusStepShape, BusStepDeadline, BusStepStatus, OtherStepShape, OtherStepDeadline,
   OtherStepStatus DEF IInv

\* Stuttering preserves it.
LEMMA StutterInv ==
  ASSUME IInv, UNCHANGED vars
  PROVE  IInv'
BY DEF IInv, TypeOK, PopsWhatWasSent, PublishesStatus, DeadlineSet, StatusInv, Publishing,
   AboutToBeTrue, TrueStatus, offline, vars, slaveVars, busVars, mqVars

\* IInv holds in every reachable state.
THEOREM Invariant == Spec => []IInv
<1>1. IInv /\ [Next]_vars => IInv'
  <2> SUFFICES ASSUME IInv, [Next]_vars PROVE IInv'
    OBVIOUS
  <2>1. CASE \E r \in Replies : Receive(r)
    <3>1. PICK r \in Replies : Receive(r)
      BY <2>1
    <3>2. r.seq \in 0 .. 3
      BY RepliesAssumption DEF Replies
    <3> QED BY <3>1, <3>2, StepInv DEF BusStep
  <2>2. CASE /\ Next
             /\ ~\E r \in Replies : Receive(r)
    <3> DEFINE r == [seq |-> 0]
    <3>1. r.seq \in 0 .. 3
      OBVIOUS
    <3>2. BusStep(r) \/ MqttThread \/ Clock
      BY <2>2 DEF Next, BusThread, BusStep
    <3> QED BY <3>1, <3>2, StepInv
  <2>3. CASE UNCHANGED vars
    BY <2>3, StutterInv
  <2> QED BY <2>1, <2>2, <2>3
<1> QED BY InitInv, <1>1, PTL DEF Spec

\* The fields of the slaves and the locals of both threads keep their types;
\* m_retry stays within OSDPSLAVE_RETRY_MAX + 1 and m_txseq within 0 .. 3.
THEOREM TypeCorrect == Spec => []TypeOK
BY Invariant, PTL DEF IInv

\* slave_poll never compares the clock with the uninitialised m_next_poll.
THEOREM DeadlineAlwaysSet == Spec => []DeadlineSet
BY Invariant, PTL DEF IInv

\* slave_poll pops the command it sent, and never from an empty queue, whatever
\* the MQTT thread does between the transmission and the pop.
THEOREM PopIsSafe == Spec => []PopsWhatWasSent
BY Invariant, PTL DEF IInv

\* The retained status of a slave whose last announcement was the bus thread's
\* own is the slave's state.
THEOREM StatusIsTruthful == Spec => []StatusTruthful
<1>1. IInv => StatusTruthful
  BY DEF IInv, StatusInv, StatusTruthful
<1> QED BY Invariant, <1>1, PTL
=============================================================================
