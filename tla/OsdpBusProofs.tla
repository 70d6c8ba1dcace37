---------------------------- MODULE OsdpBusProofs ----------------------------
(***************************************************************************)
(* Proofs about OsdpBus: master, line and PDs stay within their types, and *)
(* on a line without late replies a reply always answers the poll that     *)
(* slave_poll waits for, and the sequence numbers of the master and of     *)
(* every PD stay in step.  There OsdpBus implements CommandChannel:        *)
(* commands are executed in order, a command popped as acknowledged was    *)
(* executed, and no event is lost.                                         *)
(***************************************************************************)
EXTENDS OsdpBus, OsdpMasterProofs, SequenceTheorems

\* What readcook returns ends the poll.
LEMMA PollEnds ==
  ASSUME NEW r, nak \/ Receive(r)
  PROVE  pc = "read" /\ pc' # "read"
BY DEF nak, Receive, WrongAddress, Refused, ack, Return

\* A configured address is a PD's, below the broadcast address.
LEMMA AddrRange ==
  ASSUME NEW s \in Slaves
  PROVE  Addr[s] \in 0 .. 126
<1>1. Addr[s] \in 0 .. 255
  BY AddrAssumption DEF Slaves
<1>2. Addr[s] < 127
  BY BusAddrAssumption
<1> QED BY <1>1, <1>2

\* What is refused, for whatever reason, is answered with NAK or BUSY.
LEMMA RefusalsOnly ==
  ASSUME NEW s
  PROVE  RefusalCodes(s) \subseteq {"NAK", "BUSY"}
BY PdAssumption DEF RefusalCodes

-----------------------------------------------------------------------------
(* The master in the composed system *)

\* Each step of the master is one of OsdpMaster's, with the reply at the head of
\* the line; the others leave the master alone.
LEMMA MasterInv ==
  ASSUME IInv, pc = "read" /\ up # << >> => Head(up).seq \in 0 .. 3, BNext
  PROVE  IInv'
<1>1. ASSUME NEW r, r.seq \in 0 .. 3, BusStep(r)
      PROVE  IInv'
  BY <1>1, StepInv
<1>2. CASE MqttThread \/ Clock
  <2> DEFINE r == [seq |-> 0]
  <2>1. r.seq \in 0 .. 3
    OBVIOUS
  <2> QED BY <1>2, <2>1, StepInv
<1>3. CASE BReceive
  <2>1. up # << >> /\ Receive(Head(up))
    BY <1>3 DEF BReceive
  <2>2. Head(up).seq \in 0 .. 3
    BY <2>1, PollEnds
  <2> QED BY <1>1, <2>1, <2>2 DEF BusStep
<1>4. CASE BTransmit \/ BIoError \/ BTimeout \/ BCorrupt \/ BPublishOnline \/ BLocal
  <2> DEFINE r == [seq |-> 0]
  <2>1. r.seq \in 0 .. 3
    OBVIOUS
  <2>2. BusStep(r)
    BY <1>4 DEF BTransmit, BIoError, BTimeout, BCorrupt, BPublishOnline, BLocal, BusStep
  <2> QED BY <1>1, <2>1, <2>2
<1>5. CASE BOthers
  BY <1>2, <1>5 DEF BOthers
<1>6. CASE \/ LoseFrame \/ LoseReply
           \/ \E s \in Slaves : Pd(s) \/ PowerOff(s) \/ PowerOn(s)
  <2>1. UNCHANGED vars
    BY <1>6, Zenon DEF LoseFrame, LoseReply, Pd, Repeat, Process, Refuse, PowerOff, PowerOn
  <2> QED BY <2>1, StutterInv
<1> QED BY <1>3, <1>4, <1>5, <1>6 DEF BNext, BBusThread

\* The frame that slave_poll transmits.
LEMMA TransmittedFrame ==
  ASSUME TypeOK, Transmit
  PROVE  /\ tx' = [seq |-> m_txseq[m_poll_slave], msg |-> tx'.msg]
         /\ tx'.seq = m_txseq[m_poll_slave]
         /\ tx' \in Frames
         /\ sendmsg' => tx'.msg \in Cmds /\ tx'.msg = Head(m_msglist[m_poll_slave])
         /\ ~sendmsg' => tx'.msg = POLL
         /\ sendmsg' = Queued(m_poll_slave)
<1> DEFINE s == m_poll_slave
<1>1. m_msglist[s] \in Seq(Cmds) /\ m_txseq[s] \in 0 .. 3
  BY DEF TypeOK
<1>2. Queued(s) => Head(m_msglist[s]) \in Cmds
  BY <1>1 DEF Queued
<1>3. /\ sendmsg' = Queued(s)
      /\ tx' = [seq |-> m_txseq[s], msg |-> IF Queued(s) THEN Head(m_msglist[s]) ELSE POLL]
  BY DEF Transmit
<1>4. tx'.msg = IF Queued(s) THEN Head(m_msglist[s]) ELSE POLL
  BY <1>3
<1> QED BY <1>1, <1>2, <1>3, <1>4 DEF Frames

-----------------------------------------------------------------------------
(* The types, whether replies are late or not *)

LineTypes ==
  /\ down \in [to : 0 .. N, seq : SeqNos, msg : Cmds \cup {POLL}]
  /\ up \in Seq(LineReplies)

LogTypes ==
  /\ inbuf \in {0} \cup Events
  /\ acked \in SUBSET Cmds
  /\ swapped \in SUBSET Cmds
  /\ incoming \in [Slaves -> SUBSET Events]
  /\ last \in [Slaves -> Frames \cup {NoFrame}]

PdTypes ==
  /\ pd_up \in [Slaves -> BOOLEAN]
  /\ pd_last \in [Slaves -> SeqNos \cup {NoSeq}]
  /\ pd_reply \in [Slaves -> PdReplies]
  /\ pd_event \in [Slaves -> 0 .. MaxEvents]
  /\ pd_reboots \in [Slaves -> 0 .. MaxReboots]
  /\ exec \in [Slaves -> Seq(Cmds)]

EnvTypes == LineTypes /\ LogTypes /\ PdTypes

\* BTypeOK in parts.
LEMMA TypesOfParts ==
  BTypeOK <=> TypeOK /\ EnvTypes
BY DEF BTypeOK, EnvTypes, LineTypes, LogTypes, PdTypes

\* Dropping replies leaves replies.
LEMMA RepliesLeft ==
  ASSUME NEW S, NEW q \in Seq(S)
  PROVE  /\ q # << >> => Head(q) \in S /\ Tail(q) \in Seq(S)
         /\ \A i \in 0 .. Len(q) : SubSeq(q, i + 1, Len(q)) \in Seq(S)
OBVIOUS

\* The idle line.
LEMMA Silence ==
  NoDown \in [to : 0 .. N, seq : SeqNos, msg : Cmds \cup {POLL}] /\ << >> \in Seq(LineReplies)
BY NAssumption DEF NoDown, SeqNos, POLL

\* The replies that flush_input leaves.
LEMMA FlushTypes ==
  ASSUME LineTypes, flush_input
  PROVE  up' \in Seq(LineReplies)
<1>1. CASE Late
  <2>1. PICK i \in 0 .. Len(up) : up' = SubSeq(up, i + 1, Len(up))
    BY <1>1 DEF flush_input
  <2>2. up \in Seq(LineReplies)
    BY DEF LineTypes
  <2> QED BY <2>1, <2>2, RepliesLeft
<1>2. CASE ~Late
  BY <1>2, Silence DEF flush_input
<1> QED BY <1>1, <1>2

\* The master's steps.
LEMMA TypesOfMaster ==
  ASSUME IInv, EnvTypes, BBusThread
  PROVE  EnvTypes'
<1> DEFINE s == m_poll_slave
<1>0. /\ TypeOK /\ s \in Slaves /\ s \in 0 .. N /\ tx \in Frames \cup {NoFrame}
      /\ LineTypes /\ LogTypes /\ PdTypes
  BY NAssumption DEF IInv, TypeOK, EnvTypes, Slaves
<1>1. CASE BTransmit
  <2>1. tx' \in Frames /\ (sendmsg' => tx'.msg \in Cmds)
    BY <1>0, <1>1, TransmittedFrame DEF BTransmit
  <2>2. tx'.seq \in SeqNos /\ tx'.msg \in Cmds \cup {POLL}
    BY <2>1 DEF Frames, SeqNos
  <2>3. up' \in Seq(LineReplies)
    BY <1>0, <1>1, FlushTypes DEF BTransmit
  <2>4. LineTypes'
    BY <1>0, <1>1, <2>2, <2>3 DEF BTransmit, LineTypes
  <2>5. last' \in [Slaves -> Frames \cup {NoFrame}]
    BY <1>0, <1>1, <2>1 DEF BTransmit, LogTypes
  <2>6. swapped' \in SUBSET Cmds
    BY <1>0, <1>1, <2>1 DEF BTransmit, LogTypes
  <2> QED BY <1>0, <1>1, <2>4, <2>5, <2>6
          DEF BTransmit, EnvTypes, LogTypes, PdTypes, pdVars
<1>2. CASE BIoError
  BY <1>0, <1>2, FlushTypes, Silence
     DEF BIoError, EnvTypes, LineTypes, LogTypes, PdTypes, logVars, pdVars
<1>3. CASE BTimeout
  BY <1>0, <1>3 DEF BTimeout, EnvTypes, LineTypes, LogTypes, PdTypes, busEnv, lineVars,
     logVars, pdVars
<1>4. CASE BCorrupt
  BY <1>0, <1>4, RepliesLeft
     DEF BCorrupt, EnvTypes, LineTypes, LogTypes, PdTypes, logVars, pdVars
<1>5. CASE BReceive
  <2> DEFINE r == Head(up)
  <2>1. up # << >> /\ r \in LineReplies /\ up' \in Seq(LineReplies)
    BY <1>0, <1>5, RepliesLeft DEF BReceive, LineTypes
  <2>2. r.event \in {0} \cup Events
    BY <2>1 DEF LineReplies
  <2>3. pc = "read"
    BY <1>5, PollEnds DEF BReceive
  <2>4. sendmsg => tx.msg \in Cmds
    <3>1. sendmsg => m_msglist[s] # << >> /\ Head(m_msglist[s]) = tx.msg
      BY <2>3 DEF IInv, PopsWhatWasSent
    <3>2. m_msglist[s] \in Seq(Cmds)
      BY <1>0 DEF TypeOK
    <3> QED BY <3>1, <3>2, RepliesLeft
  <2>5. acked' \in SUBSET Cmds
    BY <1>0, <1>5, <2>4 DEF BReceive, LogTypes
  <2>6. inbuf' \in {0} \cup Events
    BY <1>5, <2>2 DEF BReceive
  <2>7. incoming' \in [Slaves -> SUBSET Events]
    <3>1. PICK e \in {0, r.event} : publish(s, e)
      BY <1>5 DEF BReceive
    <3> QED BY <1>0, <2>2, <3>1 DEF publish, LogTypes
  <2> QED BY <1>0, <1>5, <2>1, <2>5, <2>6, <2>7
          DEF BReceive, EnvTypes, LineTypes, LogTypes, PdTypes, pdVars
<1>6. CASE BPublishOnline
  <2>1. incoming' \in [Slaves -> SUBSET Events]
    BY <1>0, <1>6 DEF BPublishOnline, publish, LogTypes
  <2> QED BY <1>0, <1>6, <2>1
          DEF BPublishOnline, EnvTypes, LineTypes, LogTypes, PdTypes, lineVars, pdVars
<1>7. CASE BLocal
  BY <1>0, <1>7 DEF BLocal, EnvTypes, LineTypes, LogTypes, PdTypes, busEnv, lineVars,
     logVars, pdVars
<1> QED BY <1>1, <1>2, <1>3, <1>4, <1>5, <1>6, <1>7 DEF BBusThread

\* A reply of s, with what it remembers or makes up.
LEMMA ReplyTypes ==
  ASSUME LineTypes, NEW s \in Slaves, NEW q \in SeqNos, NEW rep \in PdReplies, Reply(s, q, rep)
  PROVE  LineTypes'
<1>1. Addr[s] + 128 \in 128 .. 255
  BY AddrRange
<1>2. [addr |-> Addr[s] + 128, seq |-> q, code |-> rep.code, event |-> rep.event]
        \in LineReplies
  BY <1>1 DEF LineReplies, PdReplies
<1>3. up' \in Seq(LineReplies)
  BY <1>2 DEF Reply, LineTypes
<1> QED BY <1>3, Silence DEF Reply, LineTypes

\* The others' steps.
LEMMA TypesOfOthers ==
  ASSUME IInv, EnvTypes,
         \/ BOthers \/ LoseFrame \/ LoseReply
         \/ \E s \in Slaves : Pd(s) \/ PowerOff(s) \/ PowerOn(s)
  PROVE  EnvTypes'
<1>0. LineTypes /\ LogTypes /\ PdTypes
  BY DEF EnvTypes
<1>1. CASE BOthers
  BY <1>0, <1>1 DEF BOthers, EnvTypes, LineTypes, LogTypes, PdTypes, busEnv, lineVars,
     logVars, pdVars
<1>2. CASE LoseFrame \/ LoseReply
  <2>1. up' \in Seq(LineReplies) /\ down' \in {down, NoDown}
    BY <1>0, <1>2, RepliesLeft DEF LoseFrame, LoseReply, LineTypes
  <2> QED BY <1>0, <1>2, <2>1, Silence
     DEF LoseFrame, LoseReply, EnvTypes, LineTypes, LogTypes, PdTypes, logVars, pdVars
<1>3. ASSUME NEW s \in Slaves, Pd(s)
      PROVE  EnvTypes'
  <2>1. LogTypes'
    BY <1>0, <1>3, Zenon DEF Pd, Repeat, Process, Refuse, LogTypes, logVars
  <2>2. down.seq \in SeqNos /\ down.msg \in Cmds \cup {POLL} /\ pd_reply[s] \in PdReplies
    BY <1>0 DEF LineTypes, PdTypes
  <2>3. CASE Repeat(s)
    <3>1. LineTypes'
      BY <1>0, <2>2, <2>3, ReplyTypes DEF Repeat
    <3>2. pd_last' \in [Slaves -> SeqNos \cup {NoSeq}]
      BY <1>0, <2>2, <2>3 DEF Repeat, PdTypes
    <3> QED BY <1>0, <2>1, <2>3, <3>1, <3>2 DEF Repeat, EnvTypes, PdTypes
  <2>4. CASE Process(s)
    <3>1. pd_last' \in [Slaves -> SeqNos \cup {NoSeq}]
      BY <1>0, <2>2, <2>4 DEF Process, PdTypes
    <3>2. exec' \in [Slaves -> Seq(Cmds)]
      <4>1. CASE down.msg = POLL
        BY <1>0, <2>4, <4>1 DEF Process, PdTypes
      <4>2. CASE down.msg # POLL
        <5>1. exec[s] \in Seq(Cmds) /\ down.msg \in Cmds
          BY <1>0, <2>2, <4>2 DEF PdTypes
        <5>2. exec' = [exec EXCEPT ![s] = Append(exec[s], down.msg)]
          BY <2>4, <4>2 DEF Process
        <5>3. Append(exec[s], down.msg) \in Seq(Cmds)
          BY <5>1
        <5> QED BY <1>0, <5>2, <5>3 DEF PdTypes
      <4> QED BY <4>1, <4>2
    <3>3. pd_event[s] \in 0 .. MaxEvents
      BY <1>0 DEF PdTypes
    <3>4. pd_event' \in [Slaves -> 0 .. MaxEvents]
      <4>1. \/ pd_event' = pd_event
            \/ /\ pd_event[s] < MaxEvents
               /\ pd_event' = [pd_event EXCEPT ![s] = pd_event[s] + 1]
        BY <2>4 DEF Process
      <4>2. pd_event[s] < MaxEvents => pd_event[s] + 1 \in 0 .. MaxEvents
        BY <3>3, BoundsAssumption
      <4> QED BY <1>0, <4>1, <4>2 DEF PdTypes
    <3>5. PICK rep \in PdReplies : pd_reply' = [pd_reply EXCEPT ![s] = rep]
      <4>1. [code |-> "ACK", event |-> 0] \in PdReplies
        BY DEF PdReplies, Codes
      <4>2. pd_event[s] < MaxEvents =>
              [code |-> "DATA", event |-> pd_event[s] + 1] \in PdReplies
        BY <3>3, BoundsAssumption DEF PdReplies, Codes, Events
      <4> QED BY <2>4, <4>1, <4>2 DEF Process
    <3>6. pd_reply' \in [Slaves -> PdReplies] /\ pd_reply'[s] = rep
      BY <1>0, <3>5 DEF PdTypes
    <3>7. LineTypes'
      BY <1>0, <2>2, <2>4, <3>6, ReplyTypes DEF Process
    <3> QED BY <1>0, <2>1, <2>4, <3>1, <3>2, <3>4, <3>6, <3>7
            DEF Process, EnvTypes, PdTypes
  <2>5. CASE Refuse(s)
    <3>1. PICK code \in RefusalCodes(s) : Reply(s, down.seq, [code |-> code, event |-> 0])
      BY <2>5 DEF Refuse
    <3>2. [code |-> code, event |-> 0] \in PdReplies
      BY RefusalsOnly DEF PdReplies, Codes
    <3>3. LineTypes'
      BY <1>0, <2>2, <3>1, <3>2, ReplyTypes
    <3> QED BY <1>0, <2>1, <2>5, <3>3 DEF Refuse, EnvTypes, PdTypes, pdVars
  <2> QED BY <1>3, <2>3, <2>4, <2>5 DEF Pd
<1>4. ASSUME NEW s \in Slaves, PowerOff(s) \/ PowerOn(s)
      PROVE  EnvTypes'
  <2>1. LineTypes' /\ LogTypes'
    BY <1>0, <1>4 DEF PowerOff, PowerOn, LineTypes, LogTypes, lineVars, logVars
  <2>2. pd_reboots[s] < MaxReboots => pd_reboots[s] + 1 \in 0 .. MaxReboots
    BY <1>0, BoundsAssumption DEF PdTypes
  <2>3. PdTypes'
    BY <1>0, <1>4, <2>2 DEF PowerOff, PowerOn, PdTypes
  <2> QED BY <2>1, <2>3 DEF EnvTypes
<1> QED BY <1>1, <1>2, <1>3, <1>4

\* The invariant of the master and the types, on any line.
LEMMA TypeInvariant ==
  BSpec => [](IInv /\ EnvTypes)
<1>1. BInit => IInv /\ EnvTypes
  <2> SUFFICES ASSUME BInit PROVE EnvTypes
    BY InitInv DEF BInit
  <2>1. LineTypes
    BY Silence DEF BInit, LineTypes
  <2>2. LogTypes
    BY DEF BInit, LogTypes
  <2>3. PdTypes
    <3>1. [code |-> "ACK", event |-> 0] \in PdReplies
      BY DEF PdReplies, Codes
    <3> QED BY <3>1, BoundsAssumption DEF BInit, PdTypes
  <2> QED BY <2>1, <2>2, <2>3 DEF EnvTypes
<1>2. IInv /\ EnvTypes /\ [BNext]_bvars => (IInv /\ EnvTypes)'
  <2> SUFFICES ASSUME IInv, EnvTypes, [BNext]_bvars PROVE (IInv /\ EnvTypes)'
    OBVIOUS
  <2>1. CASE BNext
    <3>1. up # << >> => Head(up) \in LineReplies
      BY RepliesLeft DEF EnvTypes, LineTypes
    <3>2. up # << >> => Head(up).seq \in 0 .. 3
      BY <3>1 DEF LineReplies, SeqNos
    <3> QED BY <2>1, <3>2, MasterInv, TypesOfMaster, TypesOfOthers DEF BNext
  <2>2. CASE UNCHANGED bvars
    <3>1. UNCHANGED vars /\ UNCHANGED busEnv
      BY <2>2 DEF bvars
    <3>2. EnvTypes'
      BY <3>1 DEF EnvTypes, LineTypes, LogTypes, PdTypes, busEnv, lineVars, logVars, pdVars
    <3> QED BY <3>1, <3>2, StutterInv
  <2> QED BY <2>1, <2>2
<1> QED BY <1>1, <1>2, PTL DEF BSpec

\* The variables of the line, the PDs and the histories keep their types, whether
\* replies are late or not: among other things no reply is ever taken for a command's
\* acknowledgement that was not sent.
THEOREM BusTypeCorrect ==
  BSpec => []BTypeOK
<1>1. IInv /\ EnvTypes => BTypeOK
  BY TypesOfParts DEF IInv
<1> QED BY TypeInvariant, <1>1, PTL

-----------------------------------------------------------------------------
(* The line *)

\* While slave_poll waits, at most one thing is on the line: its frame, or the
\* reply to it.  Otherwise the line is silent.
LineInv ==
  /\ pc # "read" => up = << >> /\ down = NoDown
  /\ pc = "read" => tx.seq = m_txseq[m_poll_slave]
  /\ down # NoDown => down.to = m_poll_slave /\ down.seq = tx.seq
  /\ up # << >> => /\ down = NoDown
                   /\ up = << up[1] >>
                   /\ up[1].addr = Addr[m_poll_slave] + 128
                   /\ up[1].seq = tx.seq

\* A reply that slave_poll will accept comes from a PD that has processed the
\* poll's sequence number (and may have lost power since).
SeqInv ==
  /\ pd_last \in [Slaves -> SeqNos \cup {NoSeq}]
  /\ SeqSync
  /\ up # << >> /\ up[1].code \notin {"NAK", "BUSY"} =>
       pd_last[m_poll_slave] \in {NoSeq, m_txseq[m_poll_slave]}

BInv == IInv /\ LineInv /\ SeqInv

\* The only reply on the line is taken off it by reading it.
LEMMA ReplyTaken ==
  ASSUME LineInv, up # << >>, up' = Tail(up)
  PROVE  up' = << >>
<1>1. up = << up[1] >>
  BY DEF LineInv
<1>2. \A x : Tail(<<x>>) = << >>
  OBVIOUS
<1> QED BY <1>1, <1>2

\* The master's steps put a frame on a silent line and leave it silent.
LEMMA LineOfMaster ==
  ASSUME BInv, ~Late, BBusThread
  PROVE  LineInv'
<1> USE DEF LineInv
<1>0. LineInv
  BY DEF BInv
<1>1. CASE BTransmit
  BY <1>0, <1>1 DEF BTransmit, Transmit, flush_input, slaveVars
<1>2. CASE BIoError
  BY <1>0, <1>2 DEF BIoError, IoError, flush_input
<1>3. CASE BTimeout \/ BCorrupt
  <2>1. pc' # "read"
    BY <1>3, PollEnds DEF BTimeout, BCorrupt
  <2>2. up' = << >> /\ down' = NoDown
    BY <1>0, <1>3, ReplyTaken DEF BTimeout, BCorrupt, busEnv, lineVars
  <2> QED BY <2>1, <2>2
<1>4. CASE BReceive
  <2>1. pc' # "read"
    BY <1>4, PollEnds DEF BReceive
  <2>2. up' = << >> /\ down' = NoDown
    BY <1>0, <1>4, ReplyTaken DEF BReceive
  <2> QED BY <2>1, <2>2
<1>5. CASE BPublishOnline
  BY <1>0, <1>5 DEF BPublishOnline, PublishOnline, Return, lineVars
<1>6. CASE BLocal
  <2>1. pc # "read" /\ pc' # "read" /\ UNCHANGED <<up, down>>
    BY <1>6 DEF BLocal, Opened, Scan, NotPollable, CheckOffline, CheckOnline,
       PublishOffline, Return, busEnv, lineVars
  <2> QED BY <1>0, <2>1
<1> QED BY <1>1, <1>2, <1>3, <1>4, <1>5, <1>6 DEF BBusThread

\* The MQTT thread, the clock, the line and the PDs: a PD replies once, to the
\* frame on the line, with the sequence number it was given.
LEMMA LineOfOthers ==
  ASSUME BInv, ~Late,
         \/ BOthers \/ LoseFrame \/ LoseReply
         \/ \E s \in Slaves : Pd(s) \/ PowerOff(s) \/ PowerOn(s)
  PROVE  LineInv'
<1>0. LineInv /\ 0 \notin Slaves
  BY DEF BInv, Slaves
<1>1. CASE BOthers
  <2>1. UNCHANGED <<pc, tx, m_txseq, m_poll_slave, up, down>>
    BY <1>1 DEF BOthers, MqttThread, PublishControl, push, Control, Clock, AssignDue,
       PollDue, slaveVars, busVars, busEnv, lineVars
  <2> QED BY <1>0, <2>1 DEF LineInv
<1>2. CASE LoseFrame
  BY <1>0, <1>2 DEF LineInv, LoseFrame, vars, slaveVars, busVars
<1>3. CASE LoseReply
  <2>1. up' = << >>
    BY <1>0, <1>3, ReplyTaken DEF LoseReply
  <2> QED BY <1>0, <1>3, <2>1 DEF LineInv, LoseReply, vars, slaveVars, busVars
<1>4. ASSUME NEW s \in Slaves, Pd(s)
      PROVE  LineInv'
  <2>1. UNCHANGED vars /\ Hears(s)
    BY <1>4, Zenon DEF Pd, Repeat, Process, Refuse
  <2>2. s = m_poll_slave /\ down # NoDown /\ up = << >> /\ pc = "read"
    BY <1>0, <2>1 DEF LineInv, Hears, NoDown
  <2>3. PICK rep : Reply(s, down.seq, rep)
    BY <1>4, Zenon DEF Pd, Repeat, Process, Refuse
  <2>4. up' = << [addr |-> Addr[s] + 128, seq |-> down.seq,
                  code |-> rep.code, event |-> rep.event] >>
    BY <2>2, <2>3 DEF Reply
  <2>5. down' = NoDown
    BY <2>3 DEF Reply
  <2> QED BY <1>0, <2>1, <2>2, <2>4, <2>5 DEF LineInv, vars, slaveVars, busVars
<1>5. ASSUME NEW s \in Slaves, PowerOff(s) \/ PowerOn(s)
      PROVE  LineInv'
  BY <1>0, <1>5 DEF LineInv, PowerOff, PowerOn, vars, slaveVars, busVars, lineVars
<1> QED BY <1>1, <1>2, <1>3, <1>4, <1>5

-----------------------------------------------------------------------------
(* The sequence numbers *)

\* A step that leaves them alone, on a line that becomes silent or stays as it is.
LEMMA SeqFrame ==
  ASSUME SeqInv, UNCHANGED <<m_txseq, pd_last>>,
         up' = << >> \/ UNCHANGED <<up, m_poll_slave>>
  PROVE  SeqInv'
BY DEF SeqInv, SeqSync

\* The master advances its number only when the PD has processed it.
LEMMA SeqOfMaster ==
  ASSUME BInv, ~Late, BBusThread
  PROVE  SeqInv'
<1> DEFINE s == m_poll_slave
<1>0. /\ LineInv /\ SeqInv /\ s \in Slaves
      /\ m_txseq \in [Slaves -> 0 .. 3]
  BY DEF BInv, IInv, TypeOK
<1>1. CASE BTransmit \/ BIoError
  <2>1. up' = << >> /\ UNCHANGED <<m_txseq, pd_last>>
    BY <1>1 DEF BTransmit, BIoError, Transmit, IoError, flush_input, slaveVars, pdVars
  <2> QED BY <1>0, <2>1, SeqFrame
<1>2. CASE BTimeout \/ BCorrupt
  <2>1. UNCHANGED <<m_txseq, pd_last>>
    BY <1>2 DEF BTimeout, BCorrupt, nak, busEnv, pdVars
  <2>2. up' = << >>
    BY <1>0, <1>2, ReplyTaken DEF BTimeout, BCorrupt, busEnv, lineVars
  <2> QED BY <1>0, <2>1, <2>2, SeqFrame
<1>3. CASE BReceive
  <2> DEFINE r == Head(up)
  <2>1. up' = << >> /\ up # << >> /\ pd_last' = pd_last
    BY <1>0, <1>3, ReplyTaken DEF BReceive, pdVars
  <2>2. r = up[1]
    BY <1>0, <2>1 DEF LineInv
  <2>3. CASE WrongAddress(r)
    BY <1>0, <2>1, <2>3, SeqFrame DEF WrongAddress, slaveVars
  <2>4. CASE Refused(r)
    <3>1. m_txseq' = m_txseq \/ m_txseq' = [m_txseq EXCEPT ![s] = 0]
      BY <2>4 DEF Refused
    <3>2. \A t \in Slaves : m_txseq'[t] = m_txseq[t] \/ m_txseq'[t] = 0
      BY <1>0, <3>1
    <3> QED BY <1>0, <2>1, <3>2 DEF SeqInv, SeqSync
  <2>5. CASE ack(r)
    <3>1. m_txseq' = [m_txseq EXCEPT ![s] = next_seq(m_txseq[s])]
      BY <2>5 DEF ack, Advance
    <3>2. pd_last[s] \in {NoSeq, m_txseq[s]}
      BY <1>0, <2>1, <2>2, <2>5 DEF SeqInv, ack
    <3>3. \A t \in Slaves : t # s => m_txseq'[t] = m_txseq[t]
      BY <1>0, <3>1
    <3>4. m_txseq'[s] = next_seq(m_txseq[s])
      BY <1>0, <3>1
    <3>5. SeqSync'
      BY <1>0, <2>1, <3>2, <3>3, <3>4 DEF SeqInv, SeqSync
    <3> QED BY <1>0, <2>1, <3>5 DEF SeqInv
  <2> QED BY <1>3, <2>3, <2>4, <2>5 DEF BReceive, Receive
<1>4. CASE BPublishOnline \/ BLocal
  <2>1. UNCHANGED <<m_txseq, pd_last>>
    BY <1>4 DEF BPublishOnline, PublishOnline, BLocal, Opened, Scan, NotPollable,
       CheckOffline, CheckOnline, PublishOffline, slaveVars, busEnv, pdVars
  <2>2. up = << >> /\ up' = up
    BY <1>0, <1>4 DEF LineInv, BPublishOnline, PublishOnline, BLocal, Opened, Scan,
       NotPollable, CheckOffline, CheckOnline, PublishOffline, busEnv, lineVars
  <2> QED BY <1>0, <2>1, <2>2, SeqFrame
<1> QED BY <1>1, <1>2, <1>3, <1>4 DEF BBusThread

\* A PD that hears a frame takes over the master's number; one that loses power
\* has none.
LEMMA SeqOfOthers ==
  ASSUME BInv, ~Late,
         \/ BOthers \/ LoseFrame \/ LoseReply
         \/ \E s \in Slaves : Pd(s) \/ PowerOff(s) \/ PowerOn(s)
  PROVE  SeqInv'
<1>0. /\ LineInv /\ SeqInv /\ 0 \notin Slaves /\ m_poll_slave \in Slaves
      /\ m_txseq \in [Slaves -> 0 .. 3]
      /\ pd_last \in [Slaves -> SeqNos \cup {NoSeq}]
  BY DEF BInv, IInv, TypeOK, SeqInv, Slaves
<1>1. CASE BOthers
  <2>1. UNCHANGED <<m_txseq, pd_last, up, m_poll_slave>>
    BY <1>1 DEF BOthers, MqttThread, PublishControl, push, Control, Clock, AssignDue,
       PollDue, slaveVars, busVars, busEnv, lineVars, pdVars
  <2> QED BY <1>0, <2>1, SeqFrame
<1>2. CASE LoseFrame
  BY <1>0, <1>2, SeqFrame DEF LoseFrame, vars, slaveVars, busVars, pdVars
<1>3. CASE LoseReply
  <2>1. up' = << >>
    BY <1>0, <1>3, ReplyTaken DEF LoseReply
  <2> QED BY <1>0, <1>3, <2>1, SeqFrame DEF LoseReply, vars, slaveVars, pdVars
<1>4. ASSUME NEW s \in Slaves, Pd(s)
      PROVE  SeqInv'
  <2>1. UNCHANGED vars /\ Hears(s)
    BY <1>4, Zenon DEF Pd, Repeat, Process, Refuse
  <2>2. /\ s = m_poll_slave /\ pc = "read" /\ up = << >>
        /\ down.seq = m_txseq[s] /\ m_txseq[s] \in SeqNos
    BY <1>0, <2>1 DEF LineInv, Hears, NoDown, SeqNos
  <2>3. UNCHANGED <<m_txseq, m_poll_slave>>
    BY <2>1 DEF vars, slaveVars, busVars
  <2>4. CASE Repeat(s) \/ Process(s)
    <3>1. pd_last' = [pd_last EXCEPT ![s] = m_txseq[s]]
      BY <2>2, <2>4 DEF Repeat, Process
    <3> QED BY <1>0, <2>2, <2>3, <3>1 DEF SeqInv, SeqSync
  <2>5. CASE Refuse(s)
    <3>1. PICK code \in RefusalCodes(s) : Reply(s, down.seq, [code |-> code, event |-> 0])
      BY <2>5 DEF Refuse
    <3>2. up' = << [addr |-> Addr[s] + 128, seq |-> down.seq, code |-> code, event |-> 0] >>
      BY <2>2, <3>1 DEF Reply
    <3>3. up'[1].code \in {"NAK", "BUSY"}
      BY <3>2, RefusalsOnly
    <3>4. pd_last' = pd_last
      BY <2>5 DEF Refuse, pdVars
    <3> QED BY <1>0, <2>3, <3>3, <3>4 DEF SeqInv, SeqSync
  <2> QED BY <1>4, <2>4, <2>5 DEF Pd
<1>5. ASSUME NEW s \in Slaves, PowerOff(s) \/ PowerOn(s)
      PROVE  SeqInv'
  <2>1. UNCHANGED <<m_txseq, m_poll_slave, up>>
    BY <1>5 DEF PowerOff, PowerOn, vars, slaveVars, busVars, lineVars
  <2>2. pd_last' = pd_last \/ pd_last' = [pd_last EXCEPT ![s] = NoSeq]
    BY <1>5 DEF PowerOff, PowerOn
  <2>3. /\ pd_last' \in [Slaves -> SeqNos \cup {NoSeq}]
        /\ \A t \in Slaves : pd_last'[t] \in {pd_last[t], NoSeq}
    BY <1>0, <2>2
  <2> QED BY <1>0, <2>1, <2>3 DEF SeqInv, SeqSync
<1> QED BY <1>1, <1>2, <1>3, <1>4, <1>5

-----------------------------------------------------------------------------
(* The theorems *)

\* BInv holds in every reachable state of the composed system.
THEOREM BusInvariant ==
  ASSUME ~Late
  PROVE  BSpec => []BInv
<1>1. BInit => BInv
  <2> SUFFICES ASSUME BInit PROVE BInv
    OBVIOUS
  <2>1. IInv
    BY InitInv DEF BInit
  <2>2. LineInv
    BY DEF BInit, Init, LineInv
  <2>3. SeqInv
    <3>1. /\ pd_last \in [Slaves -> SeqNos \cup {NoSeq}] /\ up = << >>
          /\ m_txseq = [t \in Slaves |-> 0]
      BY Zenon DEF BInit, Init
    <3> QED BY <3>1 DEF SeqInv, SeqSync
  <2> QED BY <2>1, <2>2, <2>3 DEF BInv
<1>2. BInv /\ [BNext]_bvars => BInv'
  <2> SUFFICES ASSUME BInv, [BNext]_bvars PROVE BInv'
    OBVIOUS
  <2>1. CASE BNext
    <3>1. pc = "read" /\ up # << >> => Head(up).seq \in 0 .. 3
      BY DEF BInv, LineInv, IInv, TypeOK
    <3> QED BY <2>1, <3>1, MasterInv, LineOfMaster, LineOfOthers, SeqOfMaster, SeqOfOthers
            DEF BNext, BInv
  <2>2. CASE UNCHANGED bvars
    <3>1. UNCHANGED vars /\ UNCHANGED <<up, down, pd_last>>
      BY <2>2 DEF bvars, busEnv, lineVars, pdVars
    <3>2. UNCHANGED <<pc, tx, m_txseq, m_poll_slave>>
      BY <3>1 DEF vars, slaveVars, busVars
    <3>3. IInv'
      BY <3>1, StutterInv DEF BInv
    <3>4. LineInv' /\ SeqInv'
      BY <3>1, <3>2, SeqFrame DEF BInv, LineInv
    <3> QED BY <3>3, <3>4 DEF BInv
  <2> QED BY <2>1, <2>2
<1> QED BY <1>1, <1>2, PTL DEF BSpec

\* slave_poll may ignore the sequence numbers of replies: on a line whose replies
\* come in time, every reply it reads carries the number of its poll and the
\* address of the slave polled, whatever is lost, damaged, refused or repeated.
THEOREM RepliesAnswerPolls ==
  ASSUME ~Late
  PROVE  BSpec => []ReplyAnswersPoll
<1>1. BInv => ReplyAnswersPoll
  <2> SUFFICES ASSUME BInv, pc = "read", up # << >>
               PROVE  FromPolled(Head(up)) /\ Head(up).seq = tx.seq
    BY DEF ReplyAnswersPoll
  <2>1. /\ Head(up) = up[1] /\ up[1].seq = tx.seq
        /\ up[1].addr = Addr[m_poll_slave] + 128
    BY DEF BInv, LineInv
  <2>2. Addr[m_poll_slave] \in 0 .. 126
    BY AddrRange DEF BInv, IInv, TypeOK
  <2>3. \A x \in 0 .. 126 : (x + 128) % 128 = x
    BY SMT
  <2>4. (Addr[m_poll_slave] + 128) % 128 = Addr[m_poll_slave]
    BY <2>2, <2>3
  <2>5. Head(up).addr = Addr[m_poll_slave] + 128
    BY <2>1
  <2>6. FromPolled(Head(up))
    BY <2>4, <2>5, Zenon DEF FromPolled
  <2> QED BY <2>1, <2>6
<1> QED BY BusInvariant, <1>1, PTL

\* Master and PD are never more than one sequence number apart.
THEOREM SequenceInSync ==
  ASSUME ~Late
  PROVE  BSpec => []SeqSync
<1>1. BInv => SeqSync
  BY DEF BInv, SeqInv
<1> QED BY BusInvariant, <1>1, PTL

-----------------------------------------------------------------------------
(* What becomes of commands and events *)

Refusing(r) == r.code \in {"NAK", "BUSY"}

\* What is on the line belongs to the frame transmitted last.  A reply that is no
\* refusal carries the PD's last one; a refusal comes from a PD that has not
\* processed the poll's number.
FrameInv ==
  /\ pc = "read" => last[m_poll_slave] = tx /\ (sendmsg <=> tx.msg # POLL)
  /\ down # NoDown => down.msg = tx.msg
  /\ up # << >> =>
       IF Refusing(up[1]) THEN pd_last[m_poll_slave] # tx.seq
                          ELSE up[1].event = pd_reply[m_poll_slave].event
  /\ \A s \in Slaves : ~Refusing(pd_reply[s])

\* Of n commands, those in the queue q and those in e, executed before, are in order;
\* only the last one executed may still be the head of the queue.
Ordered(q, e, n) ==
  /\ \A i \in 1 .. Len(q) : q[i] <= n
  /\ \A i \in 1 .. Len(e) : e[i] <= n
  /\ \A i, j \in 1 .. Len(q) : i < j => q[i] < q[j]
  /\ \A i, j \in 1 .. Len(e) : i < j => e[i] <= e[j]
  /\ \A i \in 1 .. Len(e), j \in 1 .. Len(q) : e[i] <= q[j]

OrderInv == \A s \in Slaves : Ordered(m_msglist[s], exec[s], pushed)

LastIsHead(q, e) == q # << >> /\ e # << >> /\ e[Len(e)] = Head(q)

\* The head of the queue has been executed and is not acknowledged yet.
HeadExecuted(s) == LastIsHead(m_msglist[s], exec[s])

\* A PD that has executed the head of the queue knows the number it came with, or has
\* lost its memory.  A frame without a command is sent only when it has not.
HeadInv ==
  /\ \A s \in Slaves :
       /\ HeadExecuted(s) => pd_last[s] \in {NoSeq, m_txseq[s]}
       /\ pd_reboots[s] = 0 /\ exec[s] # << >> => pd_last[s] # NoSeq
  /\ pc = "send" /\ offline(m_poll_slave) => ~HeadExecuted(m_poll_slave)
  /\ pc = "read" /\ ~sendmsg => ~HeadExecuted(m_poll_slave)

CmdInv == FrameInv /\ OrderInv /\ HeadInv /\ InOrderOnce

Executed(s, m) == \E i \in 1 .. Len(exec[s]) : exec[s][i] = m

\* If a PD knows the master's number, it is that of the frame transmitted last, and the
\* PD executed the frame's command unless that took the place of another frame.
KnownFrames ==
  \A s \in Slaves : m_txseq[s] # 0 /\ pd_last[s] = m_txseq[s] =>
    /\ last[s].seq = m_txseq[s]
    /\ last[s].msg \in Cmds \ swapped => Executed(s, last[s].msg)

\* With zero a PD may take any frame for a repetition.
ZeroSwaps == pc = "read" /\ sendmsg /\ tx.seq = 0 => tx.msg \in swapped

\* A reply that is no refusal means that the command was executed.
RepliesMean ==
  up # << >> /\ ~Refusing(up[1]) /\ sendmsg /\ tx.msg \notin swapped =>
    Executed(m_poll_slave, tx.msg)

AckInv == AckedExecuted /\ KnownFrames /\ ZeroSwaps /\ RepliesMean

\* The event that a PD keeps as its last reply has been published once the master has
\* advanced its number.
Kept(s) ==
  \/ pd_reboots[s] > 0
  \/ pd_reply[s].event \in incoming[s] \cup {0}
  \/ pd_last[s] = m_txseq[s]
  \/ pc = "ackpub" /\ m_poll_slave = s /\ inbuf = pd_reply[s].event

EventInv == NoEventLost /\ \A s \in Slaves : Kept(s)

\* What BusInvariant and TypeInvariant provide.
Base == BInv /\ EnvTypes

-----------------------------------------------------------------------------
(* Queues and histories in order *)

\* The elements of a sequence of numbers.
LEMMA Numbers ==
  ASSUME NEW S, S \subseteq Nat, NEW q \in Seq(S)
  PROVE  Len(q) \in Nat /\ \A i \in 1 .. Len(q) : q[i] \in Nat
<1>1. ASSUME NEW i \in 1 .. Len(q)
      PROVE  q[i] \in Nat
  <2>1. q[i] \in S
    BY ElementOfSeq
  <2> QED BY <2>1
<1>2. Len(q) \in Nat
  OBVIOUS
<1> QED BY <1>1, <1>2

\* What Append adds to a sequence.
LEMMA Appended ==
  ASSUME NEW S, NEW q \in Seq(S), NEW e \in S
  PROVE  /\ Append(q, e) \in Seq(S) /\ Append(q, e) # << >>
         /\ Len(q) \in Nat /\ Len(Append(q, e)) = Len(q) + 1
         /\ \A i \in 1 .. Len(q) : Append(q, e)[i] = q[i]
         /\ Append(q, e)[Len(q) + 1] = e
OBVIOUS

\* What Tail takes from it.
LEMMA Shortened ==
  ASSUME NEW S, NEW q \in Seq(S), q # << >>
  PROVE  /\ Tail(q) \in Seq(S)
         /\ Len(q) \in Nat /\ Len(q) >= 1
         /\ Len(Tail(q)) = Len(q) - 1
         /\ \A i \in 1 .. Len(q) - 1 : Tail(q)[i] = q[i + 1]
         /\ Head(q) = q[1] /\ Head(q) \in S
OBVIOUS

\* A command that arrives is greater than all before it.
LEMMA OrderedPush ==
  ASSUME NEW S, S \subseteq Nat, NEW q \in Seq(S), NEW e \in Seq(S), NEW n \in Nat,
         n + 1 \in S, Ordered(q, e, n)
  PROVE  /\ Ordered(q, e, n + 1)
         /\ Ordered(Append(q, n + 1), e, n + 1)
         /\ LastIsHead(Append(q, n + 1), e) <=> LastIsHead(q, e)
<1> DEFINE p == Append(q, n + 1)
<1>0. Len(q) \in Nat /\ \A i \in 1 .. Len(q) : q[i] \in Nat
  BY Numbers
<1>1. /\ Len(p) = Len(q) + 1 /\ p # << >>
      /\ \A i \in 1 .. Len(q) : p[i] = q[i]
      /\ p[Len(q) + 1] = n + 1 /\ p \in Seq(S)
  BY Appended
<1>2. Len(e) \in Nat /\ \A i \in 1 .. Len(e) : e[i] \in Nat
  BY Numbers
<1>3. Ordered(q, e, n + 1)
  BY <1>0, <1>1, <1>2 DEF Ordered
<1>4. Ordered(p, e, n + 1)
  <2>1. \A i \in 1 .. Len(p) : p[i] <= n + 1
    BY <1>0, <1>1 DEF Ordered
  <2>2. \A i, j \in 1 .. Len(p) : i < j => p[i] < p[j]
    BY <1>0, <1>1 DEF Ordered
  <2>3. \A i \in 1 .. Len(e), j \in 1 .. Len(p) : e[i] <= p[j]
    BY <1>0, <1>1, <1>2 DEF Ordered
  <2> QED BY <1>3, <2>1, <2>2, <2>3 DEF Ordered
<1>5. LastIsHead(p, e) <=> LastIsHead(q, e)
  <2>1. CASE q = << >>
    <3>1. Head(p) = n + 1
      BY <1>0, <1>1, <2>1
    <3>2. e # << >> => e[Len(e)] <= n /\ e[Len(e)] \in Nat
      BY <1>2 DEF Ordered
    <3> QED BY <2>1, <3>1, <3>2 DEF LastIsHead
  <2>2. CASE q # << >>
    <3>1. Head(p) = Head(q)
      BY <1>0, <1>1, <2>2
    <3> QED BY <1>0, <1>1, <2>2, <3>1 DEF LastIsHead
  <2> QED BY <2>1, <2>2
<1> QED BY <1>3, <1>4, <1>5

\* Popping the head leaves commands of which none has been executed.
LEMMA OrderedPop ==
  ASSUME NEW S, S \subseteq Nat, NEW q \in Seq(S), NEW e \in Seq(S), NEW n \in Nat, q # << >>,
         Ordered(q, e, n)
  PROVE  Ordered(Tail(q), e, n) /\ ~LastIsHead(Tail(q), e)
<1>1. /\ Len(q) \in Nat /\ Len(q) >= 1 /\ Tail(q) \in Seq(S)
      /\ Len(Tail(q)) = Len(q) - 1
      /\ \A i \in 1 .. Len(Tail(q)) :
           Tail(q)[i] = q[i + 1] /\ i + 1 \in 1 .. Len(q) /\ 1 < i + 1
      /\ 1 \in 1 .. Len(q)
  BY Shortened
<1>2. Len(e) \in Nat /\ \A i \in 1 .. Len(e) : e[i] \in Nat
  BY Numbers
<1>3. \A i \in 1 .. Len(q) : q[i] \in Nat
  BY Numbers
<1>4. Ordered(Tail(q), e, n)
  <2>1. \A i, j \in 1 .. Len(Tail(q)) : i < j => Tail(q)[i] < Tail(q)[j]
    <3>1. ASSUME NEW i \in 1 .. Len(Tail(q)), NEW j \in 1 .. Len(Tail(q)), i < j
          PROVE  Tail(q)[i] < Tail(q)[j]
      <4>1. i + 1 < j + 1
        BY <1>1, <3>1
      <4> QED BY <1>1, <4>1 DEF Ordered
    <3> QED BY <3>1
  <2> QED BY <1>1, <2>1 DEF Ordered
<1>5. ASSUME LastIsHead(Tail(q), e)
      PROVE  FALSE
  <2>1. Tail(q) # << >> /\ e # << >> /\ e[Len(e)] = Head(Tail(q))
    BY <1>5 DEF LastIsHead
  <2>2. 1 \in 1 .. Len(Tail(q)) /\ Head(Tail(q)) = q[2] /\ 2 \in 1 .. Len(q)
    BY <1>1, <2>1, Shortened
  <2>3. Len(e) \in 1 .. Len(e)
    BY <1>2, <2>1
  <2>4. e[Len(e)] <= q[1] /\ q[1] < q[2]
    BY <1>1, <2>2, <2>3 DEF Ordered
  <2> QED BY <1>1, <1>2, <1>3, <2>1, <2>2, <2>3, <2>4
<1> QED BY <1>4, <1>5

\* Executing the head keeps the order; what was executed before is not greater, and
\* smaller if the head had not been executed.
LEMMA OrderedExecute ==
  ASSUME NEW S, S \subseteq Nat, NEW q \in Seq(S), NEW e \in Seq(S), NEW n \in Nat, q # << >>,
         Ordered(q, e, n)
  PROVE  /\ Ordered(q, Append(e, Head(q)), n)
         /\ LastIsHead(q, Append(e, Head(q)))
         /\ ~LastIsHead(q, e) => \A i \in 1 .. Len(e) : e[i] < Head(q)
<1> DEFINE f == Append(e, Head(q))
<1>0. Len(q) \in Nat /\ \A i \in 1 .. Len(q) : q[i] \in Nat
  BY Numbers
<1>1. 1 \in 1 .. Len(q) /\ Head(q) = q[1] /\ Head(q) \in S
  BY Shortened
<1>2. Len(e) \in Nat /\ \A i \in 1 .. Len(e) : e[i] \in Nat
  BY Numbers
<1>3. /\ Len(f) = Len(e) + 1 /\ f # << >> /\ f[Len(e) + 1] = q[1]
      /\ \A i \in 1 .. Len(e) : f[i] = e[i]
  BY <1>0, <1>1, Appended
<1> HIDE DEF f
<1>4. Ordered(q, f, n)
  <2>1. \A i \in 1 .. Len(f) : f[i] <= n
    <3>1. q[1] <= n /\ \A i \in 1 .. Len(e) : f[i] <= n
      BY <1>0, <1>1, <1>3 DEF Ordered
    <3>2. \A i \in 1 .. Len(f) : i \in 1 .. Len(e) \/ i = Len(e) + 1
      BY <1>2, <1>3
    <3> QED BY <1>0, <1>1, <1>3, <3>1, <3>2
  <2>2. \A i, j \in 1 .. Len(f) : i < j => f[i] <= f[j]
    BY <1>0, <1>1, <1>2, <1>3 DEF Ordered
  <2>3. \A i \in 1 .. Len(f), j \in 1 .. Len(q) : f[i] <= q[j]
    <3>1. \A j \in 1 .. Len(q) : q[1] <= q[j]
      <4>1. \A j \in 1 .. Len(q) : j = 1 \/ 1 < j
        BY <1>0, <1>1
      <4> QED BY <1>0, <1>1, <4>1 DEF Ordered
    <3> QED BY <1>0, <1>1, <1>2, <1>3, <3>1 DEF Ordered
  <2> QED BY <2>1, <2>2, <2>3 DEF Ordered
<1>5. LastIsHead(q, f)
  BY <1>0, <1>1, <1>2, <1>3 DEF LastIsHead
<1>6. ASSUME ~LastIsHead(q, e), NEW i \in 1 .. Len(e)
      PROVE  e[i] < Head(q)
  <2>1. e # << >> /\ Len(e) \in 1 .. Len(e)
    BY <1>2
  <2>2. e[Len(e)] # Head(q)
    BY <1>6, <2>1 DEF LastIsHead
  <2>3. e[i] <= e[Len(e)]
    <3>1. i = Len(e) \/ i < Len(e)
      BY <1>2
    <3> QED BY <1>2, <2>1, <3>1 DEF Ordered
  <2>4. e[Len(e)] <= q[1]
    BY <1>0, <1>1, <2>1 DEF Ordered
  <2> QED BY <1>0, <1>1, <1>2, <2>1, <2>2, <2>3, <2>4
<1> QED BY <1>4, <1>5, <1>6 DEF f

-----------------------------------------------------------------------------
(* The steps and what they change *)

\* The facts about a reachable state that are used all the time.
LEMMA Facts ==
  ASSUME Base
  PROVE  /\ TypeOK /\ PopsWhatWasSent /\ LineInv /\ SeqInv
         /\ m_poll_slave \in Slaves /\ m_txseq \in [Slaves -> 0 .. 3]
         /\ m_msglist \in [Slaves -> Seq(Cmds)] /\ pushed \in Nat /\ Cmds \subseteq Nat
         /\ pd_last \in [Slaves -> SeqNos \cup {NoSeq}] /\ exec \in [Slaves -> Seq(Cmds)]
         /\ pd_reply \in [Slaves -> PdReplies] /\ pd_event \in [Slaves -> 0 .. MaxEvents]
         /\ pd_reboots \in [Slaves -> 0 .. MaxReboots]
         /\ last \in [Slaves -> Frames \cup {NoFrame}]
         /\ incoming \in [Slaves -> SUBSET Events]
         /\ sendmsg \in BOOLEAN /\ POLL \notin Cmds
BY CmdsAssumption
   DEF Base, BInv, IInv, TypeOK, EnvTypes, LogTypes, PdTypes, Cmds, POLL

\* What neither the master's sending and receiving nor a PD's answer touches.
dataVars == <<m_txseq, m_msglist, pushed, exec, acked, swapped, incoming, last,
              pd_reply, pd_event, pd_last, pd_reboots>>

\* A step that only loses what is on the line, or that ends a poll, waits or looks for
\* the next slave.
Quiet ==
  /\ UNCHANGED dataVars
  /\ up' \in {up, << >>} /\ down' \in {down, NoDown}
  /\ \/ UNCHANGED <<pc, m_poll_slave, tx, sendmsg, inbuf, m_retry>>
     \/ /\ pc # "ackpub" /\ pc' \notin {"read", "ackpub"}
        /\ pc' = "send" => ~offline(m_poll_slave)'

Purge == CheckOffline /\ UNCHANGED busEnv
Refusal == BReceive /\ Refused(Head(up))
Acceptance == BReceive /\ ack(Head(up))
Push(s) == push(s) /\ UNCHANGED busEnv

\* Every step is quiet or one of ten others.
LEMMA StepKinds ==
  ASSUME Base, ~Late, BNext
  PROVE  \/ Quiet \/ Purge \/ BTransmit \/ Refusal \/ Acceptance \/ BPublishOnline
         \/ \E s \in Slaves : Push(s) \/ Pd(s) \/ PowerOff(s)
<1>0. LineInv
  BY Facts
<1>1. CASE BIoError
  <2>1. UNCHANGED dataVars /\ up' = << >> /\ down' = NoDown /\ pc # "ackpub" /\ pc' = "open"
    BY <1>1 DEF BIoError, IoError, flush_input, dataVars, slaveVars, logVars, pdVars
  <2> QED BY <2>1 DEF Quiet
<1>2. CASE BTimeout \/ BCorrupt
  <2>1. up' \in {up, << >>} /\ down' = down /\ UNCHANGED <<logVars, pdVars>> /\ nak
    BY <1>0, <1>2, ReplyTaken DEF BTimeout, BCorrupt, busEnv, lineVars
  <2>2. /\ UNCHANGED <<m_txseq, m_msglist, pushed>> /\ pc = "read"
        /\ pc' \notin {"read", "ackpub", "send"}
    BY <2>1 DEF nak, Return
  <2> QED BY <2>1, <2>2 DEF Quiet, dataVars, logVars, pdVars
<1>3. CASE BReceive /\ WrongAddress(Head(up))
  <2>1. /\ UNCHANGED <<m_txseq, m_msglist, pushed>> /\ ~FromPolled(Head(up))
        /\ pc = "read" /\ pc' = "scan"
    BY <1>3 DEF WrongAddress, Return, slaveVars
  <2>2. up' = << >> /\ down' = down /\ UNCHANGED <<swapped, last, pdVars>>
    BY <1>0, <1>3, ReplyTaken DEF BReceive
  <2>3. UNCHANGED <<acked, incoming>>
    BY <1>3, <2>1 DEF BReceive, publish
  <2> QED BY <2>1, <2>2, <2>3 DEF Quiet, dataVars, pdVars
<1>4. CASE BReceive
  BY <1>3, <1>4 DEF BReceive, Receive, Refusal, Acceptance
<1>5. CASE BLocal
  <2>1. UNCHANGED <<up, down, inbuf, logVars, pdVars>>
    BY <1>5 DEF BLocal, busEnv, lineVars, logVars
  <2>2. CASE CheckOffline
    BY <1>5, <2>2 DEF BLocal, Purge
  <2>3. CASE CheckOnline
    <3>1. UNCHANGED <<m_txseq, m_msglist, pushed>> /\ pc = "check" /\ pc' \in {"send", "scan"}
      BY <2>3 DEF CheckOnline, slaveVars
    <3>2. ~offline(m_poll_slave)'
      BY <2>3 DEF CheckOnline, slaveVars, offline
    <3> QED BY <2>1, <3>1, <3>2 DEF Quiet, dataVars, logVars, pdVars
  <2>4. CASE Opened \/ Scan \/ NotPollable \/ PublishOffline
    <3>1. /\ UNCHANGED <<m_txseq, m_msglist, pushed>> /\ pc # "ackpub"
          /\ pc' \notin {"read", "ackpub", "send"}
      BY <2>4 DEF Opened, Scan, NotPollable, PublishOffline, Return, slaveVars
    <3> QED BY <2>1, <3>1 DEF Quiet, dataVars, logVars, pdVars
  <2> QED BY <1>5, <2>2, <2>3, <2>4 DEF BLocal
<1>6. CASE BOthers
  <2>1. CASE \E s \in Slaves : push(s)
    BY <1>6, <2>1 DEF BOthers, Push
  <2>2. CASE PublishControl \/ Clock \/ \E s \in Slaves, cmd \in Controls : Control(s, cmd)
    <3>1. UNCHANGED <<m_txseq, m_msglist, pushed, pc, m_poll_slave, tx, sendmsg, m_retry>>
      BY <2>2 DEF PublishControl, Control, Clock, AssignDue, PollDue, slaveVars, busVars
    <3> QED BY <1>6, <3>1
            DEF BOthers, Quiet, dataVars, busEnv, lineVars, logVars, pdVars
  <2> QED BY <1>6, <2>1, <2>2 DEF BOthers, MqttThread
<1>7. CASE LoseFrame \/ LoseReply
  <2>1. /\ UNCHANGED vars /\ UNCHANGED <<logVars, pdVars>>
        /\ up' \in {up, << >>} /\ down' \in {down, NoDown}
    BY <1>0, <1>7, ReplyTaken DEF LoseFrame, LoseReply
  <2> QED BY <2>1 DEF Quiet, dataVars, vars, slaveVars, busVars, logVars, pdVars
<1>8. ASSUME NEW s \in Slaves, PowerOn(s)
      PROVE  Quiet
  BY <1>8 DEF PowerOn, Quiet, dataVars, vars, slaveVars, busVars, lineVars, logVars
<1> QED BY <1>1, <1>2, <1>4, <1>5, <1>6, <1>7, <1>8 DEF BNext, BBusThread

\* The queue of an offline slave is emptied.
LEMMA Purged ==
  ASSUME Base, Purge
  PROVE  /\ m_msglist' = [m_msglist EXCEPT ![m_poll_slave] = << >>]
         /\ pc = "check" /\ pc' \in {"send", "scan"}
         /\ UNCHANGED <<m_txseq, pushed, exec, acked, swapped, incoming, last, pd_reply,
                        pd_event, pd_last, pd_reboots, m_poll_slave, up, down, inbuf>>
BY DEF Purge, CheckOffline, purge, busEnv, lineVars, logVars, pdVars

\* A frame is put on the silent line.
LEMMA Transmitted ==
  ASSUME Base, ~Late, BTransmit
  PROVE  /\ pc = "send" /\ pc' = "read" /\ up' = << >>
         /\ last' = [last EXCEPT ![m_poll_slave] = tx'] /\ last'[m_poll_slave] = tx'
         /\ tx'.seq = m_txseq[m_poll_slave]
         /\ down'.msg = tx'.msg /\ (sendmsg' <=> tx'.msg # POLL)
         /\ sendmsg' => tx'.msg = Head(m_msglist[m_poll_slave])
         /\ ~sendmsg' => offline(m_poll_slave) \/ m_msglist[m_poll_slave] = << >>
         /\ swapped' = IF sendmsg' /\ Swaps(m_poll_slave, tx')
                       THEN swapped \cup {tx'.msg} ELSE swapped
         /\ UNCHANGED <<m_txseq, m_msglist, pushed, exec, acked, incoming, pd_reply, pd_event,
                        pd_last, pd_reboots, m_poll_slave, m_retry>>
<1>1. Transmit /\ TypeOK
  BY Facts DEF BTransmit
<1>2. /\ tx'.seq = m_txseq[m_poll_slave] /\ sendmsg' = Queued(m_poll_slave)
      /\ sendmsg' => tx'.msg \in Cmds /\ tx'.msg = Head(m_msglist[m_poll_slave])
      /\ ~sendmsg' => tx'.msg = POLL
  BY <1>1, TransmittedFrame
<1>3. last'[m_poll_slave] = tx' /\ (sendmsg' <=> tx'.msg # POLL)
  BY <1>2, Facts DEF BTransmit
<1> QED BY <1>1, <1>2, <1>3
        DEF BTransmit, Transmit, flush_input, Queued, slaveVars, pdVars

\* The PD has refused.
LEMMA RefusalTaken ==
  ASSUME Base, Refusal
  PROVE  /\ pc = "read" /\ pc' = "scan" /\ up # << >> /\ Refusing(up[1])
         /\ m_txseq' \in {m_txseq, [m_txseq EXCEPT ![m_poll_slave] = 0]}
         /\ UNCHANGED <<m_msglist, pushed, exec, acked, swapped, incoming, last, pd_reply,
                        pd_event, pd_last, pd_reboots, m_poll_slave>>
<1>1. up # << >> /\ Head(up) = up[1]
  BY Facts DEF Refusal, BReceive, LineInv
<1>2. /\ pc = "read" /\ pc' = "scan" /\ Head(up).code \in {"NAK", "BUSY"}
      /\ m_txseq' \in {m_txseq, [m_txseq EXCEPT ![m_poll_slave] = 0]}
      /\ UNCHANGED <<m_msglist, pushed, m_poll_slave>>
  BY DEF Refusal, Refused, Return
<1>3. UNCHANGED <<acked, incoming, swapped, last, pdVars>>
  BY <1>2 DEF Refusal, BReceive, publish
<1> QED BY <1>1, <1>2, <1>3 DEF Refusing, pdVars

\* A reply is accepted: the master takes the next number, drops the command that the
\* reply acknowledges, and publishes the event, now or once the slave is announced.
LEMMA Accepted ==
  ASSUME Base, Acceptance
  PROVE  /\ pc = "read" /\ pc' \in {"scan", "ackpub"} /\ up # << >> /\ ~Refusing(up[1])
         /\ m_txseq' = [m_txseq EXCEPT ![m_poll_slave] = next_seq(@)]
         /\ m_txseq'[m_poll_slave] # 0
         /\ m_txseq'[m_poll_slave] # m_txseq[m_poll_slave]
         /\ pd_last[m_poll_slave] \in {NoSeq, m_txseq[m_poll_slave]}
         /\ IF sendmsg
            THEN /\ m_msglist[m_poll_slave] # << >> /\ Head(m_msglist[m_poll_slave]) = tx.msg
                 /\ m_msglist' = [m_msglist EXCEPT ![m_poll_slave] = Tail(@)]
                 /\ acked' = acked \cup {tx.msg}
            ELSE UNCHANGED <<m_msglist, acked>>
         /\ \/ pc' = "ackpub" /\ inbuf' = up[1].event /\ incoming' = incoming
            \/ publish(m_poll_slave, up[1].event)
         /\ UNCHANGED <<pushed, exec, swapped, last, pd_reply, pd_event, pd_last, pd_reboots,
                        m_poll_slave>>
<1> DEFINE s == m_poll_slave
<1>0. /\ PopsWhatWasSent /\ LineInv /\ SeqInv /\ s \in Slaves
      /\ m_txseq \in [Slaves -> 0 .. 3]
  BY Facts
<1>1. up # << >> /\ Head(up) = up[1]
  BY <1>0 DEF Acceptance, BReceive, LineInv
<1>2. /\ pc = "read" /\ FromPolled(up[1]) /\ up[1].code \notin {"NAK", "BUSY"}
      /\ m_txseq' = [m_txseq EXCEPT ![s] = next_seq(@)]
      /\ UNCHANGED <<pushed, m_poll_slave>>
  BY <1>1 DEF Acceptance, ack, Advance
<1>3. m_txseq'[s] # 0 /\ m_txseq'[s] # m_txseq[s]
  BY <1>0, <1>2 DEF next_seq
<1>4. pd_last[s] \in {NoSeq, m_txseq[s]}
  BY <1>0, <1>1, <1>2 DEF SeqInv
<1>5. sendmsg => ~offline(s) /\ m_msglist[s] # << >> /\ Head(m_msglist[s]) = tx.msg
  BY <1>0, <1>2 DEF PopsWhatWasSent
<1>6. UNCHANGED <<exec, swapped, last, pd_reply, pd_event, pd_last, pd_reboots>>
  BY DEF Acceptance, BReceive, pdVars
<1>7. CASE offline(s)
  <2>1. /\ pc' = "ackpub" /\ UNCHANGED m_msglist
    BY <1>7 DEF Acceptance, ack
  <2>2. inbuf' = up[1].event /\ publish(s, 0) /\ acked' = acked
    BY <1>1, <1>2, <1>7 DEF Acceptance, BReceive
  <2> QED BY <1>1, <1>2, <1>3, <1>4, <1>5, <1>6, <1>7, <2>1, <2>2 DEF publish, Refusing
<1>8. CASE ~offline(s)
  <2>1. pc' = "scan" /\ PopSent(s)
    BY <1>8 DEF Acceptance, ack, Return
  <2>2. /\ publish(s, up[1].event)
        /\ acked' = IF sendmsg THEN acked \cup {tx.msg} ELSE acked
    BY <1>1, <1>2, <1>8 DEF Acceptance, BReceive
  <2> QED BY <1>1, <1>2, <1>3, <1>4, <1>5, <1>6, <2>1, <2>2 DEF PopSent, Refusing
<1> QED BY <1>7, <1>8

\* The slave is announced, then the event is published; nothing is popped.
LEMMA OnlinePublished ==
  ASSUME Base, BPublishOnline
  PROVE  /\ pc = "ackpub" /\ pc' = "scan" /\ publish(m_poll_slave, inbuf)
         /\ UNCHANGED <<m_msglist, m_txseq, pushed, exec, acked, swapped, last, pd_reply,
                        pd_event, pd_last, pd_reboots, m_poll_slave>>
<1>1. pc = "ackpub" /\ ~sendmsg
  BY Facts DEF BPublishOnline, PublishOnline, PopsWhatWasSent
<1> QED BY <1>1 DEF BPublishOnline, PublishOnline, PopSent, Return, pdVars

\* A command arrives.
LEMMA Pushed ==
  ASSUME Base, NEW s \in Slaves, Push(s)
  PROVE  /\ pushed < MaxCmds /\ pushed' = pushed + 1 /\ pushed + 1 \in Cmds
         /\ m_msglist' = [m_msglist EXCEPT ![s] = Append(@, pushed + 1)]
         /\ UNCHANGED <<m_txseq, exec, acked, swapped, incoming, last, pd_reply, pd_event,
                        pd_last, pd_reboots, up, down, inbuf, pc, m_poll_slave, tx, sendmsg,
                        m_retry>>
<1>1. pushed \in Nat /\ MaxCmds \in Nat
  BY Facts, CmdsAssumption
<1>2. /\ pushed < MaxCmds /\ pushed' = pushed + 1
      /\ m_msglist' = [m_msglist EXCEPT ![s] = Append(@, pushed + 1)]
      /\ UNCHANGED <<slaveVars, busVars, busEnv>>
  BY DEF Push, push
<1>3. pushed + 1 \in Cmds
  BY <1>1, <1>2 DEF Cmds
<1> QED BY <1>2, <1>3 DEF slaveVars, busVars, busEnv, lineVars, logVars, pdVars

\* A PD that hears a frame is the one polled, and its reply is all there is on the line.
LEMMA Heard ==
  ASSUME Base, NEW s \in Slaves, Pd(s)
  PROVE  /\ s = m_poll_slave /\ pc = "read" /\ down # NoDown /\ down.seq = m_txseq[s]
         /\ tx.seq = m_txseq[s] /\ m_txseq[s] \in 0 .. 3
         /\ down' = NoDown /\ up' # << >>
         /\ UNCHANGED <<m_txseq, m_msglist, pushed, pc, m_poll_slave, tx, sendmsg, m_retry>>
         /\ UNCHANGED <<inbuf, acked, swapped, incoming, last, pd_reboots>>
         /\ Repeat(s) => up'[1].code = pd_reply[s].code /\ up'[1].event = pd_reply[s].event
         /\ Process(s) => up'[1].code = pd_reply'[s].code /\ up'[1].event = pd_reply'[s].event
         /\ Refuse(s) => Refusing(up'[1])
<1>0. LineInv /\ 0 \notin Slaves /\ m_txseq \in [Slaves -> 0 .. 3]
  BY Facts DEF Slaves
<1>1. UNCHANGED vars /\ Hears(s)
  BY Zenon DEF Pd, Repeat, Process, Refuse
<1>2. s = m_poll_slave /\ down # NoDown /\ up = << >> /\ pc = "read"
  BY <1>0, <1>1 DEF LineInv, Hears, NoDown
<1>3. ASSUME NEW q, NEW rep, Reply(s, q, rep)
      PROVE  /\ down' = NoDown /\ up' # << >>
             /\ up'[1].code = rep.code /\ up'[1].event = rep.event
  <2>1. up' = << [addr |-> Addr[s] + 128, seq |-> q, code |-> rep.code, event |-> rep.event] >>
    BY <1>2, <1>3 DEF Reply
  <2> QED BY <1>3, <2>1 DEF Reply
<1>4. Repeat(s) => Reply(s, down.seq, pd_reply[s]) /\ UNCHANGED <<logVars, pd_reboots>>
  BY DEF Repeat
<1>5. Process(s) => Reply(s, down.seq, pd_reply'[s]) /\ UNCHANGED <<logVars, pd_reboots>>
  BY DEF Process
<1>6. Refuse(s) =>
        /\ \E code \in RefusalCodes(s) : Reply(s, down.seq, [code |-> code, event |-> 0])
        /\ UNCHANGED <<logVars, pd_reboots>>
  BY DEF Refuse, pdVars
<1>7. Repeat(s) =>
        /\ down' = NoDown /\ up' # << >> /\ UNCHANGED <<logVars, pd_reboots>>
        /\ up'[1].code = pd_reply[s].code /\ up'[1].event = pd_reply[s].event
  BY <1>3, <1>4
<1>8. Process(s) =>
        /\ down' = NoDown /\ up' # << >> /\ UNCHANGED <<logVars, pd_reboots>>
        /\ up'[1].code = pd_reply'[s].code /\ up'[1].event = pd_reply'[s].event
  BY <1>3, <1>5
<1>9. Refuse(s) =>
        /\ down' = NoDown /\ up' # << >> /\ UNCHANGED <<logVars, pd_reboots>>
        /\ Refusing(up'[1])
  <2>1. ASSUME NEW code \in RefusalCodes(s), Reply(s, down.seq, [code |-> code, event |-> 0])
        PROVE  down' = NoDown /\ up' # << >> /\ up'[1].code = code
    BY <1>3, <2>1
  <2> QED BY <1>6, <2>1, RefusalsOnly DEF Refusing
<1>10. down.seq = m_txseq[s] /\ tx.seq = m_txseq[s]
  BY <1>0, <1>2 DEF LineInv
<1>11. UNCHANGED <<m_txseq, m_msglist, pushed, pc, m_poll_slave, tx, sendmsg, m_retry>>
  BY <1>1 DEF vars, slaveVars, busVars
<1>12. \/ Repeat(s) \/ Process(s) \/ Refuse(s)
  BY DEF Pd
<1>13. UNCHANGED <<inbuf, acked, swapped, incoming, last, pd_reboots>>
  BY <1>7, <1>8, <1>9, <1>12 DEF logVars
<1> QED BY <1>0, <1>2, <1>7, <1>8, <1>9, <1>10, <1>11, <1>12, <1>13

\* What a PD executes and remembers.
LEMMA Processed ==
  ASSUME Base, FrameInv, NEW s \in Slaves, Process(s)
  PROVE  /\ pd_last[s] # m_txseq[s]
         /\ pd_last' = [pd_last EXCEPT ![s] = m_txseq[s]]
         /\ sendmsg => /\ m_msglist[s] # << >> /\ tx.msg = Head(m_msglist[s])
                       /\ exec' = [exec EXCEPT ![s] = Append(@, tx.msg)]
         /\ ~sendmsg => exec' = exec
         /\ \/ /\ pd_reply' = [pd_reply EXCEPT ![s] = [code |-> "ACK", event |-> 0]]
               /\ pd_event' = pd_event
            \/ /\ pd_event' = [pd_event EXCEPT ![s] = @ + 1]
               /\ pd_reply' = [pd_reply EXCEPT ![s] =
                                 [code |-> "DATA", event |-> pd_event[s] + 1]]
<1>1. /\ s = m_poll_slave /\ pc = "read" /\ down # NoDown /\ down.seq = m_txseq[s]
  BY Heard DEF Pd
<1>2. down.msg = tx.msg /\ (sendmsg <=> tx.msg # POLL)
  BY <1>1 DEF FrameInv
<1>3. sendmsg => m_msglist[s] # << >> /\ Head(m_msglist[s]) = tx.msg
  BY <1>1, Facts DEF PopsWhatWasSent
<1> QED BY <1>1, <1>2, <1>3 DEF Process

\* A PD that loses power forgets its number.
LEMMA PoweredOff ==
  ASSUME Base, NEW s \in Slaves, PowerOff(s)
  PROVE  /\ pd_last' = [pd_last EXCEPT ![s] = NoSeq]
         /\ pd_reboots' = [pd_reboots EXCEPT ![s] = @ + 1] /\ pd_reboots'[s] > 0
         /\ UNCHANGED <<m_txseq, m_msglist, pushed, exec, acked, swapped, incoming, last,
                        pd_reply, pd_event, up, down, inbuf, pc, m_poll_slave, tx, sendmsg,
                        m_retry>>
<1>1. pd_reboots \in [Slaves -> 0 .. MaxReboots] /\ MaxReboots \in Nat
  BY Facts, BoundsAssumption
<1>2. /\ pd_reboots' = [pd_reboots EXCEPT ![s] = @ + 1]
      /\ UNCHANGED <<vars, lineVars, logVars, pd_reply, pd_event, exec>>
      /\ pd_last' = [pd_last EXCEPT ![s] = NoSeq]
  BY DEF PowerOff
<1>3. pd_reboots'[s] > 0
  BY <1>1, <1>2
<1> QED BY <1>2, <1>3 DEF vars, slaveVars, busVars, lineVars, logVars

-----------------------------------------------------------------------------
(* Commands *)

\* Off the poll the line is silent, and the invariant of what it carries is trivial.
LEMMA FrameSilent ==
  ASSUME FrameInv, LineInv', pc' # "read", pd_reply' = pd_reply
  PROVE  FrameInv'
BY DEF FrameInv, LineInv

\* What is on the line belongs to the last frame.
LEMMA FrameStep ==
  ASSUME Base, Base', ~Late, FrameInv, BNext
  PROVE  FrameInv'
<1>0. LineInv' /\ LineInv
  BY Facts DEF Base, BInv
<1>1. CASE Quiet
  <2>1. CASE pc' = "read"
    BY <1>1, <2>1 DEF Quiet, dataVars, FrameInv
  <2>2. CASE pc' # "read"
    BY <1>0, <1>1, <2>2, FrameSilent DEF Quiet, dataVars
  <2> QED BY <2>1, <2>2
<1>2. CASE Purge
  BY <1>0, <1>2, Purged, FrameSilent
<1>3. CASE BTransmit
  BY <1>3, Transmitted DEF FrameInv
<1>4. CASE Refusal
  BY <1>0, <1>4, RefusalTaken, FrameSilent
<1>5. CASE Acceptance
  <2>1. pc' # "read" /\ pd_reply' = pd_reply
    BY <1>5, Accepted
  <2> QED BY <1>0, <2>1, FrameSilent
<1>6. CASE BPublishOnline
  <2>1. pc' # "read" /\ pd_reply' = pd_reply
    BY <1>6, OnlinePublished
  <2> QED BY <1>0, <2>1, FrameSilent
<1>7. ASSUME NEW s \in Slaves, Push(s)
      PROVE  FrameInv'
  BY <1>7, Pushed DEF FrameInv
<1>8. ASSUME NEW s \in Slaves, Pd(s)
      PROVE  FrameInv'
  <2>0. /\ s = m_poll_slave /\ pc = "read" /\ down.seq = tx.seq
        /\ down' = NoDown /\ up' # << >> /\ UNCHANGED <<m_poll_slave, tx, sendmsg, pc, last>>
    BY <1>8, Heard
  <2>1. CASE Repeat(s)
    <3>1. /\ pd_reply' = pd_reply
          /\ up'[1].code = pd_reply[s].code /\ up'[1].event = pd_reply[s].event
      BY <1>8, <2>1, Heard DEF Repeat
    <3> QED BY <2>0, <3>1 DEF FrameInv, Refusing
  <2>2. CASE Process(s)
    <3>1. /\ up'[1].code = pd_reply'[s].code /\ up'[1].event = pd_reply'[s].event
      BY <1>8, <2>2, Heard
    <3>2. /\ pd_reply'[s].code \in {"ACK", "DATA"}
          /\ \A t \in Slaves : t # s => pd_reply'[t] = pd_reply[t]
      BY <2>2, Processed, Facts
    <3>3. \A t \in Slaves : ~Refusing(pd_reply'[t])
      BY <3>2 DEF FrameInv, Refusing
    <3> QED BY <2>0, <3>1, <3>2, <3>3 DEF FrameInv, Refusing
  <2>3. CASE Refuse(s)
    <3>1. Refusing(up'[1])
      BY <1>8, <2>3, Heard
    <3>2. UNCHANGED <<pd_reply, pd_last>> /\ pd_last[s] # down.seq
      BY <2>3 DEF Refuse, pdVars
    <3> QED BY <2>0, <3>1, <3>2 DEF FrameInv
  <2> QED BY <1>8, <2>1, <2>2, <2>3 DEF Pd
<1>9. ASSUME NEW s \in Slaves, PowerOff(s)
      PROVE  FrameInv'
  <2>1. UNCHANGED <<pc, last, m_poll_slave, tx, sendmsg, down, up, pd_reply>>
    BY <1>9, PoweredOff
  <2>2. \A t \in Slaves : pd_last'[t] \in {pd_last[t], NoSeq}
    BY <1>9, PoweredOff, Facts
  <2>3. up # << >> => tx.seq # NoSeq
    <3>1. up # << >> => tx.seq = m_txseq[m_poll_slave]
      BY Facts DEF LineInv
    <3>2. m_txseq[m_poll_slave] \in 0 .. 3
      BY Facts
    <3> QED BY <3>1, <3>2 DEF NoSeq
  <2>4. m_poll_slave \in Slaves
    BY Facts
  <2> QED BY <2>1, <2>2, <2>3, <2>4 DEF FrameInv
<1> QED BY <1>1, <1>2, <1>3, <1>4, <1>5, <1>6, <1>7, <1>8, <1>9, StepKinds

\* Queues and histories stay in order.
LEMMA OrderStep ==
  ASSUME Base, ~Late, FrameInv, OrderInv, BNext
  PROVE  OrderInv'
<1>0. /\ m_poll_slave \in Slaves /\ pushed \in Nat /\ Cmds \subseteq Nat
      /\ m_msglist \in [Slaves -> Seq(Cmds)] /\ exec \in [Slaves -> Seq(Cmds)]
  BY Facts
<1>1. ASSUME UNCHANGED <<m_msglist, exec, pushed>>
      PROVE  OrderInv'
  BY <1>1 DEF OrderInv
<1>2. CASE Quiet \/ BTransmit \/ Refusal \/ BPublishOnline
  BY <1>1, <1>2, Transmitted, RefusalTaken, OnlinePublished DEF Quiet, dataVars
<1>3. CASE Purge
  <2>1. /\ m_msglist' = [m_msglist EXCEPT ![m_poll_slave] = << >>]
        /\ UNCHANGED <<exec, pushed>>
    BY <1>3, Purged
  <2>2. \A t \in Slaves : m_msglist'[t] = m_msglist[t] \/ m_msglist'[t] = << >>
    BY <1>0, <2>1
  <2>3. \A e, n : (\A q : Ordered(q, e, n) => Ordered(<< >>, e, n))
    BY DEF Ordered
  <2> QED BY <2>1, <2>2, <2>3 DEF OrderInv
<1>4. CASE Acceptance
  <2> DEFINE s == m_poll_slave
  <2>1. UNCHANGED <<exec, pushed>>
    BY <1>4, Accepted
  <2>2. CASE sendmsg
    <3>1. m_msglist[s] # << >> /\ m_msglist' = [m_msglist EXCEPT ![s] = Tail(@)]
      BY <1>4, <2>2, Accepted
    <3>2. Ordered(Tail(m_msglist[s]), exec[s], pushed)
      BY <1>0, <3>1, OrderedPop DEF OrderInv
    <3> QED BY <1>0, <2>1, <3>1, <3>2 DEF OrderInv
  <2>3. CASE ~sendmsg
    BY <1>1, <1>4, <2>1, <2>3, Accepted
  <2> QED BY <2>2, <2>3
<1>5. ASSUME NEW s \in Slaves, Push(s)
      PROVE  OrderInv'
  <2>1. /\ pushed' = pushed + 1 /\ pushed + 1 \in Cmds /\ exec' = exec
        /\ m_msglist' = [m_msglist EXCEPT ![s] = Append(@, pushed + 1)]
    BY <1>5, Pushed
  <2>2. ASSUME NEW t \in Slaves
        PROVE  Ordered(m_msglist'[t], exec[t], pushed + 1)
    <3>1. /\ m_msglist[t] \in Seq(Cmds) /\ exec[t] \in Seq(Cmds)
          /\ Ordered(m_msglist[t], exec[t], pushed)
      BY <1>0 DEF OrderInv
    <3>2. /\ Ordered(m_msglist[t], exec[t], pushed + 1)
          /\ Ordered(Append(m_msglist[t], pushed + 1), exec[t], pushed + 1)
      BY <1>0, <2>1, <3>1, OrderedPush
    <3> QED BY <1>0, <2>1, <3>2
  <2> QED BY <2>1, <2>2 DEF OrderInv
<1>6. ASSUME NEW s \in Slaves, Pd(s)
      PROVE  OrderInv'
  <2>1. UNCHANGED <<m_msglist, pushed>>
    BY <1>6, Heard
  <2>2. CASE Repeat(s) \/ Refuse(s)
    BY <1>1, <2>1, <2>2 DEF Repeat, Refuse, pdVars
  <2>3. CASE Process(s) /\ sendmsg
    <3>1. /\ m_msglist[s] # << >>
          /\ exec' = [exec EXCEPT ![s] = Append(@, Head(m_msglist[s]))]
      BY <2>3, Processed
    <3>2. Ordered(m_msglist[s], Append(exec[s], Head(m_msglist[s])), pushed)
      BY <1>0, <3>1, OrderedExecute DEF OrderInv
    <3> QED BY <1>0, <2>1, <3>1, <3>2 DEF OrderInv
  <2>4. CASE Process(s) /\ ~sendmsg
    BY <1>1, <2>1, <2>4, Processed
  <2> QED BY <1>6, <2>2, <2>3, <2>4 DEF Pd
<1>7. ASSUME NEW s \in Slaves, PowerOff(s)
      PROVE  OrderInv'
  BY <1>1, <1>7, PoweredOff
<1> QED BY <1>2, <1>3, <1>4, <1>5, <1>6, <1>7, StepKinds

\* A PD that has executed the head of the queue is not sent a new frame.
LEMMA HeadStep ==
  ASSUME Base, ~Late, FrameInv, OrderInv, HeadInv, BNext
  PROVE  HeadInv'
<1> DEFINE p == m_poll_slave
<1>0. /\ p \in Slaves /\ pushed \in Nat /\ Cmds \subseteq Nat
      /\ m_msglist \in [Slaves -> Seq(Cmds)] /\ exec \in [Slaves -> Seq(Cmds)]
      /\ m_txseq \in [Slaves -> 0 .. 3] /\ pd_last \in [Slaves -> SeqNos \cup {NoSeq}]
  BY Facts
<1>1. CASE Quiet
  <2>1. UNCHANGED <<m_msglist, exec, m_txseq, pd_last, pd_reboots>>
    BY <1>1 DEF Quiet, dataVars
  <2>2. \A s \in Slaves : HeadExecuted(s)' <=> HeadExecuted(s)
    BY <2>1 DEF HeadExecuted
  <2>3. HeadExecuted(m_poll_slave)' /\ m_poll_slave' = p => HeadExecuted(p)
    BY <2>1 DEF HeadExecuted
  <2>4. CASE UNCHANGED <<pc, m_poll_slave, tx, sendmsg, inbuf, m_retry>>
    BY <1>0, <2>1, <2>2, <2>3, <2>4 DEF HeadInv, offline
  <2>5. CASE pc' # "read" /\ (pc' = "send" => ~offline(m_poll_slave)')
    BY <2>1, <2>2, <2>5 DEF HeadInv
  <2> QED BY <1>1, <2>4, <2>5 DEF Quiet
<1>2. CASE Purge
  <2>1. /\ m_msglist' = [m_msglist EXCEPT ![p] = << >>] /\ pc' \in {"send", "scan"}
        /\ UNCHANGED <<exec, m_txseq, pd_last, pd_reboots, m_poll_slave>>
    BY <1>2, Purged
  <2>2. \A s \in Slaves : HeadExecuted(s)' => s # p /\ HeadExecuted(s)
    BY <1>0, <2>1 DEF HeadExecuted, LastIsHead
  <2>3. ~HeadExecuted(m_poll_slave)'
    BY <1>0, <2>1 DEF HeadExecuted, LastIsHead
  <2> QED BY <2>1, <2>2, <2>3 DEF HeadInv
<1>3. CASE BTransmit
  <2>1. /\ pc = "send" /\ pc' = "read"
        /\ ~sendmsg' => offline(p) \/ m_msglist[p] = << >>
        /\ UNCHANGED <<m_msglist, exec, m_txseq, pd_last, pd_reboots, m_poll_slave>>
    BY <1>3, Transmitted
  <2>2. \A s \in Slaves : HeadExecuted(s)' <=> HeadExecuted(s)
    BY <2>1 DEF HeadExecuted
  <2>3. ~sendmsg' => ~HeadExecuted(p)
    BY <2>1 DEF HeadInv, HeadExecuted, LastIsHead
  <2>4. HeadExecuted(m_poll_slave)' => HeadExecuted(p)
    BY <2>1 DEF HeadExecuted
  <2> QED BY <2>1, <2>2, <2>3, <2>4 DEF HeadInv
<1>4. CASE Refusal
  <2>1. /\ pc = "read" /\ pc' = "scan" /\ up # << >> /\ Refusing(up[1])
        /\ m_txseq' \in {m_txseq, [m_txseq EXCEPT ![p] = 0]}
        /\ UNCHANGED <<m_msglist, exec, pd_last, pd_reboots>>
    BY <1>4, RefusalTaken
  <2>2. pd_last[p] # m_txseq[p]
    BY <2>1, Facts DEF FrameInv, LineInv
  <2>3. \A s \in Slaves : HeadExecuted(s)' <=> HeadExecuted(s)
    BY <2>1 DEF HeadExecuted
  <2>4. \A s \in Slaves : m_txseq'[s] = m_txseq[s] \/ s = p
    BY <1>0, <2>1
  <2> QED BY <2>1, <2>2, <2>3, <2>4 DEF HeadInv
<1>5. CASE Acceptance
  <2>1. /\ pc = "read" /\ pc' \in {"scan", "ackpub"}
        /\ m_txseq' = [m_txseq EXCEPT ![p] = next_seq(@)]
        /\ sendmsg => /\ m_msglist[p] # << >>
                      /\ m_msglist' = [m_msglist EXCEPT ![p] = Tail(@)]
        /\ ~sendmsg => m_msglist' = m_msglist
        /\ UNCHANGED <<exec, pd_last, pd_reboots>>
    BY <1>5, Accepted
  <2>2. ~LastIsHead(m_msglist'[p], exec[p])
    <3>1. CASE sendmsg
      <4>1. m_msglist'[p] = Tail(m_msglist[p]) /\ m_msglist[p] # << >>
        BY <1>0, <2>1, <3>1
      <4>2. /\ m_msglist[p] \in Seq(Cmds) /\ exec[p] \in Seq(Cmds)
            /\ Ordered(m_msglist[p], exec[p], pushed)
        BY <1>0 DEF OrderInv
      <4>3. ~LastIsHead(Tail(m_msglist[p]), exec[p])
        BY <1>0, <4>1, <4>2, OrderedPop
      <4> QED BY <4>1, <4>3
    <3>2. CASE ~sendmsg
      BY <2>1, <3>2 DEF HeadInv, HeadExecuted
    <3> QED BY <3>1, <3>2
  <2>3. \A s \in Slaves : s # p => m_msglist'[s] = m_msglist[s] /\ m_txseq'[s] = m_txseq[s]
    BY <1>0, <2>1
  <2>4. \A s \in Slaves : HeadExecuted(s)' => s # p /\ HeadExecuted(s)
    <3>1. ASSUME NEW s \in Slaves, HeadExecuted(s)'
          PROVE  s # p /\ HeadExecuted(s)
      <4>1. LastIsHead(m_msglist'[s], exec[s])
        BY <2>1, <3>1 DEF HeadExecuted
      <4> QED BY <2>2, <2>3, <4>1 DEF HeadExecuted
    <3> QED BY <3>1
  <2>5. ~(pc' = "send") /\ ~(pc' = "read")
    BY <2>1
  <2> QED BY <2>1, <2>3, <2>4, <2>5 DEF HeadInv
<1>6. CASE BPublishOnline
  <2>1. pc' = "scan" /\ UNCHANGED <<m_msglist, exec, m_txseq, pd_last, pd_reboots>>
    BY <1>6, OnlinePublished
  <2> QED BY <2>1 DEF HeadInv, HeadExecuted
<1>7. ASSUME NEW s \in Slaves, Push(s)
      PROVE  HeadInv'
  <2>1. /\ pushed + 1 \in Cmds
        /\ m_msglist' = [m_msglist EXCEPT ![s] = Append(@, pushed + 1)]
        /\ UNCHANGED <<exec, m_txseq, pd_last, pd_reboots, pc, m_poll_slave, sendmsg, m_retry>>
    BY <1>7, Pushed
  <2>2. LastIsHead(Append(m_msglist[s], pushed + 1), exec[s])
          <=> LastIsHead(m_msglist[s], exec[s])
    BY <1>0, <2>1, OrderedPush DEF OrderInv
  <2>3. \A t \in Slaves : HeadExecuted(t)' <=> HeadExecuted(t)
    BY <1>0, <2>1, <2>2 DEF HeadExecuted
  <2>4. HeadExecuted(m_poll_slave)' <=> HeadExecuted(p)
    BY <1>0, <2>1, <2>2 DEF HeadExecuted
  <2> QED BY <1>0, <2>1, <2>3, <2>4 DEF HeadInv, offline
<1>8. ASSUME NEW s \in Slaves, Pd(s)
      PROVE  HeadInv'
  <2>0. /\ s = p /\ pc = "read" /\ down.seq = m_txseq[s] /\ m_txseq[s] \in 0 .. 3
        /\ UNCHANGED <<m_txseq, m_msglist, pc, m_poll_slave, sendmsg, pd_reboots>>
    BY <1>8, Heard
  <2>1. CASE Repeat(s)
    <3>1. pd_last' = [pd_last EXCEPT ![s] = m_txseq[s]] /\ exec' = exec
      BY <2>0, <2>1 DEF Repeat
    <3>2. \A t \in Slaves : pd_last'[t] = IF t = s THEN m_txseq[s] ELSE pd_last[t]
      BY <1>0, <3>1
    <3> QED BY <2>0, <3>1, <3>2 DEF HeadInv, HeadExecuted, NoSeq
  <2>2. CASE Process(s)
    <3>1. \A t \in Slaves : pd_last'[t] = IF t = s THEN m_txseq[s] ELSE pd_last[t]
      BY <1>0, <2>2, Processed
    <3>2. \A t \in Slaves : t # s => exec'[t] = exec[t]
      BY <1>0, <2>2, Processed
    <3>3. ~sendmsg => exec' = exec
      BY <2>2, Processed
    <3>4. \A t \in Slaves : t # s => (HeadExecuted(t)' <=> HeadExecuted(t))
      BY <2>0, <3>2 DEF HeadExecuted
    <3>5. pc' = "read" /\ ~sendmsg' => ~HeadExecuted(m_poll_slave)'
      BY <2>0, <3>3 DEF HeadInv, HeadExecuted
    <3> QED BY <2>0, <3>1, <3>2, <3>4, <3>5 DEF HeadInv, NoSeq
  <2>3. CASE Refuse(s)
    <3>1. UNCHANGED <<pd_last, exec>>
      BY <2>3 DEF Refuse, pdVars
    <3> QED BY <2>0, <3>1 DEF HeadInv, HeadExecuted
  <2> QED BY <1>8, <2>1, <2>2, <2>3 DEF Pd
<1>9. ASSUME NEW s \in Slaves, PowerOff(s)
      PROVE  HeadInv'
  <2>1. /\ pd_last' = [pd_last EXCEPT ![s] = NoSeq] /\ pd_reboots'[s] > 0
        /\ pd_reboots' = [pd_reboots EXCEPT ![s] = @ + 1]
        /\ UNCHANGED <<exec, m_txseq, m_msglist, pc, m_poll_slave, sendmsg, m_retry>>
    BY <1>9, PoweredOff
  <2>2. \A t \in Slaves :
          IF t = s THEN pd_last'[t] = NoSeq /\ pd_reboots'[t] # 0
                   ELSE pd_last'[t] = pd_last[t] /\ pd_reboots'[t] = pd_reboots[t]
    BY <1>0, <2>1, Facts
  <2> QED BY <2>1, <2>2 DEF HeadInv, HeadExecuted, offline
<1> QED BY <1>1, <1>2, <1>3, <1>4, <1>5, <1>6, <1>7, <1>8, <1>9, StepKinds

\* A PD whose memory is intact executes a command once: the head that it has executed
\* comes with the number it knows.
LEMMA InOrderStep ==
  ASSUME Base, ~Late, CmdInv, BNext
  PROVE  InOrderOnce'
<1>0. /\ pushed \in Nat /\ Cmds \subseteq Nat
      /\ m_msglist \in [Slaves -> Seq(Cmds)] /\ exec \in [Slaves -> Seq(Cmds)]
      /\ FrameInv /\ OrderInv /\ HeadInv /\ InOrderOnce
  BY Facts DEF CmdInv
<1>1. ASSUME exec' = exec, \A s \in Slaves : pd_reboots'[s] = 0 => pd_reboots[s] = 0
      PROVE  InOrderOnce'
  BY <1>0, <1>1 DEF InOrderOnce
<1>2. CASE Quiet \/ Purge \/ BTransmit \/ Refusal \/ Acceptance \/ BPublishOnline
  <2>1. UNCHANGED <<exec, pd_reboots>>
    BY <1>2, Purged, Transmitted, RefusalTaken, Accepted, OnlinePublished DEF Quiet, dataVars
  <2> QED BY <1>1, <2>1
<1>3. ASSUME NEW s \in Slaves, Push(s)
      PROVE  InOrderOnce'
  BY <1>1, <1>3, Pushed
<1>4. ASSUME NEW s \in Slaves, Pd(s)
      PROVE  InOrderOnce'
  <2>1. UNCHANGED <<m_msglist, pd_reboots>>
    BY <1>4, Heard
  <2>2. CASE Repeat(s) \/ Refuse(s)
    BY <1>1, <2>1, <2>2 DEF Repeat, Refuse, pdVars
  <2>3. CASE Process(s) /\ ~sendmsg
    BY <1>0, <1>1, <2>1, <2>3, Processed
  <2>4. CASE Process(s) /\ sendmsg
    <3> DEFINE q == m_msglist[s]
               e == exec[s]
    <3>1. /\ q # << >> /\ exec' = [exec EXCEPT ![s] = Append(@, Head(q))]
          /\ pd_last[s] # m_txseq[s]
      BY <1>0, <2>4, Processed
    <3>2. pd_reboots[s] = 0 => ~LastIsHead(q, e)
      BY <1>0, <3>1 DEF HeadInv, HeadExecuted, LastIsHead
    <3>3. pd_reboots[s] = 0 => \A i \in 1 .. Len(e) : e[i] < Head(q)
      BY <1>0, <3>1, <3>2, OrderedExecute DEF OrderInv
    <3>4. e \in Seq(Cmds) /\ q \in Seq(Cmds)
      BY <1>0
    <3>5. Head(q) \in Cmds
      BY <3>1, <3>4, Shortened
    <3>6. ASSUME pd_reboots[s] = 0, NEW i \in 1 .. Len(exec'[s]), NEW j \in 1 .. Len(exec'[s]),
                 i < j
          PROVE  exec'[s][i] < exec'[s][j]
      <4> DEFINE f == Append(e, Head(q))
      <4>1. /\ exec'[s] = f /\ Len(e) \in Nat /\ Len(f) = Len(e) + 1
            /\ \A k \in 1 .. Len(e) : f[k] = e[k]
            /\ f[Len(e) + 1] = Head(q)
        BY <1>0, <3>1, <3>4, <3>5, Appended
      <4> HIDE DEF f
      <4>2. i \in 1 .. Len(e) /\ f[i] = e[i]
        BY <3>6, <4>1
      <4>3. CASE j = Len(e) + 1
        BY <3>3, <3>6, <4>1, <4>2, <4>3
      <4>4. CASE j # Len(e) + 1
        <5>1. j \in 1 .. Len(e) /\ f[j] = e[j]
          BY <4>1, <4>4
        <5> QED BY <1>0, <3>6, <4>1, <4>2, <5>1 DEF InOrderOnce
      <4> QED BY <4>3, <4>4
    <3>7. \A t \in Slaves : t # s => exec'[t] = exec[t]
      BY <1>0, <3>1
    <3> QED BY <1>0, <2>1, <3>6, <3>7 DEF InOrderOnce
  <2> QED BY <1>4, <2>2, <2>3, <2>4 DEF Pd
<1>5. ASSUME NEW s \in Slaves, PowerOff(s)
      PROVE  InOrderOnce'
  <2>1. exec' = exec /\ \A t \in Slaves : pd_reboots'[t] = 0 => pd_reboots[t] = 0
    BY <1>5, PoweredOff, Facts
  <2> QED BY <1>1, <2>1
<1> QED BY <1>2, <1>3, <1>4, <1>5, StepKinds


\* What a PD has executed stays executed.
LEMMA StaysExecuted ==
  ASSUME Base, ~Late, FrameInv, BNext
  PROVE  /\ \A s \in Slaves, m \in Cmds : Executed(s, m) => Executed(s, m)'
         /\ swapped \subseteq swapped'
<1>0. exec \in [Slaves -> Seq(Cmds)] /\ m_msglist \in [Slaves -> Seq(Cmds)]
  BY Facts
<1>1. ASSUME UNCHANGED <<exec, swapped>>
      PROVE  /\ \A s \in Slaves, m \in Cmds : Executed(s, m) => Executed(s, m)'
             /\ swapped \subseteq swapped'
  BY <1>1 DEF Executed
<1>2. CASE Quiet \/ Purge \/ Refusal \/ Acceptance \/ BPublishOnline
  BY <1>1, <1>2, Purged, RefusalTaken, Accepted, OnlinePublished DEF Quiet, dataVars
<1>3. CASE BTransmit
  BY <1>3, Transmitted DEF Executed
<1>4. ASSUME NEW s \in Slaves, Push(s) \/ PowerOff(s) \/ Repeat(s) \/ Refuse(s)
      PROVE  UNCHANGED <<exec, swapped>>
  <2>1. Repeat(s) \/ Refuse(s) => UNCHANGED <<exec, swapped>>
    BY DEF Repeat, Refuse, pdVars, logVars
  <2> QED BY <1>4, <2>1, Pushed, PoweredOff
<1>5. ASSUME NEW s \in Slaves, Process(s)
      PROVE  /\ \A t \in Slaves, m \in Cmds : Executed(t, m) => Executed(t, m)'
             /\ swapped \subseteq swapped'
  <2>1. swapped' = swapped
    BY <1>5 DEF Process, logVars
  <2>2. CASE ~sendmsg
    BY <1>1, <1>5, <2>1, <2>2, Processed
  <2>3. CASE sendmsg
    <3>1. /\ m_msglist[s] # << >>
          /\ exec' = [exec EXCEPT ![s] = Append(@, Head(m_msglist[s]))]
      BY <1>5, <2>3, Processed
    <3>2. Head(m_msglist[s]) \in Cmds
      BY <1>0, <3>1, Shortened
    <3>3. ASSUME NEW t \in Slaves, NEW m \in Cmds, Executed(t, m)
          PROVE  Executed(t, m)'
      <4>1. CASE t # s
        <5>1. exec'[t] = exec[t]
          BY <1>0, <3>1, <4>1
        <5> QED BY <3>3, <5>1 DEF Executed
      <4>2. CASE t = s
        <5>1. PICK i \in 1 .. Len(exec[s]) : exec[s][i] = m
          BY <3>3, <4>2 DEF Executed
        <5>2. exec[s] \in Seq(Cmds) /\ exec'[s] = Append(exec[s], Head(m_msglist[s]))
          BY <1>0, <3>1
        <5>3. /\ Len(exec[s]) \in Nat /\ Len(exec'[s]) = Len(exec[s]) + 1
              /\ \A k \in 1 .. Len(exec[s]) : exec'[s][k] = exec[s][k]
          BY <3>2, <5>2, Appended
        <5>4. i \in 1 .. Len(exec'[s]) /\ exec'[s][i] = m
          BY <5>1, <5>3
        <5> QED BY <4>2, <5>4 DEF Executed
      <4> QED BY <4>1, <4>2
    <3> QED BY <2>1, <3>3
  <2> QED BY <2>2, <2>3
<1> QED BY <1>1, <1>2, <1>3, <1>4, <1>5, StepKinds DEF Pd

\* The command that a PD processes is among those it has executed.
LEMMA NowExecuted ==
  ASSUME Base, FrameInv, NEW s \in Slaves, Process(s), sendmsg
  PROVE  Executed(s, tx.msg)'
<1>0. exec \in [Slaves -> Seq(Cmds)] /\ m_msglist \in [Slaves -> Seq(Cmds)]
  BY Facts
<1>1. /\ m_msglist[s] # << >> /\ tx.msg = Head(m_msglist[s]) /\ tx' = tx
      /\ exec' = [exec EXCEPT ![s] = Append(@, tx.msg)]
  BY Processed, Heard DEF Pd
<1>2. tx.msg \in Cmds /\ exec[s] \in Seq(Cmds) /\ exec'[s] = Append(exec[s], tx.msg)
  BY <1>0, <1>1, Shortened
<1>3. /\ Len(exec[s]) \in Nat /\ Len(exec'[s]) = Len(exec[s]) + 1
      /\ exec'[s][Len(exec[s]) + 1] = tx.msg
  BY <1>2, Appended
<1>4. Len(exec[s]) + 1 \in 1 .. Len(exec'[s])
  BY <1>3
<1> QED BY <1>1, <1>3, <1>4 DEF Executed

\* The frame that a PD knows the number of is the one transmitted last.
LEMMA KnownStep ==
  ASSUME Base, ~Late, FrameInv, KnownFrames, BNext
  PROVE  KnownFrames'
<1> DEFINE p == m_poll_slave
<1>0. /\ p \in Slaves /\ m_txseq \in [Slaves -> 0 .. 3] /\ POLL \notin Cmds
      /\ pd_last \in [Slaves -> SeqNos \cup {NoSeq}]
      /\ last \in [Slaves -> Frames \cup {NoFrame}]
  BY Facts
<1>1. /\ \A s \in Slaves, m \in Cmds : Executed(s, m) => Executed(s, m)'
      /\ swapped \subseteq swapped'
  BY StaysExecuted
\* A slave is as before if its number, its PD's and its last frame are.
<1>2. ASSUME NEW s \in Slaves, m_txseq'[s] = m_txseq[s], pd_last'[s] = pd_last[s],
             last'[s].seq = last[s].seq,
             last'[s].msg \in Cmds \ swapped' => last'[s].msg = last[s].msg,
             m_txseq'[s] # 0, pd_last'[s] = m_txseq'[s]
      PROVE  /\ last'[s].seq = m_txseq'[s]
             /\ last'[s].msg \in Cmds \ swapped' => Executed(s, last[s].msg)'
  <2>1. last[s].seq = m_txseq[s] /\ (last[s].msg \in Cmds \ swapped => Executed(s, last[s].msg))
    BY <1>2 DEF KnownFrames
  <2>2. ASSUME last'[s].msg \in Cmds \ swapped'
        PROVE  Executed(s, last[s].msg)'
    <3>1. PICK m \in Cmds : m = last[s].msg /\ m = last'[s].msg /\ m \notin swapped
      BY <1>1, <1>2, <2>2
    <3>2. Executed(s, m)'
      BY <1>1, <2>1, <3>1
    <3> QED BY <3>1, <3>2 DEF Executed
  <2> QED BY <1>2, <2>1, <2>2
<1>3. ASSUME \A s \in Slaves :
               \/ m_txseq'[s] = 0 \/ pd_last'[s] # m_txseq'[s]
               \/ /\ m_txseq'[s] = m_txseq[s] /\ pd_last'[s] = pd_last[s]
                  /\ last'[s].seq = last[s].seq
                  /\ last'[s].msg \in Cmds \ swapped' => last'[s].msg = last[s].msg
      PROVE  KnownFrames'
  <2> SUFFICES ASSUME NEW s \in Slaves, m_txseq'[s] # 0, pd_last'[s] = m_txseq'[s]
               PROVE  /\ last'[s].seq = m_txseq'[s]
                      /\ last'[s].msg \in Cmds \ swapped' => Executed(s, last[s].msg)'
    BY DEF KnownFrames, Executed
  <2> QED BY <1>2, <1>3
<1>4. CASE Quiet \/ Purge \/ BPublishOnline
  BY <1>3, <1>4, Purged, OnlinePublished DEF Quiet, dataVars
<1>5. CASE BTransmit
  <2>1. /\ tx'.seq = m_txseq[p] /\ last' = [last EXCEPT ![p] = tx']
        /\ UNCHANGED <<m_txseq, pd_last>>
        /\ sendmsg' <=> tx'.msg # POLL
        /\ swapped' = IF sendmsg' /\ Swaps(p, tx') THEN swapped \cup {tx'.msg} ELSE swapped
    BY <1>5, Transmitted
  <2>2. ASSUME m_txseq[p] # 0, pd_last[p] = m_txseq[p]
        PROVE  /\ last'[p].seq = last[p].seq
               /\ last'[p].msg \in Cmds \ swapped' => last'[p].msg = last[p].msg
    <3>1. last[p].seq = m_txseq[p] /\ last'[p] = tx'
      BY <1>0, <2>1, <2>2 DEF KnownFrames
    <3> QED BY <1>0, <2>1, <3>1 DEF Swaps
  <2>3. \A s \in Slaves : s # p => last'[s] = last[s]
    BY <1>0, <2>1
  <2> QED BY <1>3, <2>1, <2>2, <2>3
<1>6. CASE Refusal
  <2>1. /\ m_txseq' \in {m_txseq, [m_txseq EXCEPT ![p] = 0]} /\ UNCHANGED <<pd_last, last>>
    BY <1>6, RefusalTaken
  <2>2. \A s \in Slaves : m_txseq'[s] \in {0, m_txseq[s]}
    BY <1>0, <2>1
  <2> QED BY <1>3, <2>1, <2>2
<1>7. CASE Acceptance
  <2>1. /\ m_txseq' = [m_txseq EXCEPT ![p] = next_seq(@)] /\ UNCHANGED <<pd_last, last>>
        /\ m_txseq'[p] # 0 /\ m_txseq'[p] # m_txseq[p] /\ pd_last[p] \in {NoSeq, m_txseq[p]}
    BY <1>7, Accepted
  <2>2. m_txseq'[p] # NoSeq
    BY <1>0, <2>1 DEF next_seq, NoSeq
  <2>3. \A s \in Slaves : s # p => m_txseq'[s] = m_txseq[s]
    BY <1>0, <2>1
  <2> QED BY <1>3, <2>1, <2>2, <2>3
<1>8. ASSUME NEW s \in Slaves, Push(s)
      PROVE  KnownFrames'
  BY <1>3, <1>8, Pushed
<1>9. ASSUME NEW s \in Slaves, Pd(s)
      PROVE  KnownFrames'
  <2>0. /\ s = p /\ pc = "read" /\ down.seq = m_txseq[s] /\ tx.seq = m_txseq[s]
        /\ UNCHANGED <<m_txseq, last, swapped, tx, sendmsg>>
    BY <1>9, Heard
  <2>1. CASE Repeat(s)
    <3>1. /\ down.seq = pd_last[s] \/ down.seq = 0
          /\ pd_last' = [pd_last EXCEPT ![s] = down.seq]
      BY <2>1 DEF Repeat
    <3>2. /\ m_txseq[s] # 0 => pd_last'[s] = pd_last[s]
          /\ \A t \in Slaves : t # s => pd_last'[t] = pd_last[t]
      BY <1>0, <2>0, <3>1
    <3> QED BY <1>3, <2>0, <3>2
  <2>2. CASE Process(s)
    <3>1. pd_last' = [pd_last EXCEPT ![s] = m_txseq[s]]
      BY <2>2, Processed
    <3>2. last[s] = tx /\ (sendmsg <=> tx.msg # POLL)
      BY <2>0 DEF FrameInv
    <3>3. sendmsg => Executed(s, tx.msg)'
      BY <2>2, NowExecuted
    <3>4. ASSUME NEW t \in Slaves, m_txseq'[t] # 0, pd_last'[t] = m_txseq'[t]
          PROVE  /\ last'[t].seq = m_txseq'[t]
                 /\ last'[t].msg \in Cmds \ swapped' => Executed(t, last[t].msg)'
      <4>1. CASE t = s
        <5>1. last'[s] = tx /\ (tx.msg \in Cmds => sendmsg)
          BY <1>0, <2>0, <3>2
        <5> QED BY <2>0, <3>3, <4>1, <5>1 DEF Executed
      <4>2. CASE t # s
        <5>1. pd_last'[t] = pd_last[t]
          BY <1>0, <3>1, <4>2
        <5> QED BY <1>2, <2>0, <3>4, <5>1
      <4> QED BY <4>1, <4>2
    <3> QED BY <3>4 DEF KnownFrames, Executed
  <2>3. CASE Refuse(s)
    <3>1. pd_last' = pd_last
      BY <2>3 DEF Refuse, pdVars
    <3> QED BY <1>3, <2>0, <3>1
  <2> QED BY <1>9, <2>1, <2>2, <2>3 DEF Pd
<1>10. ASSUME NEW s \in Slaves, PowerOff(s)
       PROVE  KnownFrames'
  <2>1. pd_last' = [pd_last EXCEPT ![s] = NoSeq] /\ UNCHANGED <<m_txseq, last>>
    BY <1>10, PoweredOff
  <2>2. \A t \in Slaves : pd_last'[t] = pd_last[t] \/ pd_last'[t] # m_txseq'[t]
    BY <1>0, <2>1 DEF NoSeq
  <2> QED BY <1>3, <2>1, <2>2
<1> QED BY <1>4, <1>5, <1>6, <1>7, <1>8, <1>9, <1>10, StepKinds

\* A reply that is no refusal means that the command was executed.
LEMMA RepliesStep ==
  ASSUME Base, Base', ~Late, FrameInv, KnownFrames, ZeroSwaps, RepliesMean, BNext
  PROVE  ZeroSwaps' /\ RepliesMean'
<1> DEFINE p == m_poll_slave
<1>0. /\ p \in Slaves /\ m_txseq \in [Slaves -> 0 .. 3] /\ POLL \notin Cmds
      /\ LineInv /\ LineInv' /\ m_msglist \in [Slaves -> Seq(Cmds)]
  BY Facts DEF Base, BInv
<1>1. ASSUME pc' # "read"
      PROVE  ZeroSwaps' /\ RepliesMean'
  BY <1>0, <1>1 DEF ZeroSwaps, RepliesMean, LineInv
<1>2. ASSUME UNCHANGED <<pc, p, tx, sendmsg, exec, swapped>>, up' \in {up, << >>}
      PROVE  ZeroSwaps' /\ RepliesMean'
  BY <1>2 DEF ZeroSwaps, RepliesMean, Executed
<1>3. CASE Quiet
  BY <1>1, <1>2, <1>3 DEF Quiet, dataVars
<1>4. CASE Purge \/ Refusal \/ Acceptance \/ BPublishOnline
  <2>1. pc' # "read"
    BY <1>4, Purged, RefusalTaken, Accepted, OnlinePublished
  <2> QED BY <1>1, <2>1
<1>5. CASE BTransmit
  BY <1>5, Transmitted DEF ZeroSwaps, RepliesMean, Swaps
<1>6. ASSUME NEW s \in Slaves, Push(s) \/ PowerOff(s)
      PROVE  ZeroSwaps' /\ RepliesMean'
  BY <1>2, <1>6, Pushed, PoweredOff
<1>7. ASSUME NEW s \in Slaves, Pd(s)
      PROVE  ZeroSwaps' /\ RepliesMean'
  <2>0. /\ s = p /\ pc = "read" /\ down.seq = m_txseq[s] /\ tx.seq = m_txseq[s]
        /\ UNCHANGED <<p, tx, sendmsg, pc, swapped>>
    BY <1>7, Heard
  <2>1. ZeroSwaps'
    BY <2>0 DEF ZeroSwaps
  <2>2. CASE Repeat(s)
    <3>1. (down.seq = pd_last[s] \/ down.seq = 0) /\ exec' = exec
      BY <2>2 DEF Repeat
    <3>2. last[s] = tx /\ (sendmsg <=> tx.msg # POLL)
      BY <2>0 DEF FrameInv
    <3>3. sendmsg => tx.msg \in Cmds
      <4>1. sendmsg => m_msglist[s] # << >> /\ Head(m_msglist[s]) = tx.msg
        BY <2>0, Facts DEF PopsWhatWasSent
      <4> QED BY <1>0, <4>1, Shortened
    <3>4. sendmsg /\ tx.msg \notin swapped => Executed(s, tx.msg)
      <4>1. CASE m_txseq[s] = 0
        BY <2>0, <4>1 DEF ZeroSwaps
      <4>2. CASE m_txseq[s] # 0
        BY <2>0, <3>1, <3>2, <3>3, <4>2 DEF KnownFrames
      <4> QED BY <4>1, <4>2
    <3> QED BY <2>0, <2>1, <3>1, <3>4 DEF RepliesMean, Executed
  <2>3. CASE Process(s)
    <3>1. sendmsg => Executed(s, tx.msg)'
      BY <2>3, NowExecuted
    <3> QED BY <2>0, <2>1, <3>1 DEF RepliesMean, Executed
  <2>4. CASE Refuse(s)
    <3>1. Refusing(up'[1])
      BY <1>7, <2>4, Heard
    <3> QED BY <2>1, <3>1 DEF RepliesMean, Refusing
  <2> QED BY <1>7, <2>2, <2>3, <2>4 DEF Pd
<1> QED BY <1>3, <1>4, <1>5, <1>6, <1>7, StepKinds

\* Only an executed command is acknowledged.
LEMMA AckStep ==
  ASSUME Base, Base', ~Late, FrameInv, AckInv, BNext
  PROVE  AckInv'
<1>1. KnownFrames /\ ZeroSwaps /\ RepliesMean /\ AckedExecuted
  BY DEF AckInv
<1>2. KnownFrames' /\ ZeroSwaps' /\ RepliesMean'
  BY <1>1, KnownStep, RepliesStep
<1>3. AckedExecuted'
  <2>0. acked \in SUBSET Cmds /\ acked' \in SUBSET Cmds /\ m_poll_slave \in Slaves
    BY Facts DEF Base, EnvTypes, LogTypes
  <2>1. /\ \A s \in Slaves, m \in Cmds : Executed(s, m) => Executed(s, m)'
        /\ swapped \subseteq swapped'
    BY StaysExecuted
  <2>2. \A m \in acked \ swapped : \E s \in Slaves : Executed(s, m)
    BY <1>1 DEF AckedExecuted, Executed
  <2>3. CASE acked' = acked
    <3>1. \A m \in acked' \ swapped' : \E s \in Slaves : Executed(s, m)'
      BY <2>0, <2>1, <2>2, <2>3
    <3> QED BY <3>1 DEF AckedExecuted, Executed
  <2>4. CASE Acceptance /\ sendmsg
    <3>1. /\ acked' = acked \cup {tx.msg} /\ UNCHANGED <<swapped, exec>>
          /\ up # << >> /\ ~Refusing(up[1])
      BY <2>4, Accepted
    <3>2. tx.msg \notin swapped => Executed(m_poll_slave, tx.msg)
      BY <1>1, <2>4, <3>1 DEF RepliesMean
    <3>3. \A m \in acked' \ swapped' : \E s \in Slaves : Executed(s, m)
      BY <2>0, <2>2, <3>1, <3>2
    <3> QED BY <3>1, <3>3 DEF AckedExecuted, Executed
  <2>5. acked' = acked \/ (Acceptance /\ sendmsg)
    <3>1. ASSUME NEW s \in Slaves, Push(s) \/ Pd(s) \/ PowerOff(s)
          PROVE  acked' = acked
      BY <3>1, Pushed, Heard, PoweredOff
    <3>2. CASE Quiet \/ Purge \/ BTransmit \/ Refusal \/ BPublishOnline
      BY <3>2, Purged, Transmitted, RefusalTaken, OnlinePublished DEF Quiet, dataVars
    <3>3. Acceptance /\ ~sendmsg => acked' = acked
      BY Accepted
    <3> QED BY <3>1, <3>2, <3>3, StepKinds
  <2> QED BY <2>3, <2>4, <2>5
<1> QED BY <1>2, <1>3 DEF AckInv

\* The event that a PD keeps is published, or will be before the master advances.
LEMMA KeptStep ==
  ASSUME Base, ~Late, FrameInv, \A s \in Slaves : Kept(s), BNext
  PROVE  \A s \in Slaves : Kept(s)'
<1> DEFINE p == m_poll_slave
<1>0. /\ p \in Slaves /\ m_txseq \in [Slaves -> 0 .. 3] /\ LineInv
      /\ pd_last \in [Slaves -> SeqNos \cup {NoSeq}]
      /\ pd_reply \in [Slaves -> PdReplies] /\ incoming \in [Slaves -> SUBSET Events]
      /\ pd_reboots \in [Slaves -> 0 .. MaxReboots] /\ MaxReboots \in Nat
  BY Facts, BoundsAssumption
\* A slave that the step does not concern.
<1>1. ASSUME NEW s \in Slaves, pc # "ackpub" \/ s # p, m_txseq'[s] = m_txseq[s],
             pd_last'[s] = pd_last[s], pd_reply'[s] = pd_reply[s],
             incoming'[s] = incoming[s], pd_reboots'[s] = pd_reboots[s]
      PROVE  Kept(s)'
  BY <1>1 DEF Kept
<1>2. CASE Quiet
  <2>1. CASE UNCHANGED <<pc, m_poll_slave, tx, sendmsg, inbuf, m_retry>>
    BY <1>2, <2>1 DEF Quiet, dataVars, Kept
  <2>2. CASE pc # "ackpub"
    BY <1>1, <1>2, <2>2 DEF Quiet, dataVars
  <2> QED BY <1>2, <2>1, <2>2 DEF Quiet
<1>3. CASE Purge \/ BTransmit
  BY <1>1, <1>3, Purged, Transmitted
<1>4. CASE Refusal
  <2>1. /\ pc = "read" /\ up # << >> /\ Refusing(up[1])
        /\ m_txseq' \in {m_txseq, [m_txseq EXCEPT ![p] = 0]}
        /\ UNCHANGED <<incoming, pd_reply, pd_last, pd_reboots, m_poll_slave>>
    BY <1>4, RefusalTaken
  <2>2. pd_last[p] # m_txseq[p]
    BY <1>0, <2>1 DEF FrameInv, LineInv
  <2>3. \A s \in Slaves : s = p => Kept(s)'
    BY <1>0, <2>1, <2>2 DEF Kept
  <2>4. \A s \in Slaves : s # p => m_txseq'[s] = m_txseq[s]
    BY <1>0, <2>1
  <2>5. \A s \in Slaves : s # p => Kept(s)'
    BY <1>1, <2>1, <2>4
  <2> QED BY <2>3, <2>5
<1>5. CASE Acceptance
  <2>1. /\ pc = "read" /\ up # << >> /\ ~Refusing(up[1])
        /\ m_txseq' = [m_txseq EXCEPT ![p] = next_seq(@)]
        /\ \/ pc' = "ackpub" /\ inbuf' = up[1].event /\ incoming' = incoming
           \/ publish(p, up[1].event)
        /\ UNCHANGED <<pd_reply, pd_last, pd_reboots, m_poll_slave>>
    BY <1>5, Accepted
  <2>2. up[1].event = pd_reply[p].event
    BY <2>1 DEF FrameInv
  <2>3. \A s \in Slaves : s = p => Kept(s)'
    BY <1>0, <2>1, <2>2 DEF Kept, publish
  <2>4. \A s \in Slaves : s # p => m_txseq'[s] = m_txseq[s] /\ incoming'[s] = incoming[s]
    BY <1>0, <2>1 DEF publish
  <2>5. \A s \in Slaves : s # p => Kept(s)'
    BY <1>1, <2>1, <2>4
  <2> QED BY <2>3, <2>5
<1>6. CASE BPublishOnline
  <2>1. /\ pc = "ackpub" /\ publish(p, inbuf)
        /\ UNCHANGED <<m_txseq, pd_reply, pd_last, pd_reboots, m_poll_slave>>
    BY <1>6, OnlinePublished
  <2>2. \A s \in Slaves : s = p => Kept(s)'
    BY <1>0, <2>1 DEF Kept, publish
  <2>3. \A s \in Slaves : s # p => incoming'[s] = incoming[s]
    BY <1>0, <2>1 DEF publish
  <2>4. \A s \in Slaves : s # p => Kept(s)'
    BY <1>1, <2>1, <2>3
  <2> QED BY <2>2, <2>4
<1>7. ASSUME NEW t \in Slaves, Push(t)
      PROVE  \A s \in Slaves : Kept(s)'
  BY <1>7, Pushed DEF Kept
<1>8. ASSUME NEW t \in Slaves, Pd(t)
      PROVE  \A s \in Slaves : Kept(s)'
  <2>1. /\ pc = "read" /\ down.seq = m_txseq[t]
        /\ UNCHANGED <<m_txseq, incoming, pd_reboots>>
    BY <1>8, Heard
  <2>2. CASE Refuse(t)
    BY <1>1, <2>1, <2>2 DEF Refuse, pdVars
  <2>3. CASE Repeat(t) \/ Process(t)
    <3>1. /\ pd_last' = [pd_last EXCEPT ![t] = m_txseq[t]]
          /\ \A s \in Slaves : s # t => pd_reply'[s] = pd_reply[s]
      BY <1>0, <2>1, <2>3 DEF Repeat, Process
    <3>2. Kept(t)'
      BY <1>0, <2>1, <3>1 DEF Kept
    <3>3. \A s \in Slaves : s # t => pd_last'[s] = pd_last[s]
      BY <1>0, <3>1
    <3>4. \A s \in Slaves : s # t => Kept(s)'
      BY <1>1, <2>1, <3>1, <3>3
    <3> QED BY <3>2, <3>4
  <2> QED BY <1>8, <2>2, <2>3 DEF Pd
<1>9. ASSUME NEW t \in Slaves, PowerOff(t)
      PROVE  \A s \in Slaves : Kept(s)'
  <2>1. /\ pd_last' = [pd_last EXCEPT ![t] = NoSeq] /\ pd_reboots'[t] > 0
        /\ pd_reboots' = [pd_reboots EXCEPT ![t] = @ + 1]
        /\ UNCHANGED <<m_txseq, incoming, pd_reply, inbuf, pc, m_poll_slave>>
    BY <1>9, PoweredOff
  <2>2. \A s \in Slaves : s # t => pd_last'[s] = pd_last[s] /\ pd_reboots'[s] = pd_reboots[s]
    BY <1>0, <2>1
  <2> QED BY <1>0, <2>1, <2>2 DEF Kept
<1> QED BY <1>2, <1>3, <1>4, <1>5, <1>6, <1>7, <1>8, <1>9, StepKinds

\* No event is lost: a PD makes a new one only when the last is published.
LEMMA EventStep ==
  ASSUME Base, ~Late, FrameInv, EventInv, BNext
  PROVE  EventInv'
<1>0. /\ m_poll_slave \in Slaves /\ pd_reply \in [Slaves -> PdReplies]
      /\ pd_event \in [Slaves -> 0 .. MaxEvents] /\ incoming \in [Slaves -> SUBSET Events]
      /\ pd_reboots \in [Slaves -> 0 .. MaxReboots] /\ MaxReboots \in Nat
      /\ MaxEvents \in Nat
  BY Facts, BoundsAssumption
<1>1. NoEventLost /\ \A s \in Slaves : Kept(s)
  BY DEF EventInv
<1>2. \A s \in Slaves : Kept(s)'
  BY <1>1, KeptStep
<1>3. ASSUME UNCHANGED <<pd_event, pd_reply>>,
             \A s \in Slaves : incoming[s] \subseteq incoming'[s],
             \A s \in Slaves : pd_reboots'[s] = 0 => pd_reboots[s] = 0
      PROVE  NoEventLost'
  <2>1. ASSUME NEW s \in Slaves, pd_reboots'[s] = 0
        PROVE  1 .. pd_event'[s] \subseteq incoming'[s] \cup {pd_reply'[s].event}
    <3>1. 1 .. pd_event[s] \subseteq incoming[s] \cup {pd_reply[s].event}
      BY <1>1, <1>3, <2>1 DEF NoEventLost
    <3>2. incoming[s] \subseteq incoming'[s]
      BY <1>3
    <3>3. pd_event'[s] = pd_event[s] /\ pd_reply'[s].event = pd_reply[s].event
      BY <1>3
    <3> QED BY <3>1, <3>2, <3>3
  <2> QED BY <2>1 DEF NoEventLost
<1>4. ASSUME Quiet \/ Purge \/ BTransmit \/ Refusal
      PROVE  NoEventLost'
  <2>1. UNCHANGED <<pd_event, pd_reply, incoming, pd_reboots>>
    BY <1>4, Purged, Transmitted, RefusalTaken DEF Quiet, dataVars
  <2>2. \A s \in Slaves : incoming[s] \subseteq incoming'[s]
    BY <2>1
  <2>3. \A s \in Slaves : pd_reboots'[s] = 0 => pd_reboots[s] = 0
    BY <2>1
  <2> QED BY <1>3, <2>1, <2>2, <2>3
<1>5. ASSUME Acceptance \/ BPublishOnline
      PROVE  NoEventLost'
  <2>1. /\ UNCHANGED <<pd_event, pd_reply, pd_reboots>>
        /\ incoming' = incoming \/ \E e : publish(m_poll_slave, e)
    BY <1>5, Accepted, OnlinePublished
  <2>2. \A s \in Slaves : incoming[s] \subseteq incoming'[s]
    BY <1>0, <2>1 DEF publish
  <2>3. \A s \in Slaves : pd_reboots'[s] = 0 => pd_reboots[s] = 0
    BY <2>1
  <2> QED BY <1>3, <2>1, <2>2, <2>3
<1>7. ASSUME NEW s \in Slaves, Push(s) \/ Repeat(s) \/ Refuse(s)
      PROVE  NoEventLost'
  <2>1. Repeat(s) \/ Refuse(s) => UNCHANGED <<pd_event, pd_reply, incoming, pd_reboots>>
    BY DEF Repeat, Refuse, pdVars, logVars
  <2> QED BY <1>3, <1>7, <2>1, Pushed
<1>8. ASSUME NEW s \in Slaves, PowerOff(s)
      PROVE  NoEventLost'
  <2>1. /\ pd_reboots' = [pd_reboots EXCEPT ![s] = @ + 1]
        /\ UNCHANGED <<pd_event, pd_reply, incoming>>
    BY <1>8, PoweredOff
  <2>2. \A t \in Slaves : pd_reboots'[t] = 0 => pd_reboots[t] = 0
    BY <1>0, <2>1
  <2> QED BY <1>3, <2>1, <2>2
<1>9. ASSUME NEW s \in Slaves, Process(s)
      PROVE  NoEventLost'
  <2>1. /\ pc = "read" /\ UNCHANGED <<incoming, pd_reboots>>
    BY <1>9, Heard DEF Pd
  <2>2. /\ pd_last[s] # m_txseq[s]
        /\ \/ /\ pd_reply' = [pd_reply EXCEPT ![s] = [code |-> "ACK", event |-> 0]]
              /\ pd_event' = pd_event
           \/ /\ pd_event' = [pd_event EXCEPT ![s] = @ + 1]
              /\ pd_reply' = [pd_reply EXCEPT ![s] =
                                [code |-> "DATA", event |-> pd_event[s] + 1]]
    BY <1>9, Processed
  <2>3. ASSUME pd_reboots[s] = 0
        PROVE  1 .. pd_event[s] \subseteq incoming[s]
    <3>1. pd_reply[s].event \in incoming[s] \cup {0}
      BY <1>1, <2>1, <2>2, <2>3 DEF Kept
    <3>2. 1 .. pd_event[s] \subseteq incoming[s] \cup {pd_reply[s].event}
      BY <1>1, <2>3 DEF NoEventLost
    <3> QED BY <1>0, <3>1, <3>2
  <2>4. /\ pd_event'[s] \in {pd_event[s], pd_event[s] + 1}
        /\ pd_event'[s] = pd_event[s] + 1 => pd_reply'[s].event = pd_event[s] + 1
    BY <1>0, <2>2
  <2>5. pd_reboots'[s] = 0 =>
          1 .. pd_event'[s] \subseteq incoming'[s] \cup {pd_reply'[s].event}
    BY <1>0, <2>1, <2>3, <2>4
  <2>6. \A t \in Slaves : t # s => pd_event'[t] = pd_event[t] /\ pd_reply'[t] = pd_reply[t]
    BY <1>0, <2>2
  <2>7. ASSUME NEW t \in Slaves, t # s, pd_reboots'[t] = 0
        PROVE  1 .. pd_event'[t] \subseteq incoming'[t] \cup {pd_reply'[t].event}
    <3>1. 1 .. pd_event[t] \subseteq incoming[t] \cup {pd_reply[t].event}
      BY <1>1, <2>1, <2>7 DEF NoEventLost
    <3> QED BY <2>1, <2>6, <2>7, <3>1
  <2>8. ASSUME NEW t \in Slaves, pd_reboots'[t] = 0
        PROVE  1 .. pd_event'[t] \subseteq incoming'[t] \cup {pd_reply'[t].event}
    BY <2>5, <2>7, <2>8
  <2> QED BY <2>8 DEF NoEventLost
<1>10. NoEventLost'
  BY <1>4, <1>5, <1>7, <1>8, <1>9, StepKinds DEF Pd
<1> QED BY <1>2, <1>10 DEF EventInv

-----------------------------------------------------------------------------
(* The invariants and what they say *)

\* What is true of commands and events in every reachable state.
ChannelInv == CmdInv /\ AckInv /\ EventInv

LEMMA ChannelInvariant ==
  ASSUME ~Late
  PROVE  BSpec => [](Base /\ ChannelInv)
<1>1. BInit /\ Base => ChannelInv
  <2> SUFFICES ASSUME BInit, Base PROVE ChannelInv
    OBVIOUS
  <2>0. POLL \notin Cmds
    BY Facts
  <2>1. /\ pc = "open" /\ m_msglist = [s \in Slaves |-> << >>] /\ pushed = 0
        /\ m_txseq = [s \in Slaves |-> 0] /\ down = NoDown /\ up = << >>
        /\ pd_reply = [s \in Slaves |-> [code |-> "ACK", event |-> 0]]
        /\ pd_event = [s \in Slaves |-> 0] /\ exec = [s \in Slaves |-> << >>]
        /\ acked = {}
    BY Zenon DEF BInit, Init
  <2>2. FrameInv
    BY <2>1 DEF FrameInv, Refusing
  <2>3. \A s \in Slaves : m_msglist[s] = << >> /\ exec[s] = << >>
    BY <2>1
  <2>4. OrderInv /\ InOrderOnce
    BY <2>3 DEF OrderInv, Ordered, InOrderOnce
  <2>5. HeadInv
    BY <2>1, <2>3 DEF HeadInv, HeadExecuted, LastIsHead
  <2>6. AckInv
    BY <2>1 DEF AckInv, AckedExecuted, KnownFrames, ZeroSwaps, RepliesMean
  <2>7. EventInv
    <3>1. \A s \in Slaves : pd_reply[s].event = 0 /\ pd_event[s] = 0
      BY <2>1
    <3> QED BY <3>1 DEF EventInv, NoEventLost, Kept
  <2> QED BY <2>2, <2>4, <2>5, <2>6, <2>7 DEF ChannelInv, CmdInv
<1>2. Base /\ Base' /\ ChannelInv /\ [BNext]_bvars => ChannelInv'
  <2> SUFFICES ASSUME Base, Base', ChannelInv, [BNext]_bvars PROVE ChannelInv'
    OBVIOUS
  <2>1. CASE BNext
    <3>1. FrameInv /\ OrderInv /\ HeadInv /\ CmdInv /\ AckInv /\ EventInv
      BY DEF ChannelInv, CmdInv
    <3>2. FrameInv' /\ OrderInv' /\ HeadInv' /\ InOrderOnce'
      BY <2>1, <3>1, FrameStep, OrderStep, HeadStep, InOrderStep
    <3>3. AckInv' /\ EventInv'
      BY <2>1, <3>1, AckStep, EventStep
    <3> QED BY <3>2, <3>3 DEF ChannelInv, CmdInv
  <2>2. CASE UNCHANGED bvars
    <3>1. /\ UNCHANGED <<pc, m_poll_slave, tx, sendmsg, m_retry, m_msglist, m_txseq, pushed>>
          /\ UNCHANGED <<down, up, inbuf, pd_last, pd_reply, pd_event, pd_reboots, exec, acked,
                         swapped, incoming, last>>
      BY <2>2 DEF bvars, vars, slaveVars, busVars, busEnv, lineVars, logVars, pdVars
    <3>2. CmdInv'
      BY <3>1 DEF ChannelInv, CmdInv, FrameInv, OrderInv, HeadInv, HeadExecuted, InOrderOnce,
                  offline
    <3>3. AckInv'
      BY <3>1 DEF ChannelInv, AckInv, AckedExecuted, KnownFrames, ZeroSwaps, RepliesMean,
                  Executed
    <3>4. EventInv'
      BY <3>1 DEF ChannelInv, EventInv, NoEventLost, Kept
    <3> QED BY <3>2, <3>3, <3>4 DEF ChannelInv
  <2> QED BY <2>1, <2>2
<1>3. BSpec => []Base
  <2>1. BInv /\ IInv /\ EnvTypes => Base
    BY DEF Base
  <2> QED BY <2>1, BusInvariant, TypeInvariant, PTL
<1> QED BY <1>1, <1>2, <1>3, PTL DEF BSpec

\* On a line without late replies a PD executes commands in the order in which they
\* arrived over MQTT, and none twice, whatever is lost, damaged or refused, as long as
\* it keeps its memory.
THEOREM CommandsInOrderOnce ==
  ASSUME ~Late
  PROVE  BSpec => []InOrderOnce
<1>1. ChannelInv => InOrderOnce
  BY DEF ChannelInv, CmdInv
<1> QED BY <1>1, ChannelInvariant, PTL

\* A command that slave_poll pops because its reply was accepted has been executed,
\* unless its frame took the place of another one.
THEOREM AcknowledgedWasExecuted ==
  ASSUME ~Late
  PROVE  BSpec => []AckedExecuted
<1>1. ChannelInv => AckedExecuted
  BY DEF ChannelInv, AckInv
<1> QED BY <1>1, ChannelInvariant, PTL

\* An event that a PD reports is published on osdp/bus1/incoming or is still the PD's last
\* reply, which it sends again.
THEOREM EventsAreKept ==
  ASSUME ~Late
  PROVE  BSpec => []NoEventLost
<1>1. ChannelInv => NoEventLost
  BY DEF ChannelInv, EventInv
<1> QED BY <1>1, ChannelInvariant, PTL

-----------------------------------------------------------------------------
(* OsdpBus implements CommandChannel *)

\* The commands of a queue that wait to be executed, and the PDs that do not know what
\* they executed last: pending and amnesia of CommandChannel.
Rest(q, e) == IF LastIsHead(q, e) THEN Tail(q) ELSE q
Waiting == [s \in Slaves |-> Rest(m_msglist[s], exec[s])]
Forgot == [s \in Slaves |-> pd_last[s] = NoSeq]

LEMMA Mapping ==
  /\ [s \in Slaves |-> Unexecuted(s)] = Waiting
  /\ [s \in Slaves |-> Unexecuted(s)]' = Waiting'
  /\ [s \in Slaves |-> pd_last[s] = NoSeq] = Forgot
  /\ [s \in Slaves |-> pd_last[s] = NoSeq]' = Forgot'
<1>1. \A s \in Slaves : Unexecuted(s) = Rest(m_msglist[s], exec[s])
  BY DEF Unexecuted, Rest, LastIsHead
<1>2. \A s \in Slaves : Unexecuted(s)' = Rest(m_msglist[s], exec[s])'
  BY DEF Unexecuted, Rest, LastIsHead
<1>3. [s \in Slaves |-> Unexecuted(s)] = Waiting
  BY <1>1 DEF Waiting
<1>4. [s \in Slaves |-> Unexecuted(s)]' = Waiting'
  BY <1>2 DEF Waiting
<1>5. [s \in Slaves |-> pd_last[s] = NoSeq] = Forgot
  BY DEF Forgot
<1>6. [s \in Slaves |-> pd_last[s] = NoSeq]' = Forgot'
  BY DEF Forgot
<1> QED BY <1>3, <1>4, <1>5, <1>6

\* A command that arrives waits.
LEMMA RestPush ==
  ASSUME NEW S, S \subseteq Nat, NEW q \in Seq(S), NEW e \in Seq(S), NEW n \in Nat,
         n + 1 \in S, Ordered(q, e, n)
  PROVE  Rest(Append(q, n + 1), e) = Append(Rest(q, e), n + 1)
<1>1. LastIsHead(Append(q, n + 1), e) <=> LastIsHead(q, e)
  BY OrderedPush
<1>2. q # << >> => Tail(Append(q, n + 1)) = Append(Tail(q), n + 1)
  BY HeadTailAppend
<1> QED BY <1>1, <1>2 DEF Rest, LastIsHead

\* A slave has forgotten or not.
LEMMA ForgotOf ==
  /\ \A s \in Slaves : Forgot[s] <=> pd_last[s] = NoSeq
  /\ pd_last' = pd_last => Forgot' = Forgot
BY DEF Forgot

LEMMA ForgotChange ==
  ASSUME NEW s \in Slaves, NEW v, pd_last \in [Slaves -> SeqNos \cup {NoSeq}],
         pd_last' = [pd_last EXCEPT ![s] = v]
  PROVE  /\ v # NoSeq => Forgot' = [Forgot EXCEPT ![s] = FALSE]
         /\ v = NoSeq => Forgot' = [Forgot EXCEPT ![s] = TRUE]
         /\ (v = NoSeq <=> pd_last[s] = NoSeq) => Forgot' = Forgot
<1>1. /\ pd_last'[s] = v
      /\ \A t \in Slaves : t # s => pd_last'[t] = pd_last[t]
  OBVIOUS
<1> QED BY <1>1 DEF Forgot

\* A step of the channel, or none.
LEMMA Idle ==
  ASSUME UNCHANGED <<pushed, exec, Waiting, Forgot>>
  PROVE  UNCHANGED Channel!chVars
BY Mapping DEF Channel!chVars

LEMMA GivenUp ==
  ASSUME NEW s \in Slaves, Waiting[s] # << >>,
         \/ Waiting' = [Waiting EXCEPT ![s] = Tail(@)]
         \/ Waiting' = [Waiting EXCEPT ![s] = << >>],
         UNCHANGED <<pushed, exec, Forgot>>
  PROVE  Channel!ChNext
<1>1. Channel!GiveUp(s)
  BY Mapping DEF Channel!GiveUp
<1> QED BY <1>1 DEF Channel!ChNext

LEMMA Executes ==
  ASSUME NEW s \in Slaves, Forgot' = [Forgot EXCEPT ![s] = FALSE], UNCHANGED pushed,
         \/ /\ Waiting[s] # << >> /\ Waiting' = [Waiting EXCEPT ![s] = Tail(@)]
            /\ exec' = [exec EXCEPT ![s] = Append(@, Head(Waiting[s]))]
         \/ /\ Forgot[s] /\ exec[s] # << >> /\ UNCHANGED Waiting
            /\ exec' = [exec EXCEPT ![s] = Append(@, exec[s][Len(exec[s])])]
         \/ /\ Forgot[s] /\ UNCHANGED <<exec, Waiting>>
  PROVE  Channel!ChNext
<1>1. Channel!Execute(s) \/ Channel!ExecuteAgain(s) \/ Channel!Remember(s)
  BY Mapping DEF Channel!Execute, Channel!ExecuteAgain, Channel!Remember
<1> QED BY <1>1 DEF Channel!ChNext

\* Every step of the bus is a step of the channel or leaves it alone.
LEMMA ChannelStep ==
  ASSUME Base, Base', ~Late, CmdInv, BNext
  PROVE  [Channel!ChNext]_(Channel!chVars)
<1> DEFINE p == m_poll_slave
<1>0. /\ p \in Slaves /\ pushed \in Nat /\ Cmds \subseteq Nat
      /\ m_msglist \in [Slaves -> Seq(Cmds)] /\ exec \in [Slaves -> Seq(Cmds)]
      /\ m_txseq \in [Slaves -> 0 .. 3] /\ pd_last \in [Slaves -> SeqNos \cup {NoSeq}]
      /\ \A s \in Slaves : /\ m_msglist[s] \in Seq(Cmds) /\ exec[s] \in Seq(Cmds)
                           /\ Ordered(m_msglist[s], exec[s], pushed)
                           /\ Waiting[s] = Rest(m_msglist[s], exec[s])
  BY Facts DEF CmdInv, OrderInv, Waiting
<1>1. ASSUME UNCHANGED <<m_msglist, exec, pushed, pd_last>>
      PROVE  UNCHANGED Channel!chVars
  <2>1. UNCHANGED <<pushed, exec, Waiting, Forgot>>
    BY <1>1, ForgotOf DEF Waiting
  <2> QED BY <2>1, Idle
<1>2. CASE Quiet \/ BTransmit \/ Refusal \/ BPublishOnline
  BY <1>1, <1>2, Transmitted, RefusalTaken, OnlinePublished DEF Quiet, dataVars
<1>3. CASE Purge
  <2>1. /\ m_msglist' = [m_msglist EXCEPT ![p] = << >>]
        /\ UNCHANGED <<exec, pushed, pd_last>>
    BY <1>3, Purged
  <2>2. Waiting' = [Waiting EXCEPT ![p] = << >>]
    BY <1>0, <2>1 DEF Waiting, Rest, LastIsHead
  <2>3. UNCHANGED Forgot
    BY <2>1, ForgotOf
  <2>4. CASE Waiting[p] = << >>
    <3>1. Waiting' = Waiting
      BY <1>0, <2>2, <2>4 DEF Waiting
    <3> QED BY <2>1, <2>3, <3>1, Idle
  <2>5. CASE Waiting[p] # << >>
    BY <1>0, <2>1, <2>2, <2>3, <2>5, GivenUp
  <2> QED BY <2>4, <2>5
<1>4. CASE Acceptance
  <2>1. UNCHANGED <<exec, pushed, pd_last>>
    BY <1>4, Accepted
  <2>2. CASE ~sendmsg
    BY <1>1, <1>4, <2>1, <2>2, Accepted
  <2>3. CASE sendmsg
    <3>1. m_msglist[p] # << >> /\ m_msglist' = [m_msglist EXCEPT ![p] = Tail(@)]
      BY <1>4, <2>3, Accepted
    <3>2. Rest(Tail(m_msglist[p]), exec[p]) = Tail(m_msglist[p])
      <4>1. ~LastIsHead(Tail(m_msglist[p]), exec[p])
        BY <1>0, <3>1, OrderedPop
      <4> QED BY <4>1 DEF Rest
    <3>3. Waiting' = [Waiting EXCEPT ![p] = Tail(m_msglist[p])]
      BY <1>0, <2>1, <3>1, <3>2 DEF Waiting
    <3>4. UNCHANGED Forgot
      BY <2>1, ForgotOf
    <3>5. CASE HeadExecuted(p)
      <4>1. Waiting[p] = Tail(m_msglist[p])
        BY <1>0, <3>5 DEF Rest, HeadExecuted
      <4>2. Waiting' = Waiting
        BY <1>0, <3>3, <4>1 DEF Waiting
      <4> QED BY <2>1, <3>4, <4>2, Idle
    <3>6. CASE ~HeadExecuted(p)
      <4>1. Waiting[p] = m_msglist[p]
        BY <1>0, <3>6 DEF Rest, HeadExecuted
      <4>2. Waiting' = [Waiting EXCEPT ![p] = Tail(@)] /\ Waiting[p] # << >>
        BY <3>1, <3>3, <4>1
      <4> QED BY <1>0, <2>1, <3>4, <4>2, GivenUp
    <3> QED BY <3>5, <3>6
  <2> QED BY <2>2, <2>3
<1>5. ASSUME NEW s \in Slaves, Push(s)
      PROVE  Channel!ChNext
  <2>1. /\ pushed < MaxCmds /\ pushed' = pushed + 1 /\ pushed + 1 \in Cmds
        /\ m_msglist' = [m_msglist EXCEPT ![s] = Append(@, pushed + 1)]
        /\ UNCHANGED <<exec, pd_last>>
    BY <1>5, Pushed
  <2>2. Rest(Append(m_msglist[s], pushed + 1), exec[s]) = Append(Waiting[s], pushed + 1)
    <3>1. /\ m_msglist[s] \in Seq(Cmds) /\ exec[s] \in Seq(Cmds)
          /\ Ordered(m_msglist[s], exec[s], pushed)
          /\ Waiting[s] = Rest(m_msglist[s], exec[s])
      BY <1>0
    <3>2. Rest(Append(m_msglist[s], pushed + 1), exec[s])
            = Append(Rest(m_msglist[s], exec[s]), pushed + 1)
      BY <1>0, <2>1, <3>1, RestPush
    <3> QED BY <3>1, <3>2
  <2>3. Waiting' = [Waiting EXCEPT ![s] = Append(@, pushed + 1)]
    BY <1>0, <2>1, <2>2 DEF Waiting
  <2>4. UNCHANGED Forgot
    BY <2>1, ForgotOf
  <2>5. Channel!Arrive(s)
    BY <2>1, <2>3, <2>4, Mapping DEF Channel!Arrive
  <2> QED BY <2>5 DEF Channel!ChNext
<1>6. ASSUME NEW s \in Slaves, Repeat(s)
      PROVE  UNCHANGED Channel!chVars
  <2>1. /\ UNCHANGED <<m_msglist, pushed>> /\ down.seq = m_txseq[s] /\ m_txseq[s] # NoSeq
    BY <1>6, Heard DEF Pd, NoSeq
  <2>2. /\ pd_last[s] # NoSeq /\ pd_last' = [pd_last EXCEPT ![s] = m_txseq[s]] /\ exec' = exec
    BY <1>6, <2>1 DEF Repeat
  <2>3. Forgot' = Forgot
    BY <1>0, <2>1, <2>2, ForgotChange
  <2>4. Waiting' = Waiting
    BY <2>1, <2>2 DEF Waiting
  <2> QED BY <2>1, <2>2, <2>3, <2>4, Idle
<1>7. ASSUME NEW s \in Slaves, Process(s)
      PROVE  [Channel!ChNext]_(Channel!chVars)
  <2>1. UNCHANGED <<m_msglist, pushed>> /\ m_txseq[s] # NoSeq
    BY <1>7, Heard DEF Pd, NoSeq
  <2>2. /\ pd_last[s] # m_txseq[s] /\ pd_last' = [pd_last EXCEPT ![s] = m_txseq[s]]
    BY <1>7, Processed DEF CmdInv
  <2>3. Forgot' = [Forgot EXCEPT ![s] = FALSE]
    BY <1>0, <2>1, <2>2, ForgotChange
  <2>4. CASE ~sendmsg
    <3>1. exec' = exec
      BY <1>7, <2>4, Processed DEF CmdInv
    <3>2. Waiting' = Waiting
      BY <2>1, <3>1 DEF Waiting
    <3>3. CASE Forgot[s]
      BY <2>1, <2>3, <3>1, <3>2, <3>3, Executes
    <3>4. CASE ~Forgot[s]
      <4>1. pd_last[s] # NoSeq
        BY <3>4, ForgotOf
      <4>2. Forgot' = Forgot
        BY <1>0, <2>1, <2>2, <4>1, ForgotChange
      <4> QED BY <2>1, <3>1, <3>2, <4>2, Idle
    <3> QED BY <3>3, <3>4
  <2>5. CASE sendmsg
    <3> DEFINE q == m_msglist[s]
               e == exec[s]
    <3>1. q # << >> /\ exec' = [exec EXCEPT ![s] = Append(@, Head(q))]
      BY <1>7, <2>5, Processed DEF CmdInv
    <3>2. Rest(q, Append(e, Head(q))) = Tail(q)
      <4>1. LastIsHead(q, Append(e, Head(q)))
        BY <1>0, <3>1, OrderedExecute
      <4> QED BY <4>1 DEF Rest
    <3>3. Waiting' = [Waiting EXCEPT ![s] = Tail(q)]
      BY <1>0, <2>1, <3>1, <3>2 DEF Waiting
    <3>4. CASE LastIsHead(q, e)
      <4>1. Waiting[s] = Tail(q) /\ e # << >> /\ Head(q) = e[Len(e)]
        BY <1>0, <3>4 DEF Rest, LastIsHead
      <4>2. Waiting' = Waiting
        BY <1>0, <3>3, <4>1 DEF Waiting
      <4>3. Forgot[s]
        <5>1. pd_last[s] \in {NoSeq, m_txseq[s]}
          BY <3>4 DEF CmdInv, HeadInv, HeadExecuted
        <5> QED BY <2>2, <5>1, ForgotOf
      <4> QED BY <2>1, <2>3, <3>1, <4>1, <4>2, <4>3, Executes
    <3>5. CASE ~LastIsHead(q, e)
      <4>1. Waiting[s] = q
        BY <1>0, <3>5 DEF Rest
      <4> QED BY <2>1, <2>3, <3>1, <3>3, <4>1, Executes
    <3> QED BY <3>4, <3>5
  <2> QED BY <2>4, <2>5
<1>8. ASSUME NEW s \in Slaves, Refuse(s)
      PROVE  UNCHANGED Channel!chVars
  <2>1. UNCHANGED <<m_msglist, pushed>>
    BY <1>8, Heard DEF Pd
  <2> QED BY <1>1, <1>8, <2>1 DEF Refuse, pdVars
<1>9. ASSUME NEW s \in Slaves, PowerOff(s)
      PROVE  [Channel!ChNext]_(Channel!chVars)
  <2>1. /\ pd_last' = [pd_last EXCEPT ![s] = NoSeq]
        /\ UNCHANGED <<m_msglist, pushed, exec>>
    BY <1>9, PoweredOff
  <2>2. Waiting' = Waiting
    BY <2>1 DEF Waiting
  <2>3. CASE Forgot[s]
    <3>1. Forgot' = Forgot
      BY <1>0, <2>1, <2>3, ForgotOf, ForgotChange
    <3> QED BY <2>1, <2>2, <3>1, Idle
  <2>4. CASE ~Forgot[s]
    <3>1. Forgot' = [Forgot EXCEPT ![s] = TRUE]
      BY <1>0, <2>1, ForgotChange
    <3>2. Channel!Forget(s)
      BY <2>1, <2>2, <2>4, <3>1, Mapping DEF Channel!Forget
    <3> QED BY <3>2 DEF Channel!ChNext
  <2> QED BY <2>3, <2>4
<1> QED BY <1>2, <1>3, <1>4, <1>5, <1>6, <1>7, <1>8, <1>9, StepKinds DEF Pd

\* The queue, the retries, the sequence numbers and the line together are the channel of
\* CommandChannel: in the order of their arrival, each command is executed at most once
\* or given up, unless the PD forgets.
THEOREM BusIsChannel ==
  ASSUME ~Late
  PROVE  BSpec => ImplementsChannel
<1>1. BInit => Channel!ChInit
  <2> SUFFICES ASSUME BInit PROVE Channel!ChInit
    OBVIOUS
  <2>1. /\ m_msglist = [s \in Slaves |-> << >>] /\ pushed = 0
        /\ exec = [s \in Slaves |-> << >>]
    BY Zenon DEF BInit, Init
  <2>2. Waiting = [s \in Slaves |-> << >>]
    BY <2>1 DEF Waiting, Rest, LastIsHead
  <2>3. Forgot \in [Slaves -> BOOLEAN]
    BY DEF Forgot
  <2> QED BY <2>1, <2>2, <2>3, Mapping DEF Channel!ChInit
<1>2. Base /\ Base' /\ ChannelInv /\ [BNext]_bvars => [Channel!ChNext]_(Channel!chVars)
  <2> SUFFICES ASSUME Base, Base', ChannelInv, [BNext]_bvars
               PROVE  [Channel!ChNext]_(Channel!chVars)
    OBVIOUS
  <2>1. CASE BNext
    BY <2>1, ChannelStep DEF ChannelInv
  <2>2. CASE UNCHANGED bvars
    <3>1. UNCHANGED <<m_msglist, pushed, exec, pd_last>>
      BY <2>2 DEF bvars, vars, busEnv, pdVars
    <3>2. UNCHANGED <<Waiting, Forgot>>
      BY <3>1, ForgotOf DEF Waiting
    <3> QED BY <3>1, <3>2, Idle
  <2> QED BY <2>1, <2>2
<1> QED BY <1>1, <1>2, ChannelInvariant, PTL
        DEF BSpec, ImplementsChannel, Channel!ChSpec
=============================================================================
