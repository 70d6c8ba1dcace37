------------------------------ MODULE OsdpBus -------------------------------
(***************************************************************************)
(* The master of OsdpMaster, the RS485 line and the slaves (PDs) on it.    *)
(*                                                                         *)
(* The PDs are not part of the repository.  They behave as the comment     *)
(* "sequence numbers" in osdpslave.cpp says: a PD answers with the         *)
(* sequence number it was given; a repeat of the last number makes it send *)
(* its last reply again, any other number makes it process the message;    *)
(* on zero, the master has restarted and the PD may send its last reply    *)
(* again.  The line loses and corrupts frames and replies; a reply may     *)
(* also be so late (Late) that readcook's deadline has passed.             *)
(***************************************************************************)
EXTENDS OsdpMaster

CONSTANTS
  Late,        \* may a reply arrive after the deadline of its poll?
  MaxLate,     \* bound: late replies on the line at once
  Refusals,    \* the refusals a PD may answer with: NAK, BUSY
  Strict,      \* may a PD refuse numbers out of sequence, with a NAK?
  MaxEvents,   \* bound: DATA replies a PD makes up
  MaxReboots,  \* bound: how often a PD loses power
  PortFails    \* may flush_input, writecook or readcook throw?

ASSUME LineAssumption == Late \in BOOLEAN /\ PortFails \in BOOLEAN
ASSUME PdAssumption == Refusals \subseteq {"NAK", "BUSY"} /\ Strict \in BOOLEAN
ASSUME BoundsAssumption ==
  MaxLate \in Nat /\ MaxEvents \in Nat /\ MaxReboots \in Nat
\* One PD answers to each configured address.
ASSUME BusAddrAssumption ==
  \A s, t \in Slaves : Addr[s] < 127 /\ (Addr[s] = Addr[t] => s = t)

VARIABLES
  down,      \* the frame on its way to a PD, or NoDown
  up,        \* the replies on the line and in the tty's input buffer
  inbuf,     \* the event in m_in_buffer that slave_poll still has to publish
  pd_up,     \* has the PD power?
  pd_last,   \* the last sequence number it processed, or NoSeq
  pd_reply,  \* its last reply: the code and the event it carries (0: none)
  pd_event,  \* the last event the PD made up
  pd_reboots,\* how often it lost power
  exec,      \* history: the commands it executed, in order
  acked,     \* history: commands popped because a reply was accepted
  swapped,   \* history: commands that took the place of another frame
  incoming,  \* history: events published to osdp/bus1/incoming, by slave
  last       \* history: the last frame transmitted to each slave

NoSeq == -1
NoDown == [to |-> 0, seq |-> 0, msg |-> POLL]
SeqNos == 0 .. 3
Events == 1 .. MaxEvents

pdVars == <<pd_up, pd_last, pd_reply, pd_event, pd_reboots, exec>>
lineVars == <<down, up>>
logVars == <<inbuf, acked, swapped, incoming, last>>
busEnv == <<lineVars, logVars, pdVars>>
bvars == <<vars, busEnv>>

\* A PD may have been talking to an earlier run of the master.
BInit ==
  /\ Init
  /\ down = NoDown
  /\ up = << >>
  /\ inbuf = 0
  /\ pd_up \in [Slaves -> BOOLEAN]
  /\ pd_last \in [Slaves -> SeqNos \cup {NoSeq}]
  /\ \A s \in Slaves : pd_up[s] \/ pd_last[s] = NoSeq
  /\ pd_reply = [s \in Slaves |-> [code |-> "ACK", event |-> 0]]
  /\ pd_event = [s \in Slaves |-> 0]
  /\ pd_reboots = [s \in Slaves |-> 0]
  /\ exec = [s \in Slaves |-> << >>]
  /\ acked = {}
  /\ swapped = {}
  /\ incoming = [s \in Slaves |-> {}]
  /\ last = [s \in Slaves |-> NoFrame]

-----------------------------------------------------------------------------
(* The master's steps on the line *)

flush_input_Nothing == UNCHANGED up

\* tcflush drops what has arrived: everything, unless replies are late.
flush_input ==
  IF Late THEN \E i \in 0 .. Len(up) : up' = SubSeq(up, i + 1, Len(up))
          ELSE up' = << >>

\* A frame with the sequence number of another frame, sent because that one
\* got no answer, or with zero: the PD may take it for a repetition.
Swaps(s, f) == f.seq = 0 \/ (f.seq = last[s].seq /\ f.msg # last[s].msg)

BTransmit ==
  /\ Transmit
  /\ flush_input
  /\ down' = [to |-> m_poll_slave, seq |-> tx'.seq, msg |-> tx'.msg]
  /\ last' = [last EXCEPT ![m_poll_slave] = tx']
  /\ swapped' = IF sendmsg' /\ Swaps(m_poll_slave, tx')
                THEN swapped \cup {tx'.msg} ELSE swapped
  /\ UNCHANGED <<inbuf, acked, incoming, pdVars>>

BIoError ==
  /\ PortFails
  /\ IoError
  /\ flush_input
  /\ down' = NoDown
  /\ UNCHANGED <<logVars, pdVars>>

\* readcook's deadline passes.  Unless replies are late, the frame or its
\* reply was lost.
BTimeout ==
  /\ nak
  /\ IF Late THEN Len(up) < MaxLate ELSE up = << >> /\ down = NoDown
  /\ UNCHANGED busEnv

\* readcook reads a damaged reply.
BCorrupt ==
  /\ up # << >>
  /\ nak
  /\ up' = Tail(up)
  /\ UNCHANGED <<down, logVars, pdVars>>

publish_IfOnline(s, e) ==
  incoming' = IF e = 0 \/ offline(s) THEN incoming
              ELSE [incoming EXCEPT ![s] = @ \cup {e}]

\* mosquitto_publish of a reply that is more than an ACK.
publish(s, e) ==
  incoming' = IF e = 0 THEN incoming ELSE [incoming EXCEPT ![s] = @ \cup {e}]

\* readcook reads a good reply: what slave_poll does with it.
BReceive ==
  LET r == Head(up)
      s == m_poll_slave
      accepted == FromPolled(r) /\ r.code \notin {"NAK", "BUSY"}
  IN
  /\ up # << >>
  /\ Receive(r)
  /\ up' = Tail(up)
  /\ inbuf' = IF accepted /\ offline(s) THEN r.event ELSE 0
  /\ publish(s, IF accepted /\ ~offline(s) THEN r.event ELSE 0)
  /\ acked' = IF accepted /\ ~offline(s) /\ sendmsg THEN acked \cup {tx.msg} ELSE acked
  /\ UNCHANGED <<down, swapped, last, pdVars>>

BPublishOnline ==
  /\ PublishOnline
  /\ publish(m_poll_slave, inbuf)
  /\ inbuf' = 0
  /\ UNCHANGED <<lineVars, acked, swapped, last, pdVars>>

\* The bus thread's other steps do not touch the line.
BLocal ==
  /\ \/ Opened \/ Scan \/ NotPollable \/ CheckOffline \/ CheckOnline
     \/ PublishOffline
  /\ UNCHANGED busEnv

BBusThread ==
  \/ BTransmit \/ BIoError \/ BTimeout \/ BCorrupt \/ BReceive \/ BPublishOnline
  \/ BLocal

BOthers == (MqttThread \/ Clock) /\ UNCHANGED busEnv

-----------------------------------------------------------------------------
(* The line and the PDs (external) *)

LoseFrame ==
  /\ down # NoDown
  /\ down' = NoDown
  /\ UNCHANGED <<vars, up, logVars, pdVars>>

LoseReply ==
  /\ up # << >>
  /\ up' = Tail(up)
  /\ UNCHANGED <<vars, down, logVars, pdVars>>

Hears(s) == pd_up[s] /\ down.to = s

Reply(s, q, rep) ==
  /\ down' = NoDown
  /\ up' = Append(up, [addr |-> Addr[s] + 128, seq |-> q,
                       code |-> rep.code, event |-> rep.event])

\* A repeat of the last sequence number, or zero after another number: the last
\* reply again.
Repeat(s) ==
  /\ Hears(s)
  /\ pd_last[s] # NoSeq
  /\ down.seq = pd_last[s] \/ down.seq = 0
  /\ Reply(s, down.seq, pd_reply[s])
  /\ pd_last' = [pd_last EXCEPT ![s] = down.seq]
  /\ UNCHANGED <<vars, logVars, pd_up, pd_reply, pd_event, pd_reboots, exec>>

\* Any other sequence number: the message is processed.
Process(s) ==
  /\ Hears(s)
  /\ down.seq # pd_last[s]
  /\ pd_last' = [pd_last EXCEPT ![s] = down.seq]
  /\ exec' = IF down.msg = POLL THEN exec
             ELSE [exec EXCEPT ![s] = Append(@, down.msg)]
  /\ \/ /\ pd_reply' = [pd_reply EXCEPT ![s] = [code |-> "ACK", event |-> 0]]
        /\ UNCHANGED pd_event
     \/ /\ pd_event[s] < MaxEvents
        /\ pd_event' = [pd_event EXCEPT ![s] = @ + 1]
        /\ pd_reply' = [pd_reply EXCEPT ![s] =
                          [code |-> "DATA", event |-> pd_event[s] + 1]]
  /\ Reply(s, down.seq, pd_reply'[s])
  /\ UNCHANGED <<vars, logVars, pd_up, pd_reboots>>

InSequence(s) == pd_last[s] # NoSeq /\ down.seq = next_seq(pd_last[s])

\* A strict PD may refuse any number out of sequence, and after a loss of power any but
\* zero, until the master starts again from zero.
RefusalCodes(s) ==
  Refusals \cup {code \in {"NAK"} : Strict /\ down.seq # 0 /\ ~InSequence(s)}

\* ... or refused, which is not remembered.
Refuse(s) ==
  /\ Hears(s)
  /\ down.seq # pd_last[s]
  /\ \E code \in RefusalCodes(s) : Reply(s, down.seq, [code |-> code, event |-> 0])
  /\ UNCHANGED <<vars, logVars, pdVars>>

PowerOff(s) ==
  /\ pd_up[s]
  /\ pd_reboots[s] < MaxReboots
  /\ pd_up' = [pd_up EXCEPT ![s] = FALSE]
  /\ pd_last' = [pd_last EXCEPT ![s] = NoSeq]
  /\ pd_reboots' = [pd_reboots EXCEPT ![s] = @ + 1]
  /\ UNCHANGED <<vars, lineVars, logVars, pd_reply, pd_event, exec>>

PowerOn(s) ==
  /\ ~pd_up[s]
  /\ pd_up' = [pd_up EXCEPT ![s] = TRUE]
  /\ UNCHANGED <<vars, lineVars, logVars, pd_last, pd_reply, pd_event, pd_reboots,
                 exec>>

Pd(s) == Repeat(s) \/ Process(s) \/ Refuse(s)

-----------------------------------------------------------------------------
BNext ==
  \/ BBusThread \/ BOthers \/ LoseFrame \/ LoseReply
  \/ \E s \in Slaves : Pd(s) \/ PowerOff(s) \/ PowerOn(s)

BSpec == BInit /\ [][BNext]_bvars

\* The bus thread and the clock do not stop, and no frame stays on the line.
BFairness ==
  /\ WF_bvars(BBusThread)
  /\ WF_bvars(PublishControl /\ UNCHANGED busEnv)
  /\ WF_bvars(LoseFrame)
  /\ \A s \in Slaves : /\ WF_bvars(AssignDue(s) /\ UNCHANGED busEnv)
                       /\ WF_bvars(PollDue(s) /\ UNCHANGED busEnv)

BFairSpec == BSpec /\ BFairness

\* The line is not cut: of the frames s is sent, some are heard, and of the
\* replies some are read.
Connected(s) == SF_bvars(Pd(s)) /\ SF_bvars(BReceive /\ m_poll_slave = s)

-----------------------------------------------------------------------------
(* Properties *)

PdReplies == [code : Codes, event : {0} \cup Events]
LineReplies == [addr : 128 .. 255, seq : SeqNos, code : Codes, event : {0} \cup Events]

BTypeOK ==
  /\ TypeOK
  /\ down \in [to : 0 .. N, seq : SeqNos, msg : Cmds \cup {POLL}]
  /\ up \in Seq(LineReplies)
  /\ inbuf \in {0} \cup Events
  /\ pd_up \in [Slaves -> BOOLEAN]
  /\ pd_last \in [Slaves -> SeqNos \cup {NoSeq}]
  /\ pd_reply \in [Slaves -> PdReplies]
  /\ pd_event \in [Slaves -> 0 .. MaxEvents]
  /\ pd_reboots \in [Slaves -> 0 .. MaxReboots]
  /\ exec \in [Slaves -> Seq(Cmds)]
  /\ acked \in SUBSET Cmds
  /\ swapped \in SUBSET Cmds
  /\ incoming \in [Slaves -> SUBSET Events]
  /\ last \in [Slaves -> Frames \cup {NoFrame}]

\* The commands a PD executes are in the order in which they arrived over MQTT
\* and none is executed twice, however many frames and replies are lost,
\* damaged or refused and however often the slave goes offline: a repeated
\* command carries the sequence number it had.  (Only a PD that forgets its
\* sequence number, by losing power, may execute a command again.)
InOrderOnce ==
  \A s \in Slaves : pd_reboots[s] = 0 =>
    \A i, j \in 1 .. Len(exec[s]) : i < j => exec[s][i] < exec[s][j]

\* Master and PD are never more than one sequence number apart, unless the
\* master is about to restart the sequence or the PD has lost it.
SeqSync ==
  \A s \in Slaves :
    \/ m_txseq[s] = 0
    \/ pd_last[s] = NoSeq
    \/ pd_last[s] = m_txseq[s]
    \/ next_seq(pd_last[s]) = m_txseq[s]

\* A reply that slave_poll reads comes from the slave it polled and carries the
\* sequence number of that poll: "So, how could the master see a sequence other
\* than the one in the poll?" (osdpslave.cpp).  slave_poll relies on it and
\* compares no sequence numbers.
ReplyAnswersPoll ==
  pc = "read" /\ up # << >> => FromPolled(Head(up)) /\ Head(up).seq = tx.seq

\* No event of a PD is lost: the PD keeps an event, as its last reply, until the
\* master has published it on osdp/bus1/incoming.
NoEventLost ==
  \A s \in Slaves : pd_reboots[s] = 0 =>
    1 .. pd_event[s] \subseteq incoming[s] \cup {pd_reply[s].event}

\* A command that slave_poll pops as acknowledged has been executed: no reply to
\* another frame is taken for its acknowledgement.  This is so for commands sent
\* with a sequence number of their own; RetryRetransmits is about the others.
AckedExecuted ==
  \A m \in acked \ swapped : \E s \in Slaves : \E i \in 1 .. Len(exec[s]) : exec[s][i] = m

\* The commands in m_msglist[s] that s has not executed: all, or all but the head,
\* which then waits for its acknowledgement.
Unexecuted(s) ==
  LET q == m_msglist[s]
      e == exec[s]
  IN  IF q # << >> /\ e # << >> /\ e[Len(e)] = Head(q) THEN Tail(q) ELSE q

Channel == INSTANCE CommandChannel
  WITH arrived <- pushed,
       pending <- [s \in Slaves |-> Unexecuted(s)],
       executed <- exec,
       amnesia <- [s \in Slaves |-> pd_last[s] = NoSeq]

\* The queue, the retries, the sequence numbers and the line together are the
\* channel of CommandChannel.
ImplementsChannel == Channel!ChSpec

\* m_retry: "What retry attempt; >0 means do rexmit".  The frame of a retry is
\* the frame that got no answer.
RetryRetransmits ==
  [][\A s \in Slaves :
       BTransmit /\ m_poll_slave = s /\ m_retry[s] > 0 /\ ~offline(s) => tx' = last[s]]_bvars

\* Commands do not stay queued: each is acknowledged or, when the slave is
\* offline, discarded, as long as the slave is enabled.
QueueDrains ==
  \A s \in Slaves, m \in Cmds :
    (\E i \in 1 .. Len(m_msglist[s]) : m_msglist[s][i] = m)
      ~> (~m_enabled[s] \/ \A i \in 1 .. Len(m_msglist[s]) : m_msglist[s][i] # m)

\* An enabled slave that stays without power is found out, and the world is told
\* ("Report to the world whether I'm offline or online", declare_online): its
\* retained status becomes OFFLINE and stays so.
DeadIsOffline ==
  \A s \in Slaves :
    <>[](~pd_up[s] /\ m_enabled[s]) => <>[](offline(s) /\ status[s] = "OFFLINE")

\* A slave that stays powered and connected comes (back) online, again and
\* again, whatever its sequence number was and whatever it last replied.
AliveComesOnline ==
  \A s \in Slaves :
    Connected(s) /\ <>[](pd_up[s] /\ m_enabled[s]) => []<>(status[s] = "ONLINE")
=============================================================================
