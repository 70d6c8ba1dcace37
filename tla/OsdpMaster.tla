----------------------------- MODULE OsdpMaster -----------------------------
(***************************************************************************)
(* The two threads of osdpmaster and the slaves they share.                *)
(*                                                                         *)
(* The bus thread (busprotocol::run) polls one slave after the other       *)
(* (slave_poll): it transmits one frame and reads one reply.  The MQTT     *)
(* thread (main, in mosquitto_loop_forever) runs message_callback: it      *)
(* queues commands and enables or disables slaves.  Both publish the       *)
(* retained ONLINE / OFFLINE / DISABLED status of a slave.                 *)
(*                                                                         *)
(* A bus-thread step ends where the other thread can see a difference:     *)
(* after the scan looked at one slave, after the decision to poll, after   *)
(* the transmission, after the reply was read, and between the choice of a *)
(* status value and its publication.                                       *)
(*                                                                         *)
(* The replies are whatever the line delivers; OsdpBus composes this       *)
(* module with the slaves at the other end.  A transient publication of a  *)
(* reply (topic osdp/bus1/incoming) is recorded there too.                 *)
(***************************************************************************)
EXTENDS Integers, Sequences

CONSTANTS
  N,          \* number of [slave...] sections: the length of m_slaves
  RETRY_MAX,  \* OSDPSLAVE_RETRY_MAX (10)
  Addr,       \* Addr[s]: m_addr of the s-th slave, a byte
  MaxCmds,    \* bound: how many commands arrive over MQTT
  Controls,   \* payloads seen on the .../control topic
  ReplyAddrs, \* address bytes seen in well-formed replies
  ReplySeqs   \* sequence numbers seen in well-formed replies

ASSUME NAssumption == N \in Nat \ {0}
ASSUME RetryAssumption == RETRY_MAX \in Nat \ {0}
ASSUME AddrAssumption == Addr \in [1 .. N -> 0 .. 255]
ASSUME CmdsAssumption == MaxCmds \in Nat
ASSUME ControlsAssumption == Controls \subseteq {"DISABLE", "ENABLE", "OTHER"}
ASSUME RepliesAssumption == ReplyAddrs \subseteq 0 .. 255 /\ ReplySeqs \subseteq 0 .. 3

Slaves == 1 .. N
Cmds == 1 .. MaxCmds   \* a command is named by its order of arrival
POLL == 0              \* the one-byte OSDP_POLL message
Frames == [seq : 0 .. 3, msg : Cmds \cup {POLL}]
NoFrame == [seq |-> 0, msg |-> -1]
Codes == {"ACK", "NAK", "BUSY", "DATA"}  \* DATA: any other reply code
Replies == [addr : ReplyAddrs, seq : ReplySeqs, code : Codes]
Statuses == {"ONLINE", "OFFLINE", "DISABLED"}

VARIABLES
  m_retry, m_txseq, m_rxseq, m_enabled,  \* the osdpslave fields, by slave
  m_next_assign, m_next_poll,  \* its two deadlines: "unset", "pending" or "due"
  m_msglist,                   \* its queue of outgoing commands
  m_poll_slave,  \* the slave polled last
  pc,            \* where the bus thread is
  a,             \* slave_poll's iterator
  tx,            \* the frame slave_poll transmitted, or NoFrame
  sendmsg,       \* slave_poll's flag: the frame came from the queue
  bus_val,       \* the status the bus thread is about to publish, or "none"
  mq_slave,      \* the slave the MQTT thread handles a control for, or 0
  mq_val,        \* the status the MQTT thread is about to publish, or "none"
  status,        \* the broker's retained status message, by slave
  pushed,        \* how many commands have arrived
  suspect        \* history: slaves with a control since the bus thread last
                 \* chose a status for them

slaveVars == <<m_retry, m_txseq, m_rxseq, m_enabled, m_next_assign, m_next_poll>>
busVars == <<m_poll_slave, pc, a, tx, sendmsg, bus_val>>
mqVars == <<mq_slave, mq_val>>
vars == <<slaveVars, m_msglist, busVars, mqVars, status, pushed, suspect>>

-----------------------------------------------------------------------------
(* osdpslave *)

next_seq_NoWrap(q) == q + 1

next_seq(q) == IF q = 3 THEN 1 ELSE q + 1

offline(s) == m_retry[s] >= RETRY_MAX

BornFailed_Retrying == RETRY_MAX - 1

\* m_retry of a new slave ("Initially, failed").
BornFailed == RETRY_MAX + 1

\* 0xFF is "no address"; nothing sets a UUID in this program.
defined(s) == Addr[s] # 255

declare_online_IgnoresEnabled(on, tf) == IF tf THEN "ONLINE" ELSE "OFFLINE"

declare_online_Optimist(on, tf) == IF on THEN "ONLINE" ELSE "DISABLED"

\* The value declare_online(tf) publishes for a slave whose m_enabled is on.
declare_online(on, tf) ==
  IF ~on THEN "DISABLED" ELSE IF tf THEN "ONLINE" ELSE "OFFLINE"

\* main: add_slave for every section, then declare_online(false).
Init ==
  /\ m_retry = [s \in Slaves |-> BornFailed]
  /\ m_txseq = [s \in Slaves |-> 0]
  /\ m_rxseq = [s \in Slaves |-> 0]
  /\ m_enabled = [s \in Slaves |-> TRUE]
  /\ m_next_assign = [s \in Slaves |-> "due"]
  /\ m_next_poll = [s \in Slaves |-> "unset"]
  /\ m_msglist = [s \in Slaves |-> << >>]
  /\ m_poll_slave = 1
  /\ pc = "open"
  /\ a = 1
  /\ tx = NoFrame
  /\ sendmsg = FALSE
  /\ bus_val = "none"
  /\ mq_slave = 0
  /\ mq_val = "none"
  /\ status = [s \in Slaves |-> "OFFLINE"]
  /\ pushed = 0
  /\ suspect = {}

-----------------------------------------------------------------------------
(* The bus thread *)

\* slave_poll returns to run()'s loop: its locals are gone.
Return ==
  /\ pc' = "scan"
  /\ tx' = NoFrame
  /\ sendmsg' = FALSE
  /\ bus_val' = "none"

\* prepcom succeeds, at start or after an I/O error.
Opened ==
  /\ pc = "open"
  /\ pc' = "scan"
  /\ UNCHANGED <<slaveVars, m_msglist, m_poll_slave, a, tx, sendmsg, bus_val,
                 mqVars, status, pushed, suspect>>

Successor_Stops(s) == IF s = N THEN s ELSE s + 1

Successor(s) == IF s = N THEN 1 ELSE s + 1

Pollable_Always(s) == defined(s)

Pollable(s) == defined(s) /\ m_enabled[s]

\* One turn of slave_poll's search for the next slave to poll.
Scan ==
  /\ pc = "scan"
  /\ a' = Successor(a)
  /\ IF a' = m_poll_slave \/ Pollable(a')
     THEN pc' = "check" /\ m_poll_slave' = a'
     ELSE UNCHANGED <<pc, m_poll_slave>>
  /\ UNCHANGED <<slaveVars, m_msglist, tx, sendmsg, bus_val, mqVars, status,
                 pushed, suspect>>

\* None pollable.
NotPollable ==
  /\ pc = "check"
  /\ ~Pollable(m_poll_slave)
  /\ pc' = "scan"
  /\ UNCHANGED <<slaveVars, m_msglist, m_poll_slave, a, tx, sendmsg, bus_val,
                 mqVars, status, pushed, suspect>>

purge_Nothing(s) == UNCHANGED m_msglist

purge(s) == m_msglist' = [m_msglist EXCEPT ![s] = << >>]

\* An offline slave loses its queue; it is polled once per m_next_assign.
CheckOffline ==
  LET s == m_poll_slave IN
  /\ pc = "check"
  /\ Pollable(s)
  /\ offline(s)
  /\ purge(s)
  /\ pc' = IF m_next_assign[s] = "due" THEN "send" ELSE "scan"
  /\ m_next_assign' = [m_next_assign EXCEPT ![s] = "pending"]
  /\ UNCHANGED <<m_retry, m_txseq, m_rxseq, m_enabled, m_next_poll, m_poll_slave,
                 a, tx, sendmsg, bus_val, mqVars, status, pushed, suspect>>

\* An online slave that missed a poll is left alone until m_next_poll.  An
\* "unset" m_next_poll is an uninitialised read: it compares either way.
CheckOnline ==
  LET s == m_poll_slave IN
  /\ pc = "check"
  /\ Pollable(s)
  /\ ~offline(s)
  /\ \/ m_retry[s] = 0 /\ pc' = "send"
     \/ m_retry[s] > 0 /\ m_next_poll[s] \in {"due", "unset"} /\ pc' = "send"
     \/ m_retry[s] > 0 /\ m_next_poll[s] \in {"pending", "unset"} /\ pc' = "scan"
  /\ UNCHANGED <<slaveVars, m_msglist, m_poll_slave, a, tx, sendmsg, bus_val,
                 mqVars, status, pushed, suspect>>

\* Is a command sent to s, rather than OSDP_POLL?
Queued(s) == ~offline(s) /\ m_msglist[s] # << >>

\* flush_input, writecook: the head of the queue or OSDP_POLL.
Transmit ==
  LET s == m_poll_slave IN
  /\ pc = "send"
  /\ sendmsg' = Queued(s)
  /\ tx' = [seq |-> m_txseq[s],
             msg |-> IF Queued(s) THEN Head(m_msglist[s]) ELSE POLL]
  /\ pc' = "read"
  /\ UNCHANGED <<slaveVars, m_msglist, m_poll_slave, a, bus_val, mqVars, status,
                 pushed, suspect>>

\* A protocol_exception from flush_input, writecook or readcook: run() closes
\* the port and goes back to opening it.
IoError ==
  /\ pc \in {"send", "read"}
  /\ pc' = "open"
  /\ tx' = NoFrame
  /\ sendmsg' = FALSE
  /\ UNCHANGED <<slaveVars, m_msglist, m_poll_slave, a, bus_val, mqVars, status,
                 pushed, suspect>>

\* readcook returns an error (timeout, CRC, overflow): osdpslave::nak.
nak ==
  LET s == m_poll_slave
      missed == m_retry[s] + 1
  IN
  /\ pc = "read"
  /\ \/ /\ offline(s)
        /\ Return
        /\ UNCHANGED <<m_retry, m_next_poll, suspect>>
     \/ /\ ~offline(s)
        /\ missed >= RETRY_MAX
        /\ m_retry' = [m_retry EXCEPT ![s] = missed]
        /\ bus_val' = declare_online(m_enabled[s], FALSE)
        /\ suspect' = suspect \ {s}
        /\ pc' = "nakpub"
        /\ UNCHANGED <<m_next_poll, tx, sendmsg>>
     \/ /\ ~offline(s)
        /\ missed < RETRY_MAX
        /\ m_retry' = [m_retry EXCEPT ![s] = missed]
        /\ m_next_poll' = [m_next_poll EXCEPT ![s] = "pending"]
        /\ Return
        /\ UNCHANGED suspect
  /\ UNCHANGED <<m_txseq, m_rxseq, m_enabled, m_next_assign, m_msglist,
                 m_poll_slave, a, mqVars, status, pushed>>

\* nak's publication of OFFLINE.
PublishOffline ==
  /\ pc = "nakpub"
  /\ status' = [status EXCEPT ![m_poll_slave] = bus_val]
  /\ Return
  /\ UNCHANGED <<slaveVars, m_msglist, m_poll_slave, a, mqVars, pushed, suspect>>

FromPolled(r) == r.addr % 128 = Addr[m_poll_slave]

\* A well-formed reply with another slave's address is ignored.
WrongAddress(r) ==
  /\ pc = "read"
  /\ ~FromPolled(r)
  /\ Return
  /\ UNCHANGED <<slaveVars, m_msglist, m_poll_slave, a, mqVars, status, pushed,
                 suspect>>

Refused_KeepsSeq(r) ==
  LET s == m_poll_slave IN
  /\ pc = "read"
  /\ FromPolled(r)
  /\ r.code \in {"NAK", "BUSY"}
  /\ m_rxseq' = [m_rxseq EXCEPT ![s] = next_seq(r.seq)]
  /\ Return
  /\ UNCHANGED <<m_txseq, m_retry, m_enabled, m_next_assign, m_next_poll, m_msglist,
                 m_poll_slave, a, mqVars, status, pushed, suspect>>

\* NAK and BUSY are neither a success nor a miss; NAK restarts the sequence.
Refused(r) ==
  LET s == m_poll_slave IN
  /\ pc = "read"
  /\ FromPolled(r)
  /\ r.code \in {"NAK", "BUSY"}
  /\ m_txseq' = IF r.code = "NAK" THEN [m_txseq EXCEPT ![s] = 0] ELSE m_txseq
  /\ m_rxseq' = [m_rxseq EXCEPT ![s] = next_seq(r.seq)]
  /\ Return
  /\ UNCHANGED <<m_retry, m_enabled, m_next_assign, m_next_poll, m_msglist,
                 m_poll_slave, a, mqVars, status, pushed, suspect>>

PopSent_Keeps(s) == UNCHANGED m_msglist

\* if(sendmsg) s.pop()
PopSent(s) ==
  m_msglist' = IF sendmsg THEN [m_msglist EXCEPT ![s] = Tail(@)] ELSE m_msglist

Advance_FromRx(s) == m_txseq' = [m_txseq EXCEPT ![s] = next_seq(m_rxseq[s])]

Advance(s) == m_txseq' = [m_txseq EXCEPT ![s] = next_seq(@)]

\* Any other reply: osdpslave::ack, which first announces a slave that was
\* offline.
ack(r) ==
  LET s == m_poll_slave IN
  /\ pc = "read"
  /\ FromPolled(r)
  /\ r.code \notin {"NAK", "BUSY"}
  /\ Advance(s)
  /\ m_rxseq' = IF m_rxseq[s] = 0 \/ r.seq = 0
                THEN [m_rxseq EXCEPT ![s] = next_seq(r.seq)]
                ELSE m_rxseq
  /\ \/ /\ offline(s)
        /\ bus_val' = declare_online(m_enabled[s], TRUE)
        /\ suspect' = suspect \ {s}
        /\ pc' = "ackpub"
        /\ UNCHANGED <<m_retry, m_msglist, tx, sendmsg>>
     \/ /\ ~offline(s)
        /\ m_retry' = [m_retry EXCEPT ![s] = 0]
        /\ PopSent(s)
        /\ Return
        /\ UNCHANGED suspect
  /\ UNCHANGED <<m_enabled, m_next_assign, m_next_poll, m_poll_slave, a, mqVars,
                 status, pushed>>

\* ack's publication of ONLINE and what follows it.
PublishOnline ==
  LET s == m_poll_slave IN
  /\ pc = "ackpub"
  /\ status' = [status EXCEPT ![s] = bus_val]
  /\ m_retry' = [m_retry EXCEPT ![s] = 0]
  /\ PopSent(s)
  /\ Return
  /\ UNCHANGED <<m_txseq, m_rxseq, m_enabled, m_next_assign, m_next_poll,
                 m_poll_slave, a, mqVars, pushed, suspect>>

Receive(r) == WrongAddress(r) \/ Refused(r) \/ ack(r)

BusThread ==
  \/ Opened \/ Scan \/ NotPollable \/ CheckOffline \/ CheckOnline
  \/ Transmit \/ IoError \/ nak \/ \E r \in Replies : Receive(r)
  \/ PublishOffline \/ PublishOnline

-----------------------------------------------------------------------------
(* The MQTT thread: message_callback and message_for_slave *)

\* The first slave in the list that has the topic's address.
Addressed(s) == \A i \in 1 .. s - 1 : Addr[i] # Addr[s]

push_Front(s) ==
  /\ mq_slave = 0
  /\ Addressed(s)
  /\ m_enabled[s]
  /\ pushed < MaxCmds
  /\ pushed' = pushed + 1
  /\ m_msglist' = [m_msglist EXCEPT ![s] = <<pushed + 1>> \o @]
  /\ UNCHANGED <<slaveVars, busVars, mqVars, status, suspect>>

\* A command is queued; one for a disabled slave is ignored.
push(s) ==
  /\ mq_slave = 0
  /\ Addressed(s)
  /\ m_enabled[s]
  /\ pushed < MaxCmds
  /\ pushed' = pushed + 1
  /\ m_msglist' = [m_msglist EXCEPT ![s] = Append(@, pushed + 1)]
  /\ UNCHANGED <<slaveVars, busVars, mqVars, status, suspect>>

\* A .../control message: the new m_enabled and the argument of declare_online.
Control(s, cmd) ==
  LET on == IF cmd = "DISABLE" THEN FALSE
            ELSE IF cmd = "ENABLE" THEN TRUE ELSE m_enabled[s]
      o == cmd = "ENABLE" \/ offline(s)
  IN
  /\ mq_slave = 0
  /\ Addressed(s)
  /\ m_enabled' = [m_enabled EXCEPT ![s] = on]
  /\ mq_slave' = s
  /\ mq_val' = declare_online(on, o)
  /\ suspect' = suspect \cup {s}
  /\ UNCHANGED <<m_retry, m_txseq, m_rxseq, m_next_assign, m_next_poll, m_msglist,
                 busVars, status, pushed>>

\* The publication that ends a control message.
PublishControl ==
  /\ mq_slave # 0
  /\ status' = [status EXCEPT ![mq_slave] = mq_val]
  /\ suspect' = suspect \cup {mq_slave}
  /\ mq_slave' = 0
  /\ mq_val' = "none"
  /\ UNCHANGED <<slaveVars, m_msglist, busVars, pushed>>

MqttThread ==
  \/ PublishControl
  \/ \E s \in Slaves : push(s) \/ \E cmd \in Controls : Control(s, cmd)

-----------------------------------------------------------------------------
(* CLOCK_MONOTONIC reaches a deadline. *)

AssignDue(s) ==
  /\ m_next_assign[s] = "pending"
  /\ m_next_assign' = [m_next_assign EXCEPT ![s] = "due"]
  /\ UNCHANGED <<m_retry, m_txseq, m_rxseq, m_enabled, m_next_poll, m_msglist,
                 busVars, mqVars, status, pushed, suspect>>

PollDue(s) ==
  /\ m_next_poll[s] = "pending"
  /\ m_next_poll' = [m_next_poll EXCEPT ![s] = "due"]
  /\ UNCHANGED <<m_retry, m_txseq, m_rxseq, m_enabled, m_next_assign, m_msglist,
                 busVars, mqVars, status, pushed, suspect>>

Clock == \E s \in Slaves : AssignDue(s) \/ PollDue(s)

-----------------------------------------------------------------------------
Next == BusThread \/ MqttThread \/ Clock

Spec == Init /\ [][Next]_vars

\* Neither thread stops: the bus thread's loop has no exit, readcook has a
\* deadline, prepcom is retried for ever, and clocks advance.
Fairness ==
  /\ WF_vars(BusThread)
  /\ WF_vars(PublishControl)
  /\ \A s \in Slaves : WF_vars(AssignDue(s)) /\ WF_vars(PollDue(s))

FairSpec == Spec /\ Fairness

-----------------------------------------------------------------------------
(* Properties *)

BusLocations == {"open", "scan", "check", "send", "read", "nakpub", "ackpub"}

\* Every field stays in its range; in particular m_retry never passes
\* OSDPSLAVE_RETRY_MAX + 1, however long a slave is silent.
TypeOK ==
  /\ m_retry \in [Slaves -> 0 .. RETRY_MAX + 1]
  /\ m_txseq \in [Slaves -> 0 .. 3]
  /\ m_rxseq \in [Slaves -> 0 .. 3]
  /\ m_enabled \in [Slaves -> BOOLEAN]
  /\ m_next_assign \in [Slaves -> {"pending", "due"}]
  /\ m_next_poll \in [Slaves -> {"unset", "pending", "due"}]
  /\ m_msglist \in [Slaves -> Seq(Cmds)]
  /\ m_poll_slave \in Slaves
  /\ pc \in BusLocations
  /\ a \in Slaves
  /\ tx \in Frames \cup {NoFrame}
  /\ sendmsg \in BOOLEAN
  /\ bus_val \in Statuses \cup {"none"}
  /\ mq_slave \in 0 .. N
  /\ mq_val \in Statuses \cup {"none"}
  /\ status \in [Slaves -> Statuses]
  /\ pushed \in 0 .. MaxCmds
  /\ suspect \in SUBSET Slaves

\* The constructor of osdpslave leaves m_next_poll uninitialised; slave_poll
\* compares it with the clock only for a slave that nak() gave a deadline.
DeadlineSet ==
  \A s \in Slaves : m_retry[s] > 0 /\ ~offline(s) => m_next_poll[s] # "unset"

\* s.pop() removes the very command whose reply was read: while a queued
\* command waits for its reply it stays the head of a non-empty queue,
\* whatever the MQTT thread pushes or disables meanwhile; and a reply that
\* brings a slave online never pops (a pop of an empty queue is undefined).
PopsWhatWasSent ==
  LET s == m_poll_slave IN
  /\ pc = "read" /\ sendmsg => /\ ~offline(s)
                               /\ m_msglist[s] # << >>
                               /\ Head(m_msglist[s]) = tx.msg
  /\ pc = "ackpub" => ~sendmsg

\* What the retained status of s should say.
TrueStatus(s) ==
  IF ~m_enabled[s] THEN "DISABLED" ELSE IF offline(s) THEN "OFFLINE" ELSE "ONLINE"

Publishing(s) == m_poll_slave = s /\ pc \in {"nakpub", "ackpub"}

\* Once the bus thread has announced a change of a slave's state, the retained
\* status is that state until the next control message for the slave: no miss,
\* reply, reopening of the port or traffic of another slave makes it stale.
StatusTruthful ==
  \A s \in Slaves :
    s \notin suspect /\ mq_slave # s /\ ~Publishing(s) => status[s] = TrueStatus(s)

\* Round robin: a slave that stays enabled is polled again and again, whether it
\* is online, being retried or offline, and whatever the others do.
NoStarvation ==
  \A s \in Slaves :
    defined(s) => (<>[]m_enabled[s] => []<>(pc = "send" /\ m_poll_slave = s))

\* A slave that stays disabled is left alone: DISABLE may catch slave_poll
\* between its test and the transmission, but then nothing more is sent.
DisabledLeftAlone ==
  \A s \in Slaves :
    <>[](~m_enabled[s]) => <>[](~(pc = "send" /\ m_poll_slave = s))
=============================================================================
