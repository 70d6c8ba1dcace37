------------------------------ MODULE FileSend ------------------------------
(***************************************************************************)
(* scripts/filesend.py: a client that sends a file to a PD, one fragment   *)
(* after the other, through the channel that osdpmaster promises.          *)
(*                                                                         *)
(* Two threads share ftevent, ftstat and offline: on_message, in paho's    *)
(* loop, and the uploader.  The PD stores a fragment when the command is   *)
(* executed and answers it with an OSDP_FTSTAT, which does not say what it *)
(* answers.  slave_poll publishes each FTSTAT that it accepts: late, or    *)
(* once more when the PD repeats its last reply; and it gives commands up. *)
(***************************************************************************)
EXTENDS CommandChannel, FiniteSets

CONSTANTS
  Fragments,  \* how many fragments the image has
  MaxAnswers  \* bound: how many FTSTATs slave_poll publishes

ASSUME FileAssumption == Fragments \in Nat /\ MaxAnswers \in Nat

PD == 1    \* the slave that the file is for
ASSUME PDAssumption == PD \in Slaves
Actions == {"proceed", "finished", "abort"}  \* an FTSTAT's status: 0, 1, 3; 2; below 0
Statuses == {"ONLINE", "OFFLINE", "DISABLED"}

VARIABLES
  upload,    \* where the uploader is
  offset,    \* of the fragment it sends; Fragments is the empty one at the end
  fin,
  ftevent, ftstat,
  stashed,   \* on_message is between its two assignments
  offline,
  sent,      \* the offsets of the commands, by their order of arrival
  replies,   \* the PD's FTSTATs, by the order in which it executed the commands
  incoming,  \* messages from the broker that on_message has not seen
  status,    \* what declare_online last published of the PD
  published, \* history: the replies that slave_poll has published
  answers    \* history: how often it published one

fileVars == <<upload, offset, fin, ftevent, ftstat, stashed, offline>>
pdVars == <<sent, replies>>
answerVars == <<published, answers>>
fvars == <<chVars, fileVars, pdVars, answerVars, incoming, status>>

FInit ==
  /\ ChInit /\ amnesia = [s \in Slaves |-> FALSE]
  /\ upload = "check" /\ offset = 0 /\ fin = FALSE
  /\ ftevent = FALSE /\ ftstat = "none" /\ stashed = FALSE
  /\ offline = FALSE
  /\ sent = << >> /\ replies = << >> /\ incoming = << >>
  /\ status = "ONLINE"
  /\ published = {} /\ answers = 0

-----------------------------------------------------------------------------
(* Topics *)

Subscription == <<"osdp", "bus1", "incoming", "1">>
ReplyTopic == <<"osdp", "bus1", "incoming", "1">>
StatusTopic == <<"osdpiom", "bus1", "incoming", "1", "status">>

\* "osdp/bus1/incoming/1/#"
Subscribed(topic) ==
  /\ Len(topic) >= Len(Subscription)
  /\ \A i \in 1 .. Len(Subscription) : topic[i] = Subscription[i]

Deliver(topic, payload) ==
  incoming' = IF Subscribed(topic) THEN Append(incoming, payload) ELSE incoming

-----------------------------------------------------------------------------
(* on_message *)

\* An FTSTAT is stashed, a status noted; DISABLED is neither.
Stash ==
  /\ incoming # << >> /\ ~stashed
  /\ incoming' = Tail(incoming)
  /\ IF Head(incoming) \in Actions
     THEN ftstat' = Head(incoming) /\ stashed' = TRUE /\ UNCHANGED offline
     ELSE /\ offline' = IF Head(incoming) = "DISABLED" THEN offline
                        ELSE Head(incoming) = "OFFLINE"
          /\ UNCHANGED <<ftstat, stashed>>
  /\ UNCHANGED <<chVars, upload, offset, fin, ftevent, pdVars, answerVars, status>>

Set ==
  /\ stashed
  /\ ftevent' = TRUE
  /\ stashed' = FALSE
  /\ UNCHANGED <<chVars, upload, offset, fin, ftstat, offline, pdVars, answerVars,
                 incoming, status>>

on_message == Stash \/ Set

-----------------------------------------------------------------------------
(* The uploader *)

\* while retry: an offline slave is waited for.
Check ==
  /\ upload = "check"
  /\ ~offline
  /\ upload' = "clear"
  /\ UNCHANGED <<chVars, offset, fin, ftevent, ftstat, stashed, offline, pdVars,
                 answerVars, incoming, status>>

clear_Never == UNCHANGED ftevent

clear == ftevent' = FALSE

ClearEvent ==
  /\ upload = "clear"
  /\ clear
  /\ upload' = "publish"
  /\ UNCHANGED <<chVars, offset, fin, ftstat, stashed, offline, pdVars, answerVars,
                 incoming, status>>

\* message_for_slave queues the command, or ignores it while the slave is disabled.
publish ==
  /\ upload = "publish"
  /\ \/ Arrive(PD) /\ sent' = Append(sent, offset)
     \/ UNCHANGED <<chVars, sent>>
  /\ upload' = "wait"
  /\ UNCHANGED <<offset, fin, ftevent, ftstat, stashed, offline, replies, answerVars,
                 incoming, status>>

Answered ==
  /\ upload = "wait"
  /\ ftevent
  /\ upload' = "interpret"
  /\ UNCHANGED <<chVars, offset, fin, ftevent, ftstat, stashed, offline, pdVars,
                 answerVars, incoming, status>>

Retry_GoesOn == IF offset = Fragments THEN "abandoned" ELSE "interpret"

\* The fragment is sent again; at the end nobody knows.
Retry == IF offset = Fragments THEN "abandoned" ELSE "check"

\* A second has passed: the answer is lost, or late.
TimedOut ==
  /\ upload = "wait"
  /\ ~ftevent
  /\ upload' = Retry
  /\ UNCHANGED <<chVars, offset, fin, ftevent, ftstat, stashed, offline, pdVars,
                 answerVars, incoming, status>>

NextOffset_PastEnd(o) == o + 1

NextOffset_Restarts(o) == IF o = Fragments \/ ftstat = "abort" THEN 0 ELSE o + 1

\* The fragment that reaches the end is shorter, the one after it empty.
NextOffset(o) == IF o = Fragments THEN o ELSE o + 1

\* A status below zero is neither waited for nor the end of the transfer.
Interpret ==
  /\ upload = "interpret"
  /\ offset' = NextOffset(offset)
  /\ fin' = (fin \/ ftstat = "finished")
  /\ upload' = IF offset' < Fragments \/ ~fin' THEN "check" ELSE "done"
  /\ UNCHANGED <<chVars, ftevent, ftstat, stashed, offline, pdVars, answerVars,
                 incoming, status>>

Uploader == Check \/ ClearEvent \/ publish \/ Answered \/ TimedOut \/ Interpret

-----------------------------------------------------------------------------
(* The PD *)

\* The offset of the fragment in the i-th command that the PD executed.
Executed(i) == sent[executed[PD][i]]

Stored == {Executed(i) : i \in 1 .. Len(executed[PD])}

\* The PD stores a fragment and has an answer, which may never be heard.
Store ==
  /\ Execute(PD)
  /\ \E action \in Actions : replies' = Append(replies, action)
  /\ UNCHANGED <<fileVars, sent, answerVars, incoming, status>>

-----------------------------------------------------------------------------
(* osdpmaster *)

\* s.pop() of a command that was not executed: the reply to another frame, repeated
\* or late, is taken for its acknowledgement.
Pop ==
  /\ pending[PD] # << >>
  /\ pending' = [pending EXCEPT ![PD] = Tail(@)]
  /\ UNCHANGED <<arrived, executed, amnesia>>

\* slave_poll accepts an FTSTAT as the reply to a poll, to its own command, which
\* has left "pending", or to another one; and publishes it.
AcceptFtstat(i) ==
  /\ answers < MaxAnswers
  /\ UNCHANGED chVars \/ Pop
  /\ Deliver(ReplyTopic, replies[i])
  /\ published' = published \cup {i}
  /\ answers' = answers + 1
  /\ UNCHANGED <<fileVars, pdVars, status>>

\* ... or an OSDP_ACK, which it does not publish.
AcceptAck ==
  /\ Pop
  /\ UNCHANGED <<fileVars, pdVars, answerVars, incoming, status>>

\* The queue of an offline slave is cleared.
Purge ==
  /\ pending[PD] # << >>
  /\ pending' = [pending EXCEPT ![PD] = << >>]
  /\ UNCHANGED <<arrived, executed, amnesia, fileVars, pdVars, answerVars, incoming,
                 status>>

DeclareOnline ==
  /\ status' \in Statuses
  /\ Deliver(StatusTopic, status')
  /\ UNCHANGED <<chVars, fileVars, pdVars, answerVars>>

Osdpmaster ==
  \/ \E i \in 1 .. Len(replies) : AcceptFtstat(i)
  \/ AcceptAck \/ Purge \/ DeclareOnline

FNext == on_message \/ Uploader \/ Store \/ Osdpmaster

FSpec == FInit /\ [][FNext]_fvars

-----------------------------------------------------------------------------
(* Properties *)

FTypeOK ==
  /\ upload \in {"check", "clear", "publish", "wait", "interpret", "done", "abandoned"}
  /\ offset \in 0 .. Fragments
  /\ fin \in BOOLEAN /\ ftevent \in BOOLEAN /\ stashed \in BOOLEAN /\ offline \in BOOLEAN
  /\ ftstat \in Actions \cup {"none"}
  /\ sent \in Seq(0 .. Fragments) /\ Len(sent) = arrived
  /\ replies \in Seq(Actions) /\ Len(replies) = Len(executed[PD])
  /\ incoming \in Seq(Actions \cup Statuses)
  /\ status \in Statuses
  /\ published \subseteq 1 .. Len(replies)
  /\ answers \in Nat

\* The uploader goes past a fragment on an FTSTAT of its own: none is counted twice,
\* wherever ftevent's setting falls between clear, publish and wait.
AnAnswerEach == offset + Len(incoming) <= answers

\* The fragments for which an FTSTAT has been published.
AnsweredFragments == {Executed(i) : i \in published}

\* No fragment has been answered twice, neither by a repeated reply nor because it was
\* sent twice.
NoSurplus == answers = Cardinality(AnsweredFragments)

Passed == 0 .. offset - 1

\* What the uploader has gone past, the PD has stored, whatever osdpmaster gave up, lost
\* or delivered late: a hole in the file takes an FTSTAT too many.
PassedIsStored == NoSurplus => Passed \subseteq Stored

\* Fragments sent again do not reach the PD after those that follow them.
NeverBackwards ==
  \A i, j \in 1 .. Len(executed[PD]) : i < j => Executed(i) <= Executed(j)
=============================================================================
