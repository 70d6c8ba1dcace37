----------------------------- MODULE BlobQueue ------------------------------
(***************************************************************************)
(* The payload of a command on its way through the two threads: blob,      *)
(* blob_data and sync_queue, as message_for_slave and slave_poll use them. *)
(*                                                                         *)
(* A blob_data is shared by up to three blobs: the argument of push in the *)
(* MQTT thread, the element of m_msglist, and slave_poll's msg, copied     *)
(* from front() without the lock.  Each blob counts itself in m_refcount;  *)
(* the one that brings the count to zero deletes the blob_data.  An        *)
(* increment, a decrement with its test, and a deletion are steps of their *)
(* own; push and pop hold m_lock.                                          *)
(***************************************************************************)
EXTENDS Integers, Sequences

CONSTANT MaxCmds   \* bound: how many commands arrive

ASSUME BlobsAssumption == MaxCmds \in Nat

Data == 1 .. MaxCmds   \* blob_data objects, by the order of their creation
NULL == 0

VARIABLES
  created,     \* how many blob_data have been created
  m_refcount,  \* by blob_data
  heap,        \* by blob_data: "none", "live" or "deleted"
  m_msglist,   \* the blob_data that the queue's elements refer to
  m_lock,      \* who holds the queue's mutex: "none", "mqtt" or "bus"
  mqtt, arg,   \* where the MQTT thread is; the argument of push
  bus, msg,    \* where the bus thread is; slave_poll's msg
  mqtt_dead, bus_dead  \* what unref is about to delete, or NULL

heapVars == <<created, m_refcount, heap>>
mqttVars == <<mqtt, arg, mqtt_dead>>
threadVars == <<bus, msg, bus_dead>>
qvars == <<heapVars, m_msglist, m_lock, mqttVars, threadVars>>

QInit ==
  /\ created = 0
  /\ m_refcount = [d \in Data |-> 0]
  /\ heap = [d \in Data |-> "none"]
  /\ m_msglist = << >>
  /\ m_lock = "none"
  /\ mqtt = "idle" /\ arg = NULL /\ mqtt_dead = NULL
  /\ bus = "top" /\ msg = NULL /\ bus_dead = NULL

ref_Nothing(d) == UNCHANGED m_refcount

ref(d) == m_refcount' = [m_refcount EXCEPT ![d] = @ + 1]

dec_test_Old(d) == m_refcount[d] = 0

\* Does katomic_dec_test's decrement bring the count to zero?
dec_test(d) == m_refcount[d] = 1

unref_Keeps(d, dead) ==
  /\ UNCHANGED m_refcount
  /\ dead' = IF dec_test(d) THEN d ELSE NULL

\* unref up to the test: dead is what the thread deletes next.
unref(d, dead) ==
  /\ m_refcount' = [m_refcount EXCEPT ![d] = @ - 1]
  /\ dead' = IF dec_test(d) THEN d ELSE NULL

\* delete this
destroy(d) ==
  /\ heap' = [heap EXCEPT ![d] = "deleted"]
  /\ UNCHANGED <<created, m_refcount>>

Lock(thread) == m_lock = "none" /\ m_lock' = thread

Unlock_Never == UNCHANGED m_lock

Unlock == m_lock' = "none"

-----------------------------------------------------------------------------
(* The MQTT thread: s.push(blob(payload, payloadlen)) *)

NewBlob ==
  /\ mqtt = "idle"
  /\ created < MaxCmds
  /\ created' = created + 1
  /\ arg' = created'
  /\ m_refcount' = [m_refcount EXCEPT ![arg'] = 1]
  /\ heap' = [heap EXCEPT ![arg'] = "live"]
  /\ mqtt' = "lock"
  /\ UNCHANGED <<m_msglist, m_lock, mqtt_dead, threadVars>>

PushLock ==
  /\ mqtt = "lock"
  /\ Lock("mqtt")
  /\ mqtt' = "copy"
  /\ UNCHANGED <<heapVars, m_msglist, arg, mqtt_dead, threadVars>>

\* The copy constructor of the element: "Note new reference first".
PushCopy ==
  /\ mqtt = "copy"
  /\ ref(arg)
  /\ mqtt' = "append"
  /\ UNCHANGED <<created, heap, m_msglist, m_lock, arg, mqtt_dead, threadVars>>

enqueue_InFront(d) == m_msglist' = <<d>> \o m_msglist

enqueue(d) == m_msglist' = Append(m_msglist, d)

PushAppend ==
  /\ mqtt = "append"
  /\ enqueue(arg)
  /\ Unlock
  /\ mqtt' = "drop"
  /\ UNCHANGED <<heapVars, arg, mqtt_dead, threadVars>>

\* The destructor of push's argument.
DropArg ==
  /\ mqtt = "drop"
  /\ unref(arg, mqtt_dead)
  /\ arg' = NULL
  /\ mqtt' = "delete"
  /\ UNCHANGED <<created, heap, m_msglist, m_lock, threadVars>>

DeleteArg ==
  /\ mqtt = "delete"
  /\ IF mqtt_dead = NULL THEN UNCHANGED heapVars ELSE destroy(mqtt_dead)
  /\ mqtt_dead' = NULL
  /\ mqtt' = "idle"
  /\ UNCHANGED <<m_msglist, m_lock, arg, threadVars>>

Mqtt == NewBlob \/ PushLock \/ PushCopy \/ PushAppend \/ DropArg \/ DeleteArg

-----------------------------------------------------------------------------
(* The bus thread: slave_poll *)

\* empty() takes the lock: OSDP_POLL is sent, a command is sent, or the queue of
\* an offline slave is purged.
TestEmpty ==
  /\ bus = "top"
  /\ m_lock = "none"
  /\ bus' \in IF m_msglist = << >> THEN {"top"} ELSE {"front", "lock"}
  /\ UNCHANGED <<heapVars, m_msglist, m_lock, mqttVars, msg, bus_dead>>

\* front() tests again; for an empty queue it returns a blob without data.
TestFront ==
  /\ bus = "front"
  /\ m_lock = "none"
  /\ bus' = IF m_msglist = << >> THEN "write" ELSE "copy"
  /\ UNCHANGED <<heapVars, m_msglist, m_lock, mqttVars, msg, bus_dead>>

\* blob msg = s.front(), without the lock.
Front ==
  /\ bus = "copy"
  /\ msg' = Head(m_msglist)
  /\ ref(msg')
  /\ bus' = "write"
  /\ UNCHANGED <<created, heap, m_msglist, m_lock, mqttVars, bus_dead>>

\* writecook reads the payload; it may throw.  Then msg is destroyed.
DropMsg ==
  /\ bus = "write"
  /\ IF msg = NULL THEN UNCHANGED <<m_refcount, bus_dead>> ELSE unref(msg, bus_dead)
  /\ msg' = NULL
  /\ bus' = "delete"
  /\ UNCHANGED <<created, heap, m_msglist, m_lock, mqttVars>>

\* Then the reply: pop the command, or leave it for the next poll.
DeleteMsg ==
  /\ bus = "delete"
  /\ IF bus_dead = NULL THEN UNCHANGED heapVars ELSE destroy(bus_dead)
  /\ bus_dead' = NULL
  /\ bus' \in {"lock", "top"}
  /\ UNCHANGED <<m_msglist, m_lock, mqttVars, msg>>

PopLock ==
  /\ bus = "lock"
  /\ Lock("bus")
  /\ bus' = "pop"
  /\ UNCHANGED <<heapVars, m_msglist, mqttVars, msg, bus_dead>>

\* super::pop() destroys the element.
Pop ==
  /\ bus = "pop"
  /\ unref(Head(m_msglist), bus_dead)
  /\ m_msglist' = Tail(m_msglist)
  /\ bus' = "popped"
  /\ UNCHANGED <<created, heap, m_lock, mqttVars, msg>>

DeletePopped ==
  /\ bus = "popped"
  /\ IF bus_dead = NULL THEN UNCHANGED heapVars ELSE destroy(bus_dead)
  /\ bus_dead' = NULL
  /\ Unlock
  /\ bus' = "top"
  /\ UNCHANGED <<m_msglist, mqttVars, msg>>

Bus == TestEmpty \/ TestFront \/ Front \/ DropMsg \/ DeleteMsg \/ PopLock \/ Pop \/ DeletePopped

-----------------------------------------------------------------------------
QNext == Mqtt \/ Bus

QSpec == QInit /\ [][QNext]_qvars

QFairSpec == QSpec /\ WF_qvars(Mqtt) /\ WF_qvars(Bus)

-----------------------------------------------------------------------------
(* Properties *)

QTypeOK ==
  /\ created \in 0 .. MaxCmds
  /\ m_refcount \in [Data -> 0 .. 3]
  /\ heap \in [Data -> {"none", "live", "deleted"}]
  /\ m_msglist \in Seq(Data)
  /\ m_lock \in {"none", "mqtt", "bus"}
  /\ mqtt \in {"idle", "lock", "copy", "append", "drop", "delete"}
  /\ bus \in {"top", "front", "copy", "write", "delete", "lock", "pop", "popped"}
  /\ arg \in Data \cup {NULL} /\ mqtt_dead \in Data \cup {NULL}
  /\ msg \in Data \cup {NULL} /\ bus_dead \in Data \cup {NULL}

InQueue(d) == \E i \in 1 .. Len(m_msglist) : m_msglist[i] = d

\* Does some blob refer to d?
Referenced(d) == d = arg \/ d = msg \/ InQueue(d)

Dying(d) == d \in {mqtt_dead, bus_dead}

\* No thread ever uses a payload that was deleted, or deletes it twice: whatever a
\* blob refers to is live and nobody is about to delete it, although front() copies
\* its blob without the lock and push's argument may outlive the pop.
Anchored ==
  /\ \A d \in Data : Referenced(d) => heap[d] = "live" /\ ~Dying(d)
  /\ \A d \in Data : Dying(d) => heap[d] = "live"
  /\ mqtt_dead # NULL => mqtt_dead # bus_dead

\* No payload leaks: one that no blob refers to has been deleted, or one of the
\* threads is about to.
NoLeak ==
  \A d \in Data : heap[d] = "live" => Referenced(d) \/ Dying(d)

\* The queue has one reader: while slave_poll holds a copy of the front element, or
\* is about to copy or pop it, that element exists and stays in front, whatever is
\* pushed meanwhile.
FrontStable ==
  /\ bus \in {"front", "copy", "write", "delete", "lock", "pop"} => m_msglist # << >>
  /\ bus = "write" => msg = Head(m_msglist)

\* Both threads get the lock again and again: a payload whose last blob is gone is
\* deleted, and a push ends.
PushEnds == mqtt = "lock" ~> mqtt = "idle"
=============================================================================
