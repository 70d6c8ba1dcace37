# osdpmaster: a verification project in TLA+

osdpmaster polls access-control peripherals (OSDP "slaves" or PDs) over an RS485
line and connects them to an MQTT broker: commands arrive on MQTT topics, replies
and the retained status of every slave are published there. This directory holds
TLA+ models of the program, the TLC configurations that check them and TLAPS
proofs of what matters most. All modules are translated from the C++, C and
Python sources; line numbers are in `PROJECT.json` ("map").

## 1. The system

### Components

| Component | State | Operations | What makes it correct |
|---|---|---|---|
| **Bus thread** (`busprotocol::run`, `slave_poll`; `osdpmaster.cpp`) | `m_poll_slave`, the locals `a`, `sendmsg`, `txseq`, the port names | scan for the next slave, decide whether to poll it, transmit, read, `ack`/`nak`, publish, reopen the port | every enabled slave is polled, a disabled one is not; the command popped is the one that was answered; replies are published; the retained status is true |
| **MQTT thread** (`main` in `mosquitto_loop_forever`, `message_callback`, `message_for_slave`) | none of its own | queue a command, ENABLE / DISABLE | commands of one slave stay in order; a command for a disabled slave is dropped; the status published agrees with the slave |
| **osdpslave** (`osdpslave.cpp/.h`) | `m_retry`, `m_txseq`, `m_rxseq`, `m_enabled`, `m_next_assign`, `m_next_poll`, `m_msglist` | `ack`, `nak`, `push`, `pop`, `purge`, `declare_online` | sequence numbers wrap 3 to 1 and stay in step with the PD; `m_retry` counts misses up to the limit |
| **protocol** (`osdpprotocol.cpp/.h`) | `m_fd`, `m_in_buffer`, `m_out_buffer`, `m_deadline`, `m_next_write` | `prepcom`, `close`, `flush_input`, `writecook`, `readcook` (`readsoh`, `readeof`, `read_some`) | a reply is framed and checked however its bytes arrive; every read ends |
| **crc16** (`crc16.c`) | an accumulator | `crc16_prepare`, `crc16_add`, `crc16_digest` | it is the remainder it purports to be |
| **sync_queue** (`sync_queue.h`) | a list, a mutex, a condition variable | `push`, `pop`, `front`, `empty`, `purge`, `wait` | operations are atomic; no element lost |
| **blob, katomic** | reference counts | copy, assign, ref, unref | the last reference, and only it, frees the buffer |
| **mem_zero, split, timespec** | none | text and time helpers | agree with a plain definition |
| **filesend.py** and the other scripts | offset of a file transfer | send a fragment, wait for FTSTAT | the PD sees the fragments in order, without a hole |
| **Configuration, logging** | read once / write-only | | |

### How they interact

```
 MQTT broker --osdp/bus1/<addr>/outgoing|control--> MQTT thread
                                                        | push, m_enabled
                                                        v
                                              osdpslave (per slave)  <-- shared, only
                                                        ^               the queue has a lock
                                                        | front, pop, ack, nak
 MQTT broker <--retained status, incoming-- bus thread --writecook/readcook--> protocol -- RS485 -- PDs
```

The two threads share the slaves. `m_msglist` has a mutex; the other fields are
plain members, `m_enabled` being written by the MQTT thread and read by the bus
thread. Both threads publish the retained status, so the choice of a value and its
publication by one thread interleave with those of the other.

### What is hard

* *Interleaving*: commands and control messages arrive between any two steps of
  `slave_poll`.
* *Unreliable delivery*: frames and replies are lost, damaged or late; a repeat with
  the same sequence number asks the PD to repeat its reply. `slave_poll` does not
  compare the sequence number of a reply with that of its poll.
* *Restarts*: a PD loses power; the master starts while PDs still remember the
  sequence numbers of an earlier run; the port fails and is reopened, perhaps under
  its other name.
* *Time*: retry back-off, the slow polling of offline slaves, the reply deadline.
* *Byte streams*: a reply comes in any number of pieces after noise.

`PROJECT.json` lists the hazards one by one, at their lines, with the properties
that would catch each going wrong or the reason why none does yet.

## 2. The modules

| Module | Models | Checked by |
|---|---|---|
| `OsdpMaster` | both threads and the slaves they share; any reply may be read | `MCOsdpMaster`: run `master` |
| `OsdpMasterProofs` | proofs about it | TLAPS |
| `CommandChannel` | abstract: what becomes of a command from its arrival to its execution | as a property of `bus` |
| `OsdpBus` | `OsdpMaster` composed with the line and the PDs; implements `CommandChannel` | `MCOsdpBus`: `bus`, `bus_live`, `status`, `retransmit`, `late` |
| `OsdpBusProofs` | proofs about it: types, sequence numbers, what answers what; commands, events, the refinement of `CommandChannel` | TLAPS |
| `FileSend` | `scripts/filesend.py`, composed with `CommandChannel` | `MCFileSend`: `filesend` |
| `FileSendProofs` | proofs about it | TLAPS |
| `BlobQueue` | a command's payload in the two threads: `sync_queue`, `blob`, the atomic counts | `MCBlobQueue`: `blob` |
| `BlobQueueProofs` | proofs about it | TLAPS |
| `BusTiming` | the clock arithmetic of `protocol`, `slave_poll` and `nak` | `MCBusTiming`: `timing` |
| `BusTimingProofs` | proofs about it | TLAPS |
| `Framing` | frames as functions: `writecook`'s layout, `readcook`'s checks | through `SerialPort` and `Algorithms` |
| `SerialPort` | `class protocol` under `run`: opening, writing, reading a frame out of a byte stream | `MCSerialPort`: `serial`, `hangup` |
| `SerialPortProofs` | proofs about it | TLAPS |
| `Crc16` | `crc16.c` and the polynomial division | through `Algorithms` |
| `Helpers` | `mem_zero`, `split`, `join` | through `Algorithms` |
| `ByteProofs` | proofs about the operators of `Framing` and `Helpers` | TLAPS |
| `Algorithms` | the pure algorithms against definitions without their loops | `MCAlgorithms`: `algorithms` |
| `AlgorithmsProofs` | proofs about it and about `Crc16` | TLAPS |

Definitions named `X_Something` before a definition `X` are deliberately wrong
variants of it: each breaks one of the properties (`PROJECT.json`, "mutants"),
which shows that the property depends on the code that `X` translates.

### OsdpMaster

One action per step of a thread. A step of the bus thread ends where the other
thread can see a difference, so the program counter `pc` has the locations

| `pc` | in `slave_poll` / `run` | actions |
|---|---|---|
| `open` | `run` has no open port | `Opened` |
| `scan` | the search for the next slave | `Scan` (one turn of the loop) |
| `check` | is the slave to be polled now? | `NotPollable`, `CheckOffline` (purges, polls once per `m_next_assign`), `CheckOnline` (waits for `m_next_poll` after a miss) |
| `send` | flush, choose queue head or OSDP_POLL, `writecook` | `Transmit`, `IoError` |
| `read` | `readcook` returned | `nak` (any error), `WrongAddress`, `Refused` (NAK and BUSY), `ack`, `IoError` |
| `nakpub`, `ackpub` | between the choice of a status and its publication | `PublishOffline`, `PublishOnline` |

The MQTT thread has `push`, `Control` and `PublishControl`; while its publication is
pending it handles no further message. The clock moves the two deadlines of a slave
from "pending" to "due". `m_next_poll` starts "unset", the uninitialised member of
the constructor; comparing it may go either way.

`Replies` is every well-formed reply the constants allow, from any address and with
any sequence number, so what holds here holds whatever the line does.

### OsdpBus

Adds the line (`down`: the frame in flight; `up`: replies in flight or in the tty),
the PDs and history variables (`exec`: what a PD executed; `acked`: what was popped
as acknowledged; `incoming`: what was published; `last`, `swapped`). The PDs are not
part of the repository; they follow the comment "sequence numbers" of
`osdpslave.cpp` (a repeated number repeats the reply, another one is processed) and
are marked external. A PD takes any other number;
when `Strict`, it may refuse one out of sequence with a NAK, which makes `slave_poll` start again
from 0. Frames and replies may be lost (`LoseFrame`, `LoseReply`),
damaged (`BCorrupt`), refused, or, with `Late`, arrive after the deadline; PDs lose
power; the port fails.

### SerialPort

The bytes since the last flush are one sequence `line`; `arrived` of them reached
the tty, `taken` were read. `read_some` returns what is there up to what it was
asked for, so every split of the stream into reads occurs. `readsoh` (`readsoh`,
`readheader`), `readeof` (`readlength`, `readeof`) and the integrity check of
`readcook` (`check`) are actions at the locations `soh`, `header`, `length`, `body`,
`check`. The deadline is the flag `late`: like the code, the model looks at it only
when there is nothing to read. A device may be unplugged at any time: then its tty
is `hung`, writes fail, and reads fail or return 0 bytes. `run`'s reopening with
the switch between `port` and `port2` is `Open` / `OpenFails`.

The operators on frames are in `Framing`, which `Algorithms` uses too. Its `Crc` is a
parameter: `MCSerialPort` uses a sum that depends on the order of the bytes, because
framing only compares the value; `MCAlgorithms` uses `Crc16`.

### CommandChannel, and how OsdpBus implements it

`CommandChannel` knows four things per slave: the commands that `arrived`, those
`pending`, those `executed`, and whether the slave has forgotten what it executed
(`amnesia`). Commands are executed in the order of their arrival, each once; the last
may be executed again after the slave forgot it; pending ones may be given up. There
are no retries, sequence numbers, threads or frames.

`OsdpBus` implements it (`ImplementsChannel`) under this mapping:

| CommandChannel | OsdpBus |
|---|---|
| `arrived` | `pushed` |
| `pending[s]` | `Unexecuted(s)`: the queue without a head that the PD has executed already and whose acknowledgement is under way |
| `executed[s]` | `exec[s]` |
| `amnesia[s]` | the PD has no last sequence number, `pd_last[s] = NoSeq` |

`Execute` is the step in which the PD hears the frame; the master's pop, when the
reply arrives, is a stutter. A purge, and a pop on an answer that was meant for
another frame (see `retransmit`), are `GiveUp`.

### FileSend

The client is modelled over `CommandChannel`, not over the whole bus. Its own locations are
the conditions and calls of `run`: `check` (is the slave offline?), `clear`, `publish`,
`wait` (`Answered`, `TimedOut`), `interpret`. `on_message` runs between any two of them, in
two steps: it stashes the FTSTAT (`Stash`), then sets the event (`Set`). Offsets are
counted in fragments; offset `Fragments` is the empty fragment sent until the PD reports
the end. The PD is external: it stores a fragment when it executes the command
(`Store`, the channel's `Execute`) and has an answer with any status.

What osdpmaster does with commands and answers is in the model too:

| Action | Code |
|---|---|
| `publish` | `message_for_slave` queues the command (`Arrive`), or ignores it while the slave is disabled |
| `AcceptFtstat` | `slave_poll` accepts an FTSTAT and publishes it: the answer to its own command, a late one, or one that the PD repeats; in the latter cases `s.pop()` may remove a command that was never executed |
| `AcceptAck` | the same for an OSDP_ACK, which is not published |
| `Purge` | the queue of a slave that goes offline is cleared |
| `DeclareOnline` | the status is published, under the topic of `declare_online` |

`Deliver` compares the topic with the script's subscription, so that the messages of
`declare_online`, which are under `osdpiom/`, do not reach it. The removals are the
channel's `GiveUp`, one command or all; which replies a PD repeats and why a reply is
late is the subject of `OsdpBus`, here any of them may be.

An FTSTAT does not say which fragment it answers. Whenever a fragment is answered twice,
because it was sent again after a second or because the PD repeated its reply, the
second answer is taken for the next fragment's, and the uploader is ahead of the PD for the
rest of the transfer. What does hold is that each FTSTAT carries the uploader
past one fragment at most (`AnAnswerEach`), that no fragment is missing as long as none was
answered twice (`PassedIsStored`, under `NoSurplus`), and that the PD never gets an earlier fragment
after a later one (`NeverBackwards`).

### BlobQueue

A `blob_data` is created by `message_for_slave`, referred to by `push`'s argument, by
the element of `m_msglist` and by `slave_poll`'s `msg`, and deleted by whichever blob
brings its count to zero. Steps end at every atomic operation: increment, decrement
with its test, deletion, lock, unlock. `front()` takes no lock, as the comment in
`sync_queue.h` explains (one reader). `push` on the `std::deque` below it writes
neither the start of the queue nor an element, so this formal race has one outcome in
the build, which `Front` takes: the head.

### BusTiming

Times are records of `tv_sec` and `tv_nsec`, computed field by field like in the code:
`Carry`, `Before`, `Remaining`, `itime`. The clock advances between any two steps and
while `poll` or `clock_nanosleep` sleeps. History variables remember when a deadline's
interval began, so that the properties can say in microseconds what the fields must
amount to. In `OsdpMaster` the same deadlines are just "pending" or "due".

### Algorithms

A state is a message and its CRC (`Crc16`). A word of the CRC is the set of the positions of
its bits, so that `crc16_add`'s shifts move elements, `^` is the symmetric difference, and
the cast to 16 bits drops the elements above 15; a polynomial over bits is, likewise, the
set of its exponents, against which the shifts are compared. Every invariant quantifies
over what else the algorithm takes: alignment and length for `mem_zero`, the count for
`split`, address, sequence number and padding for `writecook`.

## 3. What TLC checks

| Run | Instance | Shows |
|---|---|---|
| `master` | 2 slaves, one answers and one is silent, limit 2, 1 command, all control messages | `TypeOK`; `DeadlineSet` (the uninitialised `m_next_poll` is never compared); `StatusTruthful`; `NoStarvation`, `DisabledLeftAlone` |
| `bus` | 1 PD, limit 2, 2 commands, 1 event, NAK and BUSY, 1 power loss, port errors | `BTypeOK`, `PopsWhatWasSent` (a command is popped on the reply to its own transmission, whatever is pushed meanwhile), `InOrderOnce`, `SeqSync`, `ReplyAnswersPoll`, `NoEventLost`, `AckedExecuted`, `ImplementsChannel` |
| `bus_live` | the same without events, port errors and refusals, except of numbers out of sequence | `QueueDrains`, `DeadIsOffline`, `AliveComesOnline`: the restart from 0 gets a PD back into step, after a loss of power or an earlier run of the master |
| `filesend` | 2 fragments and the empty one, 3 commands, 4 answers, repeated ones included | `FTypeOK`, `AnAnswerEach`, `PassedIsStored`, `NeverBackwards` |
| `blob` | 5 payloads | `QTypeOK`; `Anchored` (no use after the deletion, no second deletion); `NoLeak`; `FrontStable`; `PushEnds` |
| `timing` | a clock that starts 100 ms before a full second and advances 5 times; two configurations | `Normalised`, `BackoffExact`, `TimeoutExact`, `QuietAfterRead` |
| `serial` | 13 kinds of reply and noise, 13-byte buffer, 9 bytes on the line, 2 devices | `STypeOK` (the frame fits the buffer), `FramesAtSoh`, `AcceptedIntact`, `GoodNotRefused`, `ReadEnds`, `AnyPortOpens` |
| `algorithms` | messages of up to 3 bytes out of 8 | `CrcIsRemainder`, `DamageDetected`, `ZeroIsZero`, `SplitThenJoin`, `WriteReadBack` |

Four runs find a violation, where the code does not do what a comment of the
repository says ("findings" in `PROJECT.json`):

* `status` (`DeadIsOffline`): ENABLE for a slave that is already offline publishes
  ONLINE: `message_for_slave` passes `offline()` where `declare_online` expects
  "online". Nothing corrects the retained message while the slave stays silent.
* `retransmit` (`RetryRetransmits`): a retry does not retransmit. The frame is
  rebuilt from the queue, so a command that arrived meanwhile goes out under the
  sequence number of the unanswered OSDP_POLL; a PD that had heard the poll repeats
  its reply, and the command is popped without having been executed.
* `late` (`ReplyAnswersPoll`): a reply that arrives after its deadline and after the
  next flush is taken for the answer to the newer poll.
* `hangup` (`ReadReturns`): when the cable is unplugged while `readcook` waits, the
  tty reads as 0 bytes; `readsoh` and `readeof` ask again for ever, without a look
  at the deadline, so `run` never reopens the port.

The models show more that no run is about:

* `declare_online` reads `m_enabled` before it publishes. A DISABLE in between is published
  first, and the bus thread's stale ONLINE or OFFLINE stays on the broker.
  `StatusTruthful` leaves out the slaves that were controlled meanwhile (`suspect`).
* `readeof` compares the length with the room left after the header, although the length
  counts the header. A reply of 267 or 268 bytes, the size that the comment on the buffer
  provides for, is refused as an overflow. `GoodNotRefused` is about the lengths below.
* In `FileSend`, the second answer to a fragment that was sent twice is taken for the next
  fragment's, which the PD may never get; a status below zero ("abort file transfer") is
  followed by the next fragment; and the script never learns that a slave is offline, as
  it subscribes below `osdp/` and `declare_online` publishes below `osdpiom/`.

A frame of 6 bytes with a checksum, or 7 with a CRC, passes `readcook` although it has
no room for a func byte, and one of 6 with a CRC although its control byte is half of
that CRC; they are among the replies of `serial` and listed as a hazard.

### Bounds, and why they are enough

* One slave in `bus`, two in `master`: slaves interact only through the scan and the
  shared line; `slave_poll` waits for one reply before it polls the next slave, and the
  proofs below hold for any number of slaves. Two make the scan wrap around and skip.
* Two commands in `bus`: order and duplication are properties of pairs, and the second
  command may arrive while the first is in flight, is retried or was purged. One
  in `master`, whose properties are about statuses and the scan. The proofs are for any
  number.
* A retry limit of 2 instead of 10: it has the three regimes of `m_retry` (0,
  between, at the limit) that the code distinguishes.
* Sequence numbers are complete (0 to 3).
* One power loss and one PD event already give every pair (event, loss) and
  (restart, repeat); more events are distinguished only by their numbers.
* `MaxLine` 9 bytes holds every kind of reply; short remnants stay on the line under
  the next frame. The buffer of 13 bytes makes 8 the longest accepted frame, so
  lengths at, below and above the limit occur. Real buffers are 271 bytes.
* The CRC of 3 bytes passes each byte through the whole 16-bit register. The zeros
  around a message in `ZeroIsZero` are 0, 1, 4, 7 or 9, at each of 8 alignments: every
  combination of leading bytes, words and trailing bytes occurs. Frame lengths that take
  both bytes are checked without their payload.
* Five payloads in `blob`: several are alive at once, in the argument, the queue and
  `msg`; the theorems hold for any number.
* The clock's steps in `timing` (100 us, 300 us, 9.7 ms, 90 ms, 4.9 s) add up exactly to
  the delays of 300 us, 10 ms, 100 ms and 5 s, and to the next full second, so that every
  comparison and carry occurs at its boundary. The longer timeout, 1.09 s, is there for
  the cap at a second; it is only overrun.
* Three commands and four answers in `filesend`, for two fragments and the empty one: a
  fragment can be sent twice and answered twice, or its answer repeated, and the transfer
  still ends. The theorems hold for any number of each.

### Fairness

* `WF(BusThread)`, `WF(BBusThread)`, `WF(Master)`: `run` is an endless loop, every
  wait in it has a timeout (`poll` in `read_some` and `write`, `sleep`), and the
  thread is never blocked by the other one beyond a queue operation.
* `WF(PublishControl)`: the MQTT thread finishes the callback it is in. Nothing says
  that messages keep arriving.
* `WF` of the clock: deadlines pass.
* `WF(LoseFrame)`: a frame does not stay on the line for ever; it is heard or gone.
* `AliveComesOnline` assumes, in the property itself, that the slave is `Connected`:
  strong fairness of the PD's answer and of its reception. Without it, the line may
  lose every reply, and offline is the right answer.
* `QFairSpec` (`blob`): both threads go on. A push waits while a pop holds the lock, and
  only finitely many pops can precede it: the queue runs empty.
* `SFairSpec` does not make reads of a hung-up tty fail: the kernel returns 0.

## 4. What is proved

For every number of slaves, retry limit, addresses and number of commands, every CRC and
buffer size, every clock and configuration, from the named assumptions of the modules:

| Theorem | Says |
|---|---|
| `OsdpMasterProofs!TypeCorrect` | `Spec => []TypeOK` |
| `DeadlineAlwaysSet` | `Spec => []DeadlineSet` |
| `PopIsSafe` | `Spec => []PopsWhatWasSent` |
| `StatusIsTruthful` | `Spec => []StatusTruthful` |
| `OsdpBusProofs!RepliesAnswerPolls` | without late replies, `BSpec => []ReplyAnswersPoll` |
| `SequenceInSync` | without late replies, `BSpec => []SeqSync` |
| `BusTypeCorrect` | `BSpec => []BTypeOK` |
| `CommandsInOrderOnce` | without late replies, `BSpec => []InOrderOnce` |
| `AcknowledgedWasExecuted` | without late replies, `BSpec => []AckedExecuted` |
| `EventsAreKept` | without late replies, `BSpec => []NoEventLost` |
| `BusIsChannel` | without late replies, `BSpec => ImplementsChannel`: the refinement |
| `BlobQueueProofs!TypeCorrect` | `QSpec => []QTypeOK` |
| `NoUseAfterDelete` | `QSpec => []Anchored` |
| `EveryPayloadDeleted` | `QSpec => []NoLeak` |
| `FrontStays` | `QSpec => []FrontStable` |
| `FileSendProofs!TypeCorrect` | `FSpec => []FTypeOK` |
| `NoAnswerCountsTwice` | `FSpec => []AnAnswerEach` |
| `NoHoleWithoutSurplus` | `FSpec => []PassedIsStored` |
| `FragmentsInOrder` | `FSpec => []NeverBackwards` |
| `SerialPortProofs!SerialTypeCorrect` | `SSpec => []STypeOK` |
| `FramesStartAtSoh` | `SSpec => []FramesAtSoh` |
| `NothingOverread` | `SSpec => []NoOverread` |
| `AcceptedIsIntact` | `SSpec => []AcceptedIntact` |
| `GoodIsNotRefused` | `SSpec => []GoodNotRefused`: no good frame of a length that `readeof` accepts is refused |
| `ByteProofs!DamagedByteIsRefused` | `readcook`'s check refuses a frame with a checksum if one byte was damaged |
| `WrittenIsRead` | what `writecook` sends is read back by `readcook`'s functions |
| `ZeroIsFound` | `mem_zero` is true exactly if all bytes are zero |
| `SplitIsJoined` | what `split` returns is joined again to what it was given |
| `AlgorithmsProofs!CrcIsRemainderOfDivision` | `CSpec => []CrcIsRemainder` |
| `DamageIsDetected` | `CSpec => []DamageDetected` |
| `DamageIsRefused` | `readcook`'s check refuses a frame with one byte, or two in a row, damaged |
| `MemZeroFindsAll` | `CSpec => []ZeroIsZero` |
| `SplitLosesNothing` | `CSpec => []SplitThenJoin` |
| `WrittenIsReadBack` | with a CRC of two bytes, `CSpec => []WriteReadBack` |
| `BusTimingProofs!DeadlinesAreTimes` | `TSpec => []Normalised` |
| `BackoffIsExact` | `TSpec => []BackoffExact` |
| `QuietIsKept` | `TSpec => QuietAfterRead` |
| `TimeoutIsExact` | `TSpec => TimeoutExact` |

*The inductive invariant of `OsdpMaster`* is `IInv`: `TypeOK`, `PopsWhatWasSent`,
`DeadlineSet`, `PublishesStatus` (a thread that is about to publish holds a status)
and `StatusInv`. `StatusTruthful` alone is not inductive: it says nothing of a slave
whose publication is under way, so a step that publishes could publish anything.
`StatusInv` adds what the bus thread holds in its local (`AboutToBeTrue`): after
`nak`, the true status; after `ack`, the status that becomes true once `m_retry` is
reset, which the code does only after the publication. `PopsWhatWasSent` is inductive
because only the bus thread removes from a queue and the MQTT thread appends at the
other end. The proof has a lemma per thread and a case per action.

*The inductive invariant of `OsdpBus`* is `BInv`: `IInv`, `LineInv` (while
`slave_poll` waits the line carries either its frame or one reply to it; otherwise it
is silent) and `SeqInv` (an acceptable reply comes from a PD that has processed the
poll's number, so that advancing `m_txseq` keeps master and PD one step apart). The
assumption `~Late` is exactly what the comment on sequence numbers takes for granted;
the run `late` shows that the conclusion fails without it.

*What becomes of commands and events* (the second half of `OsdpBusProofs`) needs `ChannelInv` on top of
`BInv`. It has three parts:

* `CmdInv`, for `InOrderOnce`. `OrderInv`: the queue and the commands executed are in
  order, and only the last one executed may still be the head of the queue. `HeadInv`:
  a PD that has executed that head knows `m_txseq`, the number the head came with, or
  has lost its memory; therefore it takes the next transmission of the head for a
  repetition. A poll without a command would bring the PD another number while the
  head waits, so `HeadInv` also says that such a frame is not sent once the head
  was executed. `FrameInv` ties the frame and the reply on the line to the frame
  transmitted last.
* `AckInv`, for `AckedExecuted`. `KnownFrames`: a PD that knows the master's number has
  executed the command of the frame transmitted last, unless that frame took the place
  of another one under its number (`swapped`, the exception the run `retransmit` is
  about). `RepliesMean`: the reply on the line stands for that execution. `ZeroSwaps`:
  with the number 0 any frame may count as a repetition.
* `EventInv`, for `NoEventLost`. `Kept`: an event that a PD holds in its last reply is
  published, or about to be, once the master has advanced its number, so that it is
  published before the PD overwrites it.

`StepKinds` divides the steps into nine kinds by what they do to commands and replies,
with a lemma for each that says what it changes; every part of the invariant is then
proved kind by kind.

*The refinement* `BusIsChannel` follows from the same invariant. A step maps to
`Arrive` (the queueing of a command), `Execute` (the PD hears the frame whose command is the
head of its queue), `ExecuteAgain` or `Remember` (a PD without memory hears the head it
executed before it lost power, or another frame), `GiveUp` (a purge; a pop of a head
that no PD executed), `Forget` (a PD loses power), and to a stutter otherwise, among
them the pop of an executed head, by which `Unexecuted` does not change
(`ChannelStep`).

*The inductive invariant of `BlobQueue`* is `QInv`. Its heart is `CountInv`: a count is
the number of blobs that refer to the payload, among them the copy that `push` has
counted but not yet appended. It needs `PlaceInv` (which payload a thread holds where)
and `QueueInv`: the queue is strictly increasing, so that it holds a payload once and
popping one removes its only element. `HeapInv` relates counts, deletions under way and
the heap; with `Counted` (a payload is referred to if and only if its count is positive)
it gives `Anchored` and `NoLeak`.

*The inductive invariant of `FileSend`* is `FInv`. `OrderInv` says of the channel what `FileSend`
needs: commands are executed in the order of their arrival, none twice. `SentInv`:
offsets are published in order; with `OrderInv` it gives `NeverBackwards`. `CreditInv` counts the
answers that may still carry the uploader on: those it has not received, the one that
`on_message` has stashed, and the event, unless `clear` is still to come (`Fresh`). The offset
and these are never more than the FTSTATs published, which gives `AnAnswerEach`. `AnAnswerEach`
alone is not inductive: it knows nothing of an answer between its arrival and the moment
at which the uploader goes on with it. `PassedInv` is a counting argument: no fragment after the current one has been
answered, and when the uploader goes on there have been at least `offset + 1` FTSTATs;
without a surplus these answered as many different fragments, hence every one up to the current
one, and what was answered is stored. `PDAssumption` (the PD is one of the
channel's slaves) and the types in `FileAssumption` are the only assumptions.

*The inductive invariant of `SerialPort`* is `SInv`. `Window`: `m_in_buffer` is a window on
the stream, which ends with the last byte taken from the tty and starts at the first SOH
since the flush. `Filled`: how much of a frame is in it at each location of `readcook`,
so that no read asks for more than the frame or the buffer holds. `Returned`: what each
return value says of the buffer, because `AcceptedIntact` and `GoodNotRefused` speak of a
moment when `readcook` is over. `GoodNotRefused` follows as a frame's length is in its
third and fourth byte: a good frame at the window's beginning could only be the one that
was checked. The theorems hold for any function `Crc` and any `BUFSIZE` above 10.

The proof showed one thing about the model: `GoodFrame` used to ask a frame with a CRC
for more than 6 bytes, which `readcook` does not, and `AcceptedIntact` could not be proved
for the reply of 6 bytes whose control byte has the CRC bit; TLC had not met it because
no reply of the instance was like that. It is now one of them.

*The functions of `Framing` and `Helpers`* (`ByteProofs`). What a fold computes is proved by
induction over the message: the library's induction theorems cannot be instantiated with
an operator here, so it goes by the shortest prefix for which the claim would fail
(`Least`, `UpTo`), from the equations of the fold, which are proved for every set of
positions (`FoldExists`, for folds into any set of values). The lemma `Checksum` relates in
this way the checksum kept modulo 256 to the sum. `DamagedByteIsRefused` rests on it: two
frames that differ in one byte have sums that differ by less than 256 (`SumsApart`), so the
check byte cannot agree with both. It leaves out the damage that turns the CRC bit on, as the
frame is then checked by a CRC. `WrittenIsRead` is about framing, for
every payload of bytes, address, sequence number, lead and trail. It assumes that length
and CRC fit two bytes and that the frame fits the buffer of the other end, and nothing
else of the CRC. `ZeroIsFound`: the three loops of `mem_zero` visit every byte and none past
the end. `SplitIsJoined` has an invariant of `split`'s loop: the parts found so far, joined
and followed by a separator, are what was read, and none of them holds a separator.

*The CRC* (`AlgorithmsProofs`). `FoldedBits` and `StepBits` give every bit of the accumulator
after one turn of `crc16_add`'s loop. The rest is about messages of any length.

* `DamageIsDetected`. One turn is injective in the accumulator (`StepInjective`): its low
  byte determines the byte `x`, which with the byte read determines the old high byte, and
  the new high byte then determines the old low byte. Two turns are injective in the two
  bytes they read (`TwoStepsInjective`). So two messages that differ in these bytes only
  have different accumulators after them, and different ones from there on
  (`SameTwoBytes`). `DamageIsRefused` carries this over to `readcook`. It is about the bytes
  that the CRC covers, and not about the last of them together with the first byte of the
  CRC: the low byte goes first, and that pair can be damaged undetected (the bytes 1, 2, 3
  have the CRC 61, 112 and the bytes 1, 2, 138 the CRC 156, 112).
* `CrcIsRemainderOfDivision`. The division of a message with one byte more
  (`DividendAppend`) starts with the subtractions of the division without it, moved up by
  8 (`SubtractAbove`), and the new byte stays where it is. So before the last eight it has
  left the old accumulator, moved up by 8, and the new byte moved up by 16; the last eight
  subtractions are one turn of the loop (`LastSubtractions`). They are taken in two groups of
  four, as four in a row do not meet (`FourSubtractions`).

The three other invariants of `Algorithms` follow from `ByteProofs`. `FitsAssumption` says that
the payloads considered fit the buffer. That the CRC has two bytes is a hypothesis of
`WrittenIsReadBack`, because `Crc` is a parameter of `Framing`.

*The inductive invariant of `BusTiming`* is `TInv`. Times are compared by their nanoseconds
(`Ns`); a lemma for each operator says what its arithmetic on the two fields does to them:
`Before` is `<`, `Carry` changes nothing and yields a proper timespec for less than two
seconds of nanoseconds (which is where "the delay is under a second" is needed), `itime`
rounds down, so that it is negative as soon as the deadline is past. `Quiet`, `Reading` and
`Backoff` then say how far each deadline is from the moment it counts from, as long as it
is in use; `Backoff` needs that an online slave has missed a poll exactly if `m_retry` is
positive, because `m_next_poll` keeps the deadline of an earlier absence.

Every invariant of the passing runs is proved, and `NoOverread` besides. Only model-checked are the properties that need
fairness, which is beyond the prover: `NoStarvation`, `DisabledLeftAlone`, `QueueDrains`,
`DeadIsOffline`, `AliveComesOnline`, `PushEnds`, `ReadEnds` and `AnyPortOpens`.

## 5. Not modelled

* What nothing in the program calls: `flyby` (`m_my_addr` stays 0xFF), `resend`,
  `waitidle`, `welcome`, `retire`, `set_uuid`; `sync_queue::wait` and `size`; the
  assignment, cloning, comparison and text conversions of `blob`; the operators of
  `timespec.h` (the deadlines are computed field by field, see `BusTiming`).
* termios settings, RS485 ioctls, option parsing, reading the configuration, logging,
  statistics: no state that later steps depend on. A configuration without a slave, and
  the descriptor that a failed `prepcom` leaves open, are outside the models too.
* A frame longer than `m_out_buffer`: `writecook` is modelled for payloads that fit.
* A crash of osdpmaster: nothing is persisted, so a restart is an initial state, in which
  the PDs of `OsdpBus` may remember any sequence number and reply. Between the crash and
  the restart the broker keeps the last retained status.
* A message on `osdp/bus1/outgoing` itself, which the subscription to `#` below it matches
  too and which has no fourth part for `message_callback` to look at; no client sends it.
* The other scripts, which publish or print one message, and the bytes of
  OSDP_FILETRANSFER and OSDP_FTSTAT.

## 6. Plan

1. *Done*: `OsdpMaster`, `OsdpBus`, `SerialPort`, `Crc16` and the first proofs;
   `CommandChannel` and its refinement; `BlobQueue` and its proofs; `BusTiming`;
   `Framing`, `Helpers`, `Algorithms`; `FileSend` and its proofs.
2. *Done*: the proofs of `BTypeOK`, `InOrderOnce`, `AckedExecuted`, `NoEventLost` and of
   the refinement of `CommandChannel`.
3. *Done*: the proofs of `SerialPort`, `Framing` and `BusTiming`.
4. *Done*: the proofs of `Crc16`, `split` and `join`, and of every invariant of
   `Algorithms`.
5. *Open*: what the hazards without a property are about, as far as the code has an answer to
   it; the liveness properties for more than the instances of the runs.
