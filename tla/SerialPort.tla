----------------------------- MODULE SerialPort -----------------------------
(***************************************************************************)
(* class protocol under busprotocol::run: opening the port and switching   *)
(* between two of them, writing a frame, and reading a reply out of the    *)
(* byte stream (readcook).                                                 *)
(*                                                                         *)
(* The stream since the last flush_input is a sequence of bytes: taken of  *)
(* them were read, arrived of them have reached the tty, the others are    *)
(* still on the line.  A read returns what is there, up to what was asked  *)
(* for.  When the port in use is unplugged, its tty is hung up: writes and *)
(* flushes fail, and read fails or returns 0 bytes.                        *)
(***************************************************************************)
EXTENDS Framing

CONSTANTS
  PortNames,  \* the names of the configured devices, one or two
  Port1,      \* port.device
  Port2,      \* port.device2, or "none"
  Lines,      \* what may come back after a frame: reply, noise, nothing
  MaxLine,    \* bound: bytes on the line and in the tty
  TxLen       \* length of a transmitted frame

ASSUME PortsAssumption == Port1 \in PortNames /\ Port2 \in PortNames \cup {"none"}
ASSUME TxAssumption == TxLen \in Nat \ {0}
ASSUME LinesAssumption == Lines \subseteq Seq(Byte) /\ MaxLine \in Nat

VARIABLES
  port, port2,   \* m_config.port and m_port2
  works,         \* environment: which devices prepcom would succeed on
  hung,          \* the tty behind m_fd is hung up
  pc,            \* "closed", "idle", "write", or where readcook is
  unsent,        \* bytes ::write has not taken yet
  line, arrived, taken,
  late,          \* is CLOCK_MONOTONIC past m_deadline?
  buf,           \* the part of m_in_buffer read so far
  result         \* what readcook returned: an error, or the size of the message

portVars == <<port, port2>>
lineVars == <<line, arrived, taken>>
svars == <<portVars, works, hung, pc, unsent, lineVars, late, buf, result>>

Reading == pc \in {"soh", "header", "length", "body", "check"}

SInit ==
  /\ port = Port1 /\ port2 = Port2
  /\ works \in [PortNames -> BOOLEAN]
  /\ hung = FALSE
  /\ pc = "closed"
  /\ unsent = 0
  /\ line = << >> /\ arrived = 0 /\ taken = 0
  /\ late = FALSE
  /\ buf = << >>
  /\ result = 0

-----------------------------------------------------------------------------
(* run: opening the port *)

\* prepcom succeeds; it ends with tcflush(TCIOFLUSH).
Open ==
  /\ pc = "closed"
  /\ works[port]
  /\ pc' = "idle"
  /\ line' = << >> /\ arrived' = 0 /\ taken' = 0
  /\ UNCHANGED <<portVars, works, hung, unsent, late, buf, result>>

SwitchPorts_Loses ==
  IF port2 = "none" THEN UNCHANGED portVars
  ELSE port' = port2 /\ port2' = port2

SwitchPorts ==
  IF port2 = "none" THEN UNCHANGED portVars
  ELSE port' = port2 /\ port2' = port

\* prepcom throws; run sleeps and tries again.
OpenFails ==
  /\ pc = "closed"
  /\ ~works[port]
  /\ SwitchPorts
  /\ UNCHANGED <<works, hung, pc, unsent, lineVars, late, buf, result>>

\* A protocol_exception reaches run, which closes the port.
Fail ==
  /\ hung
  /\ pc' = "closed"
  /\ hung' = FALSE
  /\ unsent' = 0
  /\ buf' = << >>
  /\ result' = 0
  /\ UNCHANGED <<portVars, works, lineVars, late>>

FlushOrWriteFails == pc \in {"idle", "write"} /\ Fail

ReadFails == pc \in {"soh", "header", "body"} /\ Fail

-----------------------------------------------------------------------------
(* slave_poll: flush_input, writecook, readcook *)

flush_input ==
  /\ line' = SubSeq(line, arrived + 1, Len(line))
  /\ arrived' = 0
  /\ taken' = 0

Send ==
  /\ pc = "idle"
  /\ ~hung
  /\ flush_input
  /\ unsent' = TxLen
  /\ pc' = "write"
  /\ buf' = << >>
  /\ result' = 0
  /\ UNCHANGED <<portVars, works, hung, late>>

\* ::write takes some of the bytes; after the last one readcook sets its
\* deadline, and the slave may answer.
Write ==
  /\ pc = "write"
  /\ ~hung
  /\ \E n \in 1 .. unsent : unsent' = unsent - n
  /\ IF unsent' > 0 THEN UNCHANGED <<pc, line, late>>
     ELSE /\ \E l \in Lines : Len(line) + Len(l) <= MaxLine /\ line' = line \o l
          /\ pc' = "soh"
          /\ late' = FALSE
  /\ UNCHANGED <<portVars, works, hung, arrived, taken, buf, result>>

\* read_some(offset, count), with at least one byte to read or the tty hung up:
\* what ::read stores.
ReadSome(count) ==
  IF hung THEN << >> ELSE SubSeq(line, taken + 1, taken + Min({count, arrived - taken}))

Readable == hung \/ arrived > taken

\* readsoh: skip until SOH; whatever has none is dropped.
readsoh ==
  /\ pc = "soh"
  /\ Readable
  /\ LET got == ReadSome(HEADER)
         kept == FromSoh(got)
     IN  /\ taken' = taken + Len(got)
         /\ buf' = kept
         /\ pc' = IF kept = << >> THEN "soh"
                  ELSE IF Len(kept) = HEADER THEN "length" ELSE "header"
  /\ UNCHANGED <<portVars, works, hung, unsent, line, arrived, late, result>>

\* readsoh, after SOH: the rest of the header.
readheader ==
  /\ pc = "header"
  /\ Readable
  /\ LET got == ReadSome(HEADER - Len(buf))
     IN  /\ taken' = taken + Len(got)
         /\ buf' = buf \o got
         /\ pc' = IF Len(buf') = HEADER THEN "length" ELSE "header"
  /\ UNCHANGED <<portVars, works, hung, unsent, line, arrived, late, result>>

\* readcook returns r.
Done(r) == result' = r /\ pc' = "idle"

\* readeof looks at the length.
readlength ==
  /\ pc = "length"
  /\ IF BadLength(Total(buf)) THEN Done(ERR_OVERFLOW)
                              ELSE pc' = "body" /\ UNCHANGED result
  /\ UNCHANGED <<portVars, works, hung, unsent, lineVars, late, buf>>

\* readeof reads up to the end of the message.
readeof ==
  /\ pc = "body"
  /\ Readable
  /\ LET got == ReadSome(Missing(buf))
     IN  /\ taken' = taken + Len(got)
         /\ buf' = buf \o got
         /\ pc' = IF Len(buf') >= Total(buf) THEN "check" ELSE "body"
  /\ UNCHANGED <<portVars, works, hung, unsent, line, arrived, late, result>>

\* read_some finds nothing to read and the deadline passed.
Timeout_SohOnly ==
  /\ pc = "soh"
  /\ ~Readable
  /\ late
  /\ Done(ERR_TIMEOUT)
  /\ UNCHANGED <<portVars, works, hung, unsent, lineVars, late, buf>>

Timeout ==
  /\ pc \in {"soh", "header", "body"}
  /\ ~Readable
  /\ late
  /\ Done(ERR_TIMEOUT)
  /\ UNCHANGED <<portVars, works, hung, unsent, lineVars, late, buf>>

\* readcook's integrity check.
check ==
  /\ pc = "check"
  /\ Done(Checked(buf))
  /\ UNCHANGED <<portVars, works, hung, unsent, lineVars, late, buf>>

Master ==
  \/ Open \/ OpenFails \/ FlushOrWriteFails \/ Send \/ Write
  \/ readsoh \/ readheader \/ readlength \/ readeof \/ check \/ Timeout

-----------------------------------------------------------------------------
(* The line, the clock and the cable *)

Arrive ==
  /\ arrived < Len(line)
  /\ ~hung /\ pc # "closed"
  /\ arrived' = arrived + 1
  /\ UNCHANGED <<portVars, works, hung, pc, unsent, line, taken, late, buf, result>>

Tick ==
  /\ Reading
  /\ ~late
  /\ late' = TRUE
  /\ UNCHANGED <<portVars, works, hung, pc, unsent, lineVars, buf, result>>

Unplug(p) ==
  /\ works[p]
  /\ works' = [works EXCEPT ![p] = FALSE]
  /\ hung' = (hung \/ (p = port /\ pc # "closed"))
  /\ UNCHANGED <<portVars, pc, unsent, lineVars, late, buf, result>>

Plug(p) ==
  /\ ~works[p]
  /\ works' = [works EXCEPT ![p] = TRUE]
  /\ UNCHANGED <<portVars, hung, pc, unsent, lineVars, late, buf, result>>

SNext ==
  \/ Master \/ ReadFails \/ Arrive \/ Tick
  \/ \E p \in PortNames : Unplug(p) \/ Plug(p)

SSpec == SInit /\ [][SNext]_svars

\* The bus thread runs and the clock advances; a hung-up tty need not fail.
SFairSpec == SSpec /\ WF_svars(Master) /\ WF_svars(Tick)

-----------------------------------------------------------------------------
(* Properties *)

\* The types; and what readeof is about to store fits m_in_buffer.
STypeOK ==
  /\ port \in PortNames /\ port2 \in PortNames \cup {"none"}
  /\ works \in [PortNames -> BOOLEAN]
  /\ pc \in {"closed", "idle", "write", "soh", "header", "length", "body", "check"}
  /\ unsent \in 0 .. TxLen
  /\ line \in Seq(Byte) /\ 0 <= taken /\ taken <= arrived /\ arrived <= Len(line)
  /\ late \in BOOLEAN /\ hung \in BOOLEAN
  /\ buf \in Seq(Byte) /\ Len(buf) <= BUFSIZE
  /\ pc = "body" => Total(buf) <= BUFSIZE
  /\ result \in {ERR_TIMEOUT, ERR_OVERFLOW, ERR_CRC} \cup 0 .. BUFSIZE

\* However the bytes are split over reads, m_in_buffer holds a contiguous piece of
\* the stream, up to the last byte taken, that starts at the first SOH: none of a
\* frame's bytes is skipped, stored twice or dropped with the noise before it.
FramesAtSoh ==
  LET start == taken - Len(buf) + 1 IN
  Reading =>
    /\ \A i \in 1 .. start - 1 : line[i] # SOH
    /\ buf # << >> => buf = SubSeq(line, start, taken) /\ buf[1] = SOH

\* readcook takes no byte beyond the frame it returns: the next one stays in the
\* tty for the next read.
NoOverread ==
  pc \in {"body", "check"} => Len(buf) <= Total(buf)

\* A message that readcook returns came in a frame with a correct CRC or checksum,
\* and the size it returns leaves out just the check bytes.
AcceptedIntact ==
  pc = "idle" /\ result > 0 =>
    /\ GoodFrame(buf)
    /\ result = Len(buf) - (IF HasCrc(buf) THEN 2 ELSE 1)

\* A frame with a correct CRC or checksum is not refused, wherever reads cut it, when
\* readeof accepts its length: at most BUFSIZE - HEADER, although the buffer has room
\* for HEADER more.
GoodNotRefused ==
  pc = "idle" /\ result \in {ERR_CRC, ERR_OVERFLOW} =>
    LET start == taken - Len(buf) + 1
        rest == SubSeq(line, start, Len(line))
    IN  \A n \in 6 .. Min({Len(rest), BUFSIZE - HEADER}) : ~GoodFrame(SubSeq(rest, 1, n))

\* readcook returns, by its deadline or with what has arrived, whatever the line
\* delivers and wherever the stream breaks off, unless the tty is hung up.
ReadEnds == Reading ~> (~Reading \/ hung)

\* The same for a tty that is hung up while readcook waits (m_deadline: "The time at
\* which the current read will timeout").
ReadReturns == Reading ~> ~Reading

\* With two devices, one that works is found even if the other never does.
AnyPortOpens ==
  \A p \in {Port1, Port2} \ {"none"} : <>[]works[p] => []<>(pc # "closed")
=============================================================================
