-------------------------- MODULE BlobQueueProofs ---------------------------
(***************************************************************************)
(* Proofs about BlobQueue, for any number of payloads: each count is the   *)
(* number of blobs that refer to the payload, so the last of them deletes  *)
(* it and no other does.                                                   *)
(***************************************************************************)
EXTENDS BlobQueue, TLAPS

Bit(p) == IF p THEN 1 ELSE 0

\* The blobs that refer to d: push's argument, the copy push is about to append,
\* the queue's element and slave_poll's msg.
Count(d) ==
  Bit(arg = d) + Bit(mqtt = "append" /\ arg = d) + Bit(InQueue(d)) + Bit(msg = d)

TypeInv ==
  /\ created \in 0 .. MaxCmds
  /\ m_refcount \in [Data -> Int]
  /\ heap \in [Data -> {"none", "live", "deleted"}]
  /\ m_msglist \in Seq(Data)
  /\ m_lock \in {"none", "mqtt", "bus"}
  /\ mqtt \in {"idle", "lock", "copy", "append", "drop", "delete"}
  /\ bus \in {"top", "front", "copy", "write", "delete", "lock", "pop", "popped"}
  /\ arg \in Data \cup {NULL} /\ mqtt_dead \in Data \cup {NULL}
  /\ msg \in Data \cup {NULL} /\ bus_dead \in Data \cup {NULL}

\* Where each thread has a payload, and which.
PlaceInv ==
  /\ mqtt \in {"lock", "copy", "append", "drop"} => arg = created /\ arg # NULL
  /\ mqtt \in {"idle", "delete"} => arg = NULL
  /\ mqtt_dead # NULL => mqtt = "delete"
  /\ bus # "write" => msg = NULL
  /\ bus_dead # NULL => bus \in {"delete", "popped"}

\* The queue holds payloads in the order of their creation, each once; the one being
\* pushed is not yet in it.
QueueInv ==
  /\ \A i \in 1 .. Len(m_msglist) :
       /\ m_msglist[i] <= created
       /\ mqtt \in {"lock", "copy", "append"} => m_msglist[i] < created
  /\ \A i, j \in 1 .. Len(m_msglist) : i < j => m_msglist[i] < m_msglist[j]
  /\ FrontStable

CountInv == \A d \in Data : m_refcount[d] = Count(d)

HeapInv ==
  /\ \A d \in Data :
       /\ m_refcount[d] > 0 => heap[d] = "live" /\ ~Dying(d)
       /\ Dying(d) => heap[d] = "live"
       /\ heap[d] = "live" => m_refcount[d] > 0 \/ Dying(d)
       /\ d > created => heap[d] = "none"
  /\ mqtt_dead # NULL => mqtt_dead # bus_dead

QInv == TypeInv /\ PlaceInv /\ QueueInv /\ CountInv /\ HeapInv

-----------------------------------------------------------------------------
(* Sequences *)

\* What Append puts at the end is all it adds.
LEMMA Appended ==
  ASSUME NEW S, NEW q \in Seq(S), NEW e \in S
  PROVE  /\ Append(q, e) \in Seq(S)
         /\ Append(q, e) # << >>
         /\ Len(Append(q, e)) = Len(q) + 1
         /\ \A i \in 1 .. Len(q) + 1 :
              Append(q, e)[i] = IF i = Len(q) + 1 THEN e ELSE q[i]
         /\ q # << >> => Head(Append(q, e)) = Head(q)
OBVIOUS

\* Tail takes the head away and moves the others up.
LEMMA Popped ==
  ASSUME NEW S, NEW q \in Seq(S), q # << >>
  PROVE  /\ Tail(q) \in Seq(S)
         /\ Len(q) > 0
         /\ Len(Tail(q)) = Len(q) - 1
         /\ \A i \in 1 .. Len(q) - 1 : Tail(q)[i] = q[i + 1]
         /\ Head(q) = q[1] /\ Head(q) \in S
OBVIOUS

-----------------------------------------------------------------------------
(* The initial state *)

\* The queue starts empty and no payload exists.
LEMMA InitInv ==
  QInit => QInv
BY BlobsAssumption
   DEF QInit, QInv, TypeInv, PlaceInv, QueueInv, CountInv, HeapInv, FrontStable, Count,
       Bit, InQueue, Dying, Data, NULL

-----------------------------------------------------------------------------
(* The steps *)

\* Every location of a thread has the payload it works on, of the right type.
LEMMA TypeStep ==
  ASSUME QInv, QNext
  PROVE  TypeInv' /\ PlaceInv'
<1> USE BlobsAssumption DEF TypeInv, PlaceInv, Data, NULL
<1>0. TypeInv /\ PlaceInv /\ FrontStable
  BY DEF QInv, QueueInv
<1>1. CASE NewBlob
  BY <1>0, <1>1 DEF NewBlob, threadVars
<1>2. CASE PushLock
  BY <1>0, <1>2 DEF PushLock, Lock, heapVars, threadVars
<1>3. CASE PushCopy
  BY <1>0, <1>3 DEF PushCopy, ref, threadVars
<1>4. CASE PushAppend
  BY <1>0, <1>4, Appended DEF PushAppend, enqueue, Unlock, heapVars, threadVars
<1>5. CASE DropArg
  BY <1>0, <1>5 DEF DropArg, unref, dec_test, threadVars
<1>6. CASE DeleteArg
  BY <1>0, <1>6 DEF DeleteArg, destroy, heapVars, threadVars
<1>7. CASE TestEmpty \/ TestFront \/ PopLock
  BY <1>0, <1>7 DEF TestEmpty, TestFront, PopLock, Lock, heapVars, mqttVars
<1>8. CASE Front
  BY <1>0, <1>8, Popped DEF Front, ref, mqttVars, FrontStable
<1>9. CASE DropMsg
  BY <1>0, <1>9 DEF DropMsg, unref, dec_test, mqttVars
<1>10. CASE DeleteMsg
  BY <1>0, <1>10 DEF DeleteMsg, destroy, heapVars, mqttVars
<1>11. CASE Pop
  BY <1>0, <1>11, Popped DEF Pop, unref, dec_test, mqttVars, FrontStable
<1>12. CASE DeletePopped
  BY <1>0, <1>12 DEF DeletePopped, destroy, Unlock, heapVars, mqttVars
<1> QED
  BY <1>1, <1>2, <1>3, <1>4, <1>5, <1>6, <1>7, <1>8, <1>9, <1>10, <1>11, <1>12
     DEF QNext, Mqtt, Bus

\* A push leaves the front in place, and only the bus thread pops.
LEMMA QueueStep ==
  ASSUME QInv, QNext
  PROVE  QueueInv'
<1> USE BlobsAssumption DEF TypeInv, PlaceInv, QueueInv, FrontStable, Data, NULL
<1>0. TypeInv /\ PlaceInv /\ QueueInv
  BY DEF QInv
<1>1. CASE NewBlob
  BY <1>0, <1>1 DEF NewBlob, threadVars
<1>2. CASE PushLock \/ PushCopy
  BY <1>0, <1>2 DEF PushLock, PushCopy, heapVars, threadVars
<1>3. CASE PushAppend
  <2>1. m_msglist \in Seq(Data) /\ arg \in Data /\ arg = created /\ m_msglist' = Append(m_msglist, arg)
    BY <1>0, <1>3 DEF PushAppend, enqueue
  <2>2. \A i \in 1 .. Len(m_msglist) : m_msglist[i] \in Data /\ m_msglist[i] < created
    BY <1>0, <1>3 DEF PushAppend
  <2>3. UNCHANGED <<created, bus, msg>> /\ mqtt' = "drop"
    BY <1>3 DEF PushAppend, heapVars, threadVars
  <2>4. \A i \in 1 .. Len(m_msglist') : m_msglist'[i] <= created'
    BY <1>0, <2>1, <2>2, <2>3, Appended
  <2>5. ASSUME NEW i \in 1 .. Len(m_msglist'), NEW j \in 1 .. Len(m_msglist'), i < j
        PROVE  m_msglist'[i] < m_msglist'[j]
    <3>1. i \in 1 .. Len(m_msglist) /\ m_msglist'[i] = m_msglist[i]
      BY <2>1, <2>5, Appended
    <3>2. CASE j = Len(m_msglist')
      BY <2>1, <2>2, <3>1, <3>2, Appended
    <3>3. CASE j # Len(m_msglist')
      <4>1. j \in 1 .. Len(m_msglist) /\ m_msglist'[j] = m_msglist[j]
        BY <2>1, <2>5, <3>3, Appended
      <4> QED
        BY <1>0, <2>5, <3>1, <4>1
    <3> QED
      BY <3>2, <3>3
  <2>6. FrontStable'
    BY <1>0, <2>1, <2>3, Appended
  <2> QED
    BY <2>3, <2>4, <2>5, <2>6
<1>4. CASE DropArg \/ DeleteArg
  BY <1>0, <1>4 DEF DropArg, DeleteArg, destroy, heapVars, threadVars
<1>5. CASE TestEmpty \/ TestFront \/ PopLock
  BY <1>0, <1>5 DEF TestEmpty, TestFront, PopLock, heapVars, mqttVars
<1>6. CASE Front
  BY <1>0, <1>6 DEF Front, mqttVars
<1>7. CASE DropMsg
  BY <1>0, <1>7 DEF DropMsg, mqttVars
<1>8. CASE DeleteMsg
  BY <1>0, <1>8 DEF DeleteMsg, destroy, heapVars, mqttVars
<1>9. CASE Pop
  <2>1. m_msglist \in Seq(Data) /\ m_msglist # << >> /\ m_msglist' = Tail(m_msglist)
    BY <1>0, <1>9 DEF Pop
  <2>2. UNCHANGED <<created, mqtt>> /\ bus' = "popped"
    BY <1>9 DEF Pop, mqttVars
  <2> QED
    BY <1>0, <2>1, <2>2, Popped
<1>10. CASE DeletePopped
  BY <1>0, <1>10 DEF DeletePopped, destroy, heapVars, mqttVars
<1> QED
  BY <1>1, <1>2, <1>3, <1>4, <1>5, <1>6, <1>7, <1>8, <1>9, <1>10 DEF QNext, Mqtt, Bus

\* push puts its payload into the queue, where it was not; pop takes the front out.
LEMMA InQueueStep ==
  ASSUME QInv
  PROVE  /\ PushAppend => /\ ~InQueue(arg)
                          /\ \A d \in Data : InQueue(d)' <=> InQueue(d) \/ d = arg
         /\ Pop => \A d \in Data : InQueue(d)' <=> InQueue(d) /\ d # Head(m_msglist)
         /\ m_msglist # << >> => InQueue(Head(m_msglist))
         /\ bus = "write" => msg = Head(m_msglist) /\ InQueue(msg)
         /\ \A d \in Data : InQueue(d) => d <= created
         /\ msg # NULL => InQueue(msg)
<1> USE BlobsAssumption DEF TypeInv, PlaceInv, QueueInv, FrontStable, InQueue, Data, NULL
<1>0. TypeInv /\ PlaceInv /\ QueueInv
  BY DEF QInv
<1>1. ASSUME PushAppend
      PROVE  /\ ~InQueue(arg)
             /\ \A d \in Data : InQueue(d)' <=> InQueue(d) \/ d = arg
  <2>1. /\ m_msglist \in Seq(Data) /\ arg \in Data /\ arg = created
        /\ m_msglist' = Append(m_msglist, arg)
    BY <1>0, <1>1 DEF PushAppend, enqueue
  <2>2. ~InQueue(arg)
    BY <1>0, <1>1 DEF PushAppend
  <2>3. ASSUME NEW d \in Data
        PROVE  InQueue(d)' <=> InQueue(d) \/ d = arg
    <3>1. InQueue(d) => InQueue(d)'
      BY <2>1, Appended
    <3>2. d = arg => InQueue(d)'
      BY <2>1, Appended
    <3>3. InQueue(d)' => InQueue(d) \/ d = arg
      BY <2>1, Appended
    <3> QED
      BY <3>1, <3>2, <3>3
  <2> QED
    BY <2>2, <2>3
<1>2. ASSUME m_msglist # << >>
      PROVE  InQueue(Head(m_msglist))
  BY <1>0, <1>2, Popped
<1>3. ASSUME Pop, NEW d \in Data
      PROVE  InQueue(d)' <=> InQueue(d) /\ d # Head(m_msglist)
  <2>1. m_msglist \in Seq(Data) /\ m_msglist # << >> /\ m_msglist' = Tail(m_msglist)
    BY <1>0, <1>3 DEF Pop
  <2>2. InQueue(d)' => InQueue(d) /\ d # Head(m_msglist)
    <3>1. SUFFICES ASSUME NEW i \in 1 .. Len(m_msglist'), m_msglist'[i] = d
                   PROVE  InQueue(d) /\ d # Head(m_msglist)
      OBVIOUS
    <3>2. i + 1 \in 1 .. Len(m_msglist) /\ m_msglist[i + 1] = d
      BY <2>1, <3>1, Popped
    <3>3. 1 \in 1 .. Len(m_msglist) /\ 1 < i + 1
      BY <2>1, <3>1, Popped
    <3>4. m_msglist[1] < m_msglist[i + 1]
      BY <1>0, <3>2, <3>3
    <3> QED
      BY <2>1, <3>2, <3>4, Popped
  <2>3. InQueue(d) /\ d # Head(m_msglist) => InQueue(d)'
    <3>1. SUFFICES ASSUME NEW i \in 1 .. Len(m_msglist), m_msglist[i] = d,
                          d # Head(m_msglist)
                   PROVE  InQueue(d)'
      OBVIOUS
    <3>2. i - 1 \in 1 .. Len(m_msglist') /\ m_msglist'[i - 1] = d
      BY <2>1, <3>1, Popped
    <3> QED
      BY <3>2
  <2> QED
    BY <2>2, <2>3
<1>4. \A d \in Data : InQueue(d) => d <= created
  BY <1>0
<1> QED
  BY <1>0, <1>1, <1>2, <1>3, <1>4

\* Each step that makes or drops a blob counts it.
LEMMA CountStep ==
  ASSUME QInv, QNext
  PROVE  CountInv'
<1> SUFFICES ASSUME NEW d \in Data
             PROVE  m_refcount'[d] = Count(d)'
  BY DEF CountInv
<1> USE BlobsAssumption DEF TypeInv, PlaceInv, Count, Bit, Data, NULL
<1>0. TypeInv /\ PlaceInv /\ m_refcount[d] = Count(d)
  BY DEF QInv, CountInv
<1>q. m_msglist' = m_msglist => (InQueue(d)' <=> InQueue(d))
  BY DEF InQueue
<1>1. CASE NewBlob
  <2>1. InQueue(d) => d <= created
    BY InQueueStep
  <2>2. msg # NULL => msg <= created
    BY <1>0, InQueueStep
  <2> QED
    BY <1>0, <1>q, <1>1, <2>1, <2>2 DEF NewBlob, threadVars
<1>2. CASE PushLock \/ DeleteArg
  BY <1>0, <1>q, <1>2 DEF PushLock, DeleteArg, destroy, heapVars, threadVars
<1>3. CASE PushCopy
  BY <1>0, <1>q, <1>3 DEF PushCopy, ref, threadVars
<1>4. CASE PushAppend
  <2>1. ~InQueue(arg) /\ (InQueue(d)' <=> InQueue(d) \/ d = arg)
    BY <1>4, InQueueStep
  <2>2. /\ m_refcount' = m_refcount /\ arg' = arg /\ msg' = msg
        /\ mqtt = "append" /\ mqtt' = "drop"
    BY <1>4 DEF PushAppend, heapVars, threadVars
  <2>3. CASE d = arg
    BY <1>0, <2>1, <2>2, <2>3
  <2>4. CASE d # arg
    BY <1>0, <2>1, <2>2, <2>4
  <2> QED
    BY <2>3, <2>4
<1>5. CASE DropArg
  <2>1. /\ m_refcount' = [m_refcount EXCEPT ![arg] = @ - 1] /\ arg' = NULL /\ arg \in Data
        /\ UNCHANGED <<m_msglist, msg>> /\ mqtt = "drop" /\ mqtt' = "delete"
    BY <1>0, <1>5 DEF DropArg, unref, threadVars
  <2> QED
    BY <1>0, <1>q, <2>1
<1>6. CASE TestEmpty \/ TestFront \/ PopLock
  BY <1>0, <1>q, <1>6 DEF TestEmpty, TestFront, PopLock, heapVars, mqttVars
<1>7. CASE DeleteMsg \/ DeletePopped
  BY <1>0, <1>q, <1>7 DEF DeleteMsg, DeletePopped, destroy, heapVars, mqttVars
<1>8. CASE Front
  <2>1. Head(m_msglist) \in Data
    BY <1>0, <1>8, Popped DEF Front, QInv, QueueInv, FrontStable
  <2>2. /\ m_refcount' = [m_refcount EXCEPT ![Head(m_msglist)] = @ + 1]
        /\ msg = NULL /\ msg' = Head(m_msglist)
        /\ UNCHANGED <<m_msglist, mqtt, arg>>
    BY <1>0, <1>8 DEF Front, ref, mqttVars
  <2>3. CASE d = Head(m_msglist)
    <3>1. m_refcount'[d] = m_refcount[d] + 1
      BY <1>0, <2>2, <2>3
    <3>2. Bit(msg = d) = 0 /\ Bit(msg = d)' = 1
      BY <2>2, <2>3
    <3>3. /\ Bit(arg = d)' = Bit(arg = d)
          /\ Bit(mqtt = "append" /\ arg = d)' = Bit(mqtt = "append" /\ arg = d)
          /\ Bit(InQueue(d))' = Bit(InQueue(d))
      BY <1>q, <2>2
    <3> QED
      BY <1>0, <3>1, <3>2, <3>3
  <2>4. CASE d # Head(m_msglist)
    BY <1>0, <1>q, <2>1, <2>2, <2>4
  <2> QED
    BY <2>3, <2>4
<1>9. CASE DropMsg
  <2>1. /\ msg' = NULL /\ UNCHANGED <<m_msglist, mqtt, arg>>
        /\ m_refcount' = IF msg = NULL THEN m_refcount
                         ELSE [m_refcount EXCEPT ![msg] = @ - 1]
    BY <1>9 DEF DropMsg, unref, mqttVars
  <2> QED
    BY <1>0, <1>q, <2>1
<1>10. CASE Pop
  <2>1. /\ InQueue(d)' <=> InQueue(d) /\ d # Head(m_msglist)
        /\ InQueue(Head(m_msglist)) /\ Head(m_msglist) \in Data
    BY <1>0, <1>10, InQueueStep, Popped DEF Pop, QInv, QueueInv, FrontStable
  <2>2. /\ m_refcount' = [m_refcount EXCEPT ![Head(m_msglist)] = @ - 1]
        /\ UNCHANGED <<msg, mqtt, arg>>
    BY <1>10 DEF Pop, unref, mqttVars
  <2>3. CASE d = Head(m_msglist)
    BY <1>0, <2>1, <2>2, <2>3
  <2>4. CASE d # Head(m_msglist)
    BY <1>0, <2>1, <2>2, <2>4
  <2> QED
    BY <2>3, <2>4
<1> QED
  BY <1>1, <1>2, <1>3, <1>4, <1>5, <1>6, <1>7, <1>8, <1>9, <1>10 DEF QNext, Mqtt, Bus

\* A payload that some blob refers to is counted.
LEMMA Counted ==
  ASSUME QInv
  PROVE  /\ \A d \in Data : Referenced(d) <=> m_refcount[d] > 0
         /\ \A d \in Data : m_refcount[d] \in 0 .. 3
         /\ mqtt = "append" => m_refcount[arg] < 3
         /\ bus = "copy" => Head(m_msglist) \in Data /\ m_refcount[Head(m_msglist)] < 3
<1> USE BlobsAssumption DEF Data, NULL
<1>1. \A d \in Data : m_refcount[d] = Count(d)
  BY DEF QInv, CountInv
<1>2. mqtt = "append" => ~InQueue(arg) /\ arg \in Data
  BY DEF QInv, QueueInv, TypeInv, PlaceInv, InQueue
<1>3. msg # NULL => InQueue(msg)
  BY InQueueStep
<1>4. m_msglist # << >> => Head(m_msglist) \in Data /\ InQueue(Head(m_msglist))
  BY InQueueStep, Popped DEF QInv, TypeInv
<1>5. bus = "copy" => m_msglist # << >> /\ msg = NULL
  BY DEF QInv, QueueInv, FrontStable, PlaceInv
<1>6. \A d \in Data : Referenced(d) <=> m_refcount[d] > 0
  BY <1>1 DEF Count, Bit, Referenced
<1>7. \A d \in Data : m_refcount[d] \in 0 .. 3
  BY <1>1, <1>2 DEF Count, Bit
<1>8. mqtt = "append" => m_refcount[arg] < 3
  <2> SUFFICES ASSUME mqtt = "append"
               PROVE  m_refcount[arg] < 3
    OBVIOUS
  <2>1. Bit(InQueue(arg)) = 0 /\ Bit(msg = arg) = 0
    BY <1>2, <1>3 DEF Bit
  <2> QED
    BY <1>1, <1>2, <2>1 DEF Count, Bit
<1>9. bus = "copy" => Head(m_msglist) \in Data /\ m_refcount[Head(m_msglist)] < 3
  BY <1>1, <1>2, <1>4, <1>5 DEF Count, Bit
<1> QED
  BY <1>6, <1>7, <1>8, <1>9

\* Only the payload whose count has just reached zero is deleted, once.
LEMMA HeapStep ==
  ASSUME QInv, QNext
  PROVE  HeapInv'
<1> USE BlobsAssumption DEF HeapInv, Dying, Data, NULL
<1>0. TypeInv /\ PlaceInv /\ HeapInv
  BY DEF QInv
<1>r. \A d \in Data : Referenced(d) <=> m_refcount[d] > 0
  BY Counted
<1>1. CASE NewBlob
  BY <1>0, <1>1 DEF NewBlob, threadVars, TypeInv, PlaceInv
<1>2. CASE PushLock
  BY <1>0, <1>2 DEF PushLock, heapVars, threadVars
<1>3. CASE PushCopy
  BY <1>0, <1>r, <1>3 DEF PushCopy, ref, threadVars, TypeInv, PlaceInv, Referenced
<1>4. CASE PushAppend
  BY <1>0, <1>4 DEF PushAppend, heapVars, threadVars
<1>5. CASE DropArg
  BY <1>0, <1>r, <1>5
     DEF DropArg, unref, dec_test, threadVars, TypeInv, PlaceInv, Referenced
<1>6. CASE DeleteArg
  <2>1. UNCHANGED <<created, m_refcount, bus_dead>> /\ mqtt_dead' = NULL
    BY <1>6 DEF DeleteArg, destroy, heapVars, threadVars
  <2>2. CASE mqtt_dead = NULL
    BY <1>0, <1>6, <2>1, <2>2 DEF DeleteArg, heapVars
  <2>3. CASE mqtt_dead # NULL
    <3>1. heap' = [heap EXCEPT ![mqtt_dead] = "deleted"] /\ mqtt_dead \in Data
      BY <1>0, <1>6, <2>3 DEF DeleteArg, destroy, TypeInv
    <3> QED
      BY <1>0, <2>1, <2>3, <3>1 DEF TypeInv
  <2> QED
    BY <2>2, <2>3
<1>7. CASE TestEmpty \/ TestFront \/ PopLock
  BY <1>0, <1>7 DEF TestEmpty, TestFront, PopLock, heapVars, mqttVars
<1>h. m_msglist # << >> => Head(m_msglist) \in Data /\ m_refcount[Head(m_msglist)] > 0
  BY <1>0, <1>r, InQueueStep, Popped DEF TypeInv, Referenced
<1>f. bus \in {"copy", "pop"} => m_msglist # << >>
  BY DEF QInv, QueueInv, FrontStable
<1>8. CASE Front
  BY <1>0, <1>h, <1>f, <1>8 DEF Front, ref, mqttVars, TypeInv
<1>9. CASE DropMsg
  <2>1. UNCHANGED <<created, heap, mqtt_dead>> /\ bus_dead = NULL
    BY <1>0, <1>9 DEF DropMsg, mqttVars, PlaceInv
  <2>2. CASE msg = NULL
    BY <1>0, <1>9, <2>1, <2>2 DEF DropMsg
  <2>3. CASE msg # NULL
    <3>1. msg \in Data /\ m_refcount[msg] > 0
      BY <1>0, <1>r, <2>3 DEF TypeInv, Referenced
    <3>2. /\ m_refcount' = [m_refcount EXCEPT ![msg] = @ - 1]
          /\ bus_dead' = IF m_refcount[msg] = 1 THEN msg ELSE NULL
      BY <1>9, <2>3 DEF DropMsg, unref, dec_test
    <3> QED
      BY <1>0, <2>1, <3>1, <3>2 DEF TypeInv
  <2> QED
    BY <2>2, <2>3
<1>10. CASE DeleteMsg
  <2>1. UNCHANGED <<created, m_refcount, mqtt_dead>> /\ bus_dead' = NULL
    BY <1>10 DEF DeleteMsg, destroy, heapVars, mqttVars
  <2>2. CASE bus_dead = NULL
    BY <1>0, <1>10, <2>1, <2>2 DEF DeleteMsg, heapVars
  <2>3. CASE bus_dead # NULL
    <3>1. heap' = [heap EXCEPT ![bus_dead] = "deleted"] /\ bus_dead \in Data
      BY <1>0, <1>10, <2>3 DEF DeleteMsg, destroy, TypeInv
    <3> QED
      BY <1>0, <2>1, <2>3, <3>1 DEF TypeInv
  <2> QED
    BY <2>2, <2>3
<1>11. CASE Pop
  BY <1>0, <1>h, <1>f, <1>11 DEF Pop, unref, dec_test, mqttVars, TypeInv, PlaceInv
<1>12. CASE DeletePopped
  <2>1. UNCHANGED <<created, m_refcount, mqtt_dead>> /\ bus_dead' = NULL
    BY <1>12 DEF DeletePopped, destroy, heapVars, mqttVars
  <2>2. CASE bus_dead = NULL
    BY <1>0, <1>12, <2>1, <2>2 DEF DeletePopped, heapVars
  <2>3. CASE bus_dead # NULL
    <3>1. heap' = [heap EXCEPT ![bus_dead] = "deleted"] /\ bus_dead \in Data
      BY <1>0, <1>12, <2>3 DEF DeletePopped, destroy, TypeInv
    <3> QED
      BY <1>0, <2>1, <2>3, <3>1 DEF TypeInv
  <2> QED
    BY <2>2, <2>3
<1> QED
  BY <1>1, <1>2, <1>3, <1>4, <1>5, <1>6, <1>7, <1>8, <1>9, <1>10, <1>11, <1>12
     DEF QNext, Mqtt, Bus

\* A step of neither thread keeps it all.
LEMMA Stutter ==
  ASSUME QInv, UNCHANGED qvars
  PROVE  QInv'
<1>1. \A d \in Data : InQueue(d)' <=> InQueue(d)
  BY DEF InQueue, qvars
<1> QED
  BY <1>1 DEF qvars, heapVars, mqttVars, threadVars, QInv, TypeInv, PlaceInv, QueueInv,
              FrontStable, CountInv, Count, Bit, HeapInv, Dying

-----------------------------------------------------------------------------
(* The theorems *)

\* The two threads keep the counts, the queue's order and the heap consistent at
\* every step between two of their atomic operations.
THEOREM Invariance == QSpec => []QInv
<1>1. QInv /\ [QNext]_qvars => QInv'
  BY TypeStep, QueueStep, CountStep, HeapStep, Stutter DEF QInv
<1> QED
  BY InitInv, <1>1, PTL DEF QSpec

\* Type correctness: no count exceeds the three blobs a payload ever has.
THEOREM TypeCorrect == QSpec => []QTypeOK
<1>1. QInv => QTypeOK
  <2> SUFFICES ASSUME QInv
               PROVE  QTypeOK
    OBVIOUS
  <2>1. m_refcount \in [Data -> 0 .. 3]
    BY Counted DEF QInv, TypeInv
  <2> QED
    BY <2>1 DEF QInv, TypeInv, QTypeOK
<1> QED
  BY Invariance, <1>1, PTL

\* No use after the deletion and no second one: what a blob refers to is live, and
\* nobody is about to delete it.
THEOREM NoUseAfterDelete == QSpec => []Anchored
<1>1. QInv => Anchored
  BY Counted DEF QInv, HeapInv, Anchored
<1> QED
  BY Invariance, <1>1, PTL

\* A payload without a blob is deleted, or about to be.
THEOREM EveryPayloadDeleted == QSpec => []NoLeak
<1>1. QInv => NoLeak
  BY Counted DEF QInv, HeapInv, NoLeak
<1> QED
  BY Invariance, <1>1, PTL

\* What slave_poll copied, writes or is about to pop stays the front of the queue.
THEOREM FrontStays == QSpec => []FrontStable
<1>1. QInv => FrontStable
  BY DEF QInv, QueueInv
<1> QED
  BY Invariance, <1>1, PTL
=============================================================================
