--------------------------- MODULE FileSendProofs ---------------------------
(***************************************************************************)
(* Proofs about FileSend, for any number of fragments, commands, answers   *)
(* and losses.                                                             *)
(***************************************************************************)
EXTENDS FileSend, SequenceTheorems, FiniteSetTheorems, TLAPS

TypeInv ==
  /\ FTypeOK
  /\ arrived \in Nat
  /\ pending \in [Slaves -> Seq(Nat)]
  /\ executed \in [Slaves -> Seq(Nat)]
  /\ incoming \in Seq(Actions)

\* Commands are executed in the order of their names, and none that did not arrive.
OrderInv ==
  LET q == pending[PD]
      e == executed[PD]
  IN  /\ \A i \in 1 .. Len(q) : q[i] \in 1 .. arrived
      /\ \A i \in 1 .. Len(e) : e[i] \in 1 .. arrived
      /\ \A i, j \in 1 .. Len(q) : i < j => q[i] < q[j]
      /\ \A i, j \in 1 .. Len(e) : i < j => e[i] < e[j]
      /\ \A i \in 1 .. Len(e), j \in 1 .. Len(q) : e[i] < q[j]

\* Offsets are published in order.
SentInv ==
  /\ \A i \in 1 .. Len(sent) : sent[i] <= offset
  /\ \A i, j \in 1 .. Len(sent) : i < j => sent[i] <= sent[j]

\* An event that still counts for the current fragment.
Fresh == ftevent /\ upload \in {"publish", "wait", "interpret"}

\* The answers that may still carry the uploader on.
Credit == Len(incoming) + (IF stashed THEN 1 ELSE 0) + (IF Fresh THEN 1 ELSE 0)

CreditInv ==
  /\ offset + Credit <= answers
  /\ upload = "interpret" => ftevent

AnswersInv ==
  /\ IsFiniteSet(AnsweredFragments)
  /\ Cardinality(AnsweredFragments) <= answers

PassedInv == NoSurplus => Passed \subseteq AnsweredFragments

FInv == TypeInv /\ OrderInv /\ SentInv /\ CreditInv /\ AnswersInv /\ PassedInv

-----------------------------------------------------------------------------
(* Sequences *)

\* What Append adds to a sequence.
LEMMA Appended ==
  ASSUME NEW S, NEW q \in Seq(S), NEW e \in S
  PROVE  /\ Append(q, e) \in Seq(S)
         /\ Len(q) \in Nat /\ Len(Append(q, e)) = Len(q) + 1
         /\ \A i \in 1 .. Len(q) : Append(q, e)[i] = q[i]
         /\ Append(q, e)[Len(q) + 1] = e
OBVIOUS

\* What Tail takes from it.
LEMMA Shortened ==
  ASSUME NEW S, NEW q \in Seq(S), q # << >>
  PROVE  /\ Tail(q) \in Seq(S)
         /\ Len(q) \in Nat /\ Len(q) >= 1
         /\ Len(Tail(q)) = Len(q) - 1
         /\ \A i \in 1 .. Len(q) - 1 : Tail(q)[i] = q[i + 1]
         /\ Head(q) = q[1] /\ Head(q) \in S
OBVIOUS

\* Nothing below y is above x when y is at most one more.
LEMMA UpTo ==
  ASSUME NEW x \in Nat, NEW y \in Nat, y <= x + 1, NEW o \in 0 .. y - 1
  PROVE  o \in 0 .. x
OBVIOUS

\* What is bounded stays so when a part of it gets smaller.
LEMMA StaysBelow ==
  ASSUME NEW x \in Nat, NEW a \in Nat, NEW c \in Nat, NEW d \in Nat,
         x + c <= a, d <= c
  PROVE  x + d <= a
OBVIOUS

-----------------------------------------------------------------------------
(* What the steps do to the channel and to the file *)

\* The steps that give commands up, with or without an answer.
GivesUp == Pop \/ (pending' = [pending EXCEPT ![PD] = << >>]
                   /\ UNCHANGED <<arrived, executed, amnesia>>)

\* The steps of filesend.py that publish nothing, and declare_online.
Local ==
  \/ Stash \/ Set \/ Check \/ ClearEvent \/ Answered \/ TimedOut \/ Interpret
  \/ DeclareOnline

\* Every step publishes a fragment, stores one, accepts a reply, gives a command up or
\* is local.
LEMMA Steps ==
  FNext => \/ publish \/ Store \/ (\E i \in 1 .. Len(replies) : AcceptFtstat(i))
           \/ AcceptAck \/ Purge \/ Local
BY DEF FNext, on_message, Uploader, Osdpmaster, Local

\* No status message is delivered.
LEMMA NotSubscribed ==
  ~Subscribed(StatusTopic)
<1>1. 1 \in 1 .. Len(Subscription) /\ StatusTopic[1] # Subscription[1]
  BY DEF Subscription, StatusTopic
<1> QED
  BY <1>1 DEF Subscribed

\* The local steps leave the channel, the PD and the answers alone.
LEMMA LocalStep ==
  ASSUME Local
  PROVE  UNCHANGED <<arrived, pending, executed, sent, replies, published, answers>>
BY DEF Local, Stash, Set, Check, ClearEvent, Answered, TimedOut, Interpret,
       DeclareOnline, chVars, pdVars, answerVars, fileVars

\* Commands given up leave the rest of the queue, or nothing.
LEMMA GivesUpStep ==
  ASSUME TypeInv, OrderInv, GivesUp
  PROVE  /\ pending' \in [Slaves -> Seq(Nat)]
         /\ UNCHANGED <<arrived, executed>>
         /\ OrderInv'
<1> DEFINE q == pending[PD]
           r == pending'[PD]
<1>1. q \in Seq(Nat) /\ UNCHANGED <<arrived, executed>>
  BY PDAssumption DEF TypeInv, GivesUp, Pop
<1>2. CASE Pop
  <2>1. q # << >> /\ pending' = [pending EXCEPT ![PD] = Tail(q)]
    BY <1>2 DEF Pop
  <2>2. /\ Tail(q) \in Seq(Nat) /\ Len(q) \in Nat /\ Len(Tail(q)) = Len(q) - 1
        /\ \A i \in 1 .. Len(q) - 1 : Tail(q)[i] = q[i + 1]
    BY <1>1, <2>1, Shortened
  <2>3. pending' \in [Slaves -> Seq(Nat)] /\ r = Tail(q)
    BY <2>1, <2>2, PDAssumption DEF TypeInv
  <2>4. \A i \in 1 .. Len(r) : i + 1 \in 1 .. Len(q) /\ r[i] = q[i + 1]
    BY <2>2, <2>3
  <2>5. \A i \in 1 .. Len(r) : r[i] \in 1 .. arrived
    BY <2>4 DEF OrderInv
  <2>6. \A i, j \in 1 .. Len(r) : i < j => r[i] < r[j]
    BY <2>4 DEF OrderInv
  <2>7. \A i \in 1 .. Len(executed[PD]), j \in 1 .. Len(r) : executed[PD][i] < r[j]
    BY <2>4 DEF OrderInv
  <2> QED
    BY <1>1, <2>3, <2>5, <2>6, <2>7 DEF OrderInv
<1>3. CASE pending' = [pending EXCEPT ![PD] = << >>]
  <2>1. pending' \in [Slaves -> Seq(Nat)] /\ r = << >>
    BY <1>3, PDAssumption, EmptySeq DEF TypeInv
  <2>2. Len(r) = 0
    BY <2>1
  <2> QED
    BY <1>1, <2>1, <2>2 DEF OrderInv
<1> QED
  BY <1>2, <1>3 DEF GivesUp

\* publish queues the fragment's command, or it is ignored.
LEMMA PublishStep ==
  ASSUME TypeInv, publish
  PROVE  /\ UNCHANGED executed
         /\ \/ UNCHANGED <<arrived, pending, sent>>
            \/ /\ arrived' = arrived + 1
               /\ pending' = [pending EXCEPT ![PD] = Append(@, arrived + 1)]
               /\ pending' \in [Slaves -> Seq(Nat)]
               /\ sent' = Append(sent, offset) /\ sent' \in Seq(0 .. Fragments)
               /\ Len(sent') = arrived' /\ sent'[arrived'] = offset
               /\ \A i \in 1 .. arrived : sent'[i] = sent[i]
<1>1. CASE UNCHANGED <<chVars, sent>>
  BY <1>1 DEF chVars
<1>2. CASE Arrive(PD) /\ sent' = Append(sent, offset)
  <2>1. /\ arrived' = arrived + 1 /\ arrived \in Nat /\ executed' = executed
        /\ pending' = [pending EXCEPT ![PD] = Append(@, arrived + 1)]
    BY <1>2 DEF Arrive, TypeInv
  <2>2. pending[PD] \in Seq(Nat) /\ Append(pending[PD], arrived + 1) \in Seq(Nat)
    BY <2>1, PDAssumption, Appended DEF TypeInv
  <2>3. pending' \in [Slaves -> Seq(Nat)]
    BY <2>1, <2>2 DEF TypeInv
  <2>4. sent \in Seq(0 .. Fragments) /\ Len(sent) = arrived /\ offset \in 0 .. Fragments
    BY DEF TypeInv, FTypeOK
  <2> QED
    BY <1>2, <2>1, <2>3, <2>4, Appended
<1> QED
  BY <1>1, <1>2 DEF publish

\* Store moves the oldest command to those executed and adds an answer.
LEMMA StoreStep ==
  ASSUME TypeInv, Store
  PROVE  /\ pending[PD] # << >> /\ pending[PD] \in Seq(Nat)
         /\ pending' \in [Slaves -> Seq(Nat)] /\ pending'[PD] = Tail(pending[PD])
         /\ executed[PD] \in Seq(Nat) /\ Head(pending[PD]) \in Nat
         /\ executed' \in [Slaves -> Seq(Nat)]
         /\ executed'[PD] = Append(executed[PD], Head(pending[PD]))
         /\ replies' \in Seq(Actions) /\ Len(replies') = Len(replies) + 1
         /\ UNCHANGED <<arrived, sent>>
<1>1. /\ pending[PD] # << >>
      /\ pending' = [pending EXCEPT ![PD] = Tail(@)]
      /\ executed' = [executed EXCEPT ![PD] = Append(@, Head(pending[PD]))]
      /\ UNCHANGED <<arrived, sent>>
  BY DEF Store, Execute
<1>2. pending[PD] \in Seq(Nat) /\ executed[PD] \in Seq(Nat)
  BY PDAssumption DEF TypeInv
<1>3. Tail(pending[PD]) \in Seq(Nat) /\ Head(pending[PD]) \in Nat
  BY <1>1, <1>2, Shortened
<1>4. Append(executed[PD], Head(pending[PD])) \in Seq(Nat)
  BY <1>2, <1>3, Appended
<1>5. replies' \in Seq(Actions) /\ Len(replies') = Len(replies) + 1
  <2>1. replies \in Seq(Actions)
    BY DEF TypeInv, FTypeOK
  <2> QED
    BY <2>1, Appended DEF Store
<1> QED
  BY <1>1, <1>2, <1>3, <1>4, <1>5, PDAssumption DEF TypeInv

\* An accepted FTSTAT is delivered and may give a command up.
LEMMA AcceptStep ==
  ASSUME TypeInv, OrderInv, NEW i \in 1 .. Len(replies), AcceptFtstat(i)
  PROVE  /\ pending' \in [Slaves -> Seq(Nat)] /\ OrderInv'
         /\ UNCHANGED <<arrived, executed, fileVars, pdVars, status>>
         /\ incoming' \in Seq(Actions)
         /\ Len(incoming) \in Nat /\ Len(incoming') <= Len(incoming) + 1
         /\ Len(incoming') \in Nat
         /\ published' = published \cup {i} /\ answers' = answers + 1
<1>1. pending' \in [Slaves -> Seq(Nat)] /\ OrderInv' /\ UNCHANGED <<arrived, executed>>
  <2>1. CASE UNCHANGED chVars
    BY <2>1 DEF chVars, TypeInv, OrderInv
  <2>2. CASE Pop
    BY <2>2, GivesUpStep DEF GivesUp
  <2> QED
    BY <2>1, <2>2 DEF AcceptFtstat
<1>2. replies[i] \in Actions /\ incoming \in Seq(Actions)
  BY DEF TypeInv, FTypeOK
<1>3. incoming' = incoming \/ incoming' = Append(incoming, replies[i])
  BY DEF AcceptFtstat, Deliver
<1>4. /\ incoming' \in Seq(Actions) /\ Len(incoming) \in Nat
      /\ Len(incoming') <= Len(incoming) + 1
  BY <1>2, <1>3, Appended
<1>5. Len(incoming') \in Nat
  BY <1>4
<1> QED
  BY <1>1, <1>4, <1>5 DEF AcceptFtstat

\* A fragment executed stays what it is, whatever is published or executed later.
LEMMA ExecutedKept ==
  ASSUME TypeInv, OrderInv, FNext
  PROVE  /\ Len(executed[PD]) \in Nat /\ Len(executed'[PD]) \in Nat
         /\ Len(executed[PD]) <= Len(executed'[PD])
         /\ \A i \in 1 .. Len(executed[PD]) : Executed(i)' = Executed(i)
<1>0. executed[PD] \in Seq(Nat) /\ Len(executed[PD]) \in Nat /\ Len(sent) = arrived
      /\ \A i \in 1 .. Len(executed[PD]) : executed[PD][i] \in 1 .. arrived
  BY PDAssumption DEF TypeInv, FTypeOK, OrderInv
<1>1. CASE publish
  <2>1. executed' = executed
        /\ \A i \in 1 .. arrived : sent'[i] = sent[i]
    BY <1>1, PublishStep
  <2> QED
    BY <1>0, <2>1 DEF Executed
<1>2. CASE Store
  <2>1. /\ executed'[PD] = Append(executed[PD], Head(pending[PD]))
        /\ Head(pending[PD]) \in Nat /\ sent' = sent
    BY <1>2, StoreStep
  <2>2. /\ Len(executed'[PD]) = Len(executed[PD]) + 1
        /\ \A i \in 1 .. Len(executed[PD]) : executed'[PD][i] = executed[PD][i]
    BY <1>0, <2>1, Appended
  <2> QED
    BY <1>0, <2>1, <2>2 DEF Executed
<1>3. CASE ~(publish \/ Store)
  <2>1. UNCHANGED <<executed, sent>>
    BY <1>3, Steps, LocalStep
       DEF AcceptFtstat, AcceptAck, Purge, Pop, pdVars, chVars
  <2> QED
    BY <1>0, <2>1 DEF Executed
<1> QED
  BY <1>1, <1>2, <1>3

\* The fragments that have an answer: only an accepted FTSTAT adds one.
LEMMA AnsweredStep ==
  ASSUME TypeInv, OrderInv, FNext
  PROVE  \/ UNCHANGED <<AnsweredFragments, published, answers>>
         \/ /\ \E o : AnsweredFragments' = AnsweredFragments \cup {o}
            /\ answers' = answers + 1
            /\ UNCHANGED <<offset, sent, executed>>
<1>1. /\ \A i \in published : i \in 1 .. Len(executed[PD])
      /\ \A i \in 1 .. Len(executed[PD]) : Executed(i)' = Executed(i)
  BY ExecutedKept DEF TypeInv, FTypeOK
<1>2. CASE UNCHANGED <<published, answers>>
  BY <1>1, <1>2 DEF AnsweredFragments
<1>3. ASSUME NEW i \in 1 .. Len(replies), AcceptFtstat(i)
      PROVE  /\ AnsweredFragments' = AnsweredFragments \cup {Executed(i)}
             /\ answers' = answers + 1
             /\ UNCHANGED <<offset, sent, executed>>
  <2>1. /\ published' = published \cup {i} /\ answers' = answers + 1
        /\ UNCHANGED <<offset, sent, executed>>
    BY <1>3, AcceptStep DEF fileVars, pdVars
  <2>2. \A j : Executed(j)' = Executed(j)
    BY <2>1 DEF Executed
  <2> QED
    BY <2>1, <2>2 DEF AnsweredFragments
<1>4. UNCHANGED <<published, answers>> \/ \E i \in 1 .. Len(replies) : AcceptFtstat(i)
  BY Steps, LocalStep DEF publish, Store, AcceptAck, Purge, answerVars
<1> QED
  BY <1>2, <1>3, <1>4

-----------------------------------------------------------------------------
(* The invariant *)

\* At the start nothing was published.
LEMMA InitInv ==
  FInit => FInv
<1> SUFFICES ASSUME FInit
             PROVE  FInv
  OBVIOUS
<1>1. /\ pending = [s \in Slaves |-> << >>] /\ executed = [s \in Slaves |-> << >>]
      /\ arrived = 0
      /\ sent = << >> /\ replies = << >> /\ incoming = << >>
      /\ upload = "check" /\ offset = 0 /\ fin = FALSE
      /\ ftevent = FALSE /\ ftstat = "none" /\ stashed = FALSE /\ offline = FALSE
      /\ status = "ONLINE" /\ published = {} /\ answers = 0
  BY DEF FInit, ChInit
<1>2. /\ pending[PD] = << >> /\ executed[PD] = << >>
      /\ Len(<< >>) = 0 /\ \A S : << >> \in Seq(S)
  BY <1>1, PDAssumption, EmptySeq
<1>3. TypeInv
  <2>1. pending \in [Slaves -> Seq(Nat)] /\ executed \in [Slaves -> Seq(Nat)]
    BY <1>1, <1>2
  <2>2. offset \in 0 .. Fragments /\ sent \in Seq(0 .. Fragments) /\ Len(sent) = arrived
    BY <1>1, <1>2, FileAssumption
  <2>3. /\ replies \in Seq(Actions) /\ Len(replies) = Len(executed[PD])
        /\ incoming \in Seq(Actions) /\ incoming \in Seq(Actions \cup Statuses)
    BY <1>1, <1>2
  <2>4. status \in Statuses /\ published \subseteq 1 .. Len(replies)
    BY <1>1 DEF Statuses
  <2>5. /\ upload \in {"check", "clear", "publish", "wait", "interpret", "done", "abandoned"}
        /\ fin \in BOOLEAN /\ ftevent \in BOOLEAN /\ stashed \in BOOLEAN
        /\ offline \in BOOLEAN /\ ftstat \in Actions \cup {"none"}
        /\ arrived \in Nat /\ answers \in Nat
    BY <1>1
  <2> QED
    BY <2>1, <2>2, <2>3, <2>4, <2>5 DEF TypeInv, FTypeOK
<1>4. OrderInv /\ SentInv
  BY <1>1, <1>2 DEF OrderInv, SentInv
<1>5. CreditInv
  BY <1>1, <1>2 DEF CreditInv, Credit, Fresh
<1>6. AnswersInv
  <2>1. AnsweredFragments = {}
    BY <1>1 DEF AnsweredFragments
  <2> QED
    BY <1>1, <2>1, FS_EmptySet DEF AnswersInv
<1>7. PassedInv
  BY <1>1 DEF PassedInv, Passed
<1> QED
  BY <1>3, <1>4, <1>5, <1>6, <1>7 DEF FInv

\* Types, step by step.
LEMMA TypeStep ==
  ASSUME FInv, FNext
  PROVE  TypeInv'
<1>0. TypeInv /\ OrderInv
  BY DEF FInv
<1>1. CASE publish
  <2>1. /\ UNCHANGED <<executed, offset, fin, ftevent, ftstat, stashed, offline, replies,
                       published, answers, incoming, status>>
        /\ upload' = "wait"
    BY <1>0, <1>1, PublishStep DEF publish, answerVars
  <2> QED
    BY <1>0, <1>1, <2>1, PublishStep DEF TypeInv, FTypeOK
<1>2. CASE Store
  <2>1. UNCHANGED <<arrived, fileVars, sent, answerVars, incoming, status>>
    BY <1>0, <1>2, StoreStep DEF Store
  <2>2. Len(replies') = Len(executed'[PD])
    BY <1>0, <1>2, StoreStep, Appended DEF TypeInv, FTypeOK
  <2>3. published' \subseteq 1 .. Len(replies')
    <3>1. Len(replies') = Len(replies) + 1 /\ Len(replies) \in Nat
      BY <1>0, <1>2, StoreStep DEF TypeInv, FTypeOK
    <3> QED
      BY <1>0, <2>1, <3>1 DEF TypeInv, FTypeOK, answerVars
  <2> QED
    BY <1>0, <1>2, <2>1, <2>2, <2>3, StoreStep
       DEF TypeInv, FTypeOK, fileVars, answerVars
<1>3. ASSUME NEW i \in 1 .. Len(replies), AcceptFtstat(i)
      PROVE  TypeInv'
  <2>1. incoming' \in Seq(Actions \cup Statuses)
    <3>1. incoming' \in Seq(Actions)
      BY <1>0, <1>3, AcceptStep
    <3> QED
      BY <3>1
  <2>2. published' \subseteq 1 .. Len(replies') /\ answers' \in Nat
    <3>1. published \subseteq 1 .. Len(replies) /\ answers \in Nat
      BY <1>0 DEF TypeInv, FTypeOK
    <3>2. replies' = replies /\ published' = published \cup {i} /\ answers' = answers + 1
      BY <1>0, <1>3, AcceptStep DEF pdVars
    <3> QED
      BY <3>1, <3>2
  <2>3. /\ UNCHANGED <<arrived, executed, fileVars, pdVars, status>>
        /\ pending' \in [Slaves -> Seq(Nat)] /\ incoming' \in Seq(Actions)
    BY <1>0, <1>3, AcceptStep
  <2> QED
    BY <1>0, <2>1, <2>2, <2>3 DEF TypeInv, FTypeOK, fileVars, pdVars
<1>4. CASE AcceptAck \/ Purge
  <2>1. GivesUp /\ UNCHANGED <<fileVars, pdVars, answerVars, incoming, status>>
    BY <1>4 DEF AcceptAck, Purge, GivesUp
  <2> QED
    BY <1>0, <2>1, GivesUpStep DEF TypeInv, FTypeOK, fileVars, pdVars, answerVars
<1>5. CASE Stash
  <2>1. incoming # << >> /\ incoming \in Seq(Actions) /\ incoming' = Tail(incoming)
    BY <1>0, <1>5 DEF Stash, TypeInv
  <2>2. incoming' \in Seq(Actions) /\ Head(incoming) \in Actions
    BY <2>1, Shortened
  <2>3. incoming' \in Seq(Actions \cup Statuses)
    BY <2>2
  <2>4. ftstat' \in Actions /\ stashed' = TRUE
        /\ UNCHANGED <<chVars, upload, offset, fin, ftevent, offline, pdVars, answerVars,
                       status>>
    BY <1>5, <2>2 DEF Stash
  <2> QED
    BY <1>0, <2>2, <2>3, <2>4 DEF TypeInv, FTypeOK, chVars, pdVars, answerVars
<1>6. CASE DeclareOnline
  <2>1. status' \in Statuses /\ UNCHANGED <<chVars, fileVars, pdVars, answerVars, incoming>>
    BY <1>6, NotSubscribed DEF DeclareOnline, Deliver
  <2> QED
    BY <1>0, <2>1 DEF TypeInv, FTypeOK, chVars, fileVars, pdVars, answerVars
<1>7. CASE Set \/ Check \/ ClearEvent \/ Answered \/ TimedOut
  BY <1>0, <1>7 DEF TypeInv, FTypeOK, Set, Check, ClearEvent, clear, Answered, TimedOut,
       Retry, chVars, pdVars, answerVars
<1>8. CASE Interpret
  <2>1. offset' \in 0 .. Fragments
    BY <1>0, <1>8, FileAssumption DEF TypeInv, FTypeOK, Interpret, NextOffset
  <2> QED
    BY <1>0, <1>8, <2>1 DEF TypeInv, FTypeOK, Interpret, chVars, pdVars, answerVars
<1> QED
  BY <1>1, <1>2, <1>3, <1>4, <1>5, <1>6, <1>7, <1>8, Steps DEF Local

\* The order of the commands.
LEMMA OrderStep ==
  ASSUME FInv, FNext
  PROVE  OrderInv'
<1> DEFINE q == pending[PD]
           e == executed[PD]
<1>0. /\ TypeInv /\ OrderInv /\ arrived \in Nat
      /\ q \in Seq(Nat) /\ e \in Seq(Nat) /\ Len(q) \in Nat /\ Len(e) \in Nat
  BY PDAssumption DEF FInv, TypeInv
<1>1. CASE publish
  <2>1. CASE UNCHANGED <<arrived, pending, executed>>
    BY <1>0, <2>1 DEF OrderInv
  <2>2. CASE /\ arrived' = arrived + 1 /\ UNCHANGED executed
             /\ pending' = [pending EXCEPT ![PD] = Append(@, arrived + 1)]
    <3>1. pending'[PD] = Append(q, arrived + 1)
      BY <2>2, PDAssumption DEF FInv, TypeInv
    <3>2. /\ Len(pending'[PD]) = Len(q) + 1
          /\ \A i \in 1 .. Len(q) : pending'[PD][i] = q[i]
          /\ pending'[PD][Len(q) + 1] = arrived + 1
      BY <1>0, <3>1, Appended
    <3>3. \A i \in 1 .. Len(pending'[PD]) : i \in 1 .. Len(q) \/ i = Len(q) + 1
      BY <1>0, <3>2
    <3>4. /\ \A i \in 1 .. Len(q) : q[i] \in 1 .. arrived
          /\ \A i \in 1 .. Len(e) : e[i] \in 1 .. arrived
      BY <1>0 DEF OrderInv
    <3>5. \A i \in 1 .. Len(pending'[PD]) : pending'[PD][i] \in 1 .. arrived'
      BY <1>0, <2>2, <3>2, <3>3, <3>4
    <3>6. ASSUME NEW i \in 1 .. Len(pending'[PD]), NEW j \in 1 .. Len(pending'[PD]), i < j
          PROVE  pending'[PD][i] < pending'[PD][j]
      <4>1. i \in 1 .. Len(q)
        BY <1>0, <3>2, <3>6
      <4>2. CASE j = Len(q) + 1
        <5>1. pending'[PD][i] = q[i] /\ pending'[PD][j] = arrived + 1
          BY <3>2, <4>1, <4>2
        <5>2. q[i] \in 1 .. arrived /\ arrived \in Nat
          BY <1>0, <3>4, <4>1
        <5> QED
          BY <5>1, <5>2
      <4>3. CASE j \in 1 .. Len(q)
        BY <1>0, <3>2, <3>6, <4>1, <4>3 DEF OrderInv
      <4> QED
        BY <3>3, <4>2, <4>3
    <3>7. ASSUME NEW i \in 1 .. Len(e), NEW j \in 1 .. Len(pending'[PD])
          PROVE  e[i] < pending'[PD][j]
      <4>1. CASE j = Len(q) + 1
        <5>1. pending'[PD][j] = arrived + 1
          BY <3>2, <4>1
        <5>2. e[i] \in 1 .. arrived /\ arrived \in Nat
          BY <1>0, <3>4
        <5> QED
          BY <5>1, <5>2
      <4>2. CASE j \in 1 .. Len(q)
        BY <1>0, <3>2, <4>2 DEF OrderInv
      <4> QED
        BY <3>3, <4>1, <4>2
    <3>8. executed'[PD] = e /\ \A i \in 1 .. Len(e) : e[i] \in 1 .. arrived'
      BY <1>0, <2>2, <3>4
    <3> QED
      BY <1>0, <3>5, <3>6, <3>7, <3>8 DEF OrderInv
  <2> QED
    BY <1>0, <1>1, <2>1, <2>2, PublishStep
<1>2. CASE Store
  <2> DEFINE h == Head(q)
             r == pending'[PD]
             f == executed'[PD]
  <2>1. /\ q # << >> /\ r = Tail(q) /\ f = Append(e, h) /\ h \in Nat /\ arrived' = arrived
    BY <1>0, <1>2, StoreStep
  <2>2. /\ Len(q) >= 1 /\ Len(r) = Len(q) - 1 /\ h = q[1]
        /\ \A i \in 1 .. Len(r) : r[i] = q[i + 1]
    BY <1>0, <2>1, Shortened
  <2>3. /\ Len(f) = Len(e) + 1 /\ f[Len(e) + 1] = h
        /\ \A i \in 1 .. Len(e) : f[i] = e[i]
    BY <1>0, <2>1, Appended
  <2> HIDE DEF h, r, f
  <2>4. 1 \in 1 .. Len(q) /\ \A i \in 1 .. Len(r) : i + 1 \in 1 .. Len(q)
    BY <1>0, <2>2
  <2>5. \A i \in 1 .. Len(f) : i \in 1 .. Len(e) \/ i = Len(e) + 1
    BY <1>0, <2>3
  <2>6. ASSUME NEW i \in 1 .. Len(r)
        PROVE  r[i] \in 1 .. arrived /\ h < r[i]
    <3>1. r[i] = q[i + 1] /\ i + 1 \in 1 .. Len(q) /\ 1 < i + 1
      BY <1>0, <2>2, <2>4
    <3>2. r[i] \in 1 .. arrived
      BY <1>0, <3>1 DEF OrderInv
    <3>3. q[1] < q[i + 1]
      BY <1>0, <2>4, <3>1 DEF OrderInv
    <3> QED
      BY <2>2, <3>1, <3>2, <3>3
  <2>7. h \in 1 .. arrived /\ \A i \in 1 .. Len(e) : e[i] < h /\ e[i] \in 1 .. arrived
    BY <1>0, <2>2, <2>4 DEF OrderInv
  <2>8. \A i, j \in 1 .. Len(r) : i < j => r[i] < r[j]
    BY <1>0, <2>2, <2>4 DEF OrderInv
  <2>9. \A i \in 1 .. Len(f) : f[i] \in 1 .. arrived
    BY <2>3, <2>5, <2>7
  <2>10. ASSUME NEW i \in 1 .. Len(f), NEW j \in 1 .. Len(f), i < j
         PROVE  f[i] < f[j]
    <3>1. i \in 1 .. Len(e)
      BY <1>0, <2>3, <2>10
    <3>2. CASE j = Len(e) + 1
      BY <2>3, <2>7, <3>1, <3>2
    <3>3. CASE j \in 1 .. Len(e)
      BY <1>0, <2>3, <2>10, <3>1, <3>3 DEF OrderInv
    <3> QED
      BY <2>5, <3>2, <3>3
  <2>11. ASSUME NEW i \in 1 .. Len(f), NEW j \in 1 .. Len(r)
         PROVE  f[i] < r[j]
    <3>1. CASE i = Len(e) + 1
      BY <2>3, <2>6, <3>1
    <3>2. CASE i \in 1 .. Len(e)
      BY <1>0, <2>2, <2>3, <2>4, <3>2 DEF OrderInv
    <3> QED
      BY <2>5, <3>1, <3>2, UpTo
  <2> QED
    BY <2>1, <2>6, <2>8, <2>9, <2>10, <2>11 DEF OrderInv, r, f
<1>3. ASSUME NEW i \in 1 .. Len(replies), AcceptFtstat(i)
      PROVE  OrderInv'
  BY <1>0, <1>3, AcceptStep
<1>4. CASE AcceptAck \/ Purge
  BY <1>0, <1>4, GivesUpStep DEF AcceptAck, Purge, GivesUp
<1>5. CASE Local
  BY <1>0, <1>5, LocalStep DEF OrderInv
<1> QED
  BY <1>1, <1>2, <1>3, <1>4, <1>5, Steps

\* The order of the offsets published.
LEMMA SentStep ==
  ASSUME FInv, FNext
  PROVE  SentInv'
<1>0. /\ TypeInv /\ OrderInv /\ SentInv /\ offset \in Nat /\ offset' \in Nat
      /\ sent \in Seq(0 .. Fragments) /\ Len(sent) = arrived /\ arrived \in Nat
  BY TypeStep, FileAssumption DEF FInv, TypeInv, FTypeOK
<1>1. CASE publish
  <2>1. offset' = offset
    BY <1>1 DEF publish
  <2>2. CASE UNCHANGED <<arrived, pending, sent>>
    BY <1>0, <2>1, <2>2 DEF SentInv
  <2>3. CASE /\ arrived' = arrived + 1 /\ Len(sent') = arrived'
             /\ sent'[arrived'] = offset /\ \A i \in 1 .. arrived : sent'[i] = sent[i]
    <3>1. \A i \in 1 .. Len(sent') : i \in 1 .. arrived \/ i = arrived'
      BY <1>0, <2>3
    <3>2. \A i \in 1 .. Len(sent') : sent'[i] <= offset'
      BY <1>0, <2>1, <2>3, <3>1 DEF SentInv
    <3>3. ASSUME NEW i \in 1 .. Len(sent'), NEW j \in 1 .. Len(sent'), i < j
          PROVE  sent'[i] <= sent'[j]
      <4>1. i \in 1 .. arrived
        BY <1>0, <2>3, <3>3
      <4>2. CASE j = arrived'
        BY <1>0, <2>3, <4>1, <4>2 DEF SentInv
      <4>3. CASE j \in 1 .. arrived
        BY <1>0, <2>3, <3>3, <4>1, <4>3 DEF SentInv
      <4> QED
        BY <3>1, <4>2, <4>3
    <3> QED
      BY <3>2, <3>3 DEF SentInv
  <2> QED
    BY <1>0, <1>1, <2>2, <2>3, PublishStep
<1>2. CASE ~publish
  <2>1. sent' = sent
    BY <1>0, <1>2, Steps, StoreStep, LocalStep DEF AcceptFtstat, AcceptAck, Purge, pdVars
  <2>2. offset <= offset'
    BY <1>0, <1>2, Steps
       DEF Store, AcceptFtstat, AcceptAck, Purge, Local, Stash, Set, Check, ClearEvent,
           Answered, TimedOut, Interpret, NextOffset, DeclareOnline, fileVars
  <2>3. \A i \in 1 .. Len(sent) : sent[i] \in Nat
    BY <1>0, FileAssumption
  <2> QED
    BY <1>0, <2>1, <2>2, <2>3 DEF SentInv
<1> QED
  BY <1>1, <1>2

\* Every step leaves at least as many answers as have been used.
LEMMA CreditStep ==
  ASSUME FInv, FNext
  PROVE  CreditInv'
<1>0. /\ TypeInv /\ OrderInv /\ CreditInv
      /\ offset \in Nat /\ answers \in Nat /\ Len(incoming) \in Nat
      /\ incoming \in Seq(Actions) /\ ftevent \in BOOLEAN /\ stashed \in BOOLEAN
  BY FileAssumption DEF FInv, TypeInv, FTypeOK
<1>1. CASE publish
  <2>1. /\ UNCHANGED <<offset, ftevent, stashed, incoming, answers>>
        /\ upload = "publish" /\ upload' = "wait"
    BY <1>1 DEF publish, answerVars
  <2> QED
    BY <1>0, <2>1 DEF CreditInv, Credit, Fresh
<1>2. CASE Store \/ AcceptAck \/ Purge
  <2>1. UNCHANGED <<offset, ftevent, stashed, upload, incoming, answers>>
    BY <1>2 DEF Store, AcceptAck, Purge, fileVars, answerVars
  <2> QED
    BY <1>0, <2>1 DEF CreditInv, Credit, Fresh
<1>3. ASSUME NEW i \in 1 .. Len(replies), AcceptFtstat(i)
      PROVE  CreditInv'
  <2>1. /\ UNCHANGED <<offset, ftevent, stashed, upload>>
        /\ Len(incoming') <= Len(incoming) + 1 /\ Len(incoming') \in Nat
        /\ answers' = answers + 1
    BY <1>0, <1>3, AcceptStep DEF fileVars
  <2> DEFINE rest == (IF stashed THEN 1 ELSE 0) + (IF Fresh THEN 1 ELSE 0)
  <2>2. rest' = rest /\ rest \in Nat
    BY <2>1 DEF Fresh
  <2>3. Credit = Len(incoming) + rest /\ Credit' = Len(incoming') + rest'
    <3>1. CASE stashed
      BY <1>0, <2>1, <3>1 DEF Credit, Fresh
    <3>2. CASE ~stashed
      BY <1>0, <2>1, <3>2 DEF Credit, Fresh
    <3> QED
      BY <3>1, <3>2
  <2> HIDE DEF rest
  <2>4. offset' + Credit' <= answers'
    BY <1>0, <2>1, <2>2, <2>3 DEF CreditInv
  <2> QED
    BY <1>0, <2>1, <2>4 DEF CreditInv
<1>4. CASE Stash
  <2>1. /\ incoming # << >> /\ incoming' = Tail(incoming) /\ ~stashed
        /\ UNCHANGED <<offset, ftevent, upload, answers>>
    BY <1>4 DEF Stash, answerVars
  <2>2. Len(incoming') = Len(incoming) - 1 /\ Len(incoming) >= 1
    BY <1>0, <2>1, Shortened
  <2>3. Credit = Len(incoming) + (IF Fresh THEN 1 ELSE 0)
    BY <1>0, <2>1 DEF Credit
  <2>4. Credit' <= Credit /\ Credit' \in Nat /\ Credit \in Nat
    <3>1. CASE stashed'
      BY <1>0, <2>1, <2>2, <2>3, <3>1 DEF Credit, Fresh
    <3>2. CASE ~stashed'
      BY <1>0, <2>1, <2>2, <2>3, <3>2 DEF Credit, Fresh
    <3> QED
      BY <3>1, <3>2
  <2>5. offset' + Credit' <= answers'
    <3>1. offset \in Nat /\ answers \in Nat /\ offset + Credit <= answers
      BY <1>0 DEF CreditInv
    <3>2. offset' = offset /\ answers' = answers
      BY <2>1
    <3> QED
      BY <2>4, <3>1, <3>2, StaysBelow
  <2> QED
    BY <1>0, <2>1, <2>5 DEF CreditInv
<1>5. CASE Set
  <2>1. /\ stashed = TRUE /\ stashed' = FALSE /\ ftevent' = TRUE
        /\ UNCHANGED <<offset, upload, incoming, answers>>
    BY <1>0, <1>5 DEF Set, answerVars
  <2> QED
    BY <1>0, <2>1 DEF CreditInv, Credit, Fresh
<1>6. CASE Check \/ ClearEvent \/ Answered \/ TimedOut
  <2>1. UNCHANGED <<offset, stashed, incoming, answers>>
    BY <1>6 DEF Check, ClearEvent, Answered, TimedOut, answerVars
  <2>2. (Fresh' => Fresh) /\ (upload' = "interpret" => ftevent')
    BY <1>6 DEF Fresh, Check, ClearEvent, clear, Answered, TimedOut, Retry
  <2>3. Credit' <= Credit /\ Credit' \in Nat /\ Credit \in Nat
    <3> DEFINE rest == Len(incoming) + (IF stashed THEN 1 ELSE 0)
    <3>1. rest \in Nat /\ rest' = rest
      BY <1>0, <2>1
    <3>2. Credit = rest + (IF Fresh THEN 1 ELSE 0)
      BY DEF Credit
    <3>3. Credit' = rest + (IF Fresh' THEN 1 ELSE 0)
      BY <2>1 DEF Credit
    <3> HIDE DEF rest
    <3>4. CASE Fresh'
      BY <2>2, <3>1, <3>2, <3>3, <3>4
    <3>5. CASE ~Fresh'
      BY <3>1, <3>2, <3>3, <3>5
    <3> QED
      BY <3>4, <3>5
  <2>4. offset' + Credit' <= answers'
    <3>1. offset \in Nat /\ answers \in Nat /\ offset + Credit <= answers
      BY <1>0 DEF CreditInv
    <3>2. offset' = offset /\ answers' = answers
      BY <2>1
    <3> QED
      BY <2>3, <3>1, <3>2, StaysBelow
  <2> QED
    BY <2>2, <2>4 DEF CreditInv
<1>7. CASE Interpret
  <2>1. /\ UNCHANGED <<ftevent, stashed, incoming, answers>>
        /\ offset' \in Nat /\ offset' <= offset + 1
        /\ upload = "interpret" /\ upload' \in {"check", "done"}
    BY <1>0, <1>7 DEF Interpret, NextOffset, answerVars
  <2>2. Fresh /\ ~Fresh' /\ upload' # "interpret"
    BY <1>0, <2>1 DEF CreditInv, Fresh
  <2> QED
    BY <1>0, <2>1, <2>2 DEF CreditInv, Credit
<1>8. CASE DeclareOnline
  <2>1. UNCHANGED <<offset, ftevent, stashed, upload, incoming, answers>>
    BY <1>8, NotSubscribed DEF DeclareOnline, Deliver, fileVars, answerVars
  <2> QED
    BY <1>0, <2>1 DEF CreditInv, Credit, Fresh
<1> QED
  BY <1>1, <1>2, <1>3, <1>4, <1>5, <1>6, <1>7, <1>8, Steps DEF Local

\* There are no more fragments answered than answers.
LEMMA AnswersStep ==
  ASSUME FInv, FNext
  PROVE  AnswersInv' /\ (NoSurplus' => NoSurplus)
<1> DEFINE A == AnsweredFragments
<1>0. TypeInv /\ OrderInv /\ IsFiniteSet(A) /\ Cardinality(A) <= answers /\ answers \in Nat
  BY DEF FInv, AnswersInv, TypeInv, FTypeOK
<1>1. Cardinality(A) \in Nat
  BY <1>0, FS_CardinalityType
<1>2. CASE UNCHANGED <<AnsweredFragments, published, answers>>
  BY <1>0, <1>2 DEF AnswersInv, NoSurplus
<1>3. ASSUME NEW o, AnsweredFragments' = A \cup {o}, answers' = answers + 1
      PROVE  AnswersInv' /\ (NoSurplus' => NoSurplus)
  <2>1. /\ IsFiniteSet(A \cup {o})
        /\ \/ Cardinality(A \cup {o}) = Cardinality(A)
           \/ Cardinality(A \cup {o}) = Cardinality(A) + 1
    BY <1>0, FS_AddElement
  <2> QED
    BY <1>0, <1>1, <1>3, <2>1 DEF AnswersInv, NoSurplus
<1> QED
  BY <1>0, <1>2, <1>3, AnsweredStep

\* As long as no answer is one too many, they are those of all fragments up to the
\* one that the uploader leaves.
LEMMA PassedStep ==
  ASSUME FInv, FNext
  PROVE  PassedInv'
<1> SUFFICES ASSUME NoSurplus'
             PROVE  Passed' \subseteq AnsweredFragments'
  BY DEF PassedInv
<1>0. /\ TypeInv /\ OrderInv /\ SentInv /\ CreditInv /\ NoSurplus
      /\ Passed \subseteq AnsweredFragments
      /\ offset \in Nat /\ answers \in Nat
  BY AnswersStep, FileAssumption DEF FInv, PassedInv, TypeInv, FTypeOK
<1>1. AnsweredFragments \subseteq AnsweredFragments'
  BY <1>0, AnsweredStep
<1>2. CASE ~Interpret
  <2>1. offset' = offset
    BY <1>2, Steps
       DEF publish, Store, AcceptFtstat, AcceptAck, Purge, Local, Stash, Set, Check,
           ClearEvent, Answered, TimedOut, DeclareOnline, fileVars
  <2> QED
    BY <1>0, <1>1, <2>1 DEF Passed
<1>3. CASE Interpret
  <2>1. offset + 1 <= answers
    <3>1. Fresh /\ Len(incoming) \in Nat
      BY <1>0, <1>3 DEF Interpret, CreditInv, Fresh, TypeInv
    <3> QED
      BY <1>0, <3>1 DEF CreditInv, Credit
  <2>2. AnsweredFragments \subseteq 0 .. offset
    <3>1. ASSUME NEW i \in published
          PROVE  Executed(i) \in 0 .. offset
      <4>1. i \in 1 .. Len(executed[PD])
        BY <1>0 DEF TypeInv, FTypeOK
      <4>2. executed[PD][i] \in 1 .. Len(sent)
        BY <1>0, <4>1 DEF OrderInv, TypeInv, FTypeOK
      <4>3. sent[executed[PD][i]] \in 0 .. Fragments
        <5>1. sent \in Seq(0 .. Fragments)
          BY <1>0 DEF TypeInv, FTypeOK
        <5> QED
          BY <4>2, <5>1, ElementOfSeq
      <4> QED
        BY <1>0, <4>2, <4>3, FileAssumption DEF SentInv, Executed
    <3> QED
      BY <3>1 DEF AnsweredFragments
  <2>3. IsFiniteSet(0 .. offset) /\ Cardinality(0 .. offset) = offset + 1
    BY <1>0, FS_Interval
  <2>4. AnsweredFragments = 0 .. offset
    <3>1. Cardinality(AnsweredFragments) = answers
      BY <1>0 DEF NoSurplus
    <3>2. /\ Cardinality(AnsweredFragments) <= offset + 1
          /\ offset + 1 = Cardinality(AnsweredFragments) => AnsweredFragments = 0 .. offset
      BY <2>2, <2>3, FS_Subset
    <3> QED
      BY <1>0, <2>1, <3>1, <3>2
  <2>5. offset' \in Nat /\ offset' <= offset + 1
    BY <1>0, <1>3 DEF Interpret, NextOffset
  <2>6. ASSUME NEW o \in Passed'
        PROVE  o \in 0 .. offset
    <3>1. o \in 0 .. offset' - 1
      BY <2>6 DEF Passed
    <3>2. offset \in Nat
      BY <1>0
    <3> QED
      BY <2>5, <3>1, <3>2, UpTo
  <2> QED
    BY <1>1, <2>4, <2>6
<1> QED
  BY <1>2, <1>3

-----------------------------------------------------------------------------
(* The theorems *)

\* The invariant, along every transfer.
LEMMA Invariant ==
  FSpec => []FInv
<1>1. FInv /\ [FNext]_fvars => FInv'
  <2> SUFFICES ASSUME FInv, [FNext]_fvars
               PROVE  FInv'
    OBVIOUS
  <2>1. CASE FNext
    BY <2>1, TypeStep, OrderStep, SentStep, CreditStep, AnswersStep, PassedStep DEF FInv
  <2>2. CASE UNCHANGED fvars
    <3>1. UNCHANGED <<arrived, pending, executed, upload, offset, fin, ftevent, ftstat,
                      stashed, offline, sent, replies, published, answers, incoming,
                      status>>
      BY <2>2 DEF fvars, chVars, fileVars, pdVars, answerVars
    <3>2. TypeInv' /\ OrderInv' /\ SentInv'
      BY <3>1 DEF FInv, TypeInv, FTypeOK, OrderInv, SentInv
    <3>3. CreditInv'
      BY <3>1 DEF FInv, CreditInv, Credit, Fresh
    <3>4. UNCHANGED <<AnsweredFragments, Passed>>
      BY <3>1 DEF AnsweredFragments, Executed, Passed
    <3>5. AnswersInv' /\ PassedInv'
      BY <3>1, <3>4 DEF FInv, AnswersInv, PassedInv, NoSurplus
    <3> QED
      BY <3>2, <3>3, <3>5 DEF FInv
  <2> QED
    BY <2>1, <2>2
<1> QED
  BY InitInv, <1>1, PTL DEF FSpec

\* filesend.py's variables keep their types, and there is an answer for every command
\* executed.
THEOREM TypeCorrect ==
  FSpec => []FTypeOK
<1>1. FInv => FTypeOK
  BY DEF FInv, TypeInv
<1> QED
  BY Invariant, <1>1, PTL

\* The uploader never uses an FTSTAT twice, however its steps and those of on_message
\* interleave.
THEOREM NoAnswerCountsTwice ==
  FSpec => []AnAnswerEach
<1>1. FInv => AnAnswerEach
  <2> SUFFICES ASSUME FInv
               PROVE  offset + Len(incoming) <= answers
    BY DEF AnAnswerEach
  <2>1. /\ offset \in Nat /\ answers \in Nat /\ Len(incoming) \in Nat
        /\ offset + Credit <= answers
    BY FileAssumption DEF FInv, TypeInv, FTypeOK, CreditInv
  <2>2. Credit \in Nat /\ Len(incoming) <= Credit
    <3>1. CASE stashed
      BY <2>1, <3>1 DEF Credit
    <3>2. CASE ~stashed
      BY <2>1, <3>2 DEF Credit
    <3> QED
      BY <3>1, <3>2
  <2> QED
    BY <2>1, <2>2
<1> QED
  BY Invariant, <1>1, PTL

\* Whatever osdpmaster gives up, loses or delivers late, the PD has every fragment that
\* the uploader has gone past, unless a fragment was answered twice.
THEOREM NoHoleWithoutSurplus ==
  FSpec => []PassedIsStored
<1>1. FInv => PassedIsStored
  <2> SUFFICES ASSUME FInv, NoSurplus
               PROVE  Passed \subseteq Stored
    BY DEF PassedIsStored
  <2>1. published \subseteq 1 .. Len(executed[PD])
    BY DEF FInv, TypeInv, FTypeOK
  <2> QED
    BY <2>1 DEF FInv, PassedInv, AnsweredFragments, Stored
<1> QED
  BY Invariant, <1>1, PTL

\* The fragments that the PD stores never go back, those sent again included.
THEOREM FragmentsInOrder ==
  FSpec => []NeverBackwards
<1>1. FInv => NeverBackwards
  <2> SUFFICES ASSUME FInv, NEW i \in 1 .. Len(executed[PD]),
                      NEW j \in 1 .. Len(executed[PD]), i < j
               PROVE  Executed(i) <= Executed(j)
    BY DEF NeverBackwards
  <2>1. /\ executed[PD][i] \in 1 .. Len(sent) /\ executed[PD][j] \in 1 .. Len(sent)
        /\ executed[PD][i] < executed[PD][j]
    BY DEF FInv, OrderInv, TypeInv, FTypeOK
  <2> QED
    BY <2>1 DEF FInv, SentInv, Executed
<1> QED
  BY Invariant, <1>1, PTL
=============================================================================
