------------------------- MODULE RedLabWriterProofs -------------------------
(***************************************************************************)
(* Proofs about RedLabWriter, for every bound of the queue, every set of   *)
(* entry sizes and every number of entries.                                *)
(*                                                                         *)
(* The argument follows one number, First: the oldest entry that may still *)
(* be queued.  Everything below it is settled, it only grows, and the      *)
(* entry in the writer's hand never lies above it.                         *)
(***************************************************************************)
EXTENDS RedLabWriter, SequenceTheorems, FiniteSetTheorems, TLAPS

First == next - Len(queue)

\* Below First nothing is open any more.
BelowSettled == \A id \in 1 .. (First - 1) : id \in acked \cup dropped

\* What the overflow dropped lies below First.
DroppedBelow == \A id \in dropped : id < First

\* What is confirmed lies below First, but for the entry whose write has just
\* returned.
AckedBelow ==
  \A id \in acked : id < First \/ (writerPc = "written" /\ id = inHand.id)

\* What InfluxDB may hold lies at or below First, and not above the entry being
\* written.
StoredBelow ==
  \A id \in stored :
    /\ id < next
    /\ id <= First
    /\ writerPc = "write" => id <= inHand.id

\* The entry in hand is the head of the queue, or was dropped during its write.
HandAtHead ==
  writerPc \in {"write", "written", "failed"} =>
    /\ inHand.id <= First
    /\ inHand.id = First => queue # <<>> /\ Head(queue) = inHand

HandAcked ==
  /\ writerPc \in {"write", "failed"} => inHand.id \notin acked
  /\ writerPc = "written" => inHand.id \in acked

WriterIInv ==
  /\ WriterTypeOK
  /\ QueueIsNewest
  /\ BelowSettled
  /\ DroppedBelow
  /\ AckedBelow
  /\ StoredBelow
  /\ HandAtHead
  /\ HandAcked

-----------------------------------------------------------------------------
(* Lemmas about the queue.                                                 *)

\* What remains when the oldest entries of a sequence are removed.
LEMMA WithoutOldestLemma ==
  ASSUME NEW S, NEW q \in Seq(S), NEW gone \in 0 .. Len(q)
  PROVE  /\ WithoutOldest(q, gone) \in Seq(S)
         /\ Len(WithoutOldest(q, gone)) = Len(q) - gone
         /\ \A i \in 1 .. Len(q) - gone : WithoutOldest(q, gone)[i] = q[i + gone]
<1>1. \A i \in gone + 1 .. Len(q) : q[i] \in S
  BY ElementOfSeq
<1>2. gone \in Nat /\ Len(q) \in Nat /\ gone <= Len(q)
  BY LenProperties
<1> DEFINE m == gone + 1
           n == Len(q)
<1>3. m \in Int /\ n \in Int
  BY <1>2
<1> HIDE DEF m, n
<1>4. /\ SubSeq(q, m, n) \in Seq(S)
      /\ Len(SubSeq(q, m, n)) = IF m <= n THEN n - m + 1 ELSE 0
      /\ \A i \in 1 .. n - m + 1 : SubSeq(q, m, n)[i] = q[m + i - 1]
  <2>1. \A i \in m .. n : q[i] \in S
    BY <1>1 DEF m, n
  <2>2. QED
    BY <2>1, <1>3, SubSeqProperties
<1>5. /\ n - m + 1 = Len(q) - gone
      /\ m <= n <=> Len(q) - gone # 0
      /\ \A i \in 1 .. Len(q) - gone : m + i - 1 = i + gone
  BY <1>2 DEF m, n
<1>6. WithoutOldest(q, gone) = SubSeq(q, m, n)
  BY DEF WithoutOldest, m, n
<1>7. QED
  BY <1>2, <1>4, <1>5, <1>6

\* enqueue keeps the queue a gapless run of the newest entries that starts
\* further up by as many entries as were dropped, and drops only from its front.
LEMMA EnqueueLemma ==
  ASSUME WriterTypeOK, QueueIsNewest, NEW size \in EntrySizes, Enqueue(size)
  PROVE  /\ queue' \in Seq(Entries)
         /\ next' = next + 1
         /\ next' \in 1 .. MaxEntries + 1
         /\ dropped \subseteq dropped'
         /\ dropped' \subseteq 1 .. MaxEntries
         /\ QueueIsNewest'
         /\ First' \in First .. next'
         /\ First' = First /\ queue # <<>> => queue' # <<>> /\ Head(queue') = Head(queue)
         /\ dropped' = dropped \cup (First .. (First' - 1))
<1> DEFINE new == [id |-> next, size |-> size]
           q == Append(queue, new)
<1>1. /\ next \in 1 .. MaxEntries
      /\ MaxEntries \in Nat
      /\ queue \in Seq(Entries)
      /\ Len(queue) \in Nat
  BY MaxEntriesAssumption, LenProperties DEF WriterTypeOK, Enqueue
<1>2. new \in Entries
  BY <1>1 DEF Entries
<1>3. /\ q \in Seq(Entries)
      /\ Len(q) = Len(queue) + 1
      /\ \A i \in 1 .. Len(queue) : q[i] = queue[i]
      /\ q[Len(queue) + 1] = new
  BY <1>1, <1>2, AppendProperties
<1> HIDE DEF new, q
<1>4. PICK gone \in 0 .. Len(q) :
        /\ queue' = WithoutOldest(q, gone)
        /\ dropped' = dropped \cup {q[i].id : i \in 1 .. gone}
  BY DEF Enqueue, q, new
<1>5. /\ queue' \in Seq(Entries)
      /\ Len(queue') = Len(q) - gone
      /\ \A i \in 1 .. Len(q) - gone : queue'[i] = q[i + gone]
  BY <1>3, <1>4, WithoutOldestLemma
<1>6. next' = next + 1
  BY DEF Enqueue
<1>7. \A i \in 1 .. Len(q) : q[i].id = next' - 1 - Len(q) + i
  <2> SUFFICES ASSUME NEW i \in 1 .. Len(q)
               PROVE  q[i].id = next' - 1 - Len(q) + i
    OBVIOUS
  <2>1. CASE i \in 1 .. Len(queue)
    <3>1. queue[i].id = next - 1 - Len(queue) + i
      BY <2>1, <1>1, LenProperties DEF QueueIsNewest
    <3>2. QED
      BY <3>1, <2>1, <1>1, <1>3, <1>6
  <2>2. CASE i = Len(queue) + 1
    BY <2>2, <1>1, <1>3, <1>6 DEF new
  <2>3. QED
    BY <2>1, <2>2, <1>1, <1>3
<1>8. First' = First + gone
  BY <1>1, <1>3, <1>4, <1>5, <1>6 DEF First
<1>9. First' \in First .. next'
  BY <1>1, <1>3, <1>4, <1>6, <1>8 DEF First
<1>10. QueueIsNewest'
  <2> SUFFICES ASSUME NEW i \in 1 .. Len(queue')
               PROVE  queue'[i].id = next' - 1 - Len(queue') + i
    BY <1>5, LenProperties DEF QueueIsNewest
  <2>1. i + gone \in 1 .. Len(q)
    BY <1>1, <1>3, <1>4, <1>5
  <2>2. q[i + gone].id = next' - 1 - Len(q) + (i + gone)
    BY <2>1, <1>7
  <2>3. queue'[i] = q[i + gone]
    BY <1>5
  <2>4. QED
    BY <2>2, <2>3, <1>1, <1>3, <1>4, <1>5, <1>6
<1>11. {q[i].id : i \in 1 .. gone} = First .. (First' - 1)
  <2>1. ASSUME NEW i \in 1 .. gone
        PROVE  q[i].id \in First .. (First' - 1)
    <3>1. q[i].id = next' - 1 - Len(q) + i
      BY <1>1, <1>3, <1>4, <1>7
    <3>2. QED
      BY <3>1, <1>1, <1>3, <1>4, <1>6, <1>8 DEF First
  <2>2. ASSUME NEW id \in First .. (First' - 1)
        PROVE  id \in {q[i].id : i \in 1 .. gone}
    <3>1. /\ id - First + 1 \in 1 .. gone
          /\ id - First + 1 \in 1 .. Len(q)
      BY <1>1, <1>3, <1>4, <1>8 DEF First
    <3>2. q[id - First + 1].id = next' - 1 - Len(q) + (id - First + 1)
      BY <3>1, <1>7
    <3>3. q[id - First + 1].id = id
      BY <3>2, <1>1, <1>3, <1>6, <1>8 DEF First
    <3>4. QED
      BY <3>1, <3>3
  <2>3. QED
    BY <2>1, <2>2
<1>12. dropped' = dropped \cup (First .. (First' - 1))
  BY <1>4, <1>11
<1>13. dropped' \subseteq 1 .. MaxEntries
  <2>1. \A i \in 1 .. gone : q[i].id \in 1 .. MaxEntries
    <3> TAKE i \in 1 .. gone
    <3>1. q[i] \in Entries
      BY <1>1, <1>3, <1>4, ElementOfSeq
    <3>2. QED
      BY <3>1 DEF Entries
  <2>2. QED
    BY <2>1, <1>4 DEF WriterTypeOK
<1>14. ASSUME First' = First, queue # <<>>
       PROVE  queue' # <<>> /\ Head(queue') = Head(queue)
  <2>1. gone = 0
    BY <1>1, <1>4, <1>8, <1>14 DEF First
  <2>2. Len(queue) # 0
    BY <1>1, <1>14, EmptySeq
  <2>3. Len(queue') # 0 /\ 1 \in 1 .. Len(q) - gone /\ 1 \in 1 .. Len(queue)
    BY <2>1, <2>2, <1>1, <1>3, <1>5
  <2>4. queue'[1] = queue[1]
    BY <2>1, <2>3, <1>3, <1>5
  <2>5. queue' # <<>>
    BY <2>3, EmptySeq
  <2>6. QED
    BY <2>4, <2>5
<1>15. next' \in 1 .. MaxEntries + 1
  BY <1>1, <1>6
<1>16. dropped \subseteq dropped'
  BY <1>4
<1>17. First' = First /\ queue # <<>> => queue' # <<>> /\ Head(queue') = Head(queue)
  BY <1>14
<1>18. QED
  BY <1>5, <1>6, <1>9, <1>10, <1>12, <1>13, <1>15, <1>16, <1>17

\* Removing the head of a nonempty queue moves First up by one.
LEMMA PopLemma ==
  ASSUME WriterTypeOK, QueueIsNewest, queue # <<>>, queue' = Tail(queue), next' = next
  PROVE  /\ queue' \in Seq(Entries)
         /\ QueueIsNewest'
         /\ First' = First + 1
<1>1. /\ queue' \in Seq(Entries)
      /\ Len(queue') = Len(queue) - 1
      /\ \A i \in 1 .. Len(queue') : queue'[i] = queue[i + 1]
  BY HeadTailProperties DEF WriterTypeOK
<1>2. /\ next \in Nat
      /\ Len(queue) \in Nat \ {0}
      /\ DOMAIN queue = 1 .. Len(queue)
      /\ DOMAIN queue' = 1 .. Len(queue')
  BY <1>1, EmptySeq, LenProperties, MaxEntriesAssumption DEF WriterTypeOK
<1>3. First' = First + 1
  BY <1>1, <1>2 DEF First
<1>4. ASSUME NEW i \in 1 .. Len(queue')
      PROVE  queue'[i].id = next' - 1 - Len(queue') + i
  <2>1. i + 1 \in DOMAIN queue
    BY <1>1, <1>2
  <2>2. queue[i + 1].id = next - 1 - Len(queue) + (i + 1)
    BY <2>1 DEF QueueIsNewest
  <2>3. QED
    BY <2>2, <1>1, <1>2
<1>5. QED
  BY <1>1, <1>2, <1>3, <1>4 DEF QueueIsNewest

\* The head of a nonempty queue is the entry numbered First.
LEMMA HeadLemma ==
  ASSUME WriterTypeOK, QueueIsNewest, queue # <<>>
  PROVE  /\ Head(queue) \in Entries
         /\ Head(queue).id = First
         /\ First < next
<1>1. /\ next \in Nat
      /\ Len(queue) \in Nat \ {0}
      /\ DOMAIN queue = 1 .. Len(queue)
  BY EmptySeq, LenProperties, MaxEntriesAssumption DEF WriterTypeOK
<1>2. Head(queue) = queue[1]
  OBVIOUS
<1>3. queue[1].id = next - 1 - Len(queue) + 1
  BY <1>1 DEF QueueIsNewest
<1>4. QED
  BY <1>1, <1>2, <1>3, HeadTailProperties DEF First, WriterTypeOK

\* The number of the oldest entry is an integer not above the next number.
LEMMA FirstInt == WriterTypeOK => First \in Int /\ next \in Nat /\ First <= next
  BY LenProperties, MaxEntriesAssumption DEF WriterTypeOK, First

-----------------------------------------------------------------------------
(* The invariant is inductive.                                             *)

\* Every health record the code builds has the type of health.
LEMMA HealthType ==
  ASSUME NEW status \in Statuses, NEW connected \in BOOLEAN
  PROVE  Health(status, connected) \in [status : Statuses, connected : BOOLEAN]
  BY DEF Health

\* The writer starts in a state that satisfies the invariant.
LEMMA WriterInitIInv == WriterInit => WriterIInv
<1> SUFFICES ASSUME WriterInit PROVE WriterIInv
  OBVIOUS
<1> USE DEF WriterInit
<1>1. queue \in Seq(Entries) /\ Len(queue) = 0 /\ DOMAIN queue = {}
  BY EmptySeq, LenProperties
<1>2. WriterTypeOK
  <2>1. health \in [status : Statuses, connected : BOOLEAN]
    BY HealthType DEF Statuses
  <2>2. next \in 1 .. MaxEntries + 1
    BY MaxEntriesAssumption
  <2>3. writerPc \in WriterPcs /\ writerPc \in {"off", "wait", "exit"}
    BY DEF WriterPcs
  <2>4. QED
    BY <1>1, <2>1, <2>2, <2>3 DEF WriterTypeOK
<1>3. QueueIsNewest
  BY <1>1 DEF QueueIsNewest
<1>4. First = 1
  BY <1>1 DEF First
<1>5. BelowSettled /\ DroppedBelow /\ AckedBelow /\ StoredBelow /\ HandAtHead /\ HandAcked
  BY <1>4 DEF BelowSettled, DroppedBelow, AckedBelow, StoredBelow, HandAtHead, HandAcked
<1>6. QED
  BY <1>2, <1>3, <1>5 DEF WriterIInv

\* enqueue keeps the invariant, the overflow included: what it drops it counts,
\* and the entry in the thread's hand may be among it.
LEMMA EnqueueIInv ==
  ASSUME WriterIInv, NEW size \in EntrySizes, Enqueue(size)
  PROVE  WriterIInv'
<1> USE DEF WriterIInv
<1>1. /\ queue' \in Seq(Entries)
      /\ next' = next + 1
      /\ next' \in 1 .. MaxEntries + 1
      /\ dropped \subseteq dropped'
      /\ dropped' \subseteq 1 .. MaxEntries
      /\ QueueIsNewest'
      /\ First' \in First .. next'
      /\ First' = First /\ queue # <<>> => queue' # <<>> /\ Head(queue') = Head(queue)
      /\ dropped' = dropped \cup (First .. (First' - 1))
  BY EnqueueLemma
<1>2. UNCHANGED <<writerPc, inHand, writerStop, health, stored, acked>>
  BY DEF Enqueue
<1>3. First \in Int /\ First' \in Int /\ next \in Nat /\ First <= First'
  BY <1>1, FirstInt
<1>4. WriterTypeOK'
  BY <1>1, <1>2 DEF WriterTypeOK
<1>5. BelowSettled' /\ DroppedBelow'
  <2>1. /\ First = next - Len(queue) /\ First' = next' - Len(queue')
        /\ next \in Nat /\ next' \in Nat
        /\ Len(queue) \in Nat /\ Len(queue') \in Nat
    BY <1>1, <1>3, LenProperties DEF First, WriterTypeOK
  <2>2. /\ dropped' = dropped \cup (First .. (First' - 1)) /\ acked' = acked
        /\ \A id \in dropped : id \in Nat
    BY <1>1, <1>2, MaxEntriesAssumption DEF WriterTypeOK
  <2>3. BelowSettled'
    BY <2>1, <2>2, <1>3 DEF BelowSettled, First
  <2>4. DroppedBelow'
    BY <2>1, <2>2, <1>3 DEF DroppedBelow, First
  <2>5. QED
    BY <2>3, <2>4
<1>6. AckedBelow'
  BY <1>2, <1>3, MaxEntriesAssumption DEF AckedBelow, WriterTypeOK
<1>7. StoredBelow'
  BY <1>1, <1>2, <1>3, MaxEntriesAssumption DEF StoredBelow, WriterTypeOK
<1>8. HandAtHead'
  <2> SUFFICES ASSUME writerPc \in {"write", "written", "failed"}
               PROVE  /\ inHand.id <= First'
                      /\ inHand.id = First' => queue' # <<>> /\ Head(queue') = inHand
    BY <1>2 DEF HandAtHead
  <2>1. /\ inHand.id \in Int
        /\ inHand.id <= First
        /\ inHand.id = First => queue # <<>> /\ Head(queue) = inHand
    BY MaxEntriesAssumption DEF HandAtHead, WriterTypeOK, Entries, NoEntry
  <2>2. inHand.id = First' => First' = First
    BY <2>1, <1>3
  <2>3. QED
    BY <2>1, <2>2, <1>1, <1>3
<1>9. HandAcked'
  BY <1>2 DEF HandAcked
<1>10. QED
  BY <1>1, <1>4, <1>5, <1>6, <1>7, <1>8, <1>9

\* Steps that leave the queue and its history alone keep the parts about them.
LEMMA QueueKept ==
  ASSUME WriterIInv, UNCHANGED <<queue, next>>, acked \subseteq acked',
         UNCHANGED dropped
  PROVE  First' = First /\ QueueIsNewest' /\ BelowSettled' /\ DroppedBelow'
  BY DEF WriterIInv, First, QueueIsNewest, BelowSettled, DroppedBelow

\* Taking an entry in hand keeps the invariant: the hand holds the head.
LEMMA TakeIInv == WriterIInv /\ Take => WriterIInv'
<1> SUFFICES ASSUME WriterIInv, Take PROVE WriterIInv'
  OBVIOUS
<1> USE DEF WriterIInv, Take, Oldest
<1>1. First' = First /\ QueueIsNewest' /\ BelowSettled' /\ DroppedBelow'
  BY QueueKept
<1>2. inHand' \in Entries /\ inHand'.id = First /\ First < next
  BY HeadLemma
<1>3. First \in Int
  BY FirstInt
<1>4. WriterTypeOK'
  <2>1. inHand' # NoEntry
    BY <1>2 DEF Entries, NoEntry
  <2>2. QED
    BY <1>2, <2>1 DEF WriterTypeOK, WriterPcs
<1>5. \A id \in acked : id < First
  BY DEF AckedBelow
<1>6. AckedBelow' /\ HandAcked'
  BY <1>1, <1>2, <1>3, <1>5 DEF AckedBelow, HandAcked
<1>7. StoredBelow' /\ HandAtHead'
  BY <1>1, <1>2, <1>3 DEF StoredBelow, HandAtHead
<1>8. QED
  BY <1>1, <1>4, <1>6, <1>7

\* A confirmed write keeps the invariant: the entry in hand is now stored.
LEMMA WriteOkIInv == WriterIInv /\ WriteOk => WriterIInv'
<1> SUFFICES ASSUME WriterIInv, WriteOk PROVE WriterIInv'
  OBVIOUS
<1> USE DEF WriterIInv, WriteOk
<1>1. First' = First /\ QueueIsNewest' /\ BelowSettled' /\ DroppedBelow'
  BY QueueKept
<1>2. inHand \in Entries /\ inHand.id \in 1 .. MaxEntries
  BY DEF WriterTypeOK, Entries, NoEntry
<1>3. /\ First \in Int /\ next \in Nat
      /\ First <= next
      /\ inHand.id \in Int
      /\ inHand.id <= First
      /\ inHand.id = First => First < next
  BY <1>2, FirstInt, HeadLemma, MaxEntriesAssumption DEF HandAtHead
<1>4. WriterTypeOK'
  BY <1>2 DEF WriterTypeOK, WriterPcs
<1>5. AckedBelow' /\ HandAcked' /\ HandAtHead'
  BY <1>1 DEF AckedBelow, HandAcked, HandAtHead
<1>6. StoredBelow'
  BY <1>1, <1>3 DEF StoredBelow
<1>7. QED
  BY <1>1, <1>4, <1>5, <1>6

\* A failed write keeps the invariant, whether InfluxDB stored the entry or not.
LEMMA WriteFailsIInv == WriterIInv /\ WriteFails => WriterIInv'
<1> SUFFICES ASSUME WriterIInv, WriteFails PROVE WriterIInv'
  OBVIOUS
<1> USE DEF WriterIInv, WriteFails
<1>1. First' = First /\ QueueIsNewest' /\ BelowSettled' /\ DroppedBelow'
  BY QueueKept
<1>2. inHand \in Entries /\ inHand.id \in 1 .. MaxEntries
  BY DEF WriterTypeOK, Entries, NoEntry
<1>3. /\ First \in Int /\ next \in Nat
      /\ First <= next
      /\ inHand.id \in Int
      /\ inHand.id <= First
      /\ inHand.id = First => First < next
  BY <1>2, FirstInt, HeadLemma, MaxEntriesAssumption DEF HandAtHead
<1>4. WriterTypeOK'
  BY <1>2 DEF WriterTypeOK, WriterPcs
<1>5. AckedBelow' /\ HandAcked' /\ HandAtHead'
  BY <1>1 DEF AckedBelow, HandAcked, HandAtHead
<1>6. StoredBelow'
  BY <1>1, <1>3 DEF StoredBelow
<1>7. QED
  BY <1>1, <1>4, <1>5, <1>6

\* The critical step: the head is removed only if it is the entry written, and
\* if it is not, the entry written has been dropped already.
LEMMA SettleIInv == WriterIInv /\ Settle => WriterIInv'
<1> SUFFICES ASSUME WriterIInv, Settle PROVE WriterIInv'
  OBVIOUS
<1> USE DEF WriterIInv, Settle
<1>1. First \in Int /\ next \in Nat
  BY FirstInt
<1>2. \A id \in acked \cup stored \cup dropped : id \in Int
  BY MaxEntriesAssumption DEF WriterTypeOK
<1>3. inHand \in Entries /\ inHand.id \in Int /\ inHand.id \in acked
  BY MaxEntriesAssumption DEF WriterTypeOK, HandAcked, Entries, NoEntry
<1>4. CASE HeadWritten
  <2>1. queue # <<>> /\ Head(queue) = inHand /\ queue' = Tail(queue)
    BY <1>4 DEF HeadWritten
  <2>2. queue' \in Seq(Entries) /\ QueueIsNewest' /\ First' = First + 1
    BY <2>1, PopLemma
  <2>3. inHand.id = First
    BY <2>1, HeadLemma
  <2>4. WriterTypeOK'
    BY <2>2 DEF WriterTypeOK, WriterPcs
  <2>5. BelowSettled' /\ DroppedBelow'
    BY <2>2, <2>3, <1>1, <1>2, <1>3 DEF BelowSettled, DroppedBelow
  <2>6. AckedBelow'
    BY <2>2, <2>3, <1>1, <1>2 DEF AckedBelow
  <2>7. StoredBelow'
    BY <2>2, <1>1, <1>2 DEF StoredBelow
  <2>8. QED
    BY <2>2, <2>4, <2>5, <2>6, <2>7 DEF HandAtHead, HandAcked
<1>5. CASE ~HeadWritten
  <2>1. UNCHANGED queue
    BY <1>5
  <2>2. First' = First /\ QueueIsNewest' /\ BelowSettled' /\ DroppedBelow'
    BY <2>1, QueueKept
  <2>3. inHand.id < First
    BY <1>1, <1>3, <1>5 DEF HandAtHead, HeadWritten
  <2>4. WriterTypeOK'
    BY <2>1 DEF WriterTypeOK, WriterPcs
  <2>5. AckedBelow'
    BY <2>2, <2>3 DEF AckedBelow
  <2>6. StoredBelow' /\ HandAtHead' /\ HandAcked'
    BY <2>2 DEF StoredBelow, HandAtHead, HandAcked
  <2>7. QED
    BY <2>2, <2>4, <2>5, <2>6
<1>6. QED
  BY <1>4, <1>5

\* Reporting the outcome of a write keeps the invariant.
LEMMA ReportIInv == WriterIInv /\ (ReportRunning \/ ReportDegraded) => WriterIInv'
<1> SUFFICES ASSUME WriterIInv, ReportRunning \/ ReportDegraded PROVE WriterIInv'
  OBVIOUS
<1> USE DEF WriterIInv, ReportRunning, ReportDegraded
<1>1. First' = First /\ QueueIsNewest' /\ BelowSettled' /\ DroppedBelow'
  BY QueueKept
<1>2. WriterTypeOK'
  <2>1. health' \in [status : Statuses, connected : BOOLEAN]
    <3>1. \E status \in Statuses : health' = Health(status, TRUE)
      BY DEF Statuses
    <3>2. QED
      BY <3>1, HealthType
  <2>2. writerPc' \in WriterPcs /\ (inHand' = NoEntry <=> writerPc' \in {"off", "wait", "exit"})
    BY DEF WriterPcs
  <2>3. /\ UNCHANGED <<queue, next, writerStop, stored, acked, dropped>>
        /\ inHand' = NoEntry
    OBVIOUS
  <2>4. QED
    BY <2>1, <2>2, <2>3 DEF WriterTypeOK
<1>3. AckedBelow' /\ StoredBelow' /\ HandAtHead' /\ HandAcked'
  BY <1>1 DEF AckedBelow, StoredBelow, HandAtHead, HandAcked
<1>4. QED
  BY <1>1, <1>2, <1>3

\* Starting, stopping and waiting keep the invariant.
LEMMA ControlIInv ==
  WriterIInv /\ (StartWriter \/ StopWriter \/ Exit \/ UNCHANGED writerVars) => WriterIInv'
<1> SUFFICES ASSUME WriterIInv, StartWriter \/ StopWriter \/ Exit \/ UNCHANGED writerVars
             PROVE  WriterIInv'
  OBVIOUS
<1> USE DEF WriterIInv, StartWriter, StopWriter, Exit, writerVars
<1>1. First' = First /\ QueueIsNewest' /\ BelowSettled' /\ DroppedBelow'
  BY QueueKept
<1>2. WriterTypeOK'
  BY DEF WriterTypeOK, WriterPcs
<1>3. AckedBelow' /\ StoredBelow' /\ HandAtHead' /\ HandAcked'
  BY <1>1 DEF AckedBelow, StoredBelow, HandAtHead, HandAcked
<1>4. QED
  BY <1>1, <1>2, <1>3

\* Every step of the writer keeps the invariant.
LEMMA WriterStepIInv == WriterIInv /\ [WriterNext]_writerVars => WriterIInv'
  BY EnqueueIInv, TakeIInv, WriteOkIInv, WriteFailsIInv, SettleIInv, ReportIInv,
     ControlIInv DEF WriterNext, WriterThread

\* The strengthened invariant holds in every state of the writer.
LEMMA WriterInvariant == WriterSpec => []WriterIInv
  BY WriterInitIInv, WriterStepIInv, PTL DEF WriterSpec

-----------------------------------------------------------------------------
(* The results.                                                            *)

\* The variables of the writer keep their types; what was confirmed is stored.
THEOREM WriterTypeCorrect == WriterSpec => []WriterTypeOK
<1>1. WriterIInv => WriterTypeOK
  BY DEF WriterIInv
<1>2. QED
  BY <1>1, WriterInvariant, PTL

\* The batches of a queue are finite in number, those without the head are
\* among them.
LEMMA BatchesLemma ==
  ASSUME NEW q \in Seq(Entries)
  PROVE  /\ IsFiniteSet(Batches(q))
         /\ q # <<>> => BatchCount(Tail(q)) <= BatchCount(q)
<1> DEFINE Of(i) == {q[i].id} \X (1 .. q[i].size)
           parts == {Of(i) : i \in DOMAIN q}
           part == [i \in DOMAIN q |-> Of(i)]
<1>1. DOMAIN q = 1 .. Len(q) /\ Len(q) \in Nat /\ \A i \in DOMAIN q : q[i] \in Entries
  BY LenProperties
<1>2. IsFiniteSet(DOMAIN q)
  BY <1>1, FS_Interval
<1>3. part \in Surjection(DOMAIN q, parts)
  BY DEF Surjection
<1>4. IsFiniteSet(parts)
  BY <1>2, <1>3, FS_Surjection
<1>5. ASSUME NEW i \in DOMAIN q PROVE IsFiniteSet(Of(i))
  <2>1. q[i].size \in EntrySizes
    BY <1>1, <1>5 DEF Entries
  <2>2. IsFiniteSet(1 .. q[i].size)
    <3>1. \A n \in Int : IsFiniteSet(1 .. n)
      BY FS_Interval
    <3>2. \A size \in EntrySizes : size \in Int
      BY EntrySizesAssumption
    <3> QED BY <2>1, <3>1, <3>2
  <2>3. IsFiniteSet({q[i].id})
    BY FS_Singleton
  <2> QED BY <2>2, <2>3, FS_Product
<1>6. IsFiniteSet(Batches(q))
  BY <1>4, <1>5, FS_UNION DEF Batches
<1>7. ASSUME q # <<>> PROVE Batches(Tail(q)) \subseteq Batches(q)
  <2>1. DOMAIN Tail(q) = 1 .. Len(q) - 1
        /\ \A i \in 1 .. Len(q) - 1 : i + 1 \in DOMAIN q /\ Tail(q)[i] = q[i + 1]
    BY <1>1, <1>7, HeadTailProperties
  <2> QED BY <2>1 DEF Batches
<1> QED BY <1>6, <1>7, FS_Subset DEF BatchCount

\* Whatever enqueue and the writer do to it, the queue never holds more batches
\* than it may: what is removed after a write cannot add to it.
THEOREM WriterQueueBounded == WriterSpec => []QueueBounded
<1>1. WriterInit => QueueBounded
  <2>1. Batches(<<>>) = {}
    BY DEF Batches
  <2> QED BY <2>1, FS_EmptySet, MaxBatchesAssumption DEF WriterInit, QueueBounded, BatchCount
<1>2. ASSUME WriterIInv, QueueBounded, [WriterNext]_writerVars PROVE QueueBounded'
  <2>1. CASE \E size \in EntrySizes : Enqueue(size)
    BY <2>1 DEF Enqueue, Surplus, WithoutOldest, QueueBounded
  <2>2. CASE Settle
    <3>1. CASE queue' = queue
      BY <3>1, <1>2 DEF QueueBounded
    <3>2. CASE HeadWritten /\ queue' = Tail(queue)
      <4>1. queue \in Seq(Entries) /\ queue # <<>>
        BY <1>2, <3>2 DEF WriterIInv, WriterTypeOK, HeadWritten
      <4>2. BatchCount(queue') <= BatchCount(queue)
        BY <3>2, <4>1, BatchesLemma
      <4>3. BatchCount(queue) \in Nat /\ BatchCount(queue') \in Nat
        <5>1. queue' \in Seq(Entries)
          BY <3>2, <4>1, HeadTailProperties
        <5> QED BY <4>1, <5>1, BatchesLemma, FS_CardinalityType DEF BatchCount
      <4> QED BY <1>2, <4>2, <4>3, MaxBatchesAssumption DEF QueueBounded
    <3> QED BY <2>2, <3>1, <3>2 DEF Settle
  <2>3. CASE UNCHANGED queue
    BY <2>3, <1>2 DEF QueueBounded
  <2> QED
    BY <1>2, <2>1, <2>2, <2>3
    DEF WriterNext, WriterThread, StartWriter, StopWriter, Take, Exit, WriteOk, WriteFails,
        ReportRunning, ReportDegraded, writerVars
<1> QED BY <1>1, <1>2, WriterInvariant, PTL DEF WriterSpec

\* The queue is always the gapless run of the newest entries.
THEOREM WriterQueueNewest == WriterSpec => []QueueIsNewest
<1>1. WriterIInv => QueueIsNewest
  BY DEF WriterIInv
<1>2. QED
  BY <1>1, WriterInvariant, PTL

\* No entry accepted by enqueue is lost unless the overflow counted it.
THEOREM WriterLosesNothing == WriterSpec => []NoSilentLoss
<1>1. ASSUME WriterIInv, NEW id \in 1 .. (next - 1)
      PROVE  id \in Queued \cup acked \cup dropped
  <2>1. /\ First \in Int /\ next \in Nat /\ Len(queue) \in Nat
        /\ DOMAIN queue = 1 .. Len(queue)
    BY <1>1, FirstInt, LenProperties DEF WriterIInv, WriterTypeOK
  <2>2. CASE id < First
    BY <2>1, <2>2, <1>1 DEF WriterIInv, BelowSettled
  <2>3. CASE id >= First
    <3>1. id - First + 1 \in DOMAIN queue
      BY <2>1, <2>3 DEF First
    <3>2. queue[id - First + 1].id = next - 1 - Len(queue) + (id - First + 1)
      BY <3>1, <1>1 DEF WriterIInv, QueueIsNewest
    <3>3. queue[id - First + 1].id = id
      BY <3>2, <2>1 DEF First
    <3>4. QED
      BY <3>1, <3>3 DEF Queued
  <2>4. QED
    BY <2>1, <2>2, <2>3
<1>2. WriterIInv => NoSilentLoss
  BY <1>1 DEF NoSilentLoss
<1>3. QED
  BY <1>2, WriterInvariant, PTL

\* What InfluxDB confirmed is never written again.
THEOREM WriterNeverRewrites == WriterSpec => []NoRewrite
<1>1. WriterIInv => NoRewrite
  BY DEF WriterIInv, HandAcked, NoRewrite
<1>2. QED
  BY <1>1, WriterInvariant, PTL

-----------------------------------------------------------------------------
(* The writer implements OrderedDelivery.                                  *)

\* An initial state of the writer is one of OrderedDelivery.
LEMMA DeliveryInit == WriterInit => Delivery!Init
  BY DEF WriterInit, Delivery!Init

\* enqueue accepts one entry in OrderedDelivery, and its overflow only gives up
\* entries there.
LEMMA DeliveryAccept ==
  ASSUME WriterIInv, NEW size \in EntrySizes, Enqueue(size)
  PROVE  Delivery!Accept
<1>1. /\ WriterTypeOK /\ QueueIsNewest
      /\ next \in Nat /\ Len(queue) \in Nat /\ Len(queue') \in Nat
  BY FirstInt, EnqueueLemma, LenProperties DEF WriterIInv, WriterTypeOK
<1>2. /\ next' = next + 1
      /\ First' \in First .. next'
      /\ dropped' = dropped \cup (First .. (First' - 1))
      /\ WriterIInv'
      /\ UNCHANGED <<stored, acked>>
  BY <1>1, EnqueueLemma, EnqueueIInv DEF Enqueue
<1>3. \A id \in 1 .. (First' - 1) : id \in stored \cup dropped'
  BY <1>2 DEF WriterIInv, BelowSettled, WriterTypeOK
<1>4. ASSUME NEW g \in dropped' \ dropped, NEW older \in 1 .. (g - 1)
      PROVE  older \in stored \cup dropped'
  <2>1. g \in First .. (First' - 1)
    BY <1>2, <1>4
  <2>2. older \in 1 .. (First' - 1)
    BY <1>1, <1>2, <2>1 DEF First
  <2>3. QED
    BY <1>3, <2>2
<1>5. dropped' \subseteq 1 .. (next' - 1)
  BY <1>1, <1>2, MaxEntriesAssumption DEF WriterIInv, WriterTypeOK, DroppedBelow, First
<1>6. next' - 1 = (next - 1) + 1 /\ dropped \subseteq dropped'
  BY <1>1, <1>2
<1>7. QED
  BY <1>2, <1>4, <1>5, <1>6 DEF Delivery!Accept

\* A write that takes effect stores the next entry, or one that an earlier
\* failed write had stored already.
LEMMA DeliveryStore ==
  ASSUME WriterIInv, writerPc = "write", stored' = stored \cup {inHand.id},
         UNCHANGED <<next, dropped>>
  PROVE  [Delivery!Next]_Delivery!vars
<1>1. /\ First \in Int /\ next \in Nat /\ First <= next
      /\ inHand \in Entries /\ inHand.id \in 1 .. MaxEntries
  BY FirstInt DEF WriterIInv, WriterTypeOK, Entries, NoEntry
<1>2. /\ inHand.id <= First
      /\ inHand.id = First => First < next
  BY HeadLemma DEF WriterIInv, HandAtHead
<1>3. inHand.id \in 1 .. (next - 1)
  BY <1>1, <1>2, MaxEntriesAssumption
<1>4. CASE inHand.id \in stored
  <2>1. stored' = stored
    BY <1>4
  <2>2. QED
    BY <2>1 DEF Delivery!vars
<1>5. CASE inHand.id \notin stored
  <2>1. \A s \in stored : s < inHand.id
    BY <1>1, <1>5, MaxEntriesAssumption DEF WriterIInv, StoredBelow, WriterTypeOK
  <2>2. \A older \in 1 .. (inHand.id - 1) : older \in stored \cup dropped
    BY <1>1, <1>2, MaxEntriesAssumption DEF WriterIInv, BelowSettled, WriterTypeOK
  <2>3. Delivery!Store(inHand.id)
    BY <1>3, <2>1, <2>2 DEF Delivery!Store, Delivery!Settled
  <2>4. QED
    BY <1>3, <2>3 DEF Delivery!Next
<1>6. QED
  BY <1>4, <1>5

\* Every step of the writer is a step of OrderedDelivery or changes nothing there.
LEMMA DeliveryStep ==
  WriterIInv /\ [WriterNext]_writerVars => [Delivery!Next]_Delivery!vars
<1> SUFFICES ASSUME WriterIInv, [WriterNext]_writerVars
             PROVE  [Delivery!Next]_Delivery!vars
  OBVIOUS
<1>1. ASSUME NEW size \in EntrySizes, Enqueue(size)
      PROVE  [Delivery!Next]_Delivery!vars
  BY <1>1, DeliveryAccept DEF Delivery!Next
<1>2. CASE WriteOk
  BY <1>2, DeliveryStore DEF WriteOk
<1>3. CASE WriteFails
  <2>1. CASE stored' = stored \cup {inHand.id}
    BY <1>3, <2>1, DeliveryStore DEF WriteFails
  <2>2. CASE stored' = stored
    BY <1>3, <2>2 DEF WriteFails, Delivery!vars
  <2>3. QED
    BY <1>3, <2>1, <2>2 DEF WriteFails
<1>4. CASE \/ StartWriter \/ StopWriter \/ Take \/ Exit \/ Settle
           \/ ReportRunning \/ ReportDegraded \/ UNCHANGED writerVars
  BY <1>4 DEF StartWriter, StopWriter, Take, Exit, Settle, ReportRunning,
              ReportDegraded, writerVars, Delivery!vars
<1>5. QED
  BY <1>1, <1>2, <1>3, <1>4 DEF WriterNext, WriterThread

\* Whatever writes fail and whatever the overflow drops, InfluxDB receives the
\* entries in the order of their acceptance.
THEOREM WriterDeliversInOrder == WriterSpec => DeliversInOrder
<1>1. WriterInit => Delivery!Init
  BY DeliveryInit
<1>2. WriterIInv /\ [WriterNext]_writerVars => [Delivery!Next]_Delivery!vars
  BY DeliveryStep
<1>3. WriterSpec => Delivery!Spec
  BY <1>1, <1>2, WriterInvariant, PTL DEF WriterSpec, Delivery!Spec
<1>4. QED
  BY <1>3 DEF DeliversInOrder
=============================================================================
