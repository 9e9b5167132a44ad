---------------------------- MODULE RedLabWriter ----------------------------
(***************************************************************************)
(* The bounded write queue of one RedLab device and the thread that sends  *)
(* it to InfluxDB (app/redlab/redlab_writer.py).                            *)
(*                                                                         *)
(* An entry of write_queue is a list of batches read at one time; only its *)
(* size matters here, because the bound counts batches, not entries.       *)
(* Entries are numbered by `next`, which stands for the identity of the    *)
(* Python list the code compares with `is`.  A critical section of         *)
(* write_queue_lock is one action.  The sleep after a failed write and the *)
(* timed wait on an empty queue add no state: the thread is then simply    *)
(* at "wait".                                                               *)
(***************************************************************************)
EXTENDS Integers, Sequences, FiniteSets

CONSTANTS
  MaxBatches,   \* settings.write_queue_max_batches
  EntrySizes,   \* how many batches one call of enqueue may carry
  MaxEntries    \* bound of the model: entries enqueued in one behaviour

ASSUME MaxBatchesAssumption == MaxBatches \in Nat \ {0}
ASSUME EntrySizesAssumption == EntrySizes \subseteq Nat \ {0}
ASSUME MaxEntriesAssumption == MaxEntries \in Nat

VARIABLES
  queue,       \* write_queue
  next,        \* number of the next entry
  writerPc,    \* where the writer thread is
  inHand,      \* the entry the writer thread works on (its local `batches`)
  writerStop,  \* writer_stop_event
  health,      \* the runtime's health as set through the set_health callback
  stored,      \* entries InfluxDB holds (external)
  acked,       \* history: entries whose write call returned
  dropped      \* history: entries dropped on overflow (counted and printed)

writerVars ==
  <<queue, next, writerPc, inHand, writerStop, health, stored, acked, dropped>>

Entries == [id : 1 .. MaxEntries, size : EntrySizes]
NoEntry == [id |-> 0, size |-> 0]
WriterPcs == {"off", "wait", "write", "written", "report", "failed", "exit"}
Statuses == {"starting", "running", "degraded", "error", "offline"}

\* The statuses and flags the code reports together.
Health(status, connected) == [status |-> status, connected |-> connected]

Queued == {queue[i].id : i \in DOMAIN queue}

\* The batches of the entries of a queue, by entry and number.
Batches(q) == UNION {{q[i].id} \X (1 .. q[i].size) : i \in DOMAIN q}

\* _queued_batch_count
BatchCount(q) == Cardinality(Batches(q))

-----------------------------------------------------------------------------

WriterInit ==
  /\ queue = <<>>
  /\ next = 1
  /\ writerPc = "off"
  /\ inHand = NoEntry
  /\ writerStop = FALSE
  /\ health = Health("starting", FALSE)
  /\ stored = {}
  /\ acked = {}
  /\ dropped = {}

\* start(): the thread is new, the stop event is cleared.
StartWriter ==
  /\ writerPc = "off"
  /\ writerPc' = "wait"
  /\ writerStop' = FALSE
  /\ UNCHANGED <<queue, next, inHand, health, stored, acked, dropped>>

\* stop(): sets the event and wakes the thread.
StopWriter ==
  /\ writerStop' = TRUE
  /\ UNCHANGED <<queue, next, writerPc, inHand, health, stored, acked, dropped>>

\* Mutant: the overflow loop is an `if`, one entry is dropped at most.
SurplusOnce(q, gone) == gone = IF BatchCount(q) > MaxBatches THEN 1 ELSE 0

\* `gone` entries are what the overflow loop drops: entries are taken from the
\* front for as long as more than the allowed batches are queued.
Surplus(q, gone) ==
  /\ BatchCount(SubSeq(q, gone + 1, Len(q))) <= MaxBatches
  /\ \A fewer \in 0 .. (gone - 1) :
       BatchCount(SubSeq(q, fewer + 1, Len(q))) > MaxBatches

\* Mutant: the newest entries make room.
WithoutNewest(q, gone) == SubSeq(q, 1, Len(q) - gone)

WithoutOldest(q, gone) == SubSeq(q, gone + 1, Len(q))

\* enqueue(): append, then drop the oldest entries while there is a surplus.  An
\* entry larger than the bound drops everything, itself included.  The head may
\* be in the writer's hand at that moment.
Enqueue(size) ==
  /\ next <= MaxEntries
  /\ LET q == Append(queue, [id |-> next, size |-> size])
     IN  \E gone \in 0 .. Len(q) :
           /\ Surplus(q, gone)
           /\ queue' = WithoutOldest(q, gone)
           /\ dropped' = dropped \cup {q[i].id : i \in 1 .. gone}
  /\ next' = next + 1
  /\ UNCHANGED <<writerPc, inHand, writerStop, health, stored, acked>>

-----------------------------------------------------------------------------
(* The writer thread, run().                                               *)

\* Mutant: the newest entry is written first.
Newest == queue[Len(queue)]

Oldest == Head(queue)

\* The head is peeked, not removed, and the lock released for the write.
Take ==
  /\ writerPc = "wait"
  /\ queue # <<>>
  /\ inHand' = Oldest
  /\ writerPc' = "write"
  /\ UNCHANGED <<queue, next, writerStop, health, stored, acked, dropped>>

\* Mutant: the thread returns when stopped, whatever is queued.
Stopped == writerStop

\* Mutant: the thread ends by itself only if it has written something.
DrainedAfterWrite == queue = <<>> /\ writerStop /\ acked # {}

Drained == queue = <<>> /\ writerStop

\* The thread returns only when stopped and drained.
Exit ==
  /\ writerPc = "wait"
  /\ Drained
  /\ writerPc' = "exit"
  /\ UNCHANGED <<queue, next, inHand, writerStop, health, stored, acked, dropped>>

\* Mutant: the write API is not the synchronous one and returns at once.
WriteAsync ==
  /\ writerPc = "write"
  /\ acked' = acked \cup {inHand.id}
  /\ writerPc' = "written"
  /\ UNCHANGED <<queue, next, inHand, writerStop, health, stored, dropped>>

\* _write_batches returned: InfluxDB holds the entry.
WriteOk ==
  /\ writerPc = "write"
  /\ stored' = stored \cup {inHand.id}
  /\ acked' = acked \cup {inHand.id}
  /\ writerPc' = "written"
  /\ UNCHANGED <<queue, next, inHand, writerStop, health, dropped>>

\* _write_batches raised.  The request may have been executed before the answer
\* was lost.
WriteFails ==
  /\ writerPc = "write"
  /\ stored' \in {stored, stored \cup {inHand.id}}
  /\ writerPc' = "failed"
  /\ UNCHANGED <<queue, next, inHand, writerStop, health, acked, dropped>>

\* Mutant: the head is removed without asking whether it is the entry written.
SomeHead == queue # <<>>

\* Mutant: the identity test compares a copy and never succeeds.
NoHead == FALSE

HeadWritten == queue # <<>> /\ Head(queue) = inHand

\* The head is removed only if it still is the entry written: an overflow may
\* have dropped that entry during the write.
Settle ==
  /\ writerPc = "written"
  /\ queue' = IF HeadWritten THEN Tail(queue) ELSE queue
  /\ writerPc' = "report"
  /\ UNCHANGED <<next, inHand, writerStop, health, stored, acked, dropped>>

\* set_health(status="running", connected=True, ...)
ReportRunning ==
  /\ writerPc = "report"
  /\ health' = Health("running", TRUE)
  /\ writerPc' = "wait"
  /\ inHand' = NoEntry
  /\ UNCHANGED <<queue, next, writerStop, stored, acked, dropped>>

\* set_health(status="degraded", connected=True, ...), then the retry delay.
ReportDegraded ==
  /\ writerPc = "failed"
  /\ health' = Health("degraded", TRUE)
  /\ writerPc' = "wait"
  /\ inHand' = NoEntry
  /\ UNCHANGED <<queue, next, writerStop, stored, acked, dropped>>

WriterThread ==
  Take \/ Exit \/ WriteOk \/ WriteFails \/ Settle \/ ReportRunning \/ ReportDegraded

-----------------------------------------------------------------------------
(* The writer with an arbitrary producer.                                  *)

WriterNext ==
  \/ StartWriter
  \/ StopWriter /\ writerPc # "off"
  \/ \E size \in EntrySizes : Enqueue(size) /\ writerPc # "off"
  \/ WriterThread

\* The thread keeps running.  A write call ends (the client has a timeout), and
\* InfluxDB is not down for ever: a write tried again and again succeeds.
WriterFairness ==
  /\ WF_writerVars(StartWriter)
  /\ WF_writerVars(WriterThread)
  /\ SF_writerVars(WriteOk)

WriterSpec == WriterInit /\ [][WriterNext]_writerVars
FairWriterSpec == WriterSpec /\ WriterFairness

-----------------------------------------------------------------------------
(* Properties.                                                             *)

WriterTypeOK ==
  /\ queue \in Seq(Entries)
  /\ next \in 1 .. MaxEntries + 1
  /\ writerPc \in WriterPcs
  /\ inHand \in Entries \cup {NoEntry}
  /\ inHand = NoEntry <=> writerPc \in {"off", "wait", "exit"}
  /\ writerStop \in BOOLEAN
  /\ health \in [status : Statuses, connected : BOOLEAN]
  /\ stored \subseteq 1 .. MaxEntries
  /\ acked \subseteq stored
  /\ dropped \subseteq 1 .. MaxEntries

\* The queue is bounded: no interleaving of enqueue and the removal of a written
\* entry leaves more batches queued than write_queue_max_batches.
QueueBounded == BatchCount(queue) <= MaxBatches

\* The queue always holds the newest entries, without a gap and in order: what
\* an overflow or a finished write removes is the oldest entry.
QueueIsNewest ==
  \A i \in DOMAIN queue : queue[i].id = next - 1 - Len(queue) + i

\* Every entry accepted by enqueue is still queued, or InfluxDB confirmed it, or
\* the overflow dropped and counted it.  The case to fear is an overflow during
\* a write: the head then is no longer the entry written.
NoSilentLoss ==
  \A id \in 1 .. (next - 1) : id \in Queued \cup acked \cup dropped

\* An entry InfluxDB confirmed is not written again.
NoRewrite ==
  writerPc = "write" => inHand.id \notin acked

\* Seen from InfluxDB the queue delivers in order, with gaps only where an
\* overflow was counted, whatever writes fail before or after taking effect.
Delivery == INSTANCE OrderedDelivery WITH
  accepted <- next - 1, stored <- stored, abandoned <- dropped
DeliversInOrder == Delivery!Spec

\* Every accepted entry is confirmed or dropped in the end, unless the thread
\* had already returned when it was enqueued.
EntriesSettle ==
  \A id \in 1 .. MaxEntries :
    (id < next) ~> (id \in acked \cup dropped \/ writerPc = "exit")

\* A stopped writer drains its queue and returns.
StopDrains == writerStop ~> writerPc = "exit"
=============================================================================
