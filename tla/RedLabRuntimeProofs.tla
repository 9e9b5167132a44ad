------------------------ MODULE RedLabRuntimeProofs ------------------------
(***************************************************************************)
(* Proofs about RedLabRuntime, for every size of the start-up review and   *)
(* whatever the writer's bounds are.                                       *)
(*                                                                         *)
(* The writer inside the runtime keeps its own invariant (WriterIInv):     *)
(* every step is a step of the writer or changes its health record only.   *)
(* The session adds who may end whom, when the review is over, and what    *)
(* may still be enqueued after stop().                                     *)
(***************************************************************************)
EXTENDS RedLabRuntime, RedLabWriterProofs

\* The two threads start together, the event is set by stop() and nothing else,
\* and only stop() or `finally` ends the writer.
ThreadsTogether ==
  /\ writerPc = "off" <=> runPc = "off"
  /\ runPc = "off" => ~writerStop /\ stopPc = "idle"
  /\ stopEvent <=> stopPc # "idle"
  /\ writerStop => stopPc \in {"writer", "done"} \/ runPc \in {"release", "last", "dead"}
  /\ writerPc = "exit" => writerStop

\* Nothing is enqueued before the review is complete, and only its outcome has
\* several batches.
ReviewFirst ==
  /\ phase = "warmup" => reviewed = 0
  /\ phase = "review" => reviewed < ReviewBatches
  /\ phase # "live" => next = 1 /\ runPc # "enqueue"
  /\ pending > 1 => next = 1

\* An entry enqueued after stop() is the last: the next test of the event ends
\* the loop.
LateIsLast ==
  late > 0 => stopEvent /\ runPc \in {"logged", "loop", "closing", "release", "last", "dead"}

\* What `finally` finds to release is connected; what it does not find is free, or a
\* mishap has hidden it.
DeviceKnown ==
  /\ handle => device = "connected"
  /\ ~handle => device = "free" \/ mishap

SessionTypeOK ==
  /\ runPc \in RunPcs
  /\ stopEvent \in BOOLEAN
  /\ handle \in BOOLEAN
  /\ device \in {"free", "held", "connected"}
  /\ phase \in {"warmup", "review", "live"}
  /\ reviewed \in 0 .. ReviewBatches
  /\ pending \in 0 .. ReviewBatches
  /\ pending > 0 <=> runPc = "enqueue"
  /\ stopPc \in {"idle", "event", "writer", "done"}
  /\ late \in 0 .. 1
  /\ mishap \in BOOLEAN

\* What the session's control satisfies, whatever is queued.
SessionInv ==
  /\ SessionTypeOK
  /\ ThreadsTogether
  /\ ReviewFirst
  /\ LateIsLast
  /\ DeviceKnown
  /\ DeviceReleased

RuntimeIInv ==
  /\ WriterIInv
  /\ SessionInv
  /\ OneReview
  /\ StrandedTail

-----------------------------------------------------------------------------
(* The writer within the runtime.                                          *)

\* The run thread and stop() may set the health record at any time: the
\* writer's invariant does not depend on it.
LEMMA HealthOnly ==
  ASSUME WriterIInv, UNCHANGED writerState,
         health' = health \/ \E status \in Statuses, connected \in BOOLEAN :
                               health' = Health(status, connected)
  PROVE  WriterIInv'
<1> USE DEF WriterIInv, writerState
<1>1. First' = First /\ QueueIsNewest' /\ BelowSettled' /\ DroppedBelow'
  BY QueueKept
<1>2. health' \in [status : Statuses, connected : BOOLEAN]
  BY HealthType DEF WriterTypeOK
<1>3. WriterTypeOK'
  BY <1>2 DEF WriterTypeOK
<1>4. AckedBelow' /\ StoredBelow' /\ HandAtHead' /\ HandAcked'
  BY <1>1 DEF AckedBelow, StoredBelow, HandAtHead, HandAcked
<1>5. QED
  BY <1>1, <1>3, <1>4

\* What enqueue leaves in the queue: the new entry and entries that were there,
\* one more at most.
LEMMA EnqueueElements ==
  ASSUME WriterTypeOK, NEW size \in EntrySizes, Enqueue(size)
  PROVE  /\ Len(queue') <= Len(queue) + 1
         /\ \A i \in DOMAIN queue' :
              \/ queue'[i] = [id |-> next, size |-> size]
              \/ \E j \in DOMAIN queue : queue'[i] = queue[j]
<1> DEFINE new == [id |-> next, size |-> size]
           q == Append(queue, new)
<1>1. new \in Entries /\ queue \in Seq(Entries) /\ Len(queue) \in Nat
  BY MaxEntriesAssumption, LenProperties DEF WriterTypeOK, Enqueue, Entries
<1>2. /\ q \in Seq(Entries)
      /\ Len(q) = Len(queue) + 1
      /\ \A i \in 1 .. Len(queue) : q[i] = queue[i]
      /\ q[Len(queue) + 1] = new
  BY <1>1, AppendProperties
<1> HIDE DEF new, q
<1>3. PICK gone \in 0 .. Len(q) : queue' = WithoutOldest(q, gone)
  BY DEF Enqueue, q, new
<1>4. /\ queue' \in Seq(Entries)
      /\ Len(queue') = Len(q) - gone
      /\ \A i \in 1 .. Len(q) - gone : queue'[i] = q[i + gone]
  BY <1>2, <1>3, WithoutOldestLemma
<1>5. Len(queue') <= Len(queue) + 1
  BY <1>1, <1>2, <1>3, <1>4
<1>6. ASSUME NEW i \in DOMAIN queue'
      PROVE  queue'[i] = new \/ \E j \in DOMAIN queue : queue'[i] = queue[j]
  <2>1. i \in 1 .. Len(q) - gone
    BY <1>4, LenProperties
  <2>2. i + gone \in 1 .. Len(queue) + 1 /\ queue'[i] = q[i + gone]
    BY <2>1, <1>1, <1>2, <1>3, <1>4
  <2>3. DOMAIN queue = 1 .. Len(queue)
    BY <1>1, LenProperties
  <2>4. QED
    BY <2>2, <2>3, <1>1, <1>2
<1>7. QED
  BY <1>5, <1>6 DEF new

-----------------------------------------------------------------------------
(* The session's control.                                                  *)

\* The initial state of the session.
LEMMA SessionInit == RuntimeInit => SessionInv
<1> SUFFICES ASSUME RuntimeInit PROVE SessionInv
  OBVIOUS
<1> USE ReviewBatchesAssumption DEF RuntimeInit, WriterInit
<1>1. SessionTypeOK
  <2>1. /\ stopEvent \in BOOLEAN /\ handle \in BOOLEAN /\ mishap \in BOOLEAN
        /\ device \in {"free", "held", "connected"}
    OBVIOUS
  <2>2. reviewed \in 0 .. ReviewBatches /\ pending \in 0 .. ReviewBatches /\ late \in 0 .. 1
    OBVIOUS
  <2>3. runPc \in RunPcs /\ (pending > 0 <=> runPc = "enqueue")
    BY DEF RunPcs
  <2>4. phase \in {"warmup", "review", "live"} /\ stopPc \in {"idle", "event", "writer", "done"}
    OBVIOUS
  <2>5. QED
    BY <2>1, <2>2, <2>3, <2>4 DEF SessionTypeOK
<1>2. ThreadsTogether /\ ReviewFirst /\ LateIsLast /\ DeviceKnown /\ DeviceReleased
  BY DEF ThreadsTogether, ReviewFirst, LateIsLast, DeviceKnown, DeviceReleased
<1>3. QED
  BY <1>1, <1>2 DEF SessionInv

\* Connecting to the device keeps the session's invariant.
LEMMA ConnectSession ==
  ASSUME SessionInv, StartRuntime \/ ConnectBegins \/ ConnectRaises \/ ConnectOk \/ ConnectReports
  PROVE  SessionInv'
<1> USE ReviewBatchesAssumption
    DEF SessionInv, RunStep, attached, writerState, SessionTypeOK, RunPcs, ThreadsTogether,
        ReviewFirst, LateIsLast, DeviceKnown, DeviceReleased
<1>1. CASE StartRuntime
  BY <1>1 DEF StartRuntime, StartWriter
<1>2. CASE ConnectBegins
  BY <1>2 DEF ConnectBegins
<1>3. CASE ConnectRaises
  BY <1>3 DEF ConnectRaises
<1>4. CASE ConnectOk
  BY <1>4 DEF ConnectOk
<1>5. CASE ConnectReports
  BY <1>5 DEF ConnectReports
<1>6. QED
  BY <1>1, <1>2, <1>3, <1>4, <1>5

\* One round of the loop keeps the session's invariant, up to the entry it may
\* have to enqueue.
LEMMA LoopSession ==
  ASSUME SessionInv,
         \/ WarmupEnds \/ LoopTest \/ NoActiveChannels \/ ReadRaises \/ ReadNothing
         \/ ReadInWarmup \/ ReadForReview \/ ReviewComplete \/ ReadLive
  PROVE  SessionInv'
<1> USE ReviewBatchesAssumption
    DEF SessionInv, RunStep, attached, writerState, writerVars, SessionTypeOK, RunPcs,
        ThreadsTogether, ReviewFirst, LateIsLast, DeviceKnown, DeviceReleased
<1>1. CASE WarmupEnds
  BY <1>1 DEF WarmupEnds
<1>2. CASE LoopTest
  BY <1>2 DEF LoopTest, LoopGoesOn
<1>3. CASE NoActiveChannels
  BY <1>3 DEF NoActiveChannels
<1>4. CASE ReadRaises
  BY <1>4 DEF ReadRaises
<1>5. CASE ReadNothing
  BY <1>5 DEF ReadNothing
<1>6. CASE ReadInWarmup
  BY <1>6 DEF ReadInWarmup
<1>7. CASE ReadForReview
  BY <1>7 DEF ReadForReview
<1>8. CASE ReviewComplete
  BY <1>8 DEF ReviewComplete, PhaseAfterReview
<1>9. CASE ReadLive
  BY <1>9 DEF ReadLive
<1>10. QED
  BY <1>1, <1>2, <1>3, <1>4, <1>5, <1>6, <1>7, <1>8, <1>9

\* Enqueueing keeps the session's invariant: an entry after stop() is the first
\* such entry.
LEMMA LogSession ==
  ASSUME SessionInv, next \in Nat, EnqueueBatches \/ ReportLogged
  PROVE  SessionInv'
<1> USE ReviewBatchesAssumption
    DEF SessionInv, RunStep, attached, writerState, SessionTypeOK, RunPcs, ThreadsTogether,
        ReviewFirst, LateIsLast, DeviceKnown, DeviceReleased
<1>1. CASE EnqueueBatches
  <2>1. /\ runPc = "enqueue" /\ runPc' = "logged" /\ pending' = 0
        /\ next' = next + 1
        /\ late' = IF stopEvent THEN late + 1 ELSE late
        /\ UNCHANGED <<stopEvent, attached, phase, reviewed, stopPc, writerPc, writerStop>>
    BY <1>1 DEF EnqueueBatches, Enqueue
  <2>2. late = 0 /\ phase = "live"
    BY <2>1
  <2>3. QED
    BY <2>1, <2>2
<1>2. CASE ReportLogged
  BY <1>2 DEF ReportLogged
<1>3. QED
  BY <1>1, <1>2

\* So do the ways out of the loop and the steps of stop().
LEMMA EndSession ==
  ASSUME SessionInv, RunFails \/ CloseWriter \/ ReleaseDevice \/ RunEnds \/ StopCall
  PROVE  SessionInv'
<1> USE ReviewBatchesAssumption
    DEF SessionInv, RunStep, StopStep, StopWriter, attached, writerState, writerVars, SessionTypeOK, RunPcs,
        ThreadsTogether, ReviewFirst, LateIsLast, DeviceKnown, DeviceReleased
<1>1. CASE RunFails
  BY <1>1 DEF RunFails
<1>2. CASE CloseWriter
  BY <1>2 DEF CloseWriter
<1>3. CASE ReleaseDevice
  BY <1>3 DEF ReleaseDevice, DeviceReturned, DeviceStuck, Released
<1>4. CASE RunEnds
  BY <1>4 DEF RunEnds
<1>5. CASE StopSetsEvent
  BY <1>5 DEF StopSetsEvent
<1>6. CASE StopStopsWriter
  BY <1>6 DEF StopStopsWriter
<1>7. CASE StopReports
  BY <1>7 DEF StopReports
<1>8. QED
  BY <1>1, <1>2, <1>3, <1>4, <1>5, <1>6, <1>7 DEF StopCall

\* The writer thread leaves the session alone.
LEMMA WriterSession ==
  ASSUME WriterIInv, SessionInv, WriterThread /\ UNCHANGED sessionVars
  PROVE  SessionInv'
<1> USE DEF sessionVars
<1>1. next' = next /\ writerStop' = writerStop
  BY DEF WriterThread, Take, Exit, WriteOk, WriteFails, Settle, ReportRunning, ReportDegraded
<1>2. writerPc # "off" /\ writerPc' # "off" /\ (writerPc' = "exit" => writerStop)
  BY DEF WriterThread, Take, Exit, Drained, WriteOk, WriteFails, Settle, ReportRunning,
         ReportDegraded
<1>3. SessionTypeOK' /\ LateIsLast' /\ DeviceKnown' /\ DeviceReleased'
  BY DEF SessionInv, SessionTypeOK, LateIsLast, DeviceKnown, DeviceReleased
<1>4. ThreadsTogether' /\ ReviewFirst'
  BY <1>1, <1>2 DEF SessionInv, ThreadsTogether, ReviewFirst
<1>5. QED
  BY <1>3, <1>4 DEF SessionInv

-----------------------------------------------------------------------------
(* What is queued.                                                         *)

\* Steps that leave the queue and the writer's place alone leave no entry behind.
LEMMA TailKept ==
  ASSUME RuntimeIInv, SessionInv', UNCHANGED <<queue, writerPc, late>>,
         stopEvent => stopEvent'
  PROVE  OneReview' /\ StrandedTail'
  BY DEF RuntimeIInv, SessionInv, ReviewFirst, OneReview, StrandedTail

\* The outcome of the review is the first entry, later ones are single batches;
\* a writer that has returned is left with the entry in progress at stop() only.
LEMMA EnqueueTail ==
  ASSUME RuntimeIInv, SessionInv', EnqueueBatches
  PROVE  OneReview' /\ StrandedTail'
<1>1. /\ WriterTypeOK /\ next \in Nat /\ Len(queue) \in Nat
      /\ runPc = "enqueue" /\ Enqueue(pending) /\ pending \in EntrySizes
      /\ pending > 1 => next = 1
  BY EntrySizesFitRuntime, FirstInt, LenProperties, ReviewBatchesAssumption
     DEF RuntimeIInv, WriterIInv, WriterTypeOK, SessionInv, SessionTypeOK, ReviewFirst,
         EnqueueBatches
<1>2. /\ Len(queue') <= Len(queue) + 1
      /\ \A i \in DOMAIN queue' :
           \/ queue'[i] = [id |-> next, size |-> pending]
           \/ \E j \in DOMAIN queue : queue'[i] = queue[j]
  BY <1>1, EnqueueElements
<1>3. OneReview'
  BY <1>1, <1>2 DEF RuntimeIInv, SessionInv, ReviewFirst, OneReview
<1>4. ASSUME writerPc' = "exit"
      PROVE  Len(queue') <= late' /\ stopEvent'
  <2>1. writerPc = "exit" /\ UNCHANGED stopEvent
    BY <1>1, <1>4 DEF Enqueue, EnqueueBatches
  <2>2. stopEvent /\ late = 0
    BY <1>1, <2>1 DEF RuntimeIInv, SessionInv, SessionTypeOK, ThreadsTogether, LateIsLast
  <2>3. Len(queue) <= 0 /\ late' = 1
    BY <2>1, <2>2 DEF RuntimeIInv, StrandedTail, EnqueueBatches
  <2>4. Len(queue') <= 1
    BY <1>1, <1>2, <2>3
  <2>5. QED
    BY <2>1, <2>2, <2>3, <2>4
<1>5. late' <= 1
  BY DEF SessionInv, SessionTypeOK
<1>6. QED
  BY <1>3, <1>4, <1>5 DEF StrandedTail

\* The writer returns from an empty queue, and removes entries only before that.
LEMMA WriterTail ==
  ASSUME RuntimeIInv, SessionInv', WriterThread /\ UNCHANGED sessionVars
  PROVE  OneReview' /\ StrandedTail'
<1>1. WriterTypeOK /\ QueueIsNewest /\ UNCHANGED <<late, stopEvent>> /\ late \in 0 .. 1
  BY DEF RuntimeIInv, WriterIInv, SessionInv, SessionTypeOK, sessionVars
<1>2. CASE Settle /\ HeadWritten
  <2>1. queue # <<>> /\ queue' = Tail(queue) /\ writerPc' = "report"
    BY <1>2 DEF Settle, HeadWritten
  <2>2. /\ DOMAIN queue' = 1 .. Len(queue') /\ Len(queue') = Len(queue) - 1
        /\ \A i \in 1 .. Len(queue') : queue'[i] = queue[i + 1]
        /\ DOMAIN queue = 1 .. Len(queue) /\ Len(queue) \in Nat
    BY <1>1, <2>1, HeadTailProperties, LenProperties DEF WriterTypeOK
  <2>3. OneReview'
    <3> SUFFICES ASSUME NEW i \in DOMAIN queue', queue'[i].size > 1 PROVE queue'[i].id = 1
      BY DEF SessionInv, ReviewFirst, OneReview
    <3>1. i + 1 \in DOMAIN queue /\ queue'[i] = queue[i + 1]
      BY <2>2
    <3>2. QED
      BY <3>1 DEF RuntimeIInv, OneReview
  <2>4. QED
    BY <1>1, <2>1, <2>3 DEF StrandedTail
<1>3. CASE Exit
  <2>1. queue = <<>> /\ queue' = queue
    BY <1>3 DEF Exit, Drained
  <2>2. QED
    BY <1>1, <2>1 DEF RuntimeIInv, SessionInv, ReviewFirst, OneReview, StrandedTail
<1>4. CASE \/ Take \/ WriteOk \/ WriteFails \/ ReportRunning \/ ReportDegraded
           \/ Settle /\ ~HeadWritten
  <2>1. queue' = queue /\ writerPc' # "exit"
    BY <1>4 DEF Take, WriteOk, WriteFails, ReportRunning, ReportDegraded, Settle
  <2>2. QED
    BY <1>1, <2>1 DEF RuntimeIInv, SessionInv, ReviewFirst, OneReview, StrandedTail
<1>5. QED
  BY <1>2, <1>3, <1>4 DEF WriterThread

-----------------------------------------------------------------------------
(* The invariant is inductive.                                             *)

\* The runtime starts in a state that satisfies the invariant.
LEMMA RuntimeInitIInv == RuntimeInit => RuntimeIInv
<1> SUFFICES ASSUME RuntimeInit PROVE RuntimeIInv
  OBVIOUS
<1>1. WriterIInv /\ SessionInv
  BY WriterInitIInv, SessionInit DEF RuntimeInit
<1>2. queue = <<>> /\ writerPc = "off" /\ late = 0
  BY DEF RuntimeInit, WriterInit
<1>3. OneReview /\ StrandedTail
  BY <1>1, <1>2 DEF SessionInv, ReviewFirst, OneReview, StrandedTail
<1>4. QED
  BY <1>1, <1>3 DEF RuntimeIInv

\* The steps that do not use the writer.
QuietStep ==
  \/ ConnectBegins \/ ConnectRaises \/ ConnectOk \/ ConnectReports
  \/ LoopTest \/ NoActiveChannels \/ ReadRaises \/ ReadNothing
  \/ ReadInWarmup \/ ReadForReview \/ ReviewComplete \/ ReadLive
  \/ ReportLogged \/ RunFails \/ ReleaseDevice \/ RunEnds
  \/ WarmupEnds \/ StopSetsEvent \/ StopReports

\* A step that does not use the writer changes at most the health record of the writer's variables.
LEMMA QuietSteps ==
  ASSUME QuietStep
  PROVE  /\ UNCHANGED <<writerState, late>>
         /\ stopEvent => stopEvent'
         /\ health' = health \/ \E status \in Statuses, connected \in BOOLEAN :
                                  health' = Health(status, connected)
<1> USE DEF QuietStep, ConnectBegins, ConnectRaises, ConnectOk, ConnectReports, LoopTest,
            NoActiveChannels, ReadRaises, ReadNothing, ReadInWarmup, ReadForReview,
            ReviewComplete, ReadLive, ReportLogged, RunFails, ReleaseDevice, RunEnds,
            WarmupEnds, StopSetsEvent, StopReports, RunStep, StopStep, writerVars
<1>1. UNCHANGED <<writerState, late>>
  BY DEF writerState
<1>2. stopEvent => stopEvent'
  OBVIOUS
<1>3. \/ health' = health
      \/ health' = Health("starting", FALSE) \/ health' = Health("starting", TRUE)
      \/ health' = Health("running", TRUE)
      \/ health' = Health("error", FALSE) \/ health' = Health("offline", FALSE)
  OBVIOUS
<1>4. {"starting", "running", "error", "offline"} \subseteq Statuses
  BY DEF Statuses
<1>5. QED
  BY <1>1, <1>2, <1>3, <1>4

\* Every step of the runtime keeps the invariant.
LEMMA RuntimeStepIInv == RuntimeIInv /\ [RuntimeNext]_runtimeVars => RuntimeIInv'
<1> SUFFICES ASSUME RuntimeIInv, [RuntimeNext]_runtimeVars PROVE RuntimeIInv'
  OBVIOUS
<1>1. CASE QuietStep
  <2>1. WriterIInv'
    BY <1>1, QuietSteps, HealthOnly DEF RuntimeIInv
  <2>2. SessionInv'
    <3>1. next \in Nat
      BY FirstInt DEF RuntimeIInv, WriterIInv
    <3>2. QED
      BY <1>1, <3>1, ConnectSession, LoopSession, LogSession, EndSession
         DEF RuntimeIInv, QuietStep, StopCall
  <2>3. UNCHANGED <<queue, writerPc, late>> /\ (stopEvent => stopEvent')
    BY <1>1, QuietSteps DEF writerState
  <2>4. QED
    BY <2>1, <2>2, <2>3, TailKept DEF RuntimeIInv
<1>2. CASE EnqueueBatches
  <2>1. pending \in EntrySizes /\ Enqueue(pending) /\ next \in Nat
    BY <1>2, EntrySizesFitRuntime, FirstInt, ReviewBatchesAssumption
       DEF RuntimeIInv, WriterIInv, SessionInv, SessionTypeOK, EnqueueBatches
  <2>2. WriterIInv'
    BY <2>1, EnqueueIInv DEF RuntimeIInv
  <2>3. SessionInv'
    BY <1>2, <2>1, LogSession DEF RuntimeIInv
  <2>4. QED
    BY <1>2, <2>2, <2>3, EnqueueTail DEF RuntimeIInv
<1>3. CASE StartRuntime
  <2>1. /\ StartWriter
        /\ UNCHANGED <<queue, late, stopEvent>>
        /\ writerPc' = "wait"
    BY <1>3 DEF StartRuntime, StartWriter
  <2>2. WriterIInv' /\ SessionInv'
    BY <1>3, <2>1, ControlIInv, ConnectSession DEF RuntimeIInv
  <2>3. QED
    BY <2>1, <2>2 DEF RuntimeIInv, SessionInv, ReviewFirst, OneReview, StrandedTail
<1>4. CASE CloseWriter \/ StopStopsWriter
  <2>1. /\ StopWriter
        /\ UNCHANGED <<queue, writerPc, late, stopEvent>>
    BY <1>4 DEF CloseWriter, StopStopsWriter, StopStep, StopWriter
  <2>2. WriterIInv' /\ SessionInv'
    BY <1>4, <2>1, ControlIInv, EndSession DEF RuntimeIInv, StopCall
  <2>3. QED
    BY <2>1, <2>2, TailKept DEF RuntimeIInv
<1>5. CASE WriterThread /\ UNCHANGED sessionVars
  <2>1. WriterIInv'
    BY <1>5, WriterStepIInv DEF RuntimeIInv, WriterNext
  <2>2. SessionInv'
    BY <1>5, WriterSession DEF RuntimeIInv
  <2>3. QED
    BY <1>5, <2>1, <2>2, WriterTail DEF RuntimeIInv
<1>6. CASE UNCHANGED runtimeVars
  <2>1. UNCHANGED writerVars /\ UNCHANGED sessionVars
    BY <1>6 DEF runtimeVars
  <2>2. WriterIInv'
    BY <2>1, ControlIInv DEF RuntimeIInv
  <2>3. SessionInv'
    BY <2>1 DEF RuntimeIInv, SessionInv, SessionTypeOK, ThreadsTogether, ReviewFirst,
                LateIsLast, DeviceKnown, DeviceReleased, writerVars, sessionVars
  <2>4. QED
    BY <2>1, <2>2, <2>3, TailKept DEF RuntimeIInv, writerVars, sessionVars
<1>7. QED
  BY <1>1, <1>2, <1>3, <1>4, <1>5, <1>6 DEF RuntimeNext, RunThread, StopCall, QuietStep

\* The strengthened invariant holds in every state of the runtime.
LEMMA RuntimeInvariant == RuntimeSpec => []RuntimeIInv
  BY RuntimeInitIInv, RuntimeStepIInv, PTL DEF RuntimeSpec

-----------------------------------------------------------------------------
(* The runtime implements RuntimeLife.                                     *)

\* Two lives that agree on a field set differ by an update of the other fields.
LEMMA LifeChange ==
  ASSUME NEW l \in Life!Lives, NEW m \in Life!Lives
  PROVE  /\ m.thread = l.thread /\ m.writer = l.writer /\ m.stop = l.stop
              => m = [l EXCEPT !.status = m.status]
         /\ m.writer = l.writer /\ m.stop = l.stop
              => m = [l EXCEPT !.thread = m.thread, !.status = m.status]
         /\ m.writer = l.writer /\ m.stop = l.stop /\ m.status = l.status
              => m = [l EXCEPT !.thread = m.thread]
         /\ m.thread = l.thread /\ m.stop = l.stop /\ m.status = l.status
              => m = [l EXCEPT !.writer = m.writer]
         /\ m.thread = l.thread /\ m.writer = l.writer /\ m.status = l.status
              => m = [l EXCEPT !.stop = m.stop]
<1>1. ASSUME NEW n \in Life!Lives, m.thread = n.thread, m.writer = n.writer,
             m.stop = n.stop, m.status = n.status
      PROVE  m = n
  BY <1>1 DEF Life!Lives
<1>2. /\ [l EXCEPT !.status = m.status] \in Life!Lives
      /\ [l EXCEPT !.thread = m.thread, !.status = m.status] \in Life!Lives
      /\ [l EXCEPT !.thread = m.thread] \in Life!Lives
      /\ [l EXCEPT !.writer = m.writer] \in Life!Lives
      /\ [l EXCEPT !.stop = m.stop] \in Life!Lives
  BY DEF Life!Lives
<1>3. m.thread = l.thread /\ m.writer = l.writer /\ m.stop = l.stop
        => m = [l EXCEPT !.status = m.status]
  BY <1>1, <1>2 DEF Life!Lives
<1>4. m.writer = l.writer /\ m.stop = l.stop
        => m = [l EXCEPT !.thread = m.thread, !.status = m.status]
  BY <1>1, <1>2 DEF Life!Lives
<1>5. m.writer = l.writer /\ m.stop = l.stop /\ m.status = l.status
        => m = [l EXCEPT !.thread = m.thread]
  BY <1>1, <1>2 DEF Life!Lives
<1>6. m.thread = l.thread /\ m.stop = l.stop /\ m.status = l.status
        => m = [l EXCEPT !.writer = m.writer]
  BY <1>1, <1>2 DEF Life!Lives
<1>7. m.thread = l.thread /\ m.writer = l.writer /\ m.status = l.status
        => m = [l EXCEPT !.stop = m.stop]
  BY <1>1, <1>2 DEF Life!Lives
<1>8. QED
  BY <1>3, <1>4, <1>5, <1>6, <1>7

\* What the fields of the view say.
Seen ==
  /\ View \in Life!Lives
  /\ View.thread = IF runPc = "dead" THEN "dead"
                   ELSE IF runPc \in {"closing", "release", "last"} THEN "ending"
                   ELSE "alive"
  /\ View.writer = (writerPc # "exit")
  /\ View.stop = stopEvent
  /\ View.status = IF health.status \in {"starting", "running", "degraded"}
                   THEN "active" ELSE health.status

\* The view of a runtime is a life with these fields.
LEMMA ViewFields == RuntimeIInv => Seen
<1> SUFFICES ASSUME RuntimeIInv PROVE Seen
  OBVIOUS
<1>1. stopEvent \in BOOLEAN /\ health.status \in Statuses
  BY DEF RuntimeIInv, SessionInv, SessionTypeOK, WriterIInv, WriterTypeOK
<1>2. View \in Life!Lives
  BY <1>1 DEF View, Life!Lives, Life!LifeStatuses, Statuses
<1>3. QED
  BY <1>2 DEF View, Seen

\* The writer's thread is seen by its reports and by its end, which only stop()
\* or the end of the run thread allows.
LEMMA WriterLife ==
  ASSUME RuntimeIInv, RuntimeIInv', WriterThread /\ UNCHANGED sessionVars
  PROVE  [Life!LifeStep(View, View')]_View
<1>1. View \in Life!Lives /\ View' \in Life!Lives /\ Seen /\ Seen'
  <2>1. Seen /\ Seen'
    BY ViewFields, PTL
  <2>2. QED
    BY <2>1 DEF Seen
<1>2. /\ View'.thread = View.thread
      /\ View'.stop = View.stop
      /\ UNCHANGED <<runPc, stopEvent>>
  BY <1>1 DEF sessionVars, Seen
<1>3. CASE Take \/ WriteOk \/ WriteFails \/ Settle
  <2>1. writerPc # "exit" /\ writerPc' # "exit" /\ health' = health
    BY <1>3 DEF Take, WriteOk, WriteFails, Settle
  <2>2. QED
    BY <1>2, <2>1 DEF View
<1>4. CASE ReportRunning \/ ReportDegraded
  <2>1. /\ writerPc # "exit" /\ writerPc' # "exit"
        /\ health'.status \in {"running", "degraded"}
    BY <1>4 DEF ReportRunning, ReportDegraded, Health
  <2>2. View.writer = TRUE /\ View'.writer = View.writer /\ View'.status = "active"
    BY <1>1, <2>1 DEF Seen
  <2>3. Life!WriterReports(View, View')
    BY <1>1, <1>2, <2>2, LifeChange DEF Life!WriterReports
  <2>4. QED
    BY <2>3 DEF Life!LifeStep, Life!OwnStep
<1>5. CASE Exit
  <2>1. writerPc # "exit" /\ writerPc' = "exit" /\ writerStop /\ health' = health
    BY <1>5 DEF Exit, Drained
  <2>2. stopEvent \/ runPc \in {"release", "last", "dead"}
    BY <2>1 DEF RuntimeIInv, SessionInv, ThreadsTogether
  <2>3. View.writer = TRUE /\ View'.writer = FALSE /\ View'.status = View.status
    BY <1>1, <2>1 DEF Seen
  <2>4. View.stop \/ View.thread # "alive"
    BY <1>1, <2>2 DEF Seen
  <2>5. Life!WriterExits(View, View')
    BY <1>1, <1>2, <2>3, <2>4, LifeChange DEF Life!WriterExits
  <2>6. QED
    BY <2>5 DEF Life!LifeStep, Life!OwnStep
<1>6. QED
  BY <1>3, <1>4, <1>5 DEF WriterThread

\* The run thread is seen by its reports and by the ways it ends.
LEMMA RunLife ==
  ASSUME RuntimeIInv, RuntimeIInv', StartRuntime \/ RunThread \/ WarmupEnds
  PROVE  [Life!LifeStep(View, View')]_View
<1> USE DEF RunStep, writerState
<1>1. View \in Life!Lives /\ View' \in Life!Lives /\ Seen /\ Seen'
  <2>1. Seen /\ Seen'
    BY ViewFields, PTL
  <2>2. QED
    BY <2>1 DEF Seen
<1>2. CASE \/ ConnectBegins \/ ConnectReports \/ NoActiveChannels \/ ReadInWarmup
           \/ ReadForReview \/ ReportLogged
  <2>1. /\ runPc \in {"connect", "opened", "read", "logged"}
        /\ runPc' \in {"open", "loop"}
        /\ UNCHANGED <<writerPc, stopEvent>>
        /\ health'.status \in {"starting", "running"}
    BY <1>2 DEF ConnectBegins, ConnectReports, NoActiveChannels, ReadInWarmup,
                ReadForReview, ReportLogged, Health
  <2>2. /\ View.thread = "alive" /\ View'.thread = View.thread
        /\ View'.writer = View.writer /\ View'.stop = View.stop
        /\ View'.status = "active"
    BY <1>1, <2>1 DEF Seen
  <2>3. Life!RunReports(View, View')
    BY <1>1, <2>2, LifeChange DEF Life!RunReports
  <2>4. QED
    BY <2>3 DEF Life!LifeStep, Life!OwnStep
<1>3. CASE \/ StartRuntime \/ ConnectRaises \/ ConnectOk \/ WarmupEnds \/ ReadRaises
           \/ ReadNothing \/ ReviewComplete \/ ReadLive \/ EnqueueBatches
  <2>1. /\ runPc \in {"off", "open", "loop", "read", "enqueue"}
        /\ runPc' \in {"connect", "failed", "opened", "loop", "enqueue", "logged"}
        /\ UNCHANGED <<stopEvent, health>>
        /\ writerPc = "exit" <=> writerPc' = "exit"
    BY <1>3 DEF StartRuntime, StartWriter, ConnectRaises, ConnectOk, WarmupEnds, ReadRaises,
                ReadNothing, ReviewComplete, ReadLive, EnqueueBatches, Enqueue, writerVars
  <2>2. QED
    BY <2>1 DEF View
<1>4. CASE LoopTest
  <2>1. /\ runPc = "loop" /\ runPc' = IF ~stopEvent THEN "read" ELSE "closing"
        /\ UNCHANGED <<writerPc, stopEvent, health>>
    BY <1>4 DEF LoopTest, LoopGoesOn
  <2>2. CASE stopEvent
    <3>1. /\ View.thread = "alive" /\ View.stop /\ View'.thread = "ending"
          /\ View'.writer = View.writer /\ View'.stop = View.stop
          /\ View'.status = View.status
      BY <1>1, <2>1, <2>2 DEF Seen
    <3>2. Life!RunStops(View, View')
      BY <1>1, <3>1, LifeChange DEF Life!RunStops
    <3>3. QED
      BY <3>2 DEF Life!LifeStep, Life!OwnStep
  <2>3. CASE ~stopEvent
    BY <2>1, <2>3 DEF View
  <2>4. QED
    BY <2>2, <2>3
<1>5. CASE RunFails
  <2>1. /\ runPc = "failed" /\ runPc' = "closing" /\ health'.status = "error"
        /\ UNCHANGED <<writerPc, stopEvent>>
    BY <1>5 DEF RunFails, Health
  <2>2. /\ View.thread = "alive" /\ View'.thread = "ending"
        /\ View'.writer = View.writer /\ View'.stop = View.stop
        /\ View'.status = "error"
    BY <1>1, <2>1 DEF Seen
  <2>3. Life!RunFails(View, View')
    BY <1>1, <2>2, LifeChange DEF Life!RunFails
  <2>4. QED
    BY <2>3 DEF Life!LifeStep, Life!OwnStep
<1>6. CASE CloseWriter \/ ReleaseDevice
  <2>1. /\ runPc \in {"closing", "release"} /\ runPc' \in {"release", "last"}
        /\ UNCHANGED <<writerPc, stopEvent, health>>
    BY <1>6 DEF CloseWriter, StopWriter, ReleaseDevice
  <2>2. QED
    BY <2>1 DEF View
<1>7. CASE RunEnds
  <2>1. /\ runPc = "last" /\ runPc' = "dead"
        /\ health' = IF stopEvent THEN Health("offline", FALSE) ELSE health
        /\ UNCHANGED <<writerPc, stopEvent>>
    BY <1>7 DEF RunEnds, AskedToStop
  <2>2. /\ View.thread = "ending" /\ View'.thread = "dead"
        /\ View'.writer = View.writer /\ View'.stop = View.stop
        /\ View'.status = IF View.stop THEN "offline" ELSE View.status
    BY <1>1, <2>1 DEF Seen, Health
  <2>3. View' = [View EXCEPT !.thread = View'.thread, !.status = View'.status]
    BY <1>1, <2>2, LifeChange
  <2>4. Life!RunDies(View, View')
    BY <1>1, <2>2, <2>3 DEF Life!RunDies, Life!Lives
  <2>5. QED
    BY <2>4 DEF Life!LifeStep, Life!OwnStep
<1>8. QED
  BY <1>2, <1>3, <1>4, <1>5, <1>6, <1>7 DEF RunThread

\* stop() is seen by the event and, at its end, by the health record.
LEMMA StopLife ==
  ASSUME RuntimeIInv, RuntimeIInv', StopCall
  PROVE  [Life!LifeStep(View, View')]_View
<1> USE DEF StopStep, writerState, writerVars
<1>1. View \in Life!Lives /\ View' \in Life!Lives /\ Seen /\ Seen'
  <2>1. Seen /\ Seen'
    BY ViewFields, PTL
  <2>2. QED
    BY <2>1 DEF Seen
<1>2. CASE StopSetsEvent
  <2>1. /\ stopEvent' = TRUE /\ UNCHANGED <<runPc, writerPc, health>> /\ ~stopEvent
    BY <1>2 DEF StopSetsEvent, RuntimeIInv, SessionInv, ThreadsTogether
  <2>2. /\ ~View.stop /\ View'.stop = TRUE /\ View'.thread = View.thread
        /\ View'.writer = View.writer /\ View'.status = View.status
    BY <1>1, <2>1 DEF Seen
  <2>3. Life!StopRequested(View, View')
    BY <1>1, <2>2, LifeChange DEF Life!StopRequested
  <2>4. QED
    BY <2>3 DEF Life!LifeStep
<1>3. CASE StopStopsWriter
  BY <1>3 DEF StopStopsWriter, StopWriter, View
<1>4. CASE StopReports
  <2>1. /\ health'.status = "offline" /\ UNCHANGED <<runPc, writerPc, stopEvent>> /\ stopEvent
    BY <1>4 DEF StopReports, Health, RuntimeIInv, SessionInv, ThreadsTogether
  <2>2. /\ View.stop /\ View'.stop = View.stop /\ View'.thread = View.thread
        /\ View'.writer = View.writer /\ View'.status = "offline"
    BY <1>1, <2>1 DEF Seen
  <2>3. Life!StopReports(View, View')
    BY <1>1, <2>2, LifeChange DEF Life!StopReports
  <2>4. QED
    BY <2>3 DEF Life!LifeStep
<1>5. QED
  BY <1>2, <1>3, <1>4 DEF StopCall

\* Every step of the runtime is one RuntimeLife allows, or one it does not see.
LEMMA LifeOfStep ==
  RuntimeIInv /\ [RuntimeNext]_runtimeVars => [Life!LifeStep(View, View')]_View
<1> SUFFICES ASSUME RuntimeIInv, [RuntimeNext]_runtimeVars
             PROVE  [Life!LifeStep(View, View')]_View
  OBVIOUS
<1>1. RuntimeIInv'
  BY RuntimeStepIInv
<1>2. ASSUME UNCHANGED runtimeVars PROVE UNCHANGED View
  BY <1>2 DEF runtimeVars, sessionVars, writerVars, View
<1>3. QED
  BY <1>1, <1>2, WriterLife, RunLife, StopLife DEF RuntimeNext

\* What the runtime does with its writer is what a writer may do: a step is a step
\* of OrderedDelivery or changes nothing there.
LEMMA DeliveryOfStep ==
  RuntimeIInv /\ [RuntimeNext]_runtimeVars => [Delivery!Next]_Delivery!vars
<1> SUFFICES ASSUME RuntimeIInv, [RuntimeNext]_runtimeVars
             PROVE  [Delivery!Next]_Delivery!vars
  OBVIOUS
<1>1. CASE [WriterNext]_writerVars
  BY <1>1, DeliveryStep DEF RuntimeIInv
<1>2. CASE QuietStep
  <2>1. UNCHANGED writerState
    BY <1>2, QuietSteps
  <2>2. QED
    BY <2>1 DEF writerState, Delivery!vars
<1>3. CASE EnqueueBatches
  <2>1. pending \in EntrySizes /\ Enqueue(pending)
    BY <1>3, EntrySizesFitRuntime, ReviewBatchesAssumption
       DEF RuntimeIInv, SessionInv, SessionTypeOK, EnqueueBatches
  <2>2. Delivery!Accept
    BY <2>1, DeliveryAccept DEF RuntimeIInv
  <2>3. QED
    BY <2>2 DEF Delivery!Next
<1>4. CASE CloseWriter \/ StopStopsWriter
  BY <1>4 DEF CloseWriter, StopStopsWriter, StopWriter, Delivery!vars
<1>5. CASE StartRuntime \/ (WriterThread /\ UNCHANGED sessionVars) \/ UNCHANGED runtimeVars
  BY <1>1, <1>5 DEF StartRuntime, WriterNext, runtimeVars
<1>6. QED
  BY <1>2, <1>3, <1>4, <1>5 DEF RuntimeNext, RunThread, StopCall, QuietStep

-----------------------------------------------------------------------------
(* The results.                                                            *)

\* The variables of a session keep their types: several batches are pending only
\* on the way to enqueue, and the review never counts beyond its size.
THEOREM RuntimeTypeCorrect == RuntimeSpec => []RuntimeTypeOK
<1>1. RuntimeIInv => RuntimeTypeOK
  BY DEF RuntimeIInv, WriterIInv, SessionInv, SessionTypeOK, RuntimeTypeOK
<1>2. QED
  BY <1>1, RuntimeInvariant, PTL

\* The device is connected whenever the run thread reads it, and free when the thread
\* is over, unless the device library raised with the device in its hands.
THEOREM RuntimeReleasesDevice == RuntimeSpec => []DeviceReleased
<1>1. RuntimeIInv => DeviceReleased
  BY DEF RuntimeIInv, SessionInv
<1>2. QED
  BY <1>1, RuntimeInvariant, PTL

\* Nothing is enqueued before the review of the start-up readings, and only the first
\* entry has several batches.
THEOREM RuntimeReviewsOnce == RuntimeSpec => []OneReview
<1>1. RuntimeIInv => OneReview
  BY DEF RuntimeIInv
<1>2. QED
  BY <1>1, RuntimeInvariant, PTL

\* A writer that has returned leaves behind at most the one entry that was in
\* progress when stop() was called.
THEOREM RuntimeStrandsOneEntry == RuntimeSpec => []StrandedTail
<1>1. RuntimeIInv => StrandedTail
  BY DEF RuntimeIInv
<1>2. QED
  BY <1>1, RuntimeInvariant, PTL

\* The registry's model of a runtime is right: the runtime changes what the
\* registry sees only as RuntimeLife says.
THEOREM RuntimeLivesAsDescribed == RuntimeSpec => LivesAsDescribed
<1>1. RuntimeSpec => [][Life!LifeStep(View, View')]_View
  BY LifeOfStep, RuntimeInvariant, PTL DEF RuntimeSpec
<1>2. QED
  BY <1>1 DEF LivesAsDescribed

\* Within the runtime, too, InfluxDB receives the entries in the order of their
\* acceptance: neither the run thread's nor stop()'s interference with the
\* writer breaks it.
THEOREM RuntimeDeliversInOrder == RuntimeSpec => DeliversInOrder
<1>1. RuntimeInit => Delivery!Init
  BY DeliveryInit DEF RuntimeInit
<1>2. RuntimeSpec => Delivery!Spec
  BY <1>1, DeliveryOfStep, RuntimeInvariant, PTL DEF RuntimeSpec, Delivery!Spec
<1>3. QED
  BY <1>2 DEF DeliversInOrder
=============================================================================
