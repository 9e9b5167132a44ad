--------------------------- MODULE RedLabRuntime ---------------------------
(***************************************************************************)
(* One USB-TC acquisition session (app/redlab/redlab_runtime.py): the run  *)
(* thread that reads the device, the writer thread of RedLabWriter, and    *)
(* the registry's call of stop().  All three set the same health record,   *)
(* the run thread and stop() also the writer's stop event.                 *)
(*                                                                         *)
(* Temperatures are left out: what a read returns is nothing, something,   *)
(* or an exception.  The end of the warm-up (a deadline) may come at any   *)
(* time.  The pause between two reads adds no state: the thread is then    *)
(* at "loop".  MaxEntries bounds the readings that lead to an entry.        *)
(***************************************************************************)
EXTENDS RedLabWriter

CONSTANT ReviewBatches   \* BOOTSTRAP_BATCHES

ASSUME ReviewBatchesAssumption == ReviewBatches \in Nat \ {0}
ASSUME EntrySizesFitRuntime == EntrySizes = 1 .. ReviewBatches

VARIABLES
  runPc,      \* where the run thread is
  stopEvent,  \* stop_event
  handle,     \* daq_device, ai_device and ai_config are set
  device,     \* the device itself: free, held by a DaqDevice object, or connected
  phase,      \* warm-up, bootstrap review, or normal logging
  reviewed,   \* len(bootstrap_batches)
  pending,    \* how many batches the run thread is about to enqueue
  stopPc,     \* how far a call of stop() got
  late,       \* history: entries enqueued after stop_event was set
  mishap      \* history: the device library raised with the device in its hands

sessionVars ==
  <<runPc, stopEvent, handle, device, phase, reviewed, pending, stopPc, late, mishap>>
runtimeVars == <<writerVars, sessionVars>>

RunPcs == {"off", "connect", "open", "opened", "loop", "read", "enqueue", "logged",
           "failed", "closing", "release", "last", "dead"}

\* What the runtime has of the device.
attached == <<handle, device, mishap>>

\* The writer's variables other than the health record.
writerState == <<queue, next, writerPc, inHand, writerStop, stored, acked, dropped>>

RuntimeInit ==
  /\ WriterInit
  /\ runPc = "off"
  /\ stopEvent = FALSE
  /\ handle = FALSE
  /\ device = "free"
  /\ phase = "warmup"
  /\ reviewed = 0
  /\ pending = 0
  /\ stopPc = "idle"
  /\ late = 0
  /\ mishap = FALSE

\* A step of the run thread that leaves the writer, the stop event and the
\* registry's call alone.
RunStep(from, to) ==
  /\ runPc = from
  /\ runPc' = to
  /\ UNCHANGED <<writerState, stopEvent, stopPc, late>>

\* start(): the writer thread first, then the run thread.
StartRuntime ==
  /\ runPc = "off"
  /\ StartWriter
  /\ runPc' = "connect"
  /\ UNCHANGED <<stopEvent, attached, phase, reviewed, pending, stopPc, late>>

-----------------------------------------------------------------------------
(* connect()                                                               *)

ConnectBegins ==
  /\ RunStep("connect", "open")
  /\ health' = Health("starting", FALSE)
  /\ UNCHANGED <<attached, phase, reviewed, pending>>

\* An exception before the device is kept: what DaqDevice() and dev.connect() have
\* done by then stays done.
ConnectRaises ==
  /\ RunStep("open", "failed")
  /\ device' \in {"free", "held", "connected"}
  /\ mishap' = (device' # "free")
  /\ UNCHANGED <<health, handle, phase, reviewed, pending>>

\* The device is attached under the lock, the health follows.
ConnectOk ==
  /\ RunStep("open", "opened")
  /\ handle' = TRUE
  /\ device' = "connected"
  /\ UNCHANGED <<health, mishap, phase, reviewed, pending>>

ConnectReports ==
  /\ RunStep("opened", "loop")
  /\ health' = Health("running", TRUE)
  /\ UNCHANGED <<attached, phase, reviewed, pending>>

-----------------------------------------------------------------------------
(* The loop of run()                                                       *)

WarmupEnds ==
  /\ phase = "warmup"
  /\ runPc = "loop"
  /\ phase' = "review"
  /\ UNCHANGED <<writerVars, runPc, stopEvent, attached, reviewed, pending, stopPc, late>>

\* Mutant: the loop goes on until the device fails.
KeepReading == TRUE

\* while not self.stop_event.is_set()
LoopGoesOn == ~stopEvent

LoopTest ==
  /\ RunStep("loop", IF LoopGoesOn THEN "read" ELSE "closing")
  /\ UNCHANGED <<health, attached, phase, reviewed, pending>>

\* No channel is selected: nothing is read.
NoActiveChannels ==
  /\ RunStep("read", "loop")
  /\ health' = Health("running", TRUE)
  /\ UNCHANGED <<attached, phase, reviewed, pending>>

\* read_batch raised, or the device is not attached.
ReadRaises ==
  /\ RunStep("read", "failed")
  /\ UNCHANGED <<health, attached, phase, reviewed, pending>>

ReadNothing ==
  /\ handle
  /\ RunStep("read", "loop")
  /\ UNCHANGED <<health, attached, phase, reviewed, pending>>

\* During the warm-up a reading only shows in the health record.
ReadInWarmup ==
  /\ handle
  /\ phase = "warmup"
  /\ RunStep("read", "loop")
  /\ health' = Health("starting", TRUE)
  /\ UNCHANGED <<attached, phase, reviewed, pending>>

\* The first readings after the warm-up are collected.
ReadForReview ==
  /\ handle
  /\ phase = "review"
  /\ reviewed + 1 < ReviewBatches
  /\ RunStep("read", "loop")
  /\ reviewed' = reviewed + 1
  /\ health' = Health("starting", TRUE)
  /\ UNCHANGED <<attached, phase, pending>>

\* Mutant: bootstrap_done is not set, every later reading is reviewed again.
ReviewAgain == "review"

PhaseAfterReview == "live"

\* The last of them: what filter_bootstrap_batches keeps is enqueued as one
\* entry; write_runtime_points returns at once when it keeps nothing.
ReviewComplete ==
  /\ handle
  /\ phase = "review"
  /\ reviewed + 1 >= ReviewBatches
  /\ next <= MaxEntries
  /\ \E kept \in 0 .. ReviewBatches :
       /\ pending' = kept
       /\ RunStep("read", IF kept = 0 THEN "loop" ELSE "enqueue")
  /\ reviewed' = reviewed + 1
  /\ phase' = PhaseAfterReview
  /\ UNCHANGED <<health, attached>>

ReadLive ==
  /\ handle
  /\ phase = "live"
  /\ next <= MaxEntries
  /\ RunStep("read", "enqueue")
  /\ pending' = 1
  /\ UNCHANGED <<health, attached, phase, reviewed>>

\* write_runtime_points: enqueue, then set the health.
EnqueueBatches ==
  /\ runPc = "enqueue"
  /\ Enqueue(pending)
  /\ runPc' = "logged"
  /\ pending' = 0
  /\ late' = IF stopEvent THEN late + 1 ELSE late
  /\ UNCHANGED <<stopEvent, attached, phase, reviewed, stopPc>>

ReportLogged ==
  /\ RunStep("logged", "loop")
  /\ health' = Health("running", TRUE)
  /\ UNCHANGED <<attached, phase, reviewed, pending>>

-----------------------------------------------------------------------------
(* except and finally                                                      *)

RunFails ==
  /\ RunStep("failed", "closing")
  /\ health' = Health("error", FALSE)
  /\ UNCHANGED <<attached, phase, reviewed, pending>>

\* Mutant: only stop() ends the writer.
CloseForgetsWriter ==
  /\ RunStep("closing", "release")
  /\ UNCHANGED <<health, attached, phase, reviewed, pending>>

CloseWriter ==
  /\ runPc = "closing"
  /\ StopWriter
  /\ runPc' = "release"
  /\ UNCHANGED <<stopEvent, attached, phase, reviewed, pending, stopPc, late>>

\* Mutant: the device is released only after an orderly stop.
AfterOrderlyStop == IF stopEvent THEN "free" ELSE device

Released == "free"

\* disconnect() and release() of the device that was kept.
DeviceReturned ==
  /\ device' = Released
  /\ UNCHANGED mishap

\* disconnect() raises and release() is skipped, or release() raises; the exception is
\* swallowed.
DeviceStuck ==
  /\ device' \in {"connected", "held"}
  /\ mishap' = TRUE

ReleaseDevice ==
  /\ RunStep("release", "last")
  /\ handle' = FALSE
  /\ \/ handle /\ (DeviceReturned \/ DeviceStuck)
     \/ ~handle /\ UNCHANGED <<device, mishap>>
  /\ UNCHANGED <<health, phase, reviewed, pending>>

\* Mutant: the thread always says it is offline in the end.
InAnyCase == TRUE

AskedToStop == stopEvent

RunEnds ==
  /\ RunStep("last", "dead")
  /\ health' = IF AskedToStop THEN Health("offline", FALSE) ELSE health
  /\ UNCHANGED <<attached, phase, reviewed, pending>>

RunThread ==
  \/ ConnectBegins \/ ConnectRaises \/ ConnectOk \/ ConnectReports
  \/ LoopTest \/ NoActiveChannels \/ ReadRaises \/ ReadNothing
  \/ ReadInWarmup \/ ReadForReview \/ ReviewComplete \/ ReadLive
  \/ EnqueueBatches \/ ReportLogged
  \/ RunFails \/ CloseWriter \/ ReleaseDevice \/ RunEnds

-----------------------------------------------------------------------------
(* stop(), called once by the registry when the device is gone.            *)

StopStep(from, to) ==
  /\ stopPc = from
  /\ stopPc' = to
  /\ UNCHANGED <<runPc, attached, phase, reviewed, pending, late>>

StopSetsEvent ==
  /\ runPc # "off"
  /\ StopStep("idle", "event")
  /\ stopEvent' = TRUE
  /\ UNCHANGED writerVars

StopStopsWriter ==
  /\ StopStep("event", "writer")
  /\ StopWriter
  /\ UNCHANGED stopEvent

StopReports ==
  /\ StopStep("writer", "done")
  /\ health' = Health("offline", FALSE)
  /\ UNCHANGED <<writerState, stopEvent>>

StopCall == StopSetsEvent \/ StopStopsWriter \/ StopReports

-----------------------------------------------------------------------------

RuntimeNext ==
  \/ StartRuntime
  \/ RunThread
  \/ WarmupEnds
  \/ StopCall
  \/ WriterThread /\ UNCHANGED sessionVars

\* Threads run, a stop() begun is finished, InfluxDB answers now and then.
RuntimeFairness ==
  /\ WF_runtimeVars(RunThread)
  /\ WF_runtimeVars(StopStopsWriter \/ StopReports)
  /\ WF_runtimeVars(WriterThread /\ UNCHANGED sessionVars)
  /\ SF_runtimeVars(WriteOk /\ UNCHANGED sessionVars)

RuntimeSpec == RuntimeInit /\ [][RuntimeNext]_runtimeVars
FairRuntimeSpec == RuntimeSpec /\ RuntimeFairness

-----------------------------------------------------------------------------
(* Properties.                                                             *)

RuntimeTypeOK ==
  /\ WriterTypeOK
  /\ runPc \in RunPcs
  /\ stopEvent \in BOOLEAN
  /\ handle \in BOOLEAN
  /\ device \in {"free", "held", "connected"}
  /\ phase \in {"warmup", "review", "live"}
  /\ reviewed \in 0 .. ReviewBatches
  /\ pending \in 0 .. ReviewBatches
  /\ pending > 0 <=> runPc = "enqueue"
  /\ stopPc \in {"idle", "event", "writer", "done"}
  /\ late \in Nat
  /\ mishap \in BOOLEAN

\* The device is connected while the run thread reads it.  When the thread is over
\* the device is free, whether a stop or an error ended the session, with the two
\* exceptions `mishap` stands for: connect() raised before it kept the device, of
\* which `finally` then does not know, or disconnect() or release() raised.  In these
\* two a replacement finds the device taken.
DeviceReleased ==
  /\ runPc \in {"opened", "loop", "read", "enqueue", "logged"}
       => handle /\ device = "connected"
  /\ runPc \in {"off", "connect", "open"} => device = "free"
  /\ runPc \in {"last", "dead"} => ~handle /\ (device # "free" => mishap)

\* Nothing is enqueued before the start-up readings have been reviewed, so a stop
\* during the start-up logs none of them; and they are enqueued together once, as
\* the first entry.
OneReview ==
  /\ phase # "live" => next = 1
  /\ \A i \in DOMAIN queue : queue[i].size > 1 => queue[i].id = 1

\* Once stop_event is set at most the reading in progress is still enqueued, and
\* that entry is all a writer that has returned can leave behind.  A runtime that
\* fails by itself leaves none.
StrandedTail ==
  /\ late <= 1
  /\ writerPc = "exit" => /\ Len(queue) <= late
                          /\ queue # <<>> => stopEvent

\* Both threads end once stop() is called or the run thread has failed.
ThreadsEnd ==
  (stopEvent \/ runPc = "failed") ~> (runPc = "dead" /\ writerPc = "exit")

\* The registry's view of the runtime changes only as RuntimeLife says.
Life == INSTANCE RuntimeLife
View ==
  [thread |-> IF runPc = "dead" THEN "dead"
              ELSE IF runPc \in {"closing", "release", "last"} THEN "ending"
              ELSE "alive",
   writer |-> writerPc # "exit",
   stop |-> stopEvent,
   status |-> IF health.status \in {"starting", "running", "degraded"}
              THEN "active" ELSE health.status]
LivesAsDescribed == [][Life!LifeStep(View, View')]_View
=============================================================================
