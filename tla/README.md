# TLA+ models of the BMS/ET sensor collectors

The repository is a set of small services on one host. Each collector reads one
kind of sensor and writes to InfluxDB; a service controller starts and stops
their containers; web pages show and configure them. This directory holds
TLA+ modules of the parts whose difficulty is concurrency, failure and order,
the TLC configurations that check them on small instances, and proofs for every
value of the constants, checked by TLAPS.

    tlc -config RedLabWriter.cfg MCRedLabWriter      # a run
    tlapm RedLabWriterProofs.tla                     # the proofs

Line numbers of definitions, properties and hazards are in `PROJECT.json`.

## 1. Inventory

### RedLab (thermocouples, `app/redlab`)

| part | state | operations | interacts with |
|---|---|---|---|
| writer (`redlab_writer.py`) | `write_queue`, `writer_stop_event`, thread | `start`, `stop`, `enqueue`, `run` | the run thread enqueues; `set_health` of the runtime; InfluxDB |
| runtime (`redlab_runtime.py`) | device handles, health record, `stop_event`, start-up batches | `start`, `stop`, `connect`, `run`, `write_runtime_points` | owns a writer; read by the registry |
| registry (`redlab_registry.py`) | `runtimes`, `reenumeration_hits`, restart stamp in the environment | `run` | two USB inventories (own process, new process); `execv` |
| acquisition, settings, routes | filter state, files | filters, parsing | pure, or one write per request |

Three threads meet on one health record and one queue. Hard: an overflow while
the head is being written; a stop while a reading is under way; a report after
the thread that should have the last word has spoken; an inventory that lags; a
restart that loses all memory but the environment. Right means: entries are
stored in order and none is lost uncounted; both threads end and release the
device; the process restarts itself only for a confirmed reason and not too
often; a failed or hidden device comes back.

### Service controller (`app/svcctl`)

State: manual pauses in memory and in a file, `..._PRESENT_SINCE` and the
throttle stamp per guarded collector; the containers themselves. A guard thread
each for MSCL, RedLab and ALMEMO; start, stop and restart requests; all under
`ACTION_LOCK`. Hard: the file is rewritten in place and the controller may be
killed at any time; state of a guard goes stale while its target is paused;
several switches decide what runs without its device. Right means: a stop holds
until asked otherwise, over restarts, too; a device must be there for the
settling time before its collector is started for it; what should run runs.

### ALMEMO (`app/almemo`)

State: two streams with a reader thread, a stop event and a line buffer each; one
serial port under `SERIAL_LOCK`; `SESSION_SWITCH_LOCK` around start, stop and
command requests; caches of the health page. A command session pauses the
streams, takes the port and resumes them. Hard: joins that time out, an event
shared by all readers of a stream, a lock held while waiting for another. Right
means: one reader at a time, a stopped stream stays down, a command gives back
what it paused, every request ends.
A read selects its channel in one command session and
reads it in the next, so two reads at once can mix up their channels; that is noted as a
hazard and not modelled.

### MSCL (`app/mscl`)

State: the connection to the base station under `CONNECT_LOCK` and `OP_LOCK`, a
bounded packet queue between a reader and a writer thread, sampling runs with a
stop token and a timer thread per node, caches of node parameters. The node page
(`static/mscl_web_config.js`) keeps the selected node, the fields of the last read and
two flags, `idleConfirmed` and `readConfirmed`, that enable Read and Write. Hard:
packets taken off the queue before they are written, timestamps made unique
within a batch only, a timer of an earlier run, an idle command that is skipped
once and not repeated, retried and verified writes of node parameters, answers
that reach the page after the user went on to another node. Right means: no
packet is lost uncounted, no timer ends a later run, a timed run ends or says that
it could not, a node is written its own settings, and only while it is idle.

### Cameras: recording (`app/cameras/event_recording.py`)

State: a buffer of closed video segments, at most one window that is open around
a confirmed anomaly, hard links to the segments of the window in a directory of
its own, the finished videos, and `catalog.json` with segments, window and
`closed_until`. A recorder calls `update()` about once a second with the marker
file the analysis writes: the window is opened or extended, its segments are
linked, a window that is over is joined into a video and released, and old
segments expire. `finish_on_stop()` closes a window early. Hard: anomalies that
overlap, follow each other closely or last longer than a window may; segments
that are lost; a death between any two changes of a file; segments that expire
before a later marker asks for them. Right means: what was confirmed ends up in
a video, and what the catalog lists survives a restart.

### The others

- **Pyrometers** (`app/pyrometers`): a loop per device that streams, a queue of
  IR settings whose client stops waiting after 8 s, reopening of stale streams.
- **Messkluppe** (`app/messkluppe`): a radio loop; commands travel in ACK payloads
  and are repeated; the clip's state is updated when a command is sent and when
  packets arrive. `legacy_host` is a retired program.
- **Cameras**, the rest (`app/cameras`): a snapshot mode with a ring and an export of
  its own, a detection worker with a command file, a preview proxy.
- **Matter** (`app/matter`): a cache of node snapshots with background refresh,
  polling, a diagnostics store saved atomically; many stateless views.
- **Graf Lite, access point UI, dashboard, scripts, firmware nodes**: stateless
  views, one host command per request, static pages, and SDK callbacks.

## 2. Modules

| module | models | state and actions |
|---|---|---|
| `OrderedDelivery` | the promise of a collector to InfluxDB | abstract: records accepted, stored, given up |
| `RedLabWriter` | `redlab_writer.py` | `Enqueue` (append, overflow loop), `Take`, `WriteOk`/`WriteFails`, `Settle`, `ReportRunning`/`ReportDegraded`, `StopWriter`, `Exit` |
| `RuntimeLife` | what the registry sees of a runtime | operators on records: each step a runtime's threads can make visible |
| `RedLabRuntime` | `redlab_runtime.py`, EXTENDS the writer | the run thread from connect to the last line of `finally`, and the three steps of `stop()` |
| `RedLabRegistry` | `redlab_registry.py`, uses `RuntimeLife` for the runtimes | `Inventory`, `FreshInventory`, `Probe`, `Recheck`, `Reprobe`, `Restart`, `Reconcile`; devices, time and runtimes (`RuntimeSteps`, `FormerDies`) move in between |
| `ServiceController` | `svcctl_app.py`, `svcctl_docker.py` | `GuardStep` per guarded target; a request as `BeginRequest`, `Save`, `Act` per container, `Answer`; `Restart` of the controller |
| `AlmemoStreams` | `almemo_streaming.py` and the requests of `almemo_app.py`, `almemo_serial.py` | a program counter per reader thread; a request is a list of steps (`todo`) held under `SESSION_SWITCH_LOCK` |
| `MsclSampling` | runs, tokens and timers: `mscl_config.py`, `mscl_sampling_run_service.py`, `mscl_sampling_service.py` | `RecordStart`, `RecordStop`, `DurationElapses`, `TimerOfEarlierRun`, `TimerIdles`, `TimerGivesUp`, `Restart` |
| `MsclPage` | `static/mscl_web_config.js`, EXTENDS the sampling | `Select`, `PressRead`, `Press` send; `ReadShown` and `ReadFilled` (the two parts of a read), `ReadBad`, `ReadLost`, `IdleAnswered`, `TouchDone`, `StartDone`, `StopDone`, `NothingDone` are what an answer does |
| `EventRecording` | `event_recording.py` and the marker of `anomaly_worker.py` | `update()` as `Follow`, then `NotYet` or `Join`/`GiveUp`, `Release`, `Remove`, then `Unlink` per old segment and `Persist`; `Stop`, `Die`, `Start`; `ConfirmNew`, `ConfirmAgain`, `Clear` and `Tick` around it |
| `RedLabWriterProofs`, `RedLabRuntimeProofs`, `RedLabRegistryProofs`, `ServiceControllerProofs`, `AlmemoStreamsProofs`, `MsclSamplingProofs`, `MsclPageProofs`, `EventRecordingProofs` | theorems about these modules | inductive invariants, a lemma per action or group of actions |
| `MC...` | instances for TLC | |

**Atomicity.** A step of a model is what the code does under one lock, or between
two points where another thread can see a difference. `Settle` is one critical
section of `write_queue_lock`; the health report after it is another step,
because `stop()` and the run thread report in between. A guard step of the controller
is one action as it holds `ACTION_LOCK` and the restarted controller begins
anew; a request is several, as a kill between them leaves pauses, file and
containers as they are. In `AlmemoStreams` a request holds `SESSION_SWITCH_LOCK`,
so there is one at a time and its interleaving is with the readers. Every handler
and timer of `MsclSampling` holds `OP_LOCK` for all it does and is one step; the page
of `MsclPage` is split wherever it awaits an answer, which a read does twice: it shows
the card and fills most of it, then waits for the diagnostics, then fills sample rate and
channels and sets the flags. An answer is made in the step that delivers it, as the page
can tell no difference. An update of `EventRecording` is split
wherever it has changed a file, for the recorder may die there: old segments are unlinked
one by one, and the catalog is written after them. Two things that are several file
operations are one step, the links of one update and the removal of a directory, because
nothing reads some of them.

**Composition.** `RedLabRuntime` contains the writer's actions and state. The
registry does not contain the runtime: it uses `RuntimeLife`, and the property
`LivesAsDescribed` of `RedLabRuntime` says that the full runtime, seen through
`View`, takes only the steps `RuntimeLife` has, which is proved. So what is shown of the
registry rests on what is shown of the runtime. `MsclPage` contains `MsclSampling`: the page is one
client, and every other client (a second browser, the per-node requests) is a step
of `SamplingNext` that leaves the page alone. `PageImplementsSampling` is proved.

**Data.** A batch is a number of readings, an entry an id and a size, a device a
model value. Temperatures, labels, log lines and serial text are left out. Times
are ages counted in ticks and capped at the interval the code compares them with:
beyond it nothing changes. A sampling token is the number of its start, as only
equality of tokens matters. The form of the page is two nodes: the one its card was read
from (`cardOf`, nobody while the card is hidden), and the one its sample rate and channels were
(`rateOf`). Of a run that is over the record keeps that it is (`Ended`); the rest is only shown. A
runtime the registry no longer knows of is on its way out as soon as it is told to stop
(`Remaining`), as nothing sees when it is. The device of a runtime is free, held (a `DaqDevice` exists) or connected. A segment of video is its index, and a unit of time is one segment.

**History variables** (`stored`, `acked`, `dropped`, `late`, `mishap`, `streak`, `age`,
`present`, `probeFailed`, `userStopped`, `damaged`, `unseen`, `halted`; in `MsclPage`
`idleOf` and its own `late`; in `EventRecording` `owed` and `keptOut`)
record what happened for the properties; no guard of a code action reads them. Two variables
are the surroundings: `there` of the controller is how long a device has really been plugged in,
which no guard reads, and `former` of the registry the run threads it no longer knows of.

## 3. Runs

| run | question | bounds | states |
|---|---|---|---|
| `writer` | overflow, errors and stop against each other | queue of 2 batches, entries of 1 to 3, 4 entries | 9 thousand |
| `runtime` | how a session may end | queue of 2, 3 entries, 2 start-up batches | 30 thousand |
| `registry` | supervision and self-restart, runtimes that outlive their registration | 2 devices, 2 confirmations, cooldown 1 tick, 2 faults | 260 thousand |
| `controller` | guards and requests | 2 targets, one kept and one not, settling 1, retry 2, 2 requests, 2 faults | 165 thousand |
| `almemo` | streams and commands | 2 streams, 4 requests, 1 health probe, 1 crashed reader | 310 thousand |
| `mscl` | what a page's Write sends; timers and runs | 2 nodes (symmetric), 2 starts, 2 requests on their way | 1.4 million |
| `events` | windows, videos, deaths | before 1, after 2, kept 3, grace 4, at most 4 long; 8 units of time, 1 lost segment, 1 stop or death | 5.7 million |
| `registry_masked`, `registry_replug`, `controller_replug`, `almemo_late`, `mscl_write` | what the documentation, a message or a test says and the code does not do | as above, `almemo_late` with 3 requests and no crash | counterexamples |

**What the bounds allow.** A queue of two batches with entries of up to three
holds an entry that does not fit at all, one that fits alone, and one that pushes
out the entry being written; four entries let a second overflow follow. With two
confirmations and two devices one device's count is reset by the other's coming
and going. One tick of cooldown or settling separates "not yet" from "long
enough", and two faults allow a device to vanish while a probe fails, or a kill
after a failed save; one unplug and one return are what it takes for a new runtime beside the thread of
the last one. Four ALMEMO requests allow start, command, start, stop and all
orders of three around a fourth; eight readers are never all in use. In `mscl` two starts of a node leave a timer of the first in the
second run, and two requests on their way are answered in any order around changes of
the node: a read of one node may be between its two parts while one of the other is
answered. Two *identical* requests on their way are
left out. In `events` the windows are scaled so that their order is the source's (what is kept is
longer than what goes before; a window waits longer for its video than a marker counts; a
split window is longer than one anomaly), and eight units hold an
anomaly, a second that merges with it or follows it, a split, the grace of a
window whose last segment is missing with another anomaly in it, and a recovery. An update
falls into every unit, as it does in the source with one a second and segments of five.

**What they show.**

- *writer*: `QueueBounded`, `QueueIsNewest`, `NoSilentLoss` and `NoRewrite` are the
  queue's invariants: `enqueue` may move the head while the writer writes it, and
  the identity test before the pop is what keeps an unwritten entry from being
  popped in its place. `DeliversInOrder` is the refinement of
  `OrderedDelivery`; a write that failed may have taken effect and is repeated,
  which the abstract state does not show. `EntriesSettle` and `StopDrains` are the
  liveness of the queue.
- *runtime*: `StrandedTail` bounds what a stop can cost: the
  reading that was under way. `ThreadsEnd` and `OneReview` are
  about the exits and the start-up review: nothing is enqueued before it. `DeviceReleased`
  says that a session leaves its device free, *except* when the device library raised
  with the device in its hands: in `connect()` before the device was kept, of which
  `finally` does not know, or in `disconnect()` or `release()`, whose error is swallowed.
  In these two cases (`mishap`) a replacement finds the device taken.
- *registry*: `RestartConfirmed` and `RestartSpaced` limit the self-restart,
  `StaleRecovers` says it works, `KeptWhilePresent` that no runtime
  is stopped while its device is there, `FailedReplaced` that one that says it
  failed is replaced. Two runtimes of a device can overlap, as the registry does not wait for a
  thread; `FormerEnd` says that the one it forgot comes to its end.
- *controller*: `StopHolds` and `SettledStart` are action properties over the guards'
  starts. `SettledStart` measures at the device (`there`), not by the guard's own clock, and
  excepts a device that was unplugged without the guard seeing it missing (`unseen`);
  `controller_replug` shows that case. `FileAgrees` compares memory and file between requests; `KeptRuns`
  and `DeviceDecides` are the liveness of the guards.
- *almemo*: `OneReader`, `StoppedStaysDown`, `NoStopLeftOver`, `GivesBack` and
  `RequestsEnd` hold *as long as readers end before the join times out* (`~late`).
  `almemo_late` shows what one late reader can do.
- *mscl*: `TimerKeepsToItsRun` is what the tokens are for; `TimedRunWatched` says that no
  refused start, half-failed group stop or skipped node leaves a timed run that
  nothing will end, unless its record says that the node did not become idle.
  `OwnSettings` is about the page: whatever was pressed and answered in whatever
  order, Write sends the selected node its own values, *except* for a part of the form, the
  card or the sample rate and channels, that was filled with another node selected
  and not filled again since. `mscl_write` shows a form that is another node's; that one may be half
  another's is why the two parts are told apart.
- *events*: `ConfirmedSaved` says that whenever no window is open, the segment each anomaly
  was confirmed in is in a video. Not owed is what the code cannot have: segments lost with the
  stream or with a recorder that is down, and what came after a stop or a command that
  cleared the marker. Three losses are the code's own; each is named in the model:
  an anomaly that a window which misses a segment has kept waiting (`keptOut`), for as long as
  no update finds, with the window closed, a marker that still asks for it (`Wanted`): from then
  on it has to be saved like any other; what an older video of a window that was extended since
  is without (`Unjoined`); and what a recorder that died had protected but neither the window of
  the catalog nor the buffer has (`Recorded` in `Die`).
  `PartsSaved` follows the links: a segment that the catalog calls part of a window stays linked
  until it is in a video. Its one excuse besides the split of a window is `Unjoined`.

### Findings

Those with a run are in `PROJECT.json`, with the lines they are about. The others were met
while modelling; the definition that names the case is given instead.

1. **A failed runtime can hide its failure** (`registry_masked`). The writer reports
   after the run thread reported its error; the registry replaces only runtimes
   whose last report was the error (`redlab_registry.py:277`).
2. **A replugged device may not be picked up** (`registry_replug`). The dead runtime
   of a device that only a new process can see excludes it from the restart
   (`redlab_registry.py:217`) and is not replaced either.
3. **Collectors run without their device** by default (`Kept`,
   SVCCTL_KEEP_DEGRADED_SERVICES_RUNNING, `svcctl_app.py:37` and `:388`), where README.md:153-158
   says they are kept stopped.
4. **A replugged device counts as settled** (`controller_replug`). A guard resets its clock
   only when it finds the device missing, and looks every 5 s for a settling time of 4 s, and
   not at all while its target is paused (`svcctl_app.py:410`); README.md says that a
   collector starts only after the device is present and stable.
5. **One late ALMEMO reader can block all later requests** (`almemo_late`). Two
   readers of a stream share an event that each clears on its way out
   (`almemo_streaming.py:261`).
6. **A node can be written while it is not known to be idle** (`mscl_write`).
   `idleConfirmed` names no node: it survives a change of the node, and a late answer
   to a read of the previous node shows the card and enables Write for the
   selected one (`mscl_web_config.js:582`), with the previous node's values.
7. **A form can hold the values of two nodes** (the parts of `late` in `OwnSettings`). A read waits for the
   diagnostics between the card and the sample rate (`mscl_web_config.js:528`). If another node is picked in
   that gap, the rest of the read fills the first node's rate and channels and sets both flags; when the other
   node is read, Write is enabled in the gap of that read: its own card, the first node's rate and channels.
8. **An anomaly can miss its event** (`keptOut`). A window that lacks a segment stays open
   for 30 s, a marker counts for 10 s, and a trigger after the window's end is dropped
   (`event_recording.py:147`).
9. **A death can cost the end of an event video** (`Unjoined`). If the recorder dies
   after the join and before the catalog is written, and the window is extended when it is
   back, the video that is there is kept (`event_recording.py:190`), the parts of the extension are
   removed, and the metadata counts them.
10. **A death can cost a protected segment** (`Recorded` in `Die`). An update unlinks old
    segments from the buffer before it writes which of them the window has
    (`event_recording.py:208`). It takes a recorder that was down for longer than the
    buffer reaches back and dies in its first update.

### Fairness

Threads run (weak fairness of each thread's steps), because the scheduler runs
them. Beyond that: InfluxDB accepts a write now and then if it is retried for
ever (strong fairness of `WriteOk`, in `writer` and `runtime` only, needed for the
queue to drain). In `controller`, time passes and each guard's loop runs, with
`ACTION_LOCK` given to it again and again. In `registry`, the loop runs and faults
are bounded, so that a property about recovery is not defeated by new faults; a thread that
was told to stop or failed gets to its end (`FormerDies`), which is `ThreadsEnd` of the
runtime. In
`almemo`, a lock that is free is given to one who waits, and a reader that was
told to stop gets there; nothing says that a device answers, that a reader reads
on, or that a request arrives. No fairness is assumed of faults, devices,
requests or timeouts. Deadlock is not checked where the system may stop: a writer
or runtime that has ended, streams after the last request, and a camera at the end
of the model's time. `mscl` and `events` ask safety questions only and assume no
fairness: the timer of a run gives up after one attempt, which `TimedRunWatched` shows as
a note in the record, and nothing promises more.

## 4. Proofs

Each theorem below holds for every value of the constants that satisfies the
assumptions its module names. TLC evaluates those assumptions in the runs, and
checked each inductive invariant on a run before it was proved. Every proof
has the same shape: the initial states satisfy the invariant, each action keeps it (a
lemma per action), and the property follows from it.

| theorem | states |
|---|---|
| `WriterTypeCorrect`, `WriterQueueBounded`, `WriterQueueNewest`, `WriterLosesNothing`, `WriterNeverRewrites` | `WriterSpec => []P` for `WriterTypeOK`, `QueueBounded`, `QueueIsNewest`, `NoSilentLoss`, `NoRewrite` |
| `WriterDeliversInOrder` | `WriterSpec => DeliversInOrder`: `RedLabWriter` implements `OrderedDelivery` |
| `RuntimeTypeCorrect`, `RuntimeReleasesDevice`, `RuntimeReviewsOnce`, `RuntimeStrandsOneEntry` | `RuntimeSpec => []P` for `RuntimeTypeOK`, `DeviceReleased`, `OneReview`, `StrandedTail` |
| `RuntimeLivesAsDescribed` | `RuntimeSpec => LivesAsDescribed`: `RedLabRuntime` implements `RuntimeLife` |
| `RuntimeDeliversInOrder` | `RuntimeSpec => DeliversInOrder` |
| `RegistryTypeCorrect`, `RegistryRestartConfirmed`, `RegistryRestartSpaced` | `RegistrySpec => []P` for `RegistryTypeOK`, `RestartConfirmed`, `RestartSpaced` |
| `RegistryKeepsWhilePresent` | `RegistrySpec => KeptWhilePresent` |
| `ControllerTypeCorrect`, `ControllerFileAgrees` | `ControllerSpec => []P` for `ControllerTypeOK`, `FileAgrees` |
| `ControllerStopHolds`, `ControllerSettledStart` | `ControllerSpec => P` for the action properties `StopHolds`, `SettledStart` |
| `AlmemoTypeCorrect`, `AlmemoOneReader`, `AlmemoStoppedStaysDown`, `AlmemoNoStopLeftOver`, `AlmemoGivesBack` | `AlmemoSpec => []P` for `AlmemoTypeOK`, `OneReader`, `StoppedStaysDown`, `NoStopLeftOver`, `GivesBack` |
| `SamplingWatched`, `SamplingTimers` | `SamplingSpec => []TimedRunWatched`, `SamplingSpec => TimerKeepsToItsRun` |
| `PageImplementsSampling` | `PageSpec => SamplingSpec` |
| `PageWatched`, `PageTimers` | the two of the sampling for `PageSpec` |
| `PageTypeCorrect`, `PageOwnSettings` | `PageSpec => []P` for `PageTypeOK`, `OwnSettings` |
| `EventTypeCorrect`, `EventPartsSaved` | `Spec => []EventTypeOK`, `Spec => PartsSaved` |
| `EventConfirmedSaved` | `WideWindow /\ Spec => []ConfirmedSaved` |

**The writer.** Assumed: the bound is a positive number, sizes are positive
numbers, the number of entries is a natural number. None of the invariants is
inductive alone: that the popped entry was written depends on where the queue
begins. `WriterIInv` adds, with `First = next - Len(queue)` for the oldest id
queued: everything below `First` is acknowledged or dropped (`BelowSettled`), dropped
ids are below it (`DroppedBelow`), so are acknowledged ones except the entry
whose write has just returned (`AckedBelow`), stored ids are below it or the one at the
head (`StoredBelow`), the entry in the writer's hand is the head unless an overflow
took it (`HandAtHead`), and it is acknowledged exactly between the write and the
settling (`HandAcked`). Lemmas on `SubSeq` and on the overflow loop (`WithoutOldest`)
say which suffix of the queue remains. `QueueBounded` is inductive as it is: the
batches of a queue are a finite set of pairs (entry, number), and what is left after the
head is removed is a subset of it (`BatchesLemma`), so no induction over the queue is needed. The refinement follows: a step is an
`Accept`, a `Store` of the entry in hand, or a stutter.

**The runtime.** Assumed besides: the review has a positive number of batches, and an
entry has from one to as many batches as the review holds. The writer's theorems are not
proved again: a step of the runtime is a step of the writer or one that changes nothing of it but its
health record (`HealthOnly`), so `WriterIInv` carries over, and with it the
refinement. `RuntimeIInv` adds the session: the threads start together and only
`stop()` or `finally` ends the writer (`ThreadsTogether`), nothing is enqueued before the
review is over (`ReviewFirst`), and what is enqueued after `stop()` is the last
(`LateIsLast`), without which `StrandedTail` is not inductive. `DeviceReleased` needs
that what `finally` finds is the connected device, and that what it does not find is free or lost to a
mishap (`DeviceKnown`); `OneReview` needs `ReviewFirst`.

**The registry.** Assumed: positive confirmations, a natural cooldown and number of
faults. An iteration of the loop asks, waits, asks again and decides, while
devices and runtimes go on. `StampCounts` says that the stamp in the environment is
as old as the last restart, and was old enough when the wait began; `PresentAnswered`
that a probe that did not fail has seen what was there throughout. The runtimes are
those of `RuntimeLife`, which `RuntimeLivesAsDescribed` justifies.

**The controller.** Assumed: a guarded target has one container, which belongs to no other
target (`TARGET_MAP`), the settling time is positive. A request is several steps and may be
killed between them, so `FileAgrees` and `StopHolds` are not inductive. `PausesSaved`
says that only a request that has not saved yet leaves file and memory apart;
`StoppedPaused` that the target of a stopped container is paused in both, so that a
restarted controller finds it; `WorkPaused` that what a stop is about to stop is paused
already. `SettledStart` follows from `ClockHonest`, a part of the type invariant: a guard's clock runs
only while the device is there and for no longer than it has been, unless the device
was unplugged unseen since the clock started. That a stable clock means a settled device is thus
a fact about every unplug, look and restart in between, not about the guard's test.

**The streams.** Assumed: the streams are paused in an order in which each is once. The
properties speak of executions in which no reader was late, so `AlmemoIInv` is
`RequestOk /\ (late \/ StreamsOk)`. The heart of `StreamsOk` is `Single` (the one reader
that lives is the thread of the stream it reads) and what the steps left of the request
promise: whatever runs while a start is to come will be stopped before
(`StoppedFirst`), a reader is told to stop only by the request that waits for it
(`StopAwaited`), what is paused runs again or has still to be resumed
(`ResumesPaused`). That a request's steps come in one order only is `WellFormed`: it
relates every two steps left, so that taking the first keeps it.

`AlmemoTypeOK` holds in the executions with late readers, too, and has an invariant of
its own, `PortIInv`. `PortHeld` says who holds the port: the request between its two steps for
it, or a reader that lives. `Room` says that the threads alive and those that the request
under way may still start are never more than the streams times the requests made, as its
starts come last (`StartsLast`). So `MaxReaders >= MaxRequests * Len(Order)`, the assumption
on that bound of the model, is enough never to keep a thread from being started.

**Sampling and page.** Assumed: the bounds on starts and on requests on their way are
natural numbers. `TimedRunWatched` is kept because a stop gives a node a token no
timer has, and a start one that no *earlier* timer has: `SamplingIInv` adds that every
timer's token is one of a past start (`TokensKnown`) and that a timer whose token is
current belongs to the running run (`RunOfCurrentTimer`), from which
`TimerKeepsToItsRun` follows. `OwnSettings` is not inductive as it speaks of an enabled
Write only; `OwnParts` is: a card that is shown and not late is the selected node's, and so are
the sample rate and channels of a read that is confirmed.

**The event recorder.** Assumed: lengths are natural numbers, a window and its longest
extent are positive, and segments are kept longer than what goes before an anomaly
(`keep = pre + 20 + 2 * SEGMENT_SECONDS`). `RecorderIInv` says at each point where the recorder may
die what memory, catalog, links and videos have of each other: the window of the
catalog is the one in memory or an earlier state of it (`Continues`), the parts of both are
linked (`Linked`), from `_protect` to `persist` the window has all the buffer has of it
(`Protected`), a video has what there was of its window before its end (`Joined`), and a
window is released with its video only (`HasVideo`). `PartsSaved` follows.

`ConfirmedSaved` takes two more. `ClosedIInv` says that windows follow one another
(`AfterClosed`: memory and catalog agree on what is closed, and a window begins there) and that no
video reaches beyond an anomaly that is still owed, unless its window still has the anomaly or was
closed after it (`OwedNotPassed`). `OwedIInv` says of an anomaly in `owed \ keptOut` that it lies in the
window, or the marker still asks for it and its segment is in the buffer; nothing that was closed was
to have it. A death leaves owed what is in the window of the catalog and recorded, so that unlinking
before persisting keeps it. An anomaly that leaves `keptOut` joins the rest by `ClosedIInv`: the window
opened for it begins after what is closed, so no video has passed it.

The hypothesis `WideWindow` is that a window begins at least one segment before and ends at least two
after the time of the anomaly (`Pre >= 1 /\ Post >= 2`), and that an event may be longer than video
is kept (`MaxLength > Keep`). The first two are not there for the proof: TLC finds
counterexamples with `Pre = 0` or `Post = 1`, for then the one update the model
grants each segment may come when the marker no longer counts or was replaced. By the third a window
that begins with the oldest segment reaches to the newest. The defaults satisfy all three
(7 s and 10 s with segments of 5 s; events of 300 s with 37 s kept).

**What the properties promise in full.** `StoppedStaysDown` speaks of a stop until the
start is *carried out*, not only asked for. `ConfirmedSaved` keeps owing what the catalog's window still
holds when the marker is cleared while the recorder is down (`Pending`), and every anomaly after a
window that is released.

**Model-checked only.** Every invariant and action property the runs check is proved; what is
not is all liveness: `EntriesSettle`, `StopDrains`, `ThreadsEnd`, `StaleRecovers`,
`FailedReplaced`, `FormerEnd`, `KeptRuns`, `DeviceDecides`, `RequestsEnd`. Fairness and ENABLED are
out of the prover's reach.

## 5. Not modelled

Parsing, filters, drawing, HTTP and configuration screens; host probes; firmware;
scripts. Within the modelled parts: the thermocouple configuration requests
of a runtime (they hold the device lock and change nothing the session's control
depends on), the ALMEMO port discovery and persistent connection, the requests
that chain several command sessions, the line buffers, and the labels a guard
shows. Of the MSCL node page: the sampling panel, which dims the page with a style
and keeps no button from being used, the answer to a write, which only shows a
message, the storage, beacon and base status requests and what the diagnostics request shows (that a
read waits for it is modelled); Probe, Connect, Sleep and
Power Cycle are one kind of request (`Touches`), as they differ in nothing the
page keeps. Of the event recorder: a video or link that disappears from the disk, a join that
fails (it leaves the recorder as a death does), and the pruning of old videos.
`PROJECT.json` lists each component with the reason.

The repository's JavaScript is for four fifths third-party or retired code
(`messkluppe/legacy_host/static/js`: jQuery, Flot, Moment and the like), which is no part of the running
system and is not modelled. Of the project's own scripts the one whose order of events
matters most is the MSCL node page, which is; the others mostly fetch and draw. What carries
the system's logic is Python.

## 6. Plan

In this order, the most important first:

1. **`MsclStream`**: reader, packet queue, writer, base reconnect; as an abstract
   counterpart again `OrderedDelivery`, which this writer implements only up to
   the batches it loses on errors. To state: which packets are lost uncounted.
2. The server's reads and writes of node parameters: retries, verification, cache.
3. The snapshot mode of the cameras: its ring, exports and the resumption after one failed.
4. **`MatterSnapshotCache`**, **`Pyrometer`**, **`Messkluppe`**: one refresh at a time,
   newest result wins; a setting reported as failed is not applied later; the state
   shown follows the clip.
5. Proofs: with each new module its invariants; of `MsclStream` the refinement of
   `OrderedDelivery`. Of the existing modules every safety property is proved.
