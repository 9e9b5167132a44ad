---------------------------- MODULE AlmemoStreams ----------------------------
(***************************************************************************)
(* The ALMEMO collector's two live streams and its command sessions        *)
(* (app/almemo/almemo_streaming.py, almemo_serial.py, almemo_app.py): who   *)
(* has the one serial port, and when.                                      *)
(*                                                                         *)
(* SESSION_SWITCH_LOCK is held for a whole request, so one request is       *)
(* under way at a time; todo is what it has still to do.  A reader thread   *)
(* holds SERIAL_LOCK as long as it streams, and all readers of a stream     *)
(* share its stop event.  A request waits for a reader to end for           *)
(* THREAD_JOIN_TIMEOUT and no longer.  Lines, records and the commands sent  *)
(* to the device are left out, and so is the connection the command session *)
(* keeps open (_PSER).                                                     *)
(***************************************************************************)
EXTENDS Integers, Sequences, FiniteSets, SequencesExt

CONSTANTS
  Streams,      \* "live" and "fast_live"
  Order,        \* the streams in the order a command session pauses them
  MaxReaders,   \* bound of the model: reader threads alive at a time
  MaxRequests,  \* bound of the model
  MaxProbes,    \* bound of the model: health probes that reach the port
  MaxCrashes    \* bound of the model: readers ended by an InfluxDB error

NoStream == "none"

ASSUME OrderAssumption ==
  /\ Order \in Seq(Streams)
  /\ \A s \in Streams : \E i \in DOMAIN Order : Order[i] = s
  /\ \A i, j \in DOMAIN Order : Order[i] = Order[j] => i = j
ASSUME StreamsAssumption == NoStream \notin Streams
ASSUME BoundsAssumption == {MaxRequests, MaxProbes, MaxCrashes} \subseteq Nat
\* A request starts each stream once at most.
ASSUME ReadersAssumption ==
  MaxReaders \in Nat \ {0} /\ MaxReaders >= MaxRequests * Len(Order)

Readers == 1 .. MaxReaders
NoReader == 0
Free == 0
Session == -1
Probe == -2

VARIABLES
  pc,           \* where a reader thread is
  kind,         \* the stream it reads
  thread,       \* LIVE_THREAD, FAST_LIVE_THREAD, if it is alive
  stopEvent,    \* the streams whose LIVE_STOP, FAST_LIVE_STOP is set
  owner,        \* who holds SERIAL_LOCK
  seen,         \* streams with data since they were started, ..._LAST_DATA_AT
  todo,         \* steps left of the request that holds SESSION_SWITCH_LOCK
  joining,      \* it waits for a reader to end
  pausedStreams,  \* the streams a command session has paused
  requests, probes, crashes,   \* counters of the bounds
  late,         \* history: a reader was not waited for to its end
  halted        \* history: streams whose stop was answered, no start asked for since

readerVars == <<pc, kind>>
streamVars == <<thread, stopEvent, seen, halted>>
requestVars == <<todo, joining, pausedStreams, requests, late>>
boundVars == <<probes, crashes>>
almemoVars == <<readerVars, streamVars, owner, requestVars, boundVars>>

AlmemoInit ==
  /\ pc = [r \in Readers |-> "dead"]
  /\ kind = [r \in Readers |-> NoStream]
  /\ thread = [s \in Streams |-> NoReader]
  /\ stopEvent = {}
  /\ owner = Free
  /\ seen = {}
  /\ todo = <<>>
  /\ joining = FALSE
  /\ pausedStreams = {}
  /\ requests = 0 /\ probes = 0 /\ crashes = 0
  /\ late = FALSE
  /\ halted = {}

Alive == {r \in Readers : pc[r] # "dead"}

\* Mutant: the port is used without SERIAL_LOCK.
PortUnguarded == TRUE

PortFree == owner = Free

-----------------------------------------------------------------------------
(* A reader thread, _live_reader, _fast_live_reader, _reader_loop.         *)

ReaderGoes(r, from, to) == pc[r] = from /\ pc' = [pc EXCEPT ![r] = to]

ReaderLocks(r) ==
  /\ ReaderGoes(r, "locking", "testing")
  /\ PortFree
  /\ owner' = r
  /\ UNCHANGED <<kind, streamVars, requestVars, boundVars>>

\* stop_event.is_set(), at the head of both loops.
ToldToStop(r) == kind[r] \in stopEvent

\* The port is opened and the device answers.  A failed attempt changes
\* nothing, the thread tries again.
ReaderOpens(r) ==
  /\ ReaderGoes(r, "testing", "reading")
  /\ ~ToldToStop(r)
  /\ UNCHANGED <<kind, streamVars, owner, requestVars, boundVars>>

ReaderGetsLine(r) ==
  /\ pc[r] = "reading"
  /\ seen' = seen \cup {kind[r]}
  /\ UNCHANGED <<readerVars, thread, stopEvent, halted, owner, requestVars, boundVars>>

\* The inner loop ends; the clean-up commands follow, then the outer loop asks
\* for the stop once more.
ReaderStops(r) ==
  /\ ReaderGoes(r, "reading", "testing")
  /\ ToldToStop(r)
  /\ UNCHANGED <<kind, streamVars, owner, requestVars, boundVars>>

\* A serial error, or no data for too long: reconnect.
ReaderReconnects(r) ==
  /\ ReaderGoes(r, "reading", "testing")
  /\ UNCHANGED <<kind, streamVars, owner, requestVars, boundVars>>

\* Any other error, of InfluxDB above all, ends the thread.
ReaderCrashes(r) ==
  /\ ReaderGoes(r, "reading", "finally")
  /\ crashes < MaxCrashes
  /\ crashes' = crashes + 1
  /\ UNCHANGED <<kind, streamVars, owner, requestVars, probes>>

ReaderEnds(r) ==
  /\ ReaderGoes(r, "testing", "finally")
  /\ ToldToStop(r)
  /\ UNCHANGED <<kind, streamVars, owner, requestVars, boundVars>>

\* The finally clause clears the event, whoever it was set for.
ReaderClears(r) ==
  /\ ReaderGoes(r, "finally", "leaving")
  /\ stopEvent' = stopEvent \ {kind[r]}
  /\ UNCHANGED <<kind, thread, seen, halted, owner, requestVars, boundVars>>

\* SERIAL_LOCK is released and the thread is dead.
ReaderLeaves(r) ==
  /\ ReaderGoes(r, "leaving", "dead")
  /\ kind' = [kind EXCEPT ![r] = NoStream]
  /\ thread' = [s \in Streams |-> IF thread[s] = r THEN NoReader ELSE thread[s]]
  /\ owner' = Free
  /\ UNCHANGED <<stopEvent, seen, halted, requestVars, boundVars>>

ReaderStep(r) ==
  \/ ReaderLocks(r) \/ ReaderOpens(r) \/ ReaderGetsLine(r) \/ ReaderStops(r)
  \/ ReaderReconnects(r) \/ ReaderCrashes(r) \/ ReaderEnds(r)
  \/ ReaderClears(r) \/ ReaderLeaves(r)

-----------------------------------------------------------------------------
(* Requests.                                                               *)

Step(op, s) == [op |-> op, stream |-> s]
Each(op, streams) == [i \in DOMAIN streams |-> Step(op, streams[i])]
Others(s) == RemoveAt(Order, CHOOSE i \in DOMAIN Order : Order[i] = s)

\* Mutant: the start of a stream leaves the other one alone.
StartAlone(s) == <<Step("renew", s), Step("start", s)>>

\* api_live_start, api_fast_live_start
StartSteps(s) == Each("stop", Others(s)) \o <<Step("renew", s), Step("start", s)>>

\* api_live_stop, api_fast_live_stop
StopSteps(s) == <<Step("stop", s), Step("answer", s)>>

\* Mutant: only the first stream is paused.
CommandForgetsStream ==
  <<Step("pause", Order[1]), Step("lock", NoStream), Step("unlock", NoStream)>>
    \o Each("resume", Order)

\* _send_command_sequence; a command that fails resumes the streams, too.
CommandSteps ==
  Each("pause", Order) \o <<Step("lock", NoStream), Step("unlock", NoStream)>>
    \o Each("resume", Order)

BeginRequest ==
  /\ todo = <<>>
  /\ requests < MaxRequests
  /\ requests' = requests + 1
  /\ \/ \E s \in Streams : todo' \in {StartSteps(s), StopSteps(s)}
     \/ todo' = CommandSteps
  /\ pausedStreams' = {}
  /\ UNCHANGED <<readerVars, streamVars, owner, joining, late, boundVars>>

Doing(op) == todo # <<>> /\ Head(todo).op = op
Target == Head(todo).stream
NextStep == todo' = Tail(todo) /\ joining' = FALSE
Stopping == Doing("stop") \/ Doing("renew") \/ Doing("pause")

NothingToStop ==
  /\ Stopping /\ ~joining
  /\ thread[Target] = NoReader
  /\ NextStep
  /\ UNCHANGED <<readerVars, streamVars, owner, pausedStreams, requests, late, boundVars>>

\* A start of the stream that runs already, as asked for and with fresh data,
\* is answered at once.
KeepStream ==
  /\ Doing("renew") /\ ~joining
  /\ thread[Target] # NoReader
  /\ Target \in seen
  /\ todo' = <<>>
  /\ UNCHANGED <<readerVars, streamVars, owner, joining, pausedStreams, requests, late, boundVars>>

\* _stop_stream
SetStop ==
  /\ Stopping /\ ~joining
  /\ thread[Target] # NoReader
  /\ stopEvent' = stopEvent \cup {Target}
  /\ joining' = TRUE
  /\ pausedStreams' = IF Doing("pause") THEN pausedStreams \cup {Target} ELSE pausedStreams
  /\ UNCHANGED <<readerVars, thread, seen, halted, owner, todo, requests, late, boundVars>>

\* Mutant: the event is set and nobody waits for the thread.
NotWaitedFor(s) == TRUE

\* thread.is_alive() is false at last
Joined(s) == thread[s] = NoReader

\* _join_thread
ReaderJoined ==
  /\ joining
  /\ Joined(Target)
  /\ NextStep
  /\ UNCHANGED <<readerVars, streamVars, owner, pausedStreams, requests, late, boundVars>>

\* A reader that opens the port, or waits for InfluxDB, takes longer.
JoinTimesOut ==
  /\ joining
  /\ ~Joined(Target)
  /\ NextStep
  /\ late' = TRUE
  /\ UNCHANGED <<readerVars, streamVars, owner, pausedStreams, requests, boundVars>>

AnswerStop ==
  /\ Doing("answer")
  /\ NextStep
  /\ halted' = halted \cup {Target}
  /\ UNCHANGED <<readerVars, thread, stopEvent, seen, owner, pausedStreams, requests, late, boundVars>>

\* Mutant: a start relies on the last reader to have cleared the event.
EventAsItWas(s) == stopEvent

EventCleared(s) == stopEvent \ {s}

\* Mutant: only the first stream is resumed.
ResumesFirst(s) == s = Order[1] /\ s \in pausedStreams /\ thread[s] = NoReader

\* _resume_streaming_sessions
Resumes(s) == s \in pausedStreams /\ thread[s] = NoReader

NewReader == CHOOSE r \in Readers : r \notin Alive

\* _start_live_stream, _start_fast_live_stream
StartStream ==
  /\ Doing("start") \/ (Doing("resume") /\ Resumes(Target))
  /\ thread' = [thread EXCEPT ![Target] = NewReader]
  /\ pc' = [pc EXCEPT ![NewReader] = "locking"]
  /\ kind' = [kind EXCEPT ![NewReader] = Target]
  /\ stopEvent' = EventCleared(Target)
  /\ seen' = seen \ {Target}
  /\ halted' = IF Doing("start") THEN halted \ {Target} ELSE halted
  /\ NextStep
  /\ UNCHANGED <<owner, pausedStreams, requests, late, boundVars>>

NothingToResume ==
  /\ Doing("resume")
  /\ ~Resumes(Target)
  /\ NextStep
  /\ UNCHANGED <<readerVars, streamVars, owner, pausedStreams, requests, late, boundVars>>

\* The commands run while the session has the port.
SessionLocks ==
  /\ Doing("lock")
  /\ PortFree
  /\ owner' = Session
  /\ NextStep
  /\ UNCHANGED <<readerVars, streamVars, pausedStreams, requests, late, boundVars>>

SessionUnlocks ==
  /\ Doing("unlock")
  /\ owner' = Free
  /\ NextStep
  /\ UNCHANGED <<readerVars, streamVars, pausedStreams, requests, late, boundVars>>

RequestStep ==
  \/ NothingToStop \/ KeepStream \/ SetStop \/ ReaderJoined \/ JoinTimesOut
  \/ AnswerStop \/ StartStream \/ NothingToResume \/ SessionLocks \/ SessionUnlocks

-----------------------------------------------------------------------------
(* A health request probes the device, if it gets SERIAL_LOCK in time.  It  *)
(* does not take SESSION_SWITCH_LOCK.                                      *)

ProbeLocks ==
  /\ PortFree
  /\ probes < MaxProbes
  /\ probes' = probes + 1
  /\ owner' = Probe
  /\ UNCHANGED <<readerVars, streamVars, requestVars, crashes>>

ProbeUnlocks ==
  /\ owner = Probe
  /\ owner' = Free
  /\ UNCHANGED <<readerVars, streamVars, requestVars, boundVars>>

-----------------------------------------------------------------------------

AlmemoNext ==
  \/ \E r \in Readers : ReaderStep(r)
  \/ BeginRequest
  \/ RequestStep
  \/ ProbeLocks \/ ProbeUnlocks

\* Threads run, the locks are given to one who waits.  Nothing says that the
\* device answers, that a reader reads on, or that a request comes.
AlmemoFairness ==
  /\ \A r \in Readers :
       WF_almemoVars(\/ ReaderLocks(r) \/ ReaderStops(r) \/ ReaderEnds(r)
                     \/ ReaderClears(r) \/ ReaderLeaves(r))
  /\ WF_almemoVars(RequestStep)
  /\ WF_almemoVars(ProbeUnlocks)

AlmemoSpec == AlmemoInit /\ [][AlmemoNext]_almemoVars
FairAlmemoSpec == AlmemoSpec /\ AlmemoFairness

-----------------------------------------------------------------------------
(* Properties.                                                             *)

\* Types, and, however late readers are: a stream's thread is a live reader of
\* that stream, SERIAL_LOCK is held by the one reader past it, and there is a free
\* reader number whenever a thread is started (MaxReaders hides nothing).
AlmemoTypeOK ==
  /\ pc \in [Readers -> {"dead", "locking", "testing", "reading", "finally", "leaving"}]
  /\ kind \in [Readers -> Streams \cup {NoStream}]
  /\ \A r \in Readers : r \in Alive <=> kind[r] # NoStream
  /\ thread \in [Streams -> Readers \cup {NoReader}]
  /\ \A s \in Streams : thread[s] # NoReader => kind[thread[s]] = s
  /\ stopEvent \subseteq Streams /\ seen \subseteq Streams
  /\ pausedStreams \subseteq Streams /\ halted \subseteq Streams
  /\ owner \in {Free, Session, Probe} \cup Readers
  /\ \A r \in Alive : pc[r] # "locking" <=> owner = r
  /\ joining => Stopping
  /\ late \in BOOLEAN
  /\ Doing("start") \/ Doing("resume") => Alive # Readers

\* As long as readers end in time, there is one reader thread at most, of one
\* stream or the other: none is left waiting for the lock behind another.
OneReader == ~late => Cardinality(Alive) <= 1

\* As long as readers end in time, a stop that was answered has stopped the
\* stream, and neither a command nor a crash brings it back.
StoppedStaysDown == ~late => \A r \in Alive : kind[r] \notin halted

\* As long as readers end in time, a stop set for one reader never hits the
\* next: when no request is under way, no reader is told to stop.
NoStopLeftOver == ~late /\ todo = <<>> => \A r \in Alive : ~ToldToStop(r)

\* As long as readers end in time, a command gives back every stream it paused.
GivesBack ==
  ~late /\ crashes = 0 /\ todo = <<>> => \A s \in pausedStreams : thread[s] # NoReader

\* Every request ends, as long as readers end in time.
RequestsEnd == todo # <<>> ~> (todo = <<>> \/ late)

\* README.md: command batches retain pause/rearm/resume.  A command whose
\* streams are paused gets the port.
CommandsRun == Doing("lock") ~> ~Doing("lock")
=============================================================================
