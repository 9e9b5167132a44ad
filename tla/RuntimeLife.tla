---------------------------- MODULE RuntimeLife ----------------------------
(***************************************************************************)
(* What the registry can observe of one RedLab runtime, and how it may     *)
(* change.  RedLabRuntime is shown to take only these steps, and           *)
(* RedLabRegistry uses them in place of the full runtime.                  *)
(***************************************************************************)

\* "starting", "running" and "degraded" make no difference to the registry: they
\* are one status here, "active".
LifeStatuses == {"active", "error", "offline"}

\* thread: the run thread is working, on its way out, or over.
\* writer: the writer thread lives.  stop: stop_event is set.
Lives ==
  [thread : {"alive", "ending", "dead"}, writer : BOOLEAN, stop : BOOLEAN,
   status : LifeStatuses]

NewLife == [thread |-> "alive", writer |-> TRUE, stop |-> FALSE, status |-> "active"]

\* The run thread reports on a connection attempt, a connection or a reading.
RunReports(l, m) ==
  /\ l.thread = "alive"
  /\ m = [l EXCEPT !.status = "active"]

\* An exception ends the loop.
RunFails(l, m) ==
  /\ l.thread = "alive"
  /\ m = [l EXCEPT !.thread = "ending", !.status = "error"]

\* The stop event ends the loop.
RunStops(l, m) ==
  /\ l.thread = "alive"
  /\ l.stop
  /\ m = [l EXCEPT !.thread = "ending"]

\* The end of `finally`.
RunDies(l, m) ==
  /\ l.thread = "ending"
  /\ m = [l EXCEPT !.thread = "dead", !.status = IF l.stop THEN "offline" ELSE @]

\* The writer reports after each write, whatever became of the run thread.
WriterReports(l, m) ==
  /\ l.writer
  /\ m = [l EXCEPT !.status = "active"]

\* The writer returns only once it is told to stop, by stop() or by `finally`.
WriterExits(l, m) ==
  /\ l.writer
  /\ l.stop \/ l.thread # "alive"
  /\ m = [l EXCEPT !.writer = FALSE]

\* stop() sets the event and, later, the health.
StopRequested(l, m) ==
  /\ ~l.stop
  /\ m = [l EXCEPT !.stop = TRUE]

StopReports(l, m) ==
  /\ l.stop
  /\ m = [l EXCEPT !.status = "offline"]

\* A step of the runtime's own threads.
OwnStep(l, m) ==
  \/ RunReports(l, m) \/ RunFails(l, m) \/ RunStops(l, m) \/ RunDies(l, m)
  \/ WriterReports(l, m) \/ WriterExits(l, m)

LifeStep(l, m) == OwnStep(l, m) \/ StopRequested(l, m) \/ StopReports(l, m)
=============================================================================
