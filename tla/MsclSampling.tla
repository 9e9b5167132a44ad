---------------------------- MODULE MsclSampling -----------------------------
(***************************************************************************)
(* The sampling runs of the MSCL collector (app/mscl/mscl_config.py,       *)
(* mscl_sampling_run_service.py, mscl_sampling_service.py): what is         *)
(* recorded of the nodes' runs, and the threads that end the timed ones.    *)
(*                                                                         *)
(* Every handler and every timer thread holds OP_LOCK for all it does, so   *)
(* each is one step.  A token is the time.time() of a start; only equality  *)
(* with the token of a timer matters, so the renewed token of a stop is the *)
(* token no start has.  What the radio does to a node is left out: a node   *)
(* answers an idle command or it does not, and the base may be away at any  *)
(* request.                                                                *)
(***************************************************************************)
EXTENDS Integers, FiniteSets

CONSTANTS
  Nodes,        \* MSCL_NODE_IDS
  MaxStarts     \* bound of the model: runs started

ASSUME StartsAssumption == MaxStarts \in Nat

Tokens == 1 .. MaxStarts
NoToken == 0

VARIABLES
  runs,       \* SAMPLE_RUNS
  tokens,     \* SAMPLE_STOP_TOKENS
  timers,     \* threads in _schedule_idle_after
  elapsed,    \* tokens whose duration is over
  lastToken   \* the clock, in starts

samplingVars == <<runs, tokens, timers, elapsed, lastToken>>

\* idleMissed: auto_idle_confirmed is there and False.
NoRun == [state |-> "none", timed |-> FALSE, token |-> NoToken, idleMissed |-> FALSE]

\* What else is kept of a run that is over is only shown.
Ended == [NoRun EXCEPT !.state = "stopped"]

SamplingInit ==
  /\ runs = [n \in Nodes |-> NoRun]
  /\ tokens = [n \in Nodes |-> NoToken]
  /\ timers = {}
  /\ elapsed = {}
  /\ lastToken = 0

\* _is_sampling_active: by the record and the clock, not by the node.
SamplingActive(n) ==
  /\ runs[n].state = "running"
  /\ runs[n].timed => runs[n].token \notin elapsed

-----------------------------------------------------------------------------
(* The handlers.  A request that fails leaves everything as it is.         *)

\* Mutant: the threads are handed the token of the start before.
RecordStartOldToken(started, timed) ==
  /\ lastToken < MaxStarts
  /\ started # {}
  /\ lastToken' = lastToken + 1
  /\ runs' = [n \in Nodes |->
       IF n \in started
       THEN [state |-> "running", timed |-> timed, token |-> lastToken', idleMissed |-> FALSE]
       ELSE runs[n]]
  /\ tokens' = [n \in Nodes |-> IF n \in started THEN lastToken' ELSE tokens[n]]
  /\ timers' = IF timed THEN timers \cup [node : started, token : {lastToken}] ELSE timers
  /\ UNCHANGED elapsed

\* start_sampling_run, start_sampling_group_run: the nodes that were verified,
\* configured and started; the ones a group start skips keep what they have.
RecordStart(started, timed) ==
  /\ lastToken < MaxStarts
  /\ started # {}
  /\ lastToken' = lastToken + 1
  /\ runs' = [n \in Nodes |->
       IF n \in started
       THEN [state |-> "running", timed |-> timed, token |-> lastToken', idleMissed |-> FALSE]
       ELSE runs[n]]
  /\ tokens' = [n \in Nodes |-> IF n \in started THEN lastToken' ELSE tokens[n]]
  /\ timers' = IF timed THEN timers \cup [node : started, token : {lastToken'}] ELSE timers
  /\ UNCHANGED elapsed

\* Mutant: the token is renewed for the nodes the command fails for, too.
RecordStopRenewsFirst(stopped) ==
  /\ runs' = [n \in Nodes |-> IF n \in stopped THEN Ended ELSE runs[n]]
  /\ tokens' = [n \in Nodes |-> NoToken]
  /\ UNCHANGED <<timers, elapsed, lastToken>>

\* api_sampling_stop, api_sampling_group_stop: the nodes the idle command could
\* be sent to, whether or not they answered; an exception leaves its node out.
RecordStop(stopped) ==
  /\ runs' = [n \in Nodes |-> IF n \in stopped THEN Ended ELSE runs[n]]
  /\ tokens' = [n \in Nodes |-> IF n \in stopped THEN NoToken ELSE tokens[n]]
  /\ UNCHANGED <<timers, elapsed, lastToken>>

-----------------------------------------------------------------------------
(* A timer thread, _schedule_idle_after.                                   *)

DurationElapses(t) ==
  /\ t \in {timer.token : timer \in timers} \ elapsed
  /\ elapsed' = elapsed \cup {t}
  /\ UNCHANGED <<runs, tokens, timers, lastToken>>

\* Mutant: the tokens are not compared.
AnyTimerIsCurrent(timer) == TRUE

TimerIsCurrent(timer) == tokens[timer.node] = timer.token

TimerWakes(timer) ==
  /\ timer \in timers
  /\ timer.token \in elapsed
  /\ timers' = timers \ {timer}
  /\ UNCHANGED <<tokens, elapsed, lastToken>>

TimerOfEarlierRun(timer) ==
  /\ TimerWakes(timer)
  /\ ~TimerIsCurrent(timer)
  /\ UNCHANGED runs

\* The node says it is idle within three commands.
TimerIdles(timer) ==
  /\ TimerWakes(timer)
  /\ TimerIsCurrent(timer)
  /\ runs' = [runs EXCEPT ![timer.node] = Ended]

\* The base is away, a command fails or the node does not say so: that is
\* noted, and nothing tries again.
TimerGivesUp(timer) ==
  /\ TimerWakes(timer)
  /\ TimerIsCurrent(timer)
  /\ runs' = [runs EXCEPT ![timer.node].idleMissed = TRUE]

\* All of this is in memory; the container may be restarted at any time.
Restart ==
  /\ runs # [n \in Nodes |-> NoRun]
  /\ runs' = [n \in Nodes |-> NoRun]
  /\ tokens' = [n \in Nodes |-> NoToken]
  /\ timers' = {}
  /\ elapsed' = {}
  /\ UNCHANGED lastToken

TimerNext ==
  \/ \E t \in Tokens : DurationElapses(t)
  \/ \E timer \in timers :
       TimerOfEarlierRun(timer) \/ TimerIdles(timer) \/ TimerGivesUp(timer)

\* The collector with clients of any kind.
SamplingNext ==
  \/ \E started \in SUBSET Nodes, timed \in BOOLEAN : RecordStart(started, timed)
  \/ \E stopped \in SUBSET Nodes : RecordStop(stopped)
  \/ TimerNext
  \/ Restart

SamplingSpec == SamplingInit /\ [][SamplingNext]_samplingVars

-----------------------------------------------------------------------------
(* Properties.                                                             *)

Timer == [node : Nodes, token : Tokens]

SamplingTypeOK ==
  /\ runs \in [Nodes -> [state : {"none", "running", "stopped"}, timed : BOOLEAN,
                         token : Tokens \cup {NoToken}, idleMissed : BOOLEAN]]
  /\ tokens \in [Nodes -> Tokens \cup {NoToken}]
  /\ timers \subseteq Timer
  /\ elapsed \subseteq Tokens
  /\ lastToken \in 0 .. MaxStarts

\* A timer that wakes changes no run but the one it was started for, and that
\* only while it runs: neither a later run of the node nor a stopped one.
TimerKeepsToItsRun ==
  [][~Restart => \A timer \in timers \ timers' : LET n == timer.node IN
       runs'[n] # runs[n] =>
         runs[n].state = "running" /\ runs[n].token = timer.token]_samplingVars

\* A timed run that is shown running has its timer ahead of it, and the timer
\* will act; or the timer has noted that the node could not be made idle.  So
\* no refused start, half-failed stop or skipped node leaves a run unwatched.
TimedRunWatched ==
  \A n \in Nodes :
    runs[n].state = "running" /\ runs[n].timed =>
      \/ runs[n].idleMissed
      \/ /\ [node |-> n, token |-> runs[n].token] \in timers
         /\ tokens[n] = runs[n].token
=============================================================================
