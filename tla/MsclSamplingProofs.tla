------------------------- MODULE MsclSamplingProofs -------------------------
(***************************************************************************)
(* What holds of the sampling runs for any nodes and any number of runs.   *)
(*                                                                         *)
(* That a timed run is watched is inductive as it stands.  That a timer     *)
(* keeps to its run is not: a timer compares tokens, and the property is    *)
(* about the record.  RunOfCurrentTimer ties the two: the record of a node  *)
(* whose token a waiting timer has is that timer's run, still running.  A   *)
(* start preserves it because its token is one no timer has (TokensKnown).  *)
(***************************************************************************)
EXTENDS MsclSampling, TLAPS

TokensKnown == \A timer \in timers : timer.token \in 1 .. lastToken

RunOfCurrentTimer ==
  \A timer \in timers : TimerIsCurrent(timer) =>
    runs[timer.node].state = "running" /\ runs[timer.node].token = timer.token

SamplingIInv ==
  SamplingTypeOK /\ TokensKnown /\ RunOfCurrentTimer /\ TimedRunWatched

Run == [state : {"none", "running", "stopped"}, timed : BOOLEAN,
        token : Tokens \cup {NoToken}, idleMissed : BOOLEAN]

LEMMA EndedRun == Ended \in Run /\ Ended.state = "stopped"
  BY DEF Ended, NoRun, Run

LEMMA SamplingInitIInv == SamplingInit => SamplingIInv
  BY StartsAssumption
  DEF SamplingInit, SamplingIInv, SamplingTypeOK, TokensKnown, RunOfCurrentTimer,
      TimedRunWatched, NoRun, Tokens, NoToken, Timer

\* A start adds one fresh token.
LEMMA RecordStartIInv ==
  ASSUME SamplingIInv, NEW started \in SUBSET Nodes, NEW timed \in BOOLEAN,
         RecordStart(started, timed)
  PROVE  SamplingIInv'
<1> USE DEF SamplingIInv, Timer
<1>1. lastToken' \in Tokens /\ lastToken' = lastToken + 1 /\ lastToken \in Nat
  BY StartsAssumption DEF RecordStart, SamplingTypeOK, Tokens
<1>2. runs' \in [Nodes -> Run]
  BY <1>1 DEF RecordStart, SamplingTypeOK, Run
<1>3. tokens' \in [Nodes -> Tokens \cup {NoToken}]
  BY <1>1 DEF RecordStart, SamplingTypeOK
<1>4. timers' \subseteq Timer
  BY <1>1 DEF RecordStart, SamplingTypeOK
<1>5. SamplingTypeOK'
  BY <1>1, <1>2, <1>3, <1>4, StartsAssumption
  DEF RecordStart, SamplingTypeOK, Run, Tokens
<1>6. TokensKnown'
  BY <1>1 DEF RecordStart, TokensKnown
<1>7. \A n \in Nodes \ started : runs'[n] = runs[n] /\ tokens'[n] = tokens[n]
  BY DEF RecordStart, SamplingTypeOK
<1>8. \A n \in started :
        /\ runs'[n] = [state |-> "running", timed |-> timed, token |-> lastToken',
                       idleMissed |-> FALSE]
        /\ tokens'[n] = lastToken'
  BY DEF RecordStart, SamplingTypeOK
<1>9. RunOfCurrentTimer'
  <2> SUFFICES ASSUME NEW timer \in timers', TimerIsCurrent(timer)'
               PROVE  /\ runs'[timer.node].state = "running"
                      /\ runs'[timer.node].token = timer.token
    BY DEF RunOfCurrentTimer
  <2>1. CASE timer.node \in started
    BY <2>1, <1>8 DEF TimerIsCurrent
  <2>2. CASE timer.node \notin started
    <3>1. timer \in timers /\ timer.node \in Nodes \ started
      BY <2>2, <1>4 DEF RecordStart
    <3> QED
      BY <3>1, <1>7 DEF RunOfCurrentTimer, TimerIsCurrent
  <2> QED BY <2>1, <2>2
<1>10. TimedRunWatched'
  <2> SUFFICES ASSUME NEW n \in Nodes,
                      runs'[n].state = "running", runs'[n].timed, ~runs'[n].idleMissed
               PROVE  /\ [node |-> n, token |-> runs'[n].token] \in timers'
                      /\ tokens'[n] = runs'[n].token
    BY DEF TimedRunWatched
  <2>1. CASE n \in started
    BY <2>1, <1>8 DEF RecordStart
  <2>2. CASE n \notin started
    BY <2>2, <1>7 DEF RecordStart, TimedRunWatched
  <2> QED BY <2>1, <2>2
<1> QED BY <1>5, <1>6, <1>9, <1>10

LEMMA RecordStopIInv ==
  ASSUME SamplingIInv, NEW stopped \in SUBSET Nodes, RecordStop(stopped)
  PROVE  SamplingIInv'
<1> USE DEF SamplingIInv, Timer
<1>1. \A n \in Nodes \ stopped : runs'[n] = runs[n] /\ tokens'[n] = tokens[n]
  BY DEF RecordStop, SamplingTypeOK
<1>2. \A n \in stopped : runs'[n].state = "stopped" /\ tokens'[n] = NoToken
  BY EndedRun DEF RecordStop, SamplingTypeOK
<1>3. SamplingTypeOK'
  BY EndedRun DEF RecordStop, SamplingTypeOK, Run
<1>4. TokensKnown'
  BY DEF RecordStop, TokensKnown
<1>5. RunOfCurrentTimer'
  <2> SUFFICES ASSUME NEW timer \in timers, tokens'[timer.node] = timer.token
               PROVE  /\ runs'[timer.node].state = "running"
                      /\ runs'[timer.node].token = timer.token
    BY DEF RunOfCurrentTimer, TimerIsCurrent, RecordStop
  <2>1. timer.node \in Nodes /\ timer.token # NoToken
    BY DEF SamplingTypeOK, Tokens, NoToken
  <2>2. timer.node \notin stopped
    BY <2>1, <1>2
  <2> QED BY <2>1, <2>2, <1>1 DEF RunOfCurrentTimer, TimerIsCurrent
<1>6. TimedRunWatched'
  <2> SUFFICES ASSUME NEW n \in Nodes,
                      runs'[n].state = "running", runs'[n].timed, ~runs'[n].idleMissed
               PROVE  /\ [node |-> n, token |-> runs'[n].token] \in timers'
                      /\ tokens'[n] = runs'[n].token
    BY DEF TimedRunWatched
  <2>1. n \notin stopped
    BY <1>2
  <2> QED BY <2>1, <1>1 DEF RecordStop, TimedRunWatched
<1> QED BY <1>3, <1>4, <1>5, <1>6

\* A timer that ends: the record of its own node at most changes.
LEMMA TimerIInv ==
  ASSUME SamplingIInv, NEW timer \in timers,
         TimerOfEarlierRun(timer) \/ TimerIdles(timer) \/ TimerGivesUp(timer)
  PROVE  SamplingIInv'
<1> USE DEF SamplingIInv, Timer
<1>1. /\ timer.node \in Nodes
      /\ timers' = timers \ {timer}
      /\ UNCHANGED <<tokens, elapsed, lastToken>>
  BY DEF SamplingTypeOK, TimerOfEarlierRun, TimerIdles, TimerGivesUp, TimerWakes
<1>2. runs' \in [Nodes -> Run]
  <2>1. runs[timer.node] \in Run /\ runs \in [Nodes -> Run]
    BY <1>1 DEF SamplingTypeOK, Run
  <2>2. CASE TimerOfEarlierRun(timer)
    BY <2>1, <2>2 DEF TimerOfEarlierRun
  <2>3. CASE TimerIdles(timer)
    BY <2>1, <2>3, EndedRun DEF TimerIdles
  <2>4. CASE TimerGivesUp(timer)
    <3>1. [runs[timer.node] EXCEPT !.idleMissed = TRUE] \in Run
      BY <2>1 DEF Run
    <3> QED BY <3>1, <2>1, <2>4 DEF TimerGivesUp
  <2> QED BY <2>2, <2>3, <2>4
<1>3. \A n \in Nodes \ {timer.node} : runs'[n] = runs[n]
  BY DEF SamplingTypeOK, TimerOfEarlierRun, TimerIdles, TimerGivesUp
<1>4. SamplingTypeOK'
  BY <1>1, <1>2 DEF SamplingTypeOK, Run
<1>5. TokensKnown'
  BY <1>1 DEF TokensKnown
<1>6. RunOfCurrentTimer'
  <2> SUFFICES ASSUME NEW other \in timers', tokens[other.node] = other.token
               PROVE  /\ runs'[other.node].state = "running"
                      /\ runs'[other.node].token = other.token
    BY <1>1 DEF RunOfCurrentTimer, TimerIsCurrent
  <2>1. /\ other \in timers
        /\ other # timer
        /\ runs[other.node].state = "running" /\ runs[other.node].token = other.token
    BY <1>1 DEF RunOfCurrentTimer, TimerIsCurrent
  <2>2. CASE other.node # timer.node
    BY <2>1, <2>2, <1>3 DEF SamplingTypeOK
  <2>3. CASE other.node = timer.node
    <3>1. other.token # timer.token
      BY <2>1, <2>3 DEF SamplingTypeOK
    <3>2. TimerOfEarlierRun(timer)
      BY <3>1, <2>3 DEF TimerIdles, TimerGivesUp, TimerIsCurrent
    <3> QED BY <3>2, <2>1 DEF TimerOfEarlierRun
  <2> QED BY <2>2, <2>3
<1>7. TimedRunWatched'
  <2> SUFFICES ASSUME NEW n \in Nodes,
                      runs'[n].state = "running", runs'[n].timed, ~runs'[n].idleMissed
               PROVE  /\ [node |-> n, token |-> runs'[n].token] \in timers'
                      /\ tokens[n] = runs'[n].token
    BY <1>1 DEF TimedRunWatched
  <2>1. CASE n # timer.node
    BY <2>1, <1>1, <1>3 DEF TimedRunWatched
  <2>2. CASE n = timer.node
    <3> DEFINE r == runs[timer.node]
    <3>1. r \in Run /\ runs \in [Nodes -> Run] /\ timer.node \in Nodes
      BY <1>1 DEF SamplingTypeOK, Run
    <3>2. ~TimerIdles(timer)
      <4> SUFFICES ASSUME TimerIdles(timer) PROVE FALSE
        OBVIOUS
      <4>1. runs'[n] = Ended
        BY <3>1, <2>2 DEF TimerIdles
      <4> QED BY <4>1, EndedRun
    <3>3. ~TimerGivesUp(timer)
      <4> SUFFICES ASSUME TimerGivesUp(timer) PROVE FALSE
        OBVIOUS
      <4>1. runs'[n] = [r EXCEPT !.idleMissed = TRUE]
        BY <3>1, <2>2 DEF TimerGivesUp
      <4>2. [r EXCEPT !.idleMissed = TRUE].idleMissed = TRUE
        BY <3>1 DEF Run
      <4> QED BY <4>1, <4>2
    <3>4. TimerOfEarlierRun(timer)
      BY <3>2, <3>3
    <3> QED
      BY <3>4, <2>2, <1>1
      DEF TimerOfEarlierRun, TimerIsCurrent, TimedRunWatched
  <2> QED BY <2>1, <2>2
<1> QED BY <1>4, <1>5, <1>6, <1>7

LEMMA SamplingNextIInv == SamplingIInv /\ [SamplingNext]_samplingVars => SamplingIInv'
<1> SUFFICES ASSUME SamplingIInv, [SamplingNext]_samplingVars PROVE SamplingIInv'
  OBVIOUS
<1>1. CASE \E started \in SUBSET Nodes, timed \in BOOLEAN : RecordStart(started, timed)
  BY <1>1, RecordStartIInv
<1>2. CASE \E stopped \in SUBSET Nodes : RecordStop(stopped)
  BY <1>2, RecordStopIInv
<1>3. CASE \E t \in Tokens : DurationElapses(t)
  BY <1>3
  DEF DurationElapses, SamplingIInv, SamplingTypeOK, TokensKnown, RunOfCurrentTimer,
      TimerIsCurrent, TimedRunWatched
<1>4. CASE \E timer \in timers :
             TimerOfEarlierRun(timer) \/ TimerIdles(timer) \/ TimerGivesUp(timer)
  BY <1>4, TimerIInv
<1>5. CASE Restart
  BY <1>5
  DEF Restart, SamplingIInv, SamplingTypeOK, TokensKnown, RunOfCurrentTimer,
      TimedRunWatched, NoRun
<1>6. CASE UNCHANGED samplingVars
  BY <1>6
  DEF samplingVars, SamplingIInv, SamplingTypeOK, TokensKnown, RunOfCurrentTimer,
      TimerIsCurrent, TimedRunWatched
<1> QED
  BY <1>1, <1>2, <1>3, <1>4, <1>5, <1>6 DEF SamplingNext, TimerNext

\* Only a timer that wakes, or a restart, takes a timer away.
LEMMA TimerStep ==
  ASSUME SamplingIInv, [SamplingNext]_samplingVars, ~Restart,
         NEW timer \in timers \ timers', runs'[timer.node] # runs[timer.node]
  PROVE  runs[timer.node].state = "running" /\ runs[timer.node].token = timer.token
<1>1. PICK woken \in timers :
        TimerOfEarlierRun(woken) \/ TimerIdles(woken) \/ TimerGivesUp(woken)
  BY DEF SamplingNext, TimerNext, samplingVars, RecordStart, RecordStop, DurationElapses
<1>2. woken = timer
  BY <1>1 DEF TimerOfEarlierRun, TimerIdles, TimerGivesUp, TimerWakes
<1>3. TimerIsCurrent(timer)
  BY <1>1, <1>2 DEF TimerOfEarlierRun, TimerIdles, TimerGivesUp
<1> QED
  BY <1>3 DEF SamplingIInv, RunOfCurrentTimer

-----------------------------------------------------------------------------

\* The invariant the others come from.
THEOREM SamplingInvariant == SamplingSpec => []SamplingIInv
<1> QED
  BY SamplingInitIInv, SamplingNextIInv, PTL DEF SamplingSpec

\* However starts, stops, restarts and timers interleave, a timed run that is
\* shown running has a timer that will act, or has noted that it could not.
THEOREM SamplingWatched == SamplingSpec => []TimedRunWatched
<1>1. SamplingIInv => TimedRunWatched
  BY DEF SamplingIInv
<1> QED BY <1>1, SamplingInvariant, PTL

\* A timer changes no run but its own, and that only while it runs.
THEOREM SamplingTimers == SamplingSpec => TimerKeepsToItsRun
<1>1. SamplingIInv /\ [SamplingNext]_samplingVars =>
        [~Restart => \A timer \in timers \ timers' : LET n == timer.node IN
           runs'[n] # runs[n] =>
             runs[n].state = "running" /\ runs[n].token = timer.token]_samplingVars
  BY TimerStep
<1> QED
  BY <1>1, SamplingInvariant, PTL DEF SamplingSpec, TimerKeepsToItsRun
=============================================================================
