---------------------- MODULE ServiceControllerProofs ----------------------
(***************************************************************************)
(* Proofs about ServiceController, for any targets and containers, any      *)
(* times, any number of requests and faults.                               *)
(*                                                                         *)
(* That the file and the memory agree between requests is not inductive:    *)
(* a request is several steps.  PausesSaved says which of them still has to *)
(* save.  That a stop holds is a claim about the guards, who ask only for   *)
(* the pause in memory; StoppedPaused ties the containers a request stopped *)
(* to that pause and to the file, which a restarted controller reads, and   *)
(* WorkPaused does so for the containers a request is about to stop.        *)
(***************************************************************************)
EXTENDS ServiceController, SequenceTheorems, TLAPS

Step == [name : Containers, run : BOOLEAN]
Actions == {"start", "stop", "restart"}

\* Only a request that has not saved yet may leave file and memory apart.
PausesSaved == ~damaged => (phase # "saving" => saved = paused)

\* The target of a container stopped on request is paused, in memory and file.
StoppedPaused ==
  ~damaged => \A g \in Guarded :
    Container(g) \in userStopped => g \in paused /\ g \in saved

\* What a stop request is about to stop has its target paused already.
WorkPaused ==
  action = "stop" =>
    \A i \in DOMAIN work : \A g \in Guarded : work[i].name = Container(g) => g \in paused

ControllerIInv ==
  /\ ControllerTypeOK
  /\ work \in Seq(Step)
  /\ PausesSaved
  /\ StoppedPaused
  /\ WorkPaused

-----------------------------------------------------------------------------
(* Targets and their steps.                                                *)

LEMMA GuardedTarget ==
  ASSUME NEW g \in Guarded
  PROVE  /\ g \in Targets
         /\ Container(g) \in Containers
         /\ \A t \in Targets : Container(g) \in ToSet(TargetMap[t]) => t = g
<1>1. g \in Targets /\ TargetMap[g] \in Seq(Containers) /\ Len(TargetMap[g]) = 1
  BY TargetMapAssumption, GuardedAssumption
<1> QED BY <1>1, GuardedAssumption DEF Container

\* The steps of a request, stopping those of the target only.
LEMMA StepsOfTarget ==
  ASSUME NEW t \in Targets, NEW a \in Actions
  PROVE  /\ Steps(t, a) \in Seq(Step)
         /\ a = "stop" => \A i \in DOMAIN Steps(t, a) :
                            Steps(t, a)[i].name \in ToSet(TargetMap[t])
<1> DEFINE map == TargetMap[t]
<1>1. map \in Seq(Containers)
  BY TargetMapAssumption
<1>2. \A i \in 1 .. Len(map) :
        /\ map[i] \in Containers
        /\ Reverse(map)[i] = map[Len(map) - i + 1]
        /\ Len(map) - i + 1 \in 1 .. Len(map)
  BY <1>1 DEF Reverse
<1> DEFINE names == 1 .. Len(map)
<1>10. DOMAIN map = names /\ Len(map) \in Nat
  BY <1>1
<1>11. \A f \in [names -> Step] : f \in Seq(Step)
  BY <1>10
<1>3. Starts(t) \in Seq(Step)
  <2>1. Starts(t) = [i \in names |-> [name |-> map[i], run |-> TRUE]]
    BY <1>10 DEF Starts
  <2>2. \A i \in names : [name |-> map[i], run |-> TRUE] \in Step
    BY <1>2 DEF Step
  <2>3. Starts(t) \in [names -> Step]
    BY <2>1, <2>2
  <2> QED BY <2>3, <1>11
<1>4. /\ Stops(t) \in Seq(Step)
      /\ DOMAIN Stops(t) = names
      /\ \A i \in DOMAIN Stops(t) : Stops(t)[i].name = Reverse(map)[i]
  <2>1. Stops(t) = [i \in names |-> [name |-> Reverse(map)[i], run |-> FALSE]]
    BY <1>10 DEF Stops
  <2>2. \A i \in names : [name |-> Reverse(map)[i], run |-> FALSE] \in Step
    BY <1>2 DEF Step
  <2>3. Stops(t) \in [names -> Step]
    BY <2>1, <2>2
  <2>4. Stops(t) \in Seq(Step)
    BY <2>3, <1>11
  <2>5. DOMAIN Stops(t) = names /\ \A i \in names : Stops(t)[i].name = Reverse(map)[i]
    BY <2>1
  <2> QED BY <2>4, <2>5
<1>5. Stops(t) \o Starts(t) \in Seq(Step)
  BY <1>3, <1>4
<1>6. \A i \in DOMAIN Stops(t) : Stops(t)[i].name \in ToSet(map)
  BY <1>1, <1>2, <1>4 DEF ToSet
<1>7. CASE a = "start"  BY <1>3, <1>7 DEF Steps
<1>8. CASE a = "stop"  BY <1>4, <1>6, <1>8 DEF Steps
<1>9. CASE a = "restart"  BY <1>5, <1>9 DEF Steps
<1> QED BY <1>7, <1>8, <1>9 DEF Actions

\* Time passes for all guards and devices at once.
LEMMA OlderType ==
  ASSUME NEW cap \in Nat, NEW low \in {Unset, 0},
         NEW ages \in [Guarded -> low .. cap]
  PROVE  Older(ages, cap) \in [Guarded -> low .. cap]
  BY DEF Older, Unset

-----------------------------------------------------------------------------
(* The invariant.                                                          *)

LEMMA ControllerInitIInv == ControllerInit => ControllerIInv
<1> SUFFICES ASSUME ControllerInit PROVE ControllerIInv  OBVIOUS
<1> USE DEF ControllerInit
<1>1. work \in Seq(Step)  OBVIOUS
<1>2. since \in [Guarded -> Unset .. Settle] /\ startAge \in [Guarded -> 0 .. Retry]
      /\ there \in [Guarded -> Unset .. Settle]
  BY TimesAssumption DEF Unset
<1>3. ControllerTypeOK
  <2>1. present = {g \in Guarded : there[g] # Unset}
    BY DEF Unset
  <2>2. ClockHonest
    BY DEF ClockHonest
  <2> QED BY <1>2, <2>1, <2>2 DEF ControllerTypeOK
<1> QED BY <1>1, <1>3 DEF ControllerIInv, PausesSaved, StoppedPaused, WorkPaused

\* Docker does what it is asked, or a fault is counted.
LEMMA SetRunningType ==
  ASSUME running \subseteq Containers, NEW c \in Containers, NEW should \in BOOLEAN,
         SetRunning(c, should)
  PROVE  running' \subseteq Containers
  BY DEF SetRunning

\* Guards and environment leave pauses and requests alone.
LEMMA UnrelatedIInv ==
  ASSUME ControllerIInv, UNCHANGED <<pauseVars, requestVars>>, ControllerTypeOK'
  PROVE  ControllerIInv'
  BY DEF ControllerIInv, PausesSaved, StoppedPaused, WorkPaused, pauseVars, requestVars

\* With the guards' variables and the pauses unchanged only little is left.
LEMMA GuardStepIInv ==
  ASSUME ControllerIInv, NEW g \in Guarded, GuardStep(g)
  PROVE  ControllerIInv'
<1> USE DEF ControllerIInv
<1>1. Container(g) \in Containers
  BY GuardedTarget
<1>2. UNCHANGED <<plugVars, pauseVars, requestVars>>
  BY DEF GuardStep
<1>3. running' \subseteq Containers
  BY <1>1 DEF GuardStep, GuardMissing, GuardSettling, GuardStable, SetRunning,
             ControllerTypeOK
<1>4. /\ since' \in [Guarded -> Unset .. Settle]
      /\ startAge' \in [Guarded -> 0 .. Retry]
      /\ unseen' \subseteq Guarded
      /\ ClockHonest'
  <2> USE TimesAssumption DEF ControllerTypeOK, Unset
  <2>1. CASE GuardMissing(g)
    <3>1. since' = [since EXCEPT ![g] = -1] /\ unseen' = unseen \ {g}
      BY <2>1 DEF GuardMissing, SinceAfterAbsence
    <3>2. startAge' = startAge \/ startAge' = [startAge EXCEPT ![g] = StampAfter(g)]
      BY <2>1 DEF GuardMissing
    <3>3. StampAfter(g) \in 0 .. Retry
      BY DEF StampAfter
    <3>4. startAge' \in [Guarded -> 0 .. Retry]
      BY <3>2, <3>3
    <3>5. ClockHonest'
      <4> SUFFICES ASSUME NEW h \in Guarded, h \notin unseen', since'[h] # Unset
                   PROVE  h \in present' /\ since'[h] <= there'[h]
        BY DEF ClockHonest
      <4>1. h # g /\ since'[h] = since[h] /\ h \notin unseen
        BY <3>1
      <4> QED BY <4>1, <1>2 DEF ClockHonest, plugVars
    <3>6. since' \in [Guarded -> Unset .. Settle] /\ unseen' \subseteq Guarded
      BY <3>1
    <3> QED BY <3>4, <3>5, <3>6
  <2>2. CASE GuardSettling(g)
    <3>1. /\ since' = [since EXCEPT ![g] = SinceWhilePresent(g)]
          /\ UNCHANGED <<unseen, startAge>> /\ g \in present
      BY <2>2 DEF GuardSettling
    <3>2. SinceWhilePresent(g) \in 0 .. Settle
      BY DEF SinceWhilePresent
    <3>3. ClockHonest'
      <4> SUFFICES ASSUME NEW h \in Guarded, h \notin unseen', since'[h] # Unset
                   PROVE  h \in present' /\ since'[h] <= there'[h]
        BY DEF ClockHonest
      <4>1. UNCHANGED <<present, there>>
        BY <1>2 DEF plugVars
      <4>2. CASE h = g /\ since[g] = Unset
        <5>1. since'[h] = 0 /\ there[h] \in Int /\ there[h] # -1 /\ there[h] >= -1
          BY <3>1, <4>2 DEF SinceWhilePresent
        <5> QED BY <5>1, <4>1, <4>2, <3>1
      <4>3. CASE h # g \/ since[g] # Unset
        <5>1. since'[h] = since[h]
          BY <3>1, <4>3 DEF SinceWhilePresent
        <5> QED BY <5>1, <4>1, <3>1 DEF ClockHonest
      <4> QED BY <4>2, <4>3
    <3> QED BY <3>1, <3>2, <3>3
  <2>3. CASE GuardStable(g) \/ UNCHANGED guardVars
    <3>1. UNCHANGED <<since, unseen, present, there>>
      BY <2>3, <1>2 DEF GuardStable, guardVars, plugVars
    <3>2. startAge' = startAge
      BY <2>3 DEF GuardStable, guardVars
    <3> QED BY <3>1, <3>2 DEF ClockHonest
  <2> QED BY <2>1, <2>2, <2>3 DEF GuardStep
<1>5. ControllerTypeOK'
  BY <1>2, <1>3, <1>4 DEF ControllerTypeOK, plugVars, pauseVars, requestVars
<1> QED BY <1>2, <1>5, UnrelatedIInv

LEMMA TickIInv ==
  ASSUME ControllerIInv, Tick
  PROVE  ControllerIInv'
<1> USE DEF ControllerIInv
<1>1. UNCHANGED <<present, running, unseen, pauseVars, requestVars>>
  BY DEF Tick
<1>2. since' \in [Guarded -> Unset .. Settle] /\ startAge' \in [Guarded -> 0 .. Retry]
      /\ there' \in [Guarded -> Unset .. Settle]
  BY OlderType, TimesAssumption DEF Tick, ControllerTypeOK
<1>3. ASSUME NEW h \in Guarded
      PROVE  /\ there'[h] # Unset <=> there[h] # Unset
             /\ since'[h] # Unset <=> since[h] # Unset
             /\ since[h] <= there[h] => since'[h] <= there'[h]
  <2>1. since[h] \in -1 .. Settle /\ there[h] \in -1 .. Settle /\ Settle \in Nat \ {0}
    BY TimesAssumption DEF ControllerTypeOK, Unset
  <2>2. since'[h] = IF since[h] \in 0 .. (Settle - 1) THEN since[h] + 1 ELSE since[h]
    BY DEF Tick, Older
  <2>3. there'[h] = IF there[h] \in 0 .. (Settle - 1) THEN there[h] + 1 ELSE there[h]
    BY DEF Tick, Older
  <2> QED BY <2>1, <2>2, <2>3 DEF Unset
<1>4. ClockHonest'
  BY <1>1, <1>3 DEF ClockHonest, ControllerTypeOK
<1>5. present' = {h \in Guarded : there'[h] # Unset}
  BY <1>1, <1>3 DEF ControllerTypeOK
<1>6. ControllerTypeOK'
  BY <1>1, <1>2, <1>4, <1>5 DEF ControllerTypeOK, pauseVars, requestVars
<1> QED BY <1>1, <1>6, UnrelatedIInv

\* A device that comes or goes: its time starts anew, and an unplug the guard's
\* clock does not know of is noted.
LEMMA PlugIInv ==
  ASSUME ControllerIInv, NEW g \in Guarded, Plug(g) \/ Unplug(g)
  PROVE  ControllerIInv'
<1> USE TimesAssumption DEF ControllerIInv, ControllerTypeOK, Unset
<1>1. UNCHANGED <<running, since, startAge, pauseVars, requestVars>>
  BY DEF Plug, Unplug, guardVars
<1>2. CASE Plug(g)
  <2>1. /\ present' = present \cup {g} /\ there' = [there EXCEPT ![g] = 0]
        /\ g \notin present /\ unseen' = unseen
    BY <1>2 DEF Plug, guardVars
  <2>2. present' = {h \in Guarded : there'[h] # Unset} /\ there' \in [Guarded -> Unset .. Settle]
    BY <2>1
  <2>3. ClockHonest'
    <3> SUFFICES ASSUME NEW h \in Guarded, h \notin unseen', since'[h] # Unset
                 PROVE  h \in present' /\ since'[h] <= there'[h]
      BY DEF ClockHonest
    <3>1. h \in present /\ since[h] <= there[h]
      BY <1>1, <2>1 DEF ClockHonest
    <3>2. h # g /\ there'[h] = there[h]
      BY <3>1, <2>1
    <3> QED BY <3>1, <3>2, <1>1, <2>1
  <2> QED BY <1>1, <2>1, <2>2, <2>3, UnrelatedIInv DEF pauseVars, requestVars
<1>3. CASE Unplug(g)
  <2>1. /\ present' = present \ {g} /\ there' = [there EXCEPT ![g] = Unset]
        /\ unseen' = IF since[g] = Unset THEN unseen ELSE unseen \cup {g}
    BY <1>3 DEF Unplug
  <2>2. present' = {h \in Guarded : there'[h] # Unset} /\ there' \in [Guarded -> Unset .. Settle]
        /\ unseen' \subseteq Guarded
    BY <2>1
  <2>3. ClockHonest'
    <3> SUFFICES ASSUME NEW h \in Guarded, h \notin unseen', since'[h] # Unset
                 PROVE  h \in present' /\ since'[h] <= there'[h]
      BY DEF ClockHonest
    <3>1. h # g /\ h \notin unseen /\ there'[h] = there[h]
      BY <1>1, <2>1
    <3> QED BY <3>1, <1>1, <2>1 DEF ClockHonest
  <2> QED BY <1>1, <2>2, <2>3, UnrelatedIInv DEF pauseVars, requestVars
<1> QED BY <1>2, <1>3

\* The pause is there before the first container is stopped, and gone before the
\* first one is started.
LEMMA BeginRequestIInv ==
  ASSUME ControllerIInv, NEW t \in Targets, NEW a \in Actions, BeginRequest(t, a)
  PROVE  ControllerIInv'
<1> USE DEF ControllerIInv
<1>1. work' \in Seq(Step)
  BY StepsOfTarget DEF BeginRequest
<1>2. phase' \in {"saving", "acting"} /\ action' = a /\ phase = "idle"
  BY DEF BeginRequest
<1>3. paused' = IF a = "stop" THEN paused \cup {t} ELSE paused \ {t}
  BY DEF BeginRequest
<1>4. UNCHANGED <<deviceVars, saved, damaged, guardVars>>
  BY DEF BeginRequest
<1>5. userStopped' \subseteq userStopped
  BY DEF BeginRequest
<1>6. ControllerTypeOK'
  BY <1>2, <1>3, <1>4, <1>5 DEF ControllerTypeOK, ClockHonest, plugVars, deviceVars, guardVars, Actions
<1>7. PausesSaved'
  BY <1>2, <1>3, <1>4 DEF PausesSaved, BeginRequest, Saves
<1>8. StoppedPaused'
  <2> SUFFICES ASSUME ~damaged, NEW g \in Guarded, Container(g) \in userStopped'
               PROVE  g \in paused' /\ g \in saved'
    BY <1>4 DEF StoppedPaused, Container
  <2>1. g \in paused /\ g \in saved
    BY <1>5 DEF StoppedPaused
  <2>2. CASE a = "stop"
    BY <2>1, <2>2, <1>3, <1>4
  <2>3. CASE a # "stop"
    <3>1. Container(g) \notin ToSet(TargetMap[t])
      BY <2>3 DEF BeginRequest
    <3>2. Container(g) = TargetMap[g][1] /\ TargetMap[g] \in Seq(Containers)
          /\ Len(TargetMap[g]) = 1
      BY TargetMapAssumption, GuardedAssumption DEF Container
    <3>3. Container(g) \in ToSet(TargetMap[g])
      BY <3>2 DEF ToSet
    <3> QED BY <2>1, <2>3, <3>1, <3>3, <1>3, <1>4
  <2> QED BY <2>2, <2>3
<1>9. WorkPaused'
  <2> SUFFICES ASSUME a = "stop", NEW i \in DOMAIN work', NEW g \in Guarded,
                      work'[i].name = Container(g)
               PROVE  g \in paused'
    BY <1>2 DEF WorkPaused, Container
  <2>1. work' = Steps(t, a)
    BY DEF BeginRequest
  <2>2. Container(g) \in ToSet(TargetMap[t])
    BY <2>1, StepsOfTarget
  <2> QED BY <2>2, <1>3, GuardedTarget
<1> QED BY <1>1, <1>6, <1>7, <1>8, <1>9

LEMMA SaveIInv ==
  ASSUME ControllerIInv, Save \/ SaveFails
  PROVE  ControllerIInv'
<1> USE DEF ControllerIInv
<1>1. UNCHANGED <<deviceVars, paused, guardVars, action, work, userStopped>>
      /\ phase = "saving" /\ phase' = "acting"
  BY DEF Save, SaveFails
<1>2. saved' \subseteq Targets /\ damaged' \in BOOLEAN
  BY DEF Save, SaveFails, ControllerTypeOK
<1>3. ControllerTypeOK'
  BY <1>1, <1>2 DEF ControllerTypeOK, ClockHonest, plugVars, deviceVars, guardVars
<1>4. (saved' = paused' /\ damaged' = damaged) \/ damaged'
  BY DEF Save, SaveFails
<1>5. PausesSaved'
  BY <1>4 DEF PausesSaved
<1>6. StoppedPaused' /\ WorkPaused'
  BY <1>1, <1>4 DEF StoppedPaused, WorkPaused, Container
<1> QED BY <1>1, <1>3, <1>5, <1>6

LEMMA ActIInv ==
  ASSUME ControllerIInv, Act
  PROVE  ControllerIInv'
<1> USE DEF ControllerIInv
<1> DEFINE step == Head(work)
<1>1. /\ step \in Step /\ Tail(work) \in Seq(Step)
      /\ 1 \in DOMAIN work /\ step = work[1]
      /\ \A i \in DOMAIN Tail(work) : i + 1 \in DOMAIN work /\ Tail(work)[i] = work[i + 1]
  BY DEF Act
<1>2. UNCHANGED <<plugVars, pauseVars, guardVars>> /\ phase = "acting"
  BY DEF Act
<1>3. running' \subseteq Containers
  <2>1. SetRunning(step.name, step.run)
    BY DEF Act
  <2>2. step.name \in Containers /\ step.run \in BOOLEAN
    BY <1>1 DEF Step
  <2> QED BY <2>1, <2>2 DEF SetRunning, ControllerTypeOK
<1>4. \/ userStopped' = userStopped
      \/ action = "stop" /\ userStopped' = userStopped \cup {step.name}
  BY DEF Act
<1>5. \/ work' = Tail(work) /\ UNCHANGED <<phase, action>>
      \/ RequestOver
  BY DEF Act
<1>6. work' \in Seq(Step)
  <2>1. CASE work' = Tail(work)
    BY <1>1, <2>1
  <2>2. CASE work' = <<>>
    <3>1. <<>> \in Seq(Step)  OBVIOUS
    <3> QED BY <2>2, <3>1
  <2> QED BY <1>5, <2>1, <2>2 DEF RequestOver
<1>7. ControllerTypeOK'
  <2>1. userStopped' \subseteq Containers
    BY <1>1, <1>4 DEF ControllerTypeOK, Step
  <2> QED BY <1>2, <1>3, <1>5, <2>1 DEF ControllerTypeOK, ClockHonest, plugVars, pauseVars, guardVars, RequestOver
<1>8. PausesSaved'
  BY <1>2, <1>5 DEF PausesSaved, RequestOver, pauseVars
<1>9. StoppedPaused'
  BY <1>1, <1>2, <1>4 DEF StoppedPaused, WorkPaused, PausesSaved, pauseVars, Container
<1>10. WorkPaused'
  <2>1. CASE work' = Tail(work) /\ UNCHANGED <<phase, action>>
    BY <1>1, <1>2, <2>1 DEF WorkPaused, pauseVars, Container
  <2>2. CASE RequestOver
    BY <2>2 DEF WorkPaused, RequestOver
  <2> QED BY <1>5, <2>1, <2>2
<1> QED BY <1>6, <1>7, <1>8, <1>9, <1>10

LEMMA AnswerIInv ==
  ASSUME ControllerIInv, Answer
  PROVE  ControllerIInv'
<1> USE DEF ControllerIInv
<1>1. UNCHANGED <<deviceVars, pauseVars, guardVars, userStopped>>
      /\ phase = "acting" /\ RequestOver
  BY DEF Answer
<1>2. work' \in Seq(Step)
  BY <1>1 DEF RequestOver
<1>3. ControllerTypeOK'
  BY <1>1 DEF ControllerTypeOK, ClockHonest, plugVars, deviceVars, pauseVars, guardVars, RequestOver
<1> QED BY <1>1, <1>2, <1>3
        DEF PausesSaved, StoppedPaused, WorkPaused, RequestOver, pauseVars, Container

\* A controller that is started again knows what the file says, which is what
\* all stopped containers need.
LEMMA RestartIInv ==
  ASSUME ControllerIInv, Restart
  PROVE  ControllerIInv'
<1> USE DEF ControllerIInv
<1>1. saved' \subseteq Targets /\ paused' = saved'
  BY DEF Restart, Loaded, ControllerTypeOK
<1>2. damaged' \in BOOLEAN /\ (~damaged' => ~damaged /\ saved' = saved)
  BY DEF Restart, ControllerTypeOK
<1>3. work' \in Seq(Step) /\ phase' = "idle" /\ action' = "none" /\ work' = <<>>
  BY DEF Restart, RequestOver
<1>4. since' \in [Guarded -> Unset .. Settle] /\ startAge' \in [Guarded -> 0 .. Retry]
      /\ unseen' \subseteq Guarded
      /\ ClockHonest'
  BY TimesAssumption DEF Restart, Unset, ClockHonest
<1>5. UNCHANGED <<deviceVars, userStopped>>
  BY DEF Restart
<1>6. ControllerTypeOK'
  BY <1>1, <1>2, <1>3, <1>4, <1>5 DEF ControllerTypeOK, ClockHonest, plugVars, deviceVars
<1>7. PausesSaved'
  BY <1>1 DEF PausesSaved
<1>8. StoppedPaused'
  BY <1>1, <1>2, <1>5 DEF StoppedPaused, Container
<1>9. WorkPaused'
  BY <1>3 DEF WorkPaused
<1> QED BY <1>3, <1>6, <1>7, <1>8, <1>9

LEMMA ControllerNextIInv ==
  ASSUME ControllerIInv, [ControllerNext]_controllerVars
  PROVE  ControllerIInv'
<1>1. CASE \E g \in Guarded : Plug(g) \/ Unplug(g)
  BY <1>1, PlugIInv
<1>2. CASE \E g \in Guarded : GuardStep(g)
  BY <1>2, GuardStepIInv
<1>3. CASE \E c \in Containers : ContainerExits(c)
  <2>1. ControllerTypeOK' /\ UNCHANGED <<pauseVars, requestVars>>
    BY <1>3 DEF ContainerExits, ControllerIInv, ControllerTypeOK, ClockHonest, plugVars, pauseVars, guardVars,
                requestVars
  <2> QED BY <2>1, UnrelatedIInv
<1>4. CASE \E t \in Targets, a \in {"start", "stop", "restart"} : BeginRequest(t, a)
  BY <1>4, BeginRequestIInv DEF Actions
<1>5. CASE RequestStep
  BY <1>5, SaveIInv, ActIInv, AnswerIInv DEF RequestStep
<1>6. CASE Restart
  BY <1>6, RestartIInv
<1>7. CASE Tick
  BY <1>7, TickIInv
<1>8. CASE UNCHANGED controllerVars
  <2>1. ControllerTypeOK' /\ UNCHANGED <<pauseVars, requestVars>>
    BY <1>8 DEF ControllerIInv, ControllerTypeOK, ClockHonest, plugVars, controllerVars, deviceVars, pauseVars,
                guardVars, requestVars
  <2> QED BY <2>1, UnrelatedIInv
<1> QED BY <1>1, <1>2, <1>3, <1>4, <1>5, <1>6, <1>7, <1>8 DEF ControllerNext

THEOREM ControllerInvariant == ControllerSpec => []ControllerIInv
<1>1. ControllerIInv /\ [ControllerNext]_controllerVars => ControllerIInv'
  BY ControllerNextIInv
<1> QED BY <1>1, ControllerInitIInv, PTL DEF ControllerSpec

-----------------------------------------------------------------------------
(* The properties.                                                         *)

\* Types, and the guard's clock within the time its device has been there, but for
\* devices unplugged since the clock was set without the guard seeing it.
THEOREM ControllerTypeCorrect == ControllerSpec => []ControllerTypeOK
<1>1. ControllerIInv => ControllerTypeOK
  BY DEF ControllerIInv
<1> QED BY <1>1, ControllerInvariant, PTL

\* Between requests a restart of the controller changes no pause.
THEOREM ControllerFileAgrees == ControllerSpec => []FileAgrees
<1>1. ControllerIInv => FileAgrees
  BY DEF ControllerIInv, PausesSaved, FileAgrees
<1> QED BY <1>1, ControllerInvariant, PTL

\* Between requests only the guard of a container starts it, and it has looked.
LEMMA StartedByGuard ==
  ASSUME ControllerIInv, [ControllerNext]_controllerVars, NEW g \in Guarded,
         GuardStarts(g)
  PROVE  g \notin paused /\ (GuardMissing(g) \/ GuardStable(g))
<1>1. PICK h \in Guarded : GuardStep(h)
  <2>1. phase = "idle" /\ Container(g) \notin running /\ Container(g) \in running'
    BY DEF GuardStarts
  <2>2. \A c \in Containers : ~ContainerExits(c)
    BY <2>1 DEF ContainerExits
  <2>3. \A h \in Guarded : ~Plug(h) /\ ~Unplug(h)
    BY <2>1 DEF Plug, Unplug
  <2>4. \A t \in Targets, a \in Actions : ~BeginRequest(t, a)
    BY <2>1 DEF BeginRequest, deviceVars
  <2>5. ~RequestStep
    BY <2>1 DEF RequestStep, Save, SaveFails, Act, Answer
  <2>6. ~Restart /\ ~Tick
    BY <2>1 DEF Restart, Tick, deviceVars
  <2>7. ~UNCHANGED controllerVars
    BY <2>1 DEF controllerVars, deviceVars
  <2> QED BY <2>2, <2>3, <2>4, <2>5, <2>6, <2>7 DEF ControllerNext, Actions
<1>2. running' # running /\ running' \subseteq running \cup {Container(h)}
  BY <1>1 DEF GuardStarts, GuardStep, GuardMissing, GuardSettling, GuardStable, SetRunning
<1>3. Container(g) = Container(h)
  BY <1>2 DEF GuardStarts
<1>4. g = h
  <2>1. Container(h) = TargetMap[h][1] /\ TargetMap[h] \in Seq(Containers)
        /\ Len(TargetMap[h]) = 1 /\ h \in Targets
    BY TargetMapAssumption, GuardedAssumption DEF Container
  <2>2. Container(g) \in ToSet(TargetMap[h])
    BY <1>3, <2>1 DEF ToSet
  <2> QED BY <2>1, <2>2, GuardedTarget
<1> QED BY <1>1, <1>2, <1>4 DEF GuardStep, Looks, GuardSettling

\* A stop holds through any number of kills, in the middle of the request or
\* later, until a request asks for the container again.
THEOREM ControllerStopHolds == ControllerSpec => StopHolds
<1>1. ControllerIInv /\ [ControllerNext]_controllerVars =>
        [\A g \in Guarded :
           GuardStarts(g) => Container(g) \notin userStopped \/ damaged]_controllerVars
  BY StartedByGuard DEF ControllerIInv, StoppedPaused
<1> QED BY <1>1, ControllerInvariant, PTL DEF ControllerSpec, StopHolds

\* A start for a device comes when it has been there for the settling time, or was
\* unplugged and plugged in again unseen since the guard's clock was set.
THEOREM ControllerSettledStart == ControllerSpec => SettledStart
<1>1. ControllerIInv /\ [ControllerNext]_controllerVars =>
        [\A g \in Guarded :
           GuardStarts(g) /\ g \in present => there[g] >= Settle \/ g \in unseen]_controllerVars
  <2> SUFFICES ASSUME ControllerIInv, [ControllerNext]_controllerVars, NEW g \in Guarded,
                      GuardStarts(g), g \in present, g \notin unseen
               PROVE  there[g] >= Settle
    OBVIOUS
  <2>1. GuardStable(g)
    BY StartedByGuard DEF GuardMissing
  <2>2. since[g] \in Int /\ there[g] \in Int /\ Settle \in Nat \ {0}
    BY TimesAssumption DEF ControllerIInv, ControllerTypeOK, Unset
  <2>3. since[g] # Unset
    BY <2>1, <2>2 DEF GuardStable, Unset
  <2>4. since[g] <= there[g]
    BY <2>3 DEF ControllerIInv, ControllerTypeOK, ClockHonest
  <2> QED BY <2>1, <2>2, <2>4 DEF GuardStable
<1> QED BY <1>1, ControllerInvariant, PTL DEF ControllerSpec, SettledStart
=============================================================================
