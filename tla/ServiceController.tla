-------------------------- MODULE ServiceController --------------------------
(***************************************************************************)
(* The service controller (app/svcctl/svcctl_app.py, svcctl_docker.py): one *)
(* guard thread per collector that depends on a device, the start, stop    *)
(* and restart requests, the manual pauses they set, and the file that     *)
(* carries the pauses over a restart of the controller.                    *)
(*                                                                         *)
(* ACTION_LOCK is held for a whole guard step and a whole request.  A guard *)
(* step is one action; a request is several, as the controller may be      *)
(* killed and containers may exit between them.  Times are ages, counted   *)
(* in ticks and capped.  Containers exist; the labels a guard shows        *)
(* (..._LAST_ACTION, ..._LAST_REASON) are left out.                        *)
(***************************************************************************)
EXTENDS Integers, Sequences, SequencesExt

CONSTANTS
  Targets,      \* the keys of TARGET_MAP
  Containers,
  TargetMap,    \* TARGET_MAP: the containers of a target, dependencies first
  Guarded,      \* the targets with a guard; each has one container, its own
  Kept,         \* guarded targets that run without their device, too
  Settle,       \* ..._STABLE_SEC: how long a device must have been there
  Retry,        \* DEGRADED_START_RETRY_SEC
  MaxRequests,  \* bound of the model
  MaxFaults     \* bound of the model: unplugs, exits, errors, kills

ASSUME TargetMapAssumption == TargetMap \in [Targets -> Seq(Containers)]
ASSUME GuardedAssumption ==
  /\ Kept \subseteq Guarded /\ Guarded \subseteq Targets
  /\ \A g \in Guarded : Len(TargetMap[g]) = 1
  /\ \A g \in Guarded, t \in Targets : TargetMap[g][1] \in ToSet(TargetMap[t]) => t = g
ASSUME TimesAssumption == Settle \in Nat \ {0} /\ Retry \in Nat

VARIABLES
  present,      \* the device of a guarded target is plugged in (external)
  there,        \* for how long it has been, or Unset (external)
  running,      \* containers Docker runs (external)
  paused,       \* _MANUAL_PAUSES
  saved,        \* what loading the file MANUAL_PAUSE_FILE would give
  since,        \* age of ..._PRESENT_SINCE, or Unset
  startAge,     \* age of _DEGRADED_LAST_START_AT, Retry if there is none
  phase,        \* what the request that holds ACTION_LOCK does
  action,       \* its action
  work,         \* container steps it has still to take
  requests, faults,   \* counters of the bounds
  userStopped,  \* history: containers a stop request stopped
  damaged,      \* history: the file was not written, or cut short
  unseen        \* history: devices unplugged since ..._PRESENT_SINCE was set

plugVars == <<present, there>>
deviceVars == <<plugVars, running>>
pauseVars == <<paused, saved, damaged>>
guardVars == <<since, startAge, unseen>>
requestVars == <<phase, action, work, requests, userStopped>>
controllerVars == <<deviceVars, pauseVars, guardVars, requestVars, faults>>

Unset == -1
Container(g) == TargetMap[g][1]

ControllerInit ==
  /\ present \in SUBSET Guarded
  /\ there = [g \in Guarded |-> IF g \in present THEN 0 ELSE Unset]
  /\ running \in SUBSET Containers
  /\ paused = {}
  /\ saved = {}
  /\ since = [g \in Guarded |-> Unset]
  /\ startAge = [g \in Guarded |-> Retry]
  /\ phase = "idle"
  /\ action = "none"
  /\ work = <<>>
  /\ requests = 0
  /\ faults = 0
  /\ userStopped = {}
  /\ damaged = FALSE
  /\ unseen = {}

Fault == faults < MaxFaults /\ faults' = faults + 1

-----------------------------------------------------------------------------
(* Devices, containers, time.                                              *)

Plug(g) ==
  /\ g \notin present
  /\ present' = present \cup {g}
  /\ there' = [there EXCEPT ![g] = 0]
  /\ UNCHANGED <<running, pauseVars, guardVars, requestVars, faults>>

Unplug(g) ==
  /\ g \in present
  /\ Fault
  /\ present' = present \ {g}
  /\ there' = [there EXCEPT ![g] = Unset]
  /\ unseen' = IF since[g] = Unset THEN unseen ELSE unseen \cup {g}
  /\ UNCHANGED <<running, since, startAge, pauseVars, requestVars>>

ContainerExits(c) ==
  /\ c \in running
  /\ Fault
  /\ running' = running \ {c}
  /\ UNCHANGED <<plugVars, pauseVars, guardVars, requestVars>>

Older(ages, cap) ==
  [g \in Guarded |-> IF ages[g] \in 0 .. (cap - 1) THEN ages[g] + 1 ELSE ages[g]]

Tick ==
  /\ since' = Older(since, Settle)
  /\ startAge' = Older(startAge, Retry)
  /\ there' = Older(there, Settle)
  /\ <<since, startAge, there>>' # <<since, startAge, there>>
  /\ UNCHANGED <<present, running, unseen, pauseVars, requestVars, faults>>

-----------------------------------------------------------------------------
(* set_container_running: Docker does it, or raises.                       *)

SetRunning(c, should) ==
  \/ /\ running' = IF should THEN running \cup {c} ELSE running \ {c}
     /\ UNCHANGED faults
  \/ /\ should # (c \in running)
     /\ Fault
     /\ UNCHANGED running

-----------------------------------------------------------------------------
(* A step of a guard, _ensure_..._guard_step().                            *)

\* Mutant: the guard does not ask for the manual pause.
AlwaysLooks(g) == TRUE

\* A paused target is left alone: not even the presence of its device is noted.
Looks(g) == g \notin paused

\* Mutant: the device's absence does not reset the settling time.
SettledBefore(g) == since[g]

SinceAfterAbsence(g) == Unset

\* Mutant: each attempt restarts the retry time, allowed or not.
StampAlways(g) == 0

\* _degraded_start_allowed stamps only the starts it allows.
StampAfter(g) == IF startAge[g] < Retry THEN startAge[g] ELSE 0

\* Mutant: the switch is on whatever its value, "0" included.
AnySwitchIsOn(g) == TRUE

RunsWithoutDevice(g) == g \in Kept

\* The device is missing: a target that is kept is started now and then, any
\* other is stopped.
GuardMissing(g) ==
  /\ g \notin present
  /\ since' = [since EXCEPT ![g] = SinceAfterAbsence(g)]
  /\ unseen' = unseen \ {g}
  /\ \/ /\ RunsWithoutDevice(g) /\ Container(g) \notin running
        /\ startAge' = [startAge EXCEPT ![g] = StampAfter(g)]
        /\ IF startAge[g] < Retry
           THEN UNCHANGED <<running, faults>>
           ELSE SetRunning(Container(g), TRUE)
     \/ /\ RunsWithoutDevice(g) /\ Container(g) \in running
        /\ UNCHANGED <<startAge, running, faults>>
     \/ /\ ~RunsWithoutDevice(g)
        /\ SetRunning(Container(g), FALSE)
        /\ UNCHANGED startAge

SinceWhilePresent(g) == IF since[g] = Unset THEN 0 ELSE since[g]

\* The device is there, but not for long enough.
GuardSettling(g) ==
  /\ g \in present
  /\ since[g] < Settle
  /\ since' = [since EXCEPT ![g] = SinceWhilePresent(g)]
  /\ UNCHANGED <<unseen, startAge, running, faults>>

GuardStable(g) ==
  /\ g \in present
  /\ since[g] >= Settle
  /\ SetRunning(Container(g), TRUE)
  /\ UNCHANGED <<since, unseen, startAge>>

GuardStep(g) ==
  /\ phase = "idle"
  /\ \/ Looks(g) /\ (GuardMissing(g) \/ GuardSettling(g) \/ GuardStable(g))
     \/ ~Looks(g) /\ UNCHANGED <<running, guardVars, faults>>
  /\ UNCHANGED <<plugVars, pauseVars, requestVars>>

-----------------------------------------------------------------------------
(* A request, service_action().                                            *)

Stops(t) == [i \in DOMAIN TargetMap[t] |-> [name |-> Reverse(TargetMap[t])[i], run |-> FALSE]]
Starts(t) == [i \in DOMAIN TargetMap[t] |-> [name |-> TargetMap[t][i], run |-> TRUE]]

Steps(t, a) ==
  CASE a = "start" -> Starts(t)
    [] a = "stop" -> Stops(t)
    [] a = "restart" -> Stops(t) \o Starts(t)

\* Mutant: lifting a pause is not saved.
SavesPauseOnly(t, a) == a = "stop"

\* A pause is always saved, lifting one only if there was one.
Saves(t, a) == a = "stop" \/ t \in paused

\* The pause is set or lifted before anything is done to the containers.
BeginRequest(t, a) ==
  /\ phase = "idle"
  /\ requests < MaxRequests
  /\ requests' = requests + 1
  /\ paused' = IF a = "stop" THEN paused \cup {t} ELSE paused \ {t}
  /\ phase' = IF Saves(t, a) THEN "saving" ELSE "acting"
  /\ action' = a
  /\ work' = Steps(t, a)
  /\ userStopped' = IF a = "stop" THEN userStopped ELSE userStopped \ ToSet(TargetMap[t])
  /\ UNCHANGED <<deviceVars, saved, damaged, guardVars, faults>>

\* _save_manual_pauses
Save ==
  /\ phase = "saving"
  /\ phase' = "acting"
  /\ saved' = paused
  /\ UNCHANGED <<deviceVars, paused, damaged, guardVars, action, work, requests, userStopped, faults>>

\* An error while saving is logged, the request goes on.  The file is as it was
\* or, cut short, loads as no pauses.
SaveFails ==
  /\ phase = "saving"
  /\ Fault
  /\ phase' = "acting"
  /\ saved' \in {saved, {}}
  /\ damaged' = TRUE
  /\ UNCHANGED <<deviceVars, paused, guardVars, action, work, requests, userStopped>>

RequestOver == phase' = "idle" /\ action' = "none" /\ work' = <<>>

\* One container after the other; an error ends the request.
Act ==
  /\ phase = "acting"
  /\ work # <<>>
  /\ LET step == Head(work)
     IN  /\ SetRunning(step.name, step.run)
         /\ userStopped' = IF action = "stop" /\ step.name \notin running'
                           THEN userStopped \cup {step.name} ELSE userStopped
  /\ \/ /\ faults' = faults
        /\ work' = Tail(work)
        /\ UNCHANGED <<phase, action>>
     \/ faults' # faults /\ RequestOver
  /\ UNCHANGED <<plugVars, pauseVars, guardVars, requests>>

Answer ==
  /\ phase = "acting"
  /\ work = <<>>
  /\ RequestOver
  /\ UNCHANGED <<deviceVars, pauseVars, guardVars, requests, userStopped, faults>>

RequestStep == Save \/ SaveFails \/ Act \/ Answer

\* Mutant: the pauses are not loaded at the start.
NothingLoaded == {}

Loaded == saved'

\* The controller is killed at any point and started again: what it knew is
\* gone, but for the file.  A save in progress may leave the file cut short.
Restart ==
  /\ Fault
  /\ saved' \in IF phase = "saving" THEN {saved, {}} ELSE {saved}
  /\ damaged' = (damaged \/ saved' # saved)
  /\ paused' = Loaded
  /\ since' = [g \in Guarded |-> Unset]
  /\ startAge' = [g \in Guarded |-> Retry]
  /\ unseen' = {}
  /\ RequestOver
  /\ UNCHANGED <<deviceVars, requests, userStopped>>

-----------------------------------------------------------------------------

ControllerNext ==
  \/ \E g \in Guarded : Plug(g) \/ Unplug(g) \/ GuardStep(g)
  \/ \E c \in Containers : ContainerExits(c)
  \/ \E t \in Targets, a \in {"start", "stop", "restart"} : BeginRequest(t, a)
  \/ RequestStep
  \/ Restart
  \/ Tick

\* Guards wake up again and again, a request does not hold the lock for ever
\* (Docker calls have timeouts), time passes.
ControllerFairness ==
  /\ \A g \in Guarded : WF_controllerVars(GuardStep(g))
  /\ WF_controllerVars(RequestStep)
  /\ WF_controllerVars(Tick)

ControllerSpec == ControllerInit /\ [][ControllerNext]_controllerVars
FairControllerSpec == ControllerSpec /\ ControllerFairness

-----------------------------------------------------------------------------
(* Properties.                                                             *)

\* The guard's clock runs only while the device is there, unless an unplug went
\* unseen: while the target was paused, or between two looks.
ClockHonest ==
  \A g \in Guarded \ unseen :
    since[g] # Unset => g \in present /\ since[g] <= there[g]

ControllerTypeOK ==
  /\ present \subseteq Guarded /\ running \subseteq Containers
  /\ paused \subseteq Targets /\ saved \subseteq Targets
  /\ since \in [Guarded -> Unset .. Settle]
  /\ startAge \in [Guarded -> 0 .. Retry]
  /\ there \in [Guarded -> Unset .. Settle]
  /\ present = {g \in Guarded : there[g] # Unset}
  /\ unseen \subseteq Guarded
  /\ ClockHonest
  /\ phase \in {"idle", "saving", "acting"}
  /\ action \in {"none", "start", "stop", "restart"}
  /\ phase = "idle" <=> action = "none"
  /\ phase = "idle" => work = <<>>
  /\ userStopped \subseteq Containers
  /\ damaged \in BOOLEAN

GuardStarts(g) ==
  phase = "idle" /\ Container(g) \notin running /\ Container(g) \in running'

\* A container stopped on request is not started by a guard until it is asked
\* for again, even if the controller is killed at any moment, in the middle of
\* the request or later.  The exception is a file that could not be written.
StopHolds ==
  [][\A g \in Guarded :
       GuardStarts(g) => Container(g) \notin userStopped \/ damaged]_controllerVars

\* Between requests the file and the memory agree on the pauses, so that a
\* restart of the controller changes none.
FileAgrees == phase = "idle" /\ ~damaged => saved = paused

\* A guard that starts a container for its device starts it when the device has
\* been there for the settling time, over any unplugs, pauses and restarts of the
\* controller.  The exception is a device unplugged and plugged in again without
\* the guard seeing it missing, which StartsSettled is about.
SettledStart ==
  [][\A g \in Guarded :
       GuardStarts(g) /\ g \in present => there[g] >= Settle \/ g \in unseen]_controllerVars

\* A collector that is kept runs, device or not, unless paused: the throttle
\* delays an attempt and never starves it.
KeptRuns ==
  \A g \in Kept : (g \notin paused) ~> (g \in paused \/ Container(g) \in running)

\* Any other runs exactly while its device is there.
DeviceDecides ==
  \A g \in Guarded \ Kept :
    /\ (g \in present /\ g \notin paused)
         ~> (g \notin present \/ g \in paused \/ Container(g) \in running)
    /\ (g \notin present /\ g \notin paused)
         ~> (g \in present \/ g \in paused \/ Container(g) \notin running)

\* README.md on redlab-collector: started only after the USB device is present and
\* stable.  Of the collectors that are not kept, as the text has it.
StartsSettled ==
  [][\A g \in Guarded \ Kept : GuardStarts(g) => there[g] >= Settle]_controllerVars
=============================================================================
