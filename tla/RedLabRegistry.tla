--------------------------- MODULE RedLabRegistry ---------------------------
(***************************************************************************)
(* Discovery and supervision of the RedLab devices: the loop of            *)
(* RedLabRegistry.run() (app/redlab/redlab_registry.py) with the runtimes  *)
(* it starts, stops, replaces and, by executing the process anew, throws   *)
(* away.  A runtime is seen through RuntimeLife.                           *)
(*                                                                         *)
(* The USB inventory of a running process may lag behind: a device plugged *)
(* in again may be visible to a new process only.  The registry asks both, *)
(* and either answer is old when it is used.  reenumeration_recovery is on *)
(* (its default).  The health record the loop publishes is left out:       *)
(* nothing in the loop reads it.                                           *)
(***************************************************************************)
EXTENDS Naturals, RuntimeLife

CONSTANTS
  Devices,        \* canonical device ids
  Confirmations,  \* settings.reenumeration_confirmations
  Cooldown,       \* settings.reenumeration_cooldown, in ticks
  NoLife,         \* "no runtime is registered"
  MaxFaults       \* bound of the model: unplugs, failed probes, exceptions

ASSUME ConfirmationsAssumption == Confirmations \in Nat \ {0}
ASSUME CooldownAssumption == Cooldown \in Nat
ASSUME MaxFaultsAssumption == MaxFaults \in Nat
ASSUME NoLifeAssumption == NoLife \notin Lives

VARIABLES
  attached,     \* devices plugged in (external)
  visible,      \* devices the inventory of this process shows (external)
  faults,       \* faults so far
  life,         \* runtimes: the registered runtime of each device, or NoLife
  former,       \* runtimes that left the registry and have a run thread that still lives
  pc,           \* where the loop is
  seen,         \* seen_device_ids, the ids of `descriptors`
  fresh,        \* fresh_device_ids
  hits,         \* reenumeration_hits, capped at Confirmations
  stampAge,     \* age of the restart stamp in the environment, capped
  streak,       \* history: probes in a row that missed the device, capped
  age,          \* history: time since the process was last executed anew, capped
  present,      \* history: devices attached ever since the last inventory
  probeFailed   \* history: the last probe failed

external == <<attached, visible, faults>>
loopVars == <<pc, seen, fresh, hits, stampAge>>
histories == <<streak, age, present, probeFailed>>
runtimes == <<life, former>>
registryVars == <<external, runtimes, loopVars, histories>>

Registered == {d \in Devices : life[d] # NoLife}
Zero == [d \in Devices |-> 0]
Next1(n) == IF n < Confirmations THEN n + 1 ELSE n

RegistryInit ==
  /\ attached \in SUBSET Devices
  /\ visible = attached
  /\ faults = 0
  /\ life = [d \in Devices |-> NoLife]
  /\ former = [d \in Devices |-> {}]
  /\ pc = "inventory"
  /\ seen = {}
  /\ fresh = {}
  /\ hits = Zero
  /\ stampAge = Cooldown
  /\ streak = Zero
  /\ age = Cooldown
  /\ present = {}
  /\ probeFailed = FALSE

-----------------------------------------------------------------------------
(* Devices, time and the threads of the runtimes.                          *)

Fault == faults < MaxFaults /\ faults' = faults + 1

Unplug(d) ==
  /\ d \in attached
  /\ Fault
  /\ attached' = attached \ {d}
  /\ visible' = visible \ {d}
  /\ present' = present \ {d}
  /\ UNCHANGED <<runtimes, loopVars, streak, age, probeFailed>>

\* A device plugged in may stay invisible to this process.
Plug(d) ==
  /\ d \notin attached
  /\ attached' = attached \cup {d}
  /\ visible' \in {visible, visible \cup {d}}
  /\ UNCHANGED <<faults, runtimes, loopVars, histories>>

\* The inventory of the process may catch up by itself.
CatchUp(d) ==
  /\ d \in attached \ visible
  /\ visible' = visible \cup {d}
  /\ UNCHANGED <<attached, faults, runtimes, loopVars, histories>>

Tick ==
  /\ age < Cooldown \/ stampAge < Cooldown
  /\ age' = IF age < Cooldown THEN age + 1 ELSE age
  /\ stampAge' = IF stampAge < Cooldown THEN stampAge + 1 ELSE stampAge
  /\ UNCHANGED <<external, runtimes, pc, seen, fresh, hits, streak, present, probeFailed>>

\* A registered runtime is never stopped: stop() and the removal are one step.
RuntimeSteps(d) ==
  /\ d \in Registered
  /\ \E l \in {m \in Lives : ~m.stop} :
       OwnStep(life[d], l) /\ l # life[d] /\ life' = [life EXCEPT ![d] = l]
  /\ UNCHANGED <<external, former, loopVars, histories>>

\* What counts of runtimes that are no longer registered: a run thread that lives and
\* has the device, and whether it was told to stop.  The status is not read any more,
\* the writer has no device; and one that was told to stop is on its way out at once
\* (RunStops), as nothing sees when.  Runtimes in the same state count as one.
Remaining(lives) ==
  {[thread |-> IF l.stop THEN "ending" ELSE l.thread, writer |-> FALSE, stop |-> l.stop,
    status |-> "offline"] : l \in {m \in lives : m.thread # "dead"}}

\* RunDies, of the run thread of such a runtime.
FormerDies(d) ==
  /\ \E l \in former[d] : l.thread = "ending" /\ former' = [former EXCEPT ![d] = @ \ {l}]
  /\ UNCHANGED <<external, life, loopVars, histories>>

-----------------------------------------------------------------------------
(* The loop of run().                                                      *)

\* The answers are read afresh in the next iteration.
IterationOver ==
  /\ pc' = "inventory"
  /\ seen' = {}
  /\ fresh' = {}
  /\ present' = {}
  /\ probeFailed' = FALSE

\* _valid_inventory_descriptors
Inventory ==
  /\ pc = "inventory"
  /\ seen' = visible
  /\ present' = attached
  /\ pc' = "probe"
  /\ UNCHANGED <<external, runtimes, fresh, hits, stampAge, streak, age, probeFailed>>

\* The inventory raised: the iteration is over, the hits stay.
InventoryRaises ==
  /\ pc \in {"inventory", "debounce"}
  /\ Fault
  /\ IterationOver
  /\ UNCHANGED <<attached, visible, runtimes, hits, stampAge, streak, age>>

\* Mutant: a device that is no longer missing keeps its hits.
KeepHits(missing) == [d \in Devices |-> IF d \in missing THEN Next1(hits[d]) ELSE hits[d]]

\* Hits count probes in a row.
HitsAfter(missing) == [d \in Devices |-> IF d \in missing THEN Next1(hits[d]) ELSE 0]

\* _fresh_inventory_device_ids: a probe that fails shows no device at all.
FreshInventory ==
  \/ fresh' = attached /\ probeFailed' = FALSE /\ UNCHANGED faults
  \/ fresh' = {} /\ probeFailed' = TRUE /\ Fault

\* stale_missing
Missing == fresh' \ (seen \cup Registered)

Confirmed(h) == {d \in Devices : h[d] >= Confirmations}

\* Mutant: the remaining cooldown is compared with >= 0, which always holds.
NeverCooled == FALSE

Cooled == stampAge >= Cooldown

\* The first probe.  hits are popped unless missing, so the confirmed devices
\* are all missing and the branch for `not visible_missing` cannot be taken.
Probe ==
  /\ pc = "probe"
  /\ FreshInventory
  /\ hits' = HitsAfter(Missing)
  /\ streak' = [d \in Devices |-> IF d \in Missing THEN Next1(streak[d]) ELSE 0]
  /\ pc' = IF Confirmed(hits') # {} /\ Cooled THEN "debounce" ELSE "reconcile"
  /\ UNCHANGED <<attached, visible, runtimes, seen, stampAge, age, present>>

\* After the debounce the inventory of the process is read again.
Recheck ==
  /\ pc = "debounce"
  /\ seen' = visible
  /\ present' = attached
  /\ pc' = "reprobe"
  /\ UNCHANGED <<external, runtimes, fresh, hits, stampAge, streak, age, probeFailed>>

\* Mutant: confirmed is enough, the second probe is not asked.
ConfirmedNeeded == Confirmed(hits)

RestartNeeded == Confirmed(hits) \cap Missing

\* The second probe.
Reprobe ==
  /\ pc = "reprobe"
  /\ FreshInventory
  /\ IF RestartNeeded # {}
     THEN pc' = "restart" /\ UNCHANGED hits
     ELSE pc' = "reconcile" /\ hits' = Zero
  /\ UNCHANGED <<attached, visible, runtimes, seen, stampAge, streak, age, present>>

\* Mutant: the stamp is kept in the process, not in its environment.
StampLost == Cooldown

StampAfterRestart == 0

\* The stamp is set, then the process is executed anew: all threads are gone,
\* with what they had queued, and the inventory is a new one.
Restart ==
  /\ pc = "restart"
  /\ visible' = attached
  /\ life' = [d \in Devices |-> NoLife]
  /\ former' = [d \in Devices |-> {}]
  /\ IterationOver
  /\ hits' = Zero
  /\ stampAge' = StampAfterRestart
  /\ streak' = Zero
  /\ age' = 0
  /\ UNCHANGED <<attached, faults>>

\* Mutant: the probe of the new process is not consulted.
GoneFromView == Registered \ seen

Gone == Registered \ (seen \cup fresh)

\* Mutant: a runtime is replaced only if it went offline.
DeadOffline(l) == l.thread = "dead" /\ l.status = "offline"

Failed(l) == l.thread = "dead" /\ l.status = "error"

\* Mutant: the runtime is popped from the dictionary, its threads are not told.
OnlyPopped(l) == l

\* runtime.stop()
Stopped(l) == [l EXCEPT !.stop = TRUE]

\* Under the lock: runtimes of devices in neither answer are stopped and
\* removed, devices in view get a runtime, failed runtimes a replacement.
Reconcile ==
  /\ pc = "reconcile"
  /\ LET started == {d \in seen : life[d] = NoLife \/ Failed(life[d])}
         left(d) == IF d \in Gone THEN {Stopped(life[d])}
                    ELSE IF d \in started \cap Registered THEN {life[d]} ELSE {}
     IN  /\ life' = [d \in Devices |->
                       IF d \in started THEN NewLife
                       ELSE IF d \in Gone THEN NoLife ELSE life[d]]
         /\ former' = [d \in Devices |-> former[d] \cup Remaining(left(d))]
  /\ IterationOver
  /\ UNCHANGED <<external, hits, stampAge, streak, age>>

RegistryLoop == Inventory \/ Probe \/ Recheck \/ Reprobe \/ Restart \/ Reconcile

-----------------------------------------------------------------------------

RegistryNext ==
  \/ RegistryLoop
  \/ InventoryRaises
  \/ \E d \in Devices : Unplug(d) \/ Plug(d) \/ CatchUp(d) \/ RuntimeSteps(d) \/ FormerDies(d)
  \/ Tick

\* The loop runs, time passes.  Nothing is asked of the devices and runtimes, but
\* that a runtime which was stopped or failed ends its threads (ThreadsEnd of
\* RedLabRuntime).
RegistryFairness ==
  /\ WF_registryVars(RegistryLoop)
  /\ WF_registryVars(Tick)
  /\ WF_registryVars(\E d \in Devices : FormerDies(d))

RegistrySpec == RegistryInit /\ [][RegistryNext]_registryVars
FairRegistrySpec == RegistrySpec /\ RegistryFairness

-----------------------------------------------------------------------------
(* Properties.                                                             *)

\* The device has a runtime that does nothing any more.
ThreadsOver(d) ==
  d \in Registered /\ life[d].thread = "dead" /\ ~life[d].writer

RegistryTypeOK ==
  /\ visible \subseteq attached /\ attached \subseteq Devices
  /\ faults \in 0 .. MaxFaults
  /\ life \in [Devices -> Lives \cup {NoLife}]
  /\ former \in [Devices -> SUBSET Lives]
  /\ pc \in {"inventory", "probe", "debounce", "reprobe", "restart", "reconcile"}
  /\ seen \subseteq Devices /\ fresh \subseteq Devices /\ present \subseteq attached
  /\ hits \in [Devices -> 0 .. Confirmations]
  /\ streak \in [Devices -> 0 .. Confirmations]
  /\ \A d \in Devices : hits[d] <= streak[d]
  /\ stampAge \in 0 .. Cooldown /\ age \in 0 .. Cooldown
  /\ probeFailed \in BOOLEAN

\* The process is executed anew only for a device that probes in a row missed in
\* the process's own inventory, and that the probe after the debounce missed
\* again.  A glitch in between starts the count afresh.
RestartConfirmed ==
  pc = "restart" =>
    \E d \in fresh \ (seen \cup Registered) : streak[d] >= Confirmations

\* Two executions are a cooldown apart, though the process that took the first
\* one is gone with its memory.
RestartSpaced == pc = "restart" => age >= Cooldown

\* A runtime is not stopped while its device stays plugged in, however the
\* inventory of the process lags, unless the probe failed as well.
KeptWhilePresent ==
  [][\A d \in Registered \cap present :
       life'[d] = NoLife => probeFailed \/ pc = "restart"]_registryVars

\* The device of a runtime that was taken out may be back, with a new runtime, before
\* the old run thread has ended.  The two do not go on side by side: the thread of a
\* runtime that left the registry comes to its end, however often the device comes
\* and goes.
FormerEnd == \A d \in Devices : former[d] # {} ~> former[d] = {}

\* A device that only a new process can see is recovered, whatever the cooldown
\* and the other devices do, unless a late answer of the inventory gave it a
\* runtime already.
StaleRecovers ==
  \A d \in Devices :
    (d \in attached \ visible /\ d \notin Registered)
      ~> (d \notin attached \/ d \in visible \/ d \in Registered)

\* A runtime that failed and says so is replaced while its device is in view.
FailedReplaced ==
  \A d \in Devices :
    (d \in visible /\ ThreadsOver(d) /\ life[d].status = "error")
      ~> (d \notin visible \/ ~ThreadsOver(d))

\* test_failed_runtime_is_replaced_when_device_is_present: a runtime whose threads
\* are over is replaced while its device is in view.  Here without the
\* assumption that nobody reports after the run thread failed.
EveryFailedReplaced ==
  \A d \in Devices :
    (d \in visible /\ ThreadsOver(d)) ~> (d \notin visible \/ ~ThreadsOver(d))

\* README.md: a device with the configured USB ids is picked up automatically.
\* Here: also one that was unplugged, failed its runtime and came back where
\* only a new process sees it.
ReplugRecovers ==
  \A d \in Devices :
    (d \in attached \ visible /\ ThreadsOver(d))
      ~> (d \notin attached \/ d \in visible \/ ~ThreadsOver(d))
=============================================================================
