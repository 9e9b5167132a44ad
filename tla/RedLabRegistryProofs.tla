------------------------ MODULE RedLabRegistryProofs ------------------------
(***************************************************************************)
(* Proofs about RedLabRegistry, for any devices, confirmations, cooldown    *)
(* and number of faults.                                                   *)
(*                                                                         *)
(* An iteration of the loop asks, waits and asks again, and decides at the  *)
(* end.  The properties are about the decisions; what they rest on is what  *)
(* the answers taken earlier still mean while devices, runtimes and time    *)
(* go on.  StampCounts carries the cooldown from the first probe to the     *)
(* execution, PresentAnswered says what a probe that did not fail has seen. *)
(***************************************************************************)
EXTENDS RedLabRegistry, TLAPS

\* The stamp in the environment is as old as the process, and was old enough when
\* the loop began to wait for the second answer.
StampCounts ==
  /\ stampAge = age
  /\ pc \in {"debounce", "reprobe", "restart"} => stampAge >= Cooldown

\* A device plugged in ever since the last inventory is in the answer of the
\* probe after it, unless that probe failed.
PresentAnswered ==
  pc \in {"debounce", "reconcile", "restart"} /\ ~probeFailed => present \subseteq fresh

RegistryIInv ==
  /\ RegistryTypeOK
  /\ RestartConfirmed
  /\ StampCounts
  /\ PresentAnswered

-----------------------------------------------------------------------------
(* Lives and hits.                                                         *)

LEMMA NewLifeType == NewLife \in Lives /\ NewLife # NoLife
<1>1. NewLife \in Lives
  BY DEF NewLife, Lives, LifeStatuses
<1> QED BY <1>1, NoLifeAssumption

LEMMA Next1Type ==
  ASSUME NEW m \in 0 .. Confirmations, NEW n \in 0 .. Confirmations, m <= n
  PROVE  /\ Next1(m) \in 0 .. Confirmations
         /\ Next1(n) \in 0 .. Confirmations
         /\ Next1(m) <= Next1(n)
  BY ConfirmationsAssumption DEF Next1

LEMMA ZeroType == Zero \in [Devices -> 0 .. Confirmations] /\ \A d \in Devices : Zero[d] = 0
  BY ConfirmationsAssumption DEF Zero

\* What counts of runtimes are lives again.
LEMMA RemainingType ==
  ASSUME NEW lives \in SUBSET Lives
  PROVE  Remaining(lives) \in SUBSET Lives
<1>1. \A l \in Lives :
        [thread |-> IF l.stop THEN "ending" ELSE l.thread, writer |-> FALSE,
         stop |-> l.stop, status |-> "offline"] \in Lives
  BY DEF Lives, LifeStatuses
<1> QED BY <1>1 DEF Remaining

\* The thread of a runtime that is not registered any more ends.
LEMMA FormerType ==
  ASSUME RegistryTypeOK, NEW e \in Devices, FormerDies(e)
  PROVE  former' \in [Devices -> SUBSET Lives] /\ UNCHANGED life
  BY DEF FormerDies, RegistryTypeOK

\* A runtime's own step leaves it registered.
LEMMA RegisteredStays ==
  ASSUME RegistryTypeOK, NEW e \in Devices, RuntimeSteps(e)
  PROVE  life' \in [Devices -> Lives \cup {NoLife}] /\ Registered' = Registered
<1>1. PICK l \in Lives : life' = [life EXCEPT ![e] = l]
  BY DEF RuntimeSteps
<1>2. l # NoLife
  BY NoLifeAssumption
<1>3. life[e] # NoLife
  BY DEF RuntimeSteps, Registered
<1> QED BY <1>1, <1>2, <1>3 DEF RegistryTypeOK, Registered

-----------------------------------------------------------------------------
(* The invariant.                                                          *)

LEMMA RegistryInitIInv == RegistryInit => RegistryIInv
<1> SUFFICES ASSUME RegistryInit PROVE RegistryIInv  OBVIOUS
<1> USE DEF RegistryInit
<1>1. RegistryTypeOK
  <2>1. life \in [Devices -> Lives \cup {NoLife}]  OBVIOUS
  <2>2. \A d \in Devices : hits[d] <= streak[d]
    BY ZeroType
  <2>3. hits \in [Devices -> 0 .. Confirmations] /\ streak \in [Devices -> 0 .. Confirmations]
    BY ZeroType
  <2>4. faults \in 0 .. MaxFaults /\ stampAge \in 0 .. Cooldown /\ age \in 0 .. Cooldown
    BY CooldownAssumption, MaxFaultsAssumption
  <2> QED BY <2>1, <2>2, <2>3, <2>4 DEF RegistryTypeOK
<1> QED BY <1>1 DEF RegistryIInv, RestartConfirmed, StampCounts, PresentAnswered

\* What happens around the loop: devices come and go, runtimes live.
LEMMA AroundIInv ==
  ASSUME RegistryIInv, NEW d \in Devices,
         Unplug(d) \/ Plug(d) \/ CatchUp(d) \/ RuntimeSteps(d) \/ FormerDies(d)
  PROVE  RegistryIInv'
<1> USE DEF RegistryIInv
<1>1. UNCHANGED <<loopVars, streak, age, probeFailed>>
  BY DEF Unplug, Plug, CatchUp, RuntimeSteps, FormerDies, histories
<1>2. /\ visible' \subseteq attached' /\ attached' \subseteq Devices
      /\ present' \subseteq attached' /\ present' \subseteq present
  BY DEF Unplug, Plug, CatchUp, RuntimeSteps, FormerDies, histories, external, RegistryTypeOK
<1>3. faults' \in 0 .. MaxFaults
  BY MaxFaultsAssumption
  DEF Unplug, Plug, CatchUp, RuntimeSteps, FormerDies, external, Fault, RegistryTypeOK
<1>4. life' \in [Devices -> Lives \cup {NoLife}] /\ Registered' = Registered
  BY RegisteredStays, FormerType
  DEF Unplug, Plug, CatchUp, RegistryTypeOK, Registered, runtimes
<1>9. former' \in [Devices -> SUBSET Lives]
  BY FormerType DEF Unplug, Plug, CatchUp, RuntimeSteps, RegistryTypeOK, runtimes
<1>5. RegistryTypeOK'
  BY <1>1, <1>2, <1>3, <1>4, <1>9 DEF RegistryTypeOK, loopVars
<1>6. RestartConfirmed'
  BY <1>1, <1>4 DEF RestartConfirmed, loopVars
<1>7. StampCounts' /\ PresentAnswered'
  BY <1>1, <1>2 DEF StampCounts, PresentAnswered, loopVars
<1> QED BY <1>5, <1>6, <1>7

LEMMA TickIInv ==
  ASSUME RegistryIInv, Tick
  PROVE  RegistryIInv'
<1> USE DEF RegistryIInv
<1>1. UNCHANGED <<external, life, former, pc, seen, fresh, hits, streak, present, probeFailed>>
  BY DEF Tick, runtimes
<1>2. /\ stampAge' \in 0 .. Cooldown /\ age' \in 0 .. Cooldown
      /\ stampAge' = age' /\ stampAge' >= stampAge
  BY CooldownAssumption DEF Tick, RegistryTypeOK, StampCounts
<1>3. RegistryTypeOK'
  BY <1>1, <1>2 DEF RegistryTypeOK, external
<1>4. StampCounts'
  BY <1>1, <1>2, CooldownAssumption DEF StampCounts, RegistryTypeOK
<1> QED BY <1>1, <1>3, <1>4 DEF RestartConfirmed, PresentAnswered, Registered

\* The two steps that read the inventory of the process.
LEMMA InventoryIInv ==
  ASSUME RegistryIInv, Inventory \/ Recheck
  PROVE  RegistryIInv'
<1> USE DEF RegistryIInv
<1>1. UNCHANGED <<external, life, former, fresh, hits, stampAge, streak, age, probeFailed>>
  BY DEF Inventory, Recheck, runtimes
<1>2. seen' = visible /\ present' = attached
  BY DEF Inventory, Recheck, runtimes
<1>3. pc' = "probe" \/ (pc' = "reprobe" /\ pc = "debounce")
  BY DEF Inventory, Recheck, runtimes
<1>4. RegistryTypeOK'
  BY <1>1, <1>2, <1>3 DEF RegistryTypeOK, external
<1> QED BY <1>1, <1>3, <1>4
        DEF RestartConfirmed, StampCounts, PresentAnswered

LEMMA InventoryRaisesIInv ==
  ASSUME RegistryIInv, InventoryRaises
  PROVE  RegistryIInv'
<1> USE DEF RegistryIInv
<1>1. UNCHANGED <<attached, visible, life, former, hits, stampAge, streak, age>>
  BY DEF InventoryRaises, runtimes
<1>2. /\ pc' = "inventory" /\ seen' = {} /\ fresh' = {} /\ present' = {}
      /\ probeFailed' = FALSE
  BY DEF InventoryRaises, IterationOver
<1>3. faults' \in 0 .. MaxFaults
  BY MaxFaultsAssumption DEF InventoryRaises, Fault, RegistryTypeOK
<1>4. RegistryTypeOK'
  BY <1>1, <1>2, <1>3 DEF RegistryTypeOK
<1> QED BY <1>1, <1>2, <1>4
        DEF RestartConfirmed, StampCounts, PresentAnswered

\* A probe shows what is plugged in, or fails and shows nothing.
LEMMA FreshInventoryAnswer ==
  ASSUME RegistryTypeOK, FreshInventory
  PROVE  /\ fresh' \subseteq Devices /\ probeFailed' \in BOOLEAN
         /\ faults' \in 0 .. MaxFaults
         /\ ~probeFailed' => present \subseteq fresh'
<1>1. CASE fresh' = attached /\ probeFailed' = FALSE /\ UNCHANGED faults
  BY <1>1 DEF RegistryTypeOK
<1>2. CASE fresh' = {} /\ probeFailed' = TRUE /\ Fault
  <2>1. faults' \in 0 .. MaxFaults
    BY <1>2, MaxFaultsAssumption DEF Fault, RegistryTypeOK
  <2> QED BY <1>2, <2>1
<1> QED BY <1>1, <1>2 DEF FreshInventory

LEMMA ProbeIInv ==
  ASSUME RegistryIInv, Probe
  PROVE  RegistryIInv'
<1> USE DEF RegistryIInv
<1>1. UNCHANGED <<attached, visible, life, former, seen, stampAge, age, present>>
  BY DEF Probe, runtimes
<1>2. /\ fresh' \subseteq Devices /\ probeFailed' \in BOOLEAN
      /\ faults' \in 0 .. MaxFaults
      /\ ~probeFailed' => present \subseteq fresh'
  BY FreshInventoryAnswer DEF Probe
<1>3. pc' = "reconcile" \/ (pc' = "debounce" /\ stampAge >= Cooldown)
  BY DEF Probe, Cooled
<1>4. /\ hits' = [d \in Devices |-> IF d \in Missing THEN Next1(hits[d]) ELSE 0]
      /\ streak' = [d \in Devices |-> IF d \in Missing THEN Next1(streak[d]) ELSE 0]
  BY DEF Probe, HitsAfter
<1>5. \A d \in Devices :
        /\ Next1(hits[d]) \in 0 .. Confirmations
        /\ Next1(streak[d]) \in 0 .. Confirmations
        /\ Next1(hits[d]) <= Next1(streak[d])
  BY Next1Type DEF RegistryTypeOK
<1>6. /\ hits' \in [Devices -> 0 .. Confirmations]
      /\ streak' \in [Devices -> 0 .. Confirmations]
      /\ \A d \in Devices : hits'[d] <= streak'[d]
  BY <1>4, <1>5, ConfirmationsAssumption
<1>7. RegistryTypeOK'
  BY <1>1, <1>2, <1>3, <1>6 DEF RegistryTypeOK
<1> QED BY <1>1, <1>2, <1>3, <1>7
        DEF RestartConfirmed, StampCounts, PresentAnswered

\* The second probe confirms: a device that was missed by enough probes is
\* missed again.
LEMMA ReprobeIInv ==
  ASSUME RegistryIInv, Reprobe
  PROVE  RegistryIInv'
<1> USE DEF RegistryIInv
<1>1. UNCHANGED <<attached, visible, life, former, seen, stampAge, streak, age, present>>
  BY DEF Reprobe, runtimes
<1>2. /\ fresh' \subseteq Devices /\ probeFailed' \in BOOLEAN
      /\ faults' \in 0 .. MaxFaults
      /\ ~probeFailed' => present \subseteq fresh'
  BY FreshInventoryAnswer DEF Reprobe
<1>3. pc = "reprobe" /\ pc' \in {"restart", "reconcile"}
  BY DEF Reprobe, runtimes
<1>4. hits' = hits \/ hits' = Zero
  BY DEF Reprobe, runtimes
<1>5. hits' \in [Devices -> 0 .. Confirmations] /\ \A d \in Devices : hits'[d] <= streak[d]
  BY <1>4, ZeroType, ConfirmationsAssumption DEF RegistryTypeOK
<1>6. RegistryTypeOK'
  BY <1>1, <1>2, <1>3, <1>5 DEF RegistryTypeOK
<1>7. RestartConfirmed'
  <2> SUFFICES ASSUME pc' = "restart"
               PROVE  \E d \in fresh' \ (seen \cup Registered) : streak[d] >= Confirmations
    BY <1>1 DEF RestartConfirmed, Registered
  <2>1. PICK d \in Confirmed(hits) : d \in Missing
    BY DEF Reprobe, RestartNeeded
  <2>2. d \in Devices /\ hits[d] >= Confirmations /\ d \in fresh' \ (seen \cup Registered)
    BY <2>1 DEF Confirmed, Missing
  <2>3. streak[d] >= Confirmations
    BY <2>2, ConfirmationsAssumption DEF RegistryTypeOK
  <2> QED BY <2>2, <2>3
<1> QED BY <1>1, <1>2, <1>3, <1>6, <1>7 DEF StampCounts, PresentAnswered

LEMMA RestartIInv ==
  ASSUME RegistryIInv, Restart
  PROVE  RegistryIInv'
<1> USE DEF RegistryIInv
<1>1. /\ pc' = "inventory" /\ seen' = {} /\ fresh' = {} /\ present' = {}
      /\ probeFailed' = FALSE
  BY DEF Restart, IterationOver
<1>2. /\ visible' = attached /\ attached' = attached /\ faults' = faults
      /\ life' = [d \in Devices |-> NoLife]
      /\ former' = [d \in Devices |-> {}]
      /\ hits' = Zero /\ streak' = Zero /\ stampAge' = 0 /\ age' = 0
  BY DEF Restart, StampAfterRestart
<1>3. RegistryTypeOK'
  <2>1. life' \in [Devices -> Lives \cup {NoLife}]
    BY <1>2
  <2>2. /\ hits' \in [Devices -> 0 .. Confirmations]
        /\ streak' \in [Devices -> 0 .. Confirmations]
        /\ \A d \in Devices : hits'[d] <= streak'[d]
    BY <1>2, ZeroType
  <2>3. stampAge' \in 0 .. Cooldown /\ age' \in 0 .. Cooldown
    BY <1>2, CooldownAssumption
  <2> QED BY <1>1, <1>2, <2>1, <2>2, <2>3 DEF RegistryTypeOK
<1> QED BY <1>1, <1>2, <1>3
        DEF RestartConfirmed, StampCounts, PresentAnswered

\* The loop decides what runs and begins anew.
LEMMA ReconcileIInv ==
  ASSUME RegistryIInv, Reconcile
  PROVE  RegistryIInv'
<1> USE DEF RegistryIInv
<1> DEFINE started == {d \in seen : life[d] = NoLife \/ Failed(life[d])}
           left(d) == IF d \in Gone THEN {Stopped(life[d])}
                      ELSE IF d \in started \cap Registered THEN {life[d]} ELSE {}
<1>1. /\ pc' = "inventory" /\ seen' = {} /\ fresh' = {} /\ present' = {}
      /\ probeFailed' = FALSE
  BY DEF Reconcile, IterationOver
<1>2. UNCHANGED <<external, hits, stampAge, streak, age>>
  BY DEF Reconcile
<1>3. life' = [d \in Devices |-> IF d \in started THEN NewLife
                                 ELSE IF d \in Gone THEN NoLife ELSE life[d]]
  BY DEF Reconcile
<1>4. life' \in [Devices -> Lives \cup {NoLife}]
  BY <1>3, NewLifeType DEF RegistryTypeOK
<1>5. \A d \in Devices : left(d) \in SUBSET Lives
  <2>1. \A d \in Registered : life[d] \in Lives
    BY DEF Registered, RegistryTypeOK
  <2>2. \A d \in Gone : Stopped(life[d]) \in Lives
    BY <2>1 DEF Gone, Stopped, Lives
  <2> QED BY <2>1, <2>2
<1>6. former' = [d \in Devices |-> former[d] \cup Remaining(left(d))]
  BY DEF Reconcile
<1>7. former' \in [Devices -> SUBSET Lives]
  <2> HIDE DEF left
  <2>1. \A d \in Devices : Remaining(left(d)) \in SUBSET Lives
    BY <1>5, RemainingType
  <2> QED BY <1>6, <2>1 DEF RegistryTypeOK
<1>8. RegistryTypeOK'
  BY <1>1, <1>2, <1>4, <1>7 DEF RegistryTypeOK, external
<1> QED BY <1>1, <1>2, <1>7, <1>8
        DEF RestartConfirmed, StampCounts, PresentAnswered

LEMMA RegistryNextIInv ==
  ASSUME RegistryIInv, [RegistryNext]_registryVars
  PROVE  RegistryIInv'
<1>1. CASE RegistryLoop
  BY <1>1, InventoryIInv, ProbeIInv, ReprobeIInv, RestartIInv, ReconcileIInv
  DEF RegistryLoop
<1>2. CASE InventoryRaises
  BY <1>2, InventoryRaisesIInv
<1>3. CASE \E d \in Devices : Unplug(d) \/ Plug(d) \/ CatchUp(d) \/ RuntimeSteps(d) \/ FormerDies(d)
  BY <1>3, AroundIInv
<1>4. CASE Tick
  BY <1>4, TickIInv
<1>5. CASE UNCHANGED registryVars
  BY <1>5 DEF RegistryIInv, RegistryTypeOK, RestartConfirmed, StampCounts, PresentAnswered,
              Registered, registryVars, runtimes, external, loopVars, histories
<1> QED BY <1>1, <1>2, <1>3, <1>4, <1>5 DEF RegistryNext

THEOREM RegistryInvariant == RegistrySpec => []RegistryIInv
<1>1. RegistryIInv /\ [RegistryNext]_registryVars => RegistryIInv'
  BY RegistryNextIInv
<1> QED BY <1>1, RegistryInitIInv, PTL DEF RegistrySpec

-----------------------------------------------------------------------------
(* The properties.                                                         *)

\* Types; a hit is counted only for a device that was missed.
THEOREM RegistryTypeCorrect == RegistrySpec => []RegistryTypeOK
<1>1. RegistryIInv => RegistryTypeOK
  BY DEF RegistryIInv
<1> QED BY <1>1, RegistryInvariant, PTL

\* No execution anew without a device that enough probes in a row have missed.
THEOREM RegistryRestartConfirmed == RegistrySpec => []RestartConfirmed
<1>1. RegistryIInv => RestartConfirmed
  BY DEF RegistryIInv
<1> QED BY <1>1, RegistryInvariant, PTL

\* Two executions anew are at least the cooldown apart.
THEOREM RegistryRestartSpaced == RegistrySpec => []RestartSpaced
<1>1. RegistryIInv => RestartSpaced
  BY DEF RegistryIInv, StampCounts, RestartSpaced
<1> QED BY <1>1, RegistryInvariant, PTL

\* Only Restart and Reconcile take a runtime out.
LEMMA TakenOut ==
  ASSUME RegistryIInv, [RegistryNext]_registryVars, NEW d \in Registered, life'[d] = NoLife
  PROVE  Restart \/ (Reconcile /\ d \in Gone)
<1> USE DEF RegistryIInv
<1>1. d \in Devices /\ life[d] # NoLife
  BY DEF Registered
<1>2. life' # life
  BY <1>1
<1>3. CASE Reconcile
  <2>1. d \notin {e \in seen : life[e] = NoLife \/ Failed(life[e])}
    BY <1>1, <1>3, NewLifeType DEF Reconcile
  <2> QED BY <1>1, <1>3, <2>1 DEF Reconcile
<1>4. CASE \E e \in Devices : RuntimeSteps(e)
  BY <1>1, <1>4, RegisteredStays DEF Registered
<1>5. ~(Inventory \/ Probe \/ Recheck \/ Reprobe)
  BY <1>2 DEF Inventory, Probe, Recheck, Reprobe, runtimes
<1>6. ~InventoryRaises /\ ~Tick /\ ~UNCHANGED registryVars
  BY <1>2 DEF InventoryRaises, Tick, registryVars, runtimes
<1>7. ~\E e \in Devices : Unplug(e) \/ Plug(e) \/ CatchUp(e) \/ FormerDies(e)
  BY <1>2, FormerType DEF Unplug, Plug, CatchUp, runtimes, RegistryIInv
<1> QED BY <1>3, <1>4, <1>5, <1>6, <1>7 DEF RegistryNext, RegistryLoop

\* A runtime is kept while its device stays plugged in.
THEOREM RegistryKeepsWhilePresent == RegistrySpec => KeptWhilePresent
<1>1. RegistryIInv /\ [RegistryNext]_registryVars =>
        [\A d \in Registered \cap present :
           life'[d] = NoLife => probeFailed \/ pc = "restart"]_registryVars
  <2> SUFFICES ASSUME RegistryIInv, [RegistryNext]_registryVars,
                      NEW d \in Registered \cap present, life'[d] = NoLife
               PROVE  probeFailed \/ pc = "restart"
    OBVIOUS
  <2>1. CASE Restart
    BY <2>1 DEF Restart
  <2>2. CASE Reconcile /\ d \in Gone
    BY <2>2 DEF Reconcile, Gone, RegistryIInv, PresentAnswered
  <2> QED BY <2>1, <2>2, TakenOut
<1> QED BY <1>1, RegistryInvariant, PTL DEF RegistrySpec, KeptWhilePresent
=============================================================================
