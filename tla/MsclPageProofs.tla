--------------------------- MODULE MsclPageProofs ---------------------------
(***************************************************************************)
(* The page with the collector, for any nodes and any number of requests    *)
(* on their way.  Each step of the page is a step of the collector or none, *)
(* so what MsclSamplingProofs shows holds with the page, too.  Whose values *)
(* a write sends follows from OwnParts: a displayed card that is not late   *)
(* is the selected node's, whether or not Write is enabled, and so are the  *)
(* sample rate and channels once a read is confirmed.                      *)
(***************************************************************************)
EXTENDS MsclPage, MsclSamplingProofs, FiniteSetTheorems

OwnParts ==
  /\ cardOf # NoNode => cardOf = selected \/ "card" \in late
  /\ readConfirmed => rateOf = selected \/ "rate" \in late

pageAndSampling == <<samplingVars, pageVars>>

\* The collector's part of a step of the page.
LEMMA PageStepIsSamplingStep ==
  [PageNext]_pageAndSampling => [SamplingNext]_samplingVars
<1> SUFFICES ASSUME [PageNext]_pageAndSampling PROVE [SamplingNext]_samplingVars
  OBVIOUS
<1>1. CASE \E n \in Nodes : Select(n)
  BY <1>1 DEF Select
<1>2. CASE PressRead
  BY <1>2 DEF PressRead
<1>3. CASE \E op \in {"idle", "start", "stop"} \cup Touches : Press(op)
  BY <1>3 DEF Press
<1>4. ASSUME NEW request \in requests, Answer(request)
      PROVE  [SamplingNext]_samplingVars
  <2>1. CASE \E idle \in SUBSET Nodes :
               ReadFilled(request, idle) \/ IdleAnswered(request, idle)
    BY <2>1 DEF ReadFilled, IdleAnswered
  <2>2. CASE \/ ReadShown(request) \/ ReadBad(request) \/ ReadLost(request)
             \/ TouchDone(request) \/ NothingDone(request)
    BY <2>2 DEF ReadShown, ReadBad, ReadLost, TouchDone, NothingDone
  <2>3. CASE \E started \in SUBSET Nodes, timed \in BOOLEAN :
               StartDone(request, started, timed)
    BY <2>3 DEF StartDone, SamplingNext
  <2>4. CASE \E stopped \in SUBSET Nodes : \E idle \in SUBSET stopped :
               StopDone(request, stopped, idle)
    BY <2>4 DEF StopDone, SamplingNext
  <2> QED BY <1>4, <2>1, <2>2, <2>3, <2>4 DEF Answer
<1>5. CASE SamplingNext /\ UNCHANGED pageVars
  BY <1>5
<1>6. CASE UNCHANGED pageAndSampling
  BY <1>6 DEF pageAndSampling
<1> QED BY <1>1, <1>2, <1>3, <1>4, <1>5, <1>6 DEF PageNext

LEMMA PageStepOwnParts == OwnParts /\ [PageNext]_pageAndSampling => OwnParts'
<1> SUFFICES ASSUME OwnParts, [PageNext]_pageAndSampling PROVE OwnParts'
  OBVIOUS
<1> USE DEF OwnParts
<1>1. CASE \E n \in Nodes : Select(n)
  BY <1>1 DEF Select
<1>2. CASE PressRead
  BY <1>2 DEF PressRead
<1>3. CASE \E op \in {"idle", "start", "stop"} \cup Touches : Press(op)
  BY <1>3 DEF Press, formVars
<1>4. ASSUME NEW request \in requests, Answer(request)
      PROVE  OwnParts'
  <2>1. CASE ReadShown(request)
    <3>1. /\ cardOf' = request.node /\ UNCHANGED <<selected, readConfirmed, rateOf>>
          /\ Fill("card", request.node)
      BY <2>1 DEF ReadShown
    <3> QED BY <3>1 DEF Fill
  <2>2. CASE \E idle \in SUBSET Nodes : ReadFilled(request, idle)
    <3>1. /\ rateOf' = request.node /\ UNCHANGED <<selected, cardOf>>
          /\ Fill("rate", request.node)
      BY <2>2 DEF ReadFilled
    <3> QED BY <3>1 DEF Fill
  <2>3. CASE \E idle \in SUBSET Nodes : IdleAnswered(request, idle)
    BY <2>3 DEF IdleAnswered, formVars
  <2>4. CASE \E started \in SUBSET Nodes, timed \in BOOLEAN :
               StartDone(request, started, timed)
    BY <2>4 DEF StartDone, formVars
  <2>5. CASE \E stopped \in SUBSET Nodes : \E idle \in SUBSET stopped :
               StopDone(request, stopped, idle)
    BY <2>5 DEF StopDone, formVars
  <2>6. CASE ReadBad(request)
    BY <2>6 DEF ReadBad, formVars
  <2>7. CASE ReadLost(request)
    BY <2>7 DEF ReadLost, formVars
  <2>8. CASE TouchDone(request)
    BY <2>8 DEF TouchDone, formVars
  <2>9. CASE NothingDone(request)
    BY <2>9 DEF NothingDone, formVars
  <2> QED BY <1>4, <2>1, <2>2, <2>3, <2>4, <2>5, <2>6, <2>7, <2>8, <2>9
           DEF Answer
<1>5. CASE SamplingNext /\ UNCHANGED pageVars
  BY <1>5 DEF pageVars, formVars
<1>6. CASE UNCHANGED pageAndSampling
  BY <1>6 DEF pageAndSampling, pageVars, formVars
<1> QED BY <1>1, <1>2, <1>3, <1>4, <1>5, <1>6 DEF PageNext

-----------------------------------------------------------------------------
(* Types.                                                                  *)

Flags == {idleConfirmed, readConfirmed, readEnabled}

PageTypes ==
  /\ selected \in Nodes
  /\ Flags \subseteq BOOLEAN
  /\ {cardOf, rateOf} \subseteq Nodes \cup {NoNode}
  /\ late \subseteq Parts
  /\ requests \subseteq Request
  /\ IsFiniteSet(requests) /\ Cardinality(requests) <= MaxInFlight
  /\ idleOf \subseteq Nodes

\* A request is asked for only while there is room for it.
LEMMA AskTypes ==
  ASSUME PageTypes, NEW request \in Request, Ask(request)
  PROVE  /\ requests' \subseteq Request
         /\ IsFiniteSet(requests') /\ Cardinality(requests') <= MaxInFlight
<1>1. requests' = requests \cup {request} /\ Cardinality(requests) < MaxInFlight
  BY DEF Ask
<1>2. IsFiniteSet(requests)
  BY DEF PageTypes
<1>3. /\ IsFiniteSet(requests \cup {request})
      /\ Cardinality(requests \cup {request})
           = IF request \in requests THEN Cardinality(requests) ELSE Cardinality(requests) + 1
  BY <1>2, FS_AddElement
<1>4. Cardinality(requests) \in Nat
  BY <1>2, FS_CardinalityType
<1> QED BY <1>1, <1>3, <1>4, InFlightAssumption DEF PageTypes

LEMMA AnsweredTypes ==
  ASSUME PageTypes, NEW request \in requests, Answered(request)
  PROVE  /\ requests' \subseteq Request
         /\ IsFiniteSet(requests') /\ Cardinality(requests') <= MaxInFlight
<1>1. requests' = requests \ {request}
  BY DEF Answered
<1>2. IsFiniteSet(requests)
  BY DEF PageTypes
<1>3. /\ IsFiniteSet(requests \ {request})
      /\ Cardinality(requests \ {request})
           = IF request \in requests THEN Cardinality(requests) - 1 ELSE Cardinality(requests)
  BY <1>2, FS_RemoveElement
<1>4. Cardinality(requests) \in Nat
  BY <1>2, FS_CardinalityType
<1> QED BY <1>1, <1>3, <1>4, InFlightAssumption DEF PageTypes

\* The two parts of a read are one request after the other.
LEMMA ShownTypes ==
  ASSUME PageTypes, NEW request \in requests, ReadShown(request)
  PROVE  /\ requests' \subseteq Request
         /\ IsFiniteSet(requests') /\ Cardinality(requests') <= MaxInFlight
<1> DEFINE rest == requests \ {request}
           fill == [op |-> "fill", node |-> request.node]
<1>1. requests' = rest \cup {fill} /\ request.op = "read"
  BY DEF ReadShown
<1>2. IsFiniteSet(rest) /\ Cardinality(rest) = Cardinality(requests) - 1
  BY FS_RemoveElement DEF PageTypes
<1>3. /\ IsFiniteSet(rest \cup {fill})
      /\ Cardinality(rest \cup {fill}) \in {Cardinality(rest), Cardinality(rest) + 1}
  <2>1. \A x : /\ IsFiniteSet(rest \cup {x})
               /\ Cardinality(rest \cup {x})
                    = IF x \in rest THEN Cardinality(rest) ELSE Cardinality(rest) + 1
    BY <1>2, FS_AddElement
  <2> QED BY <2>1
<1>4. Cardinality(requests) \in Nat /\ Cardinality(requests) <= MaxInFlight
  BY FS_CardinalityType DEF PageTypes
<1>5. Cardinality(rest \cup {fill}) <= MaxInFlight
  BY <1>2, <1>3, <1>4, InFlightAssumption
<1>6. fill \in Request
  <2>1. request.node \in Nodes
    BY <1>1 DEF PageTypes, Request, PerNode, Touches
  <2> QED BY <2>1 DEF Request, PerNode
<1> QED BY <1>1, <1>3, <1>5, <1>6 DEF PageTypes

LEMMA AnswerTypes ==
  ASSUME PageTypes, NEW request \in requests, Answer(request)
  PROVE  PageTypes'
<1> USE DEF Answer, ReadShown, ReadFilled, ReadBad, ReadLost, IdleAnswered, TouchDone,
            StartDone, StopDone, NothingDone, formVars
<1>1. ReadShown(request) \/ Answered(request)
  OBVIOUS
<1>2. /\ requests' \subseteq Request
      /\ IsFiniteSet(requests') /\ Cardinality(requests') <= MaxInFlight
  BY <1>1, AnsweredTypes, ShownTypes
<1>3. selected' = selected
  OBVIOUS
<1>4. request.op \in PerNode => request.node \in Nodes
  BY DEF PageTypes, Request, PerNode, Touches
<1>5. {cardOf', rateOf'} \subseteq Nodes \cup {NoNode}
  <2>1. /\ cardOf' = cardOf \/ (request.op = "read" /\ cardOf' = request.node)
        /\ rateOf' = rateOf \/ (request.op = "fill" /\ rateOf' = request.node)
    OBVIOUS
  <2> QED BY <1>4, <2>1 DEF PageTypes, PerNode
<1>6. (\E isIdle \in BOOLEAN, nodes \in SUBSET Nodes : MarkIdle(isIdle, nodes))
        \/ (UNCHANGED <<idleConfirmed, idleOf>>
            /\ (readEnabled' = readEnabled \/ readEnabled' = (readEnabled \/ idleConfirmed)))
  <2>1. ASSUME NEW idle \in SUBSET Nodes,
               ReadFilled(request, idle) \/ IdleAnswered(request, idle)
        PROVE  \E isIdle \in BOOLEAN, nodes \in SUBSET Nodes : MarkIdle(isIdle, nodes)
    <3>1. MarkIdle(idle # {}, idle)
      BY <2>1
    <3>2. (idle # {}) \in BOOLEAN
      OBVIOUS
    <3> QED BY <3>1, <3>2
  <2>2. CASE ReadBad(request) \/ TouchDone(request)
    BY <2>2
  <2>3. CASE ReadLost(request) \/ ReadShown(request)
    BY <2>3
  <2>4. CASE \E started \in SUBSET Nodes, timed \in BOOLEAN : StartDone(request, started, timed)
    BY <2>4
  <2>5. CASE \E stopped \in SUBSET Nodes : \E idle \in SUBSET stopped :
               StopDone(request, stopped, idle)
    BY <2>5
  <2>6. CASE NothingDone(request)
    BY <2>6
  <2> QED BY <2>1, <2>2, <2>3, <2>4, <2>5, <2>6
<1>7. idleConfirmed' \in BOOLEAN /\ readEnabled' \in BOOLEAN
  BY <1>6 DEF MarkIdle, PageTypes, Flags
<1>8. idleOf' \subseteq Nodes
  BY <1>6 DEF MarkIdle, PageTypes
<1>9. readConfirmed' \in BOOLEAN
  BY DEF PageTypes, Flags
<1>10. late' \subseteq Parts
  <2>1. late' = late \/ \E part \in Parts : late' = late \ {part} \/ late' = late \cup {part}
    BY DEF Fill, Parts
  <2> QED BY <2>1 DEF PageTypes
<1>11. Flags' \subseteq BOOLEAN
  BY <1>7, <1>9 DEF Flags
<1> QED BY <1>2, <1>3, <1>5, <1>8, <1>10, <1>11 DEF PageTypes

LEMMA PageStepTypes == PageTypes /\ [PageNext]_pageAndSampling => PageTypes'
<1> SUFFICES ASSUME PageTypes, [PageNext]_pageAndSampling PROVE PageTypes'
  OBVIOUS
<1>1. ASSUME NEW n \in Nodes, Select(n) PROVE PageTypes'
  <2>1. /\ selected' = n /\ UNCHANGED <<rateOf, requests, idleOf, idleConfirmed>>
        /\ cardOf' = NoNode /\ readConfirmed' = FALSE /\ late' = {}
        /\ readEnabled' = idleConfirmed
    BY <1>1 DEF Select
  <2>2. Flags' \subseteq BOOLEAN
    BY <2>1 DEF PageTypes, Flags
  <2> QED BY <2>1, <2>2 DEF PageTypes
<1>2. CASE PressRead
  <2>1. [op |-> "read", node |-> selected] \in Request
    BY DEF Request, PerNode, PageTypes
  <2>2. /\ requests' \subseteq Request
        /\ IsFiniteSet(requests') /\ Cardinality(requests') <= MaxInFlight
    BY <1>2, <2>1, AskTypes DEF PressRead
  <2>3. /\ UNCHANGED <<selected, idleConfirmed, readConfirmed, rateOf, idleOf>>
        /\ readEnabled' = FALSE /\ cardOf' = NoNode /\ late' \subseteq late
    BY <1>2 DEF PressRead
  <2>4. Flags' \subseteq BOOLEAN
    BY <2>3 DEF PageTypes, Flags
  <2> QED BY <2>2, <2>3, <2>4 DEF PageTypes
<1>3. ASSUME NEW op \in {"idle", "start", "stop"} \cup Touches, Press(op) PROVE PageTypes'
  <2>1. [op |-> op, node |-> IF op \in PerNode THEN selected ELSE NoNode] \in Request
    BY DEF Request, PerNode, Touches, PageTypes
  <2>2. /\ requests' \subseteq Request
        /\ IsFiniteSet(requests') /\ Cardinality(requests') <= MaxInFlight
    BY <1>3, <2>1, AskTypes DEF Press
  <2>3. UNCHANGED <<selected, idleConfirmed, readConfirmed, readEnabled, cardOf, rateOf, late,
                    idleOf>>
    BY <1>3 DEF Press, formVars
  <2> QED BY <2>2, <2>3 DEF PageTypes, Flags
<1>4. CASE \E request \in requests : Answer(request)
  BY <1>4, AnswerTypes
<1>5. CASE UNCHANGED pageVars
  BY <1>5 DEF PageTypes, Flags, pageVars, formVars
<1> QED BY <1>1, <1>2, <1>3, <1>4, <1>5 DEF PageNext, pageAndSampling

-----------------------------------------------------------------------------

\* The page is one of the clients of any kind the collector is specified with.
THEOREM PageImplementsSampling == PageSpec => SamplingSpec
<1>1. PageInit => SamplingInit
  BY DEF PageInit
<1> QED
  BY <1>1, PageStepIsSamplingStep, PTL DEF PageSpec, SamplingSpec, pageAndSampling

\* So a timed run has its timer whatever the page does, and when.
THEOREM PageWatched == PageSpec => []TimedRunWatched
  BY PageImplementsSampling, SamplingWatched

\* And its timers keep to their runs.
THEOREM PageTimers == PageSpec => TimerKeepsToItsRun
  BY PageImplementsSampling, SamplingTimers

\* Types, the bound on the requests on their way among them.
THEOREM PageTypeCorrect == PageSpec => []PageTypeOK
<1>1. PageInit => PageTypes
  <2> SUFFICES ASSUME PageInit PROVE PageTypes
    OBVIOUS
  <2>1. IsFiniteSet(requests) /\ Cardinality(requests) = 0
    BY FS_EmptySet DEF PageInit
  <2>2. Flags \subseteq BOOLEAN
    BY DEF PageInit, Flags
  <2> QED BY <2>1, <2>2, InFlightAssumption DEF PageInit, PageTypes
<1>2. SamplingIInv /\ PageTypes => PageTypeOK
  BY DEF SamplingIInv, PageTypes, Flags, PageTypeOK
<1>3. PageSpec => []PageTypes
  BY <1>1, PageStepTypes, PTL DEF PageSpec, pageAndSampling
<1>4. PageSpec => []SamplingIInv
  BY PageImplementsSampling, SamplingInvariant
<1> QED
  BY <1>2, <1>3, <1>4, PTL

\* For any number of requests on their way, answered in any order: a write sends the
\* selected node another node's values only of a part of the form that a read filled
\* with another node selected, and none of the selected node has filled since.
THEOREM PageOwnSettings == PageSpec => []OwnSettings
<1>1. PageInit => OwnParts
  BY DEF PageInit, OwnParts
<1>2. OwnParts => OwnSettings
  BY DEF OwnParts, OwnSettings, CanWrite
<1> QED
  BY <1>1, <1>2, PageStepOwnParts, PTL DEF PageSpec, pageAndSampling
=============================================================================
